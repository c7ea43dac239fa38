---------------------------- MODULE VersionGraph ----------------------------
(***************************************************************************)
(* The versions kept for the history browser (src-tauri/src/control/       *)
(* vergraph.rs).  Each recorded batch leaves a node, in the order of the   *)
(* revisions and not of arrival: the image of the document, or, where that *)
(* is large and the batch is not, the batch alone, to be replayed on the   *)
(* images before it.  The oldest nodes go when all weigh too much.  The    *)
(* batches come from transactions (control/session.rs) and from drags      *)
(* (control/mod.rs, `close_gesture`), over the log (control/history.rs).   *)
(*                                                                         *)
(* A document is what each key has: nothing, or the write of a revision.   *)
(* Names that ProjectFiles has too begin with ver or version here.         *)
(***************************************************************************)
EXTENDS Integers, Sequences, SequencesExt, FiniteSetsExt

CONSTANTS
  Committers,     \* threads
  Regions, Knobs, \* keys that come and go, and keys that are dragged
  Sizes,          \* what a batch may weigh: its image, and its ops
  Threshold,      \* REPLAY_ONLY_THRESHOLD
  Budget, Floor,  \* VER_BUDGET_BYTES, VER_STEPS_FLOOR
  MaxCommits, MaxSwaps  \* bounds: revisions, documents

Keys == Regions \cup Knobs

VersionsAssumption ==
  /\ MaxCommits \in Nat \ {0} /\ {MaxSwaps, Threshold, Budget, Floor} \subseteq Nat
  /\ Sizes \subseteq [image : Nat, ops : Nat]
  /\ Regions \cap Knobs = {} /\ "none" \notin Keys
ASSUME VersionsAssumption

VARIABLES
  verDoc, verRev, verEpoch,  \* Session
  drag,        \* GestureState: open, and the write folded so far
  verLogEpoch, \* HistoryLog::epoch, VersionGraph::epoch
  chain,       \* VersionGraph::nodes
  retained,    \* VersionGraph::retained_bytes
  verThread,   \* verThread[t]: the drag t closes, the batch or epoch it is to log
  docs,        \* history: the document of every revision
  nodeless,    \* history: revisions without a node: of a drag, a batch lost or evicted
  shared,      \* history: revisions that a drag and another commit both name
  recorded     \* history: nodes recorded since the chain was cleared

verSession == <<verDoc, verRev, verEpoch>>
verLog == <<verLogEpoch, chain, retained, recorded>>
verHistory == <<docs, nodeless, shared>>
verVars == <<verSession, drag, verLog, verThread, verHistory>>

Nothing == 0
Unknown == -1
Image == [Keys -> 0..MaxCommits]
Empty == [k \in Keys |-> IF k \in Knobs THEN 1 ELSE Nothing]

(* A write of key k: whether there was something, and what there is then.  *)
Op == [key : Keys, had : BOOLEAN, to : 0..MaxCommits]
NoOp == [key |-> "none", had |-> FALSE, to |-> 0]

(* apply_raw: adding what is there or changing what is not fails. *)
Applies(d, op) == (d[op.key] # Nothing) = op.had
Apply(d, op) == [d EXCEPT ![op.key] = op.to]

(* Committed *)
Committed == [rev : Nat, at : Nat, image : Image, op : Op, size : Sizes, folds : SUBSET Nat]
AtRest == [pc |-> "idle"]
Closing(d) == [pc |-> "closing", drag |-> d]
Recording(b) == [pc |-> "record", batch |-> b]
Swapped(e) == [pc |-> "boundary", at |-> e]

(* VersionNode: an image, or a replayed one without *)
Node == [rev : Nat, materialized : BOOLEAN, image : Image, op : Op, charge : Nat]

NoDrag == [open |-> FALSE, op |-> NoOp, folds |-> {}, made |-> 0]

VersionInit ==
  /\ verDoc = Empty /\ verRev = 1 /\ verEpoch = 0
  /\ drag = NoDrag
  /\ verLogEpoch = 0 /\ chain = <<>> /\ retained = 0 /\ recorded = 0
  /\ verThread = [t \in Committers |-> AtRest]
  /\ docs = <<Empty>>
  /\ nodeless = {} /\ shared = {}

----------------------------------------------------------------------------
(* Transactions.                                                           *)

(* Session::transact with one op on key k; clips may also go. *)
Transact(op) ==
  /\ verRev < MaxCommits
  /\ Applies(verDoc, op)
  /\ op.to \in {verRev + 1, Nothing} /\ (op.to = Nothing => op.had /\ op.key \in Regions)
  /\ verDoc' = Apply(verDoc, op)
  /\ verRev' = verRev + 1
  /\ docs' = Append(docs, verDoc')
  /\ UNCHANGED verEpoch

Commit(t) ==
  /\ verThread[t] = AtRest
  /\ \E op \in Op, size \in Sizes :
       /\ Transact(op)
       /\ verThread' = [verThread EXCEPT ![t] = Recording(
            [rev |-> verRev', at |-> verEpoch, image |-> verDoc', op |-> op, size |-> size, folds |-> {}])]
  /\ UNCHANGED <<drag, verLog, nodeless, shared>>

(* A transient transaction, folded into the open drag of one knob. *)
Fold(t) ==
  /\ verThread[t] = AtRest /\ drag.open
  /\ \E op \in Op :
       /\ op.key \in Knobs
       /\ drag.op = NoOp \/ drag.op.key = op.key
       /\ Transact(op)
       /\ drag' = [drag EXCEPT !.op = op, !.folds = @ \cup {verRev'},
                               !.made = IF drag.op = NoOp THEN verEpoch ELSE @]
  /\ nodeless' = nodeless \cup {verRev'}
  /\ UNCHANGED <<verLog, verThread, shared>>

(* begin and end take the drag there is, to close it if it has a write.    *)
TakeDrag(t) ==
  /\ verThread[t] = AtRest
  /\ verThread' = [verThread EXCEPT ![t] = IF drag.op = NoOp THEN AtRest ELSE Closing(drag)]
  /\ UNCHANGED <<verSession, verLog, verHistory>>

GestureBegin(t) == TakeDrag(t) /\ drag' = [NoDrag EXCEPT !.open = TRUE]
GestureEnd(t) == TakeDrag(t) /\ drag.open /\ drag' = NoDrag

(* Nothing but the drag d has happened since its first fold. *)
Alone(d) == d.made = verEpoch /\ d.folds = Min(d.folds)..verRev

(* close_gesture: the folded write with the session's revision and image.  *)
Stamp(t) ==
  /\ verThread[t].pc = "closing"
  /\ LET d == verThread[t].drag IN
       /\ \E size \in Sizes :
            verThread' = [verThread EXCEPT ![t] = Recording(
              [rev |-> verRev, at |-> verEpoch, image |-> verDoc, op |-> d.op, size |-> size,
               folds |-> IF Alone(d) THEN d.folds ELSE {}])]
       /\ shared' = shared \cup (IF Alone(d) THEN {} ELSE {verRev})
  /\ UNCHANGED <<verSession, drag, verLog, docs, nodeless>>

----------------------------------------------------------------------------
(* VersionGraph::record.                                                   *)

(* Faulty variants of definitions below: plausible bugs, not code. *)
PlaceByArrival(c, r) == Len(c) + 1
StaysAnyway(b, i) == b.size.image <= Threshold \/ b.size.ops >= b.size.image
CutsAnywhere(c) == 1..(Len(c) - Floor)
SameEpochAnyway(b) == TRUE

(* partition_point: before the first that is not older. *)
Place(c, r) == Min({Len(c) + 1} \cup {i \in DOMAIN c : c[i].rev >= r})

(* classify, replay_pays_off: at position i, the image is kept. *)
Stays(b, i) == i = 1 \/ b.size.image <= Threshold \/ b.size.ops >= b.size.image

Classify(b, i) ==
  [rev |-> b.rev, materialized |-> Stays(b, i), image |-> IF Stays(b, i) THEN b.image ELSE Empty,
   op |-> b.op, charge |-> IF Stays(b, i) THEN b.size.image ELSE b.size.ops]

Weight(c) ==
  LET w[i \in 0..Len(c)] == IF i = 0 THEN 0 ELSE w[i - 1] + c[i].charge IN w[Len(c)]

(* evict: how many of the oldest may go, so that Floor nodes stay and the  *)
(* first of them is an image; and how many do, while c weighs too much.    *)
Cuts(c) == {n \in 1..(Len(c) - Floor) : n < Len(c) /\ c[n + 1].materialized}
Enough(c) == {n \in Cuts(c) : Weight(SubSeq(c, n + 1, Len(c))) <= Budget}
Cut(c) ==
  IF Weight(c) <= Budget \/ Cuts(c) = {} THEN 0
  ELSE IF Enough(c) # {} THEN Min(Enough(c)) ELSE Max(Cuts(c))

(* record_commit, record_gesture: a batch of another epoch is dropped. *)
SameEpoch(b) == b.at = verLogEpoch

Insert(b) ==
  LET i == Place(chain, b.rev)
      n == Classify(b, i)
      c == InsertAt(chain, i, n)
  IN /\ chain' = SubSeq(c, Cut(c) + 1, Len(c))
     /\ retained' = retained + n.charge - Weight(SubSeq(c, 1, Cut(c)))
     /\ recorded' = recorded + 1
     /\ nodeless' = (nodeless \ b.folds) \cup {c[j].rev : j \in 1..Cut(c)}

Drop(b) ==
  nodeless' = nodeless \cup {b.rev} /\ UNCHANGED <<chain, retained, recorded>>

RecordVersion(t) ==
  /\ verThread[t].pc = "record"
  /\ LET b == verThread[t].batch IN IF SameEpoch(b) THEN Insert(b) ELSE Drop(b)
  /\ verThread' = [verThread EXCEPT ![t] = AtRest]
  /\ UNCHANGED <<verSession, drag, verLogEpoch, docs, shared>>

----------------------------------------------------------------------------
(* The document is replaced, then the chain is cleared (epoch_boundary).   *)

SwapDocument(t) ==
  /\ verThread[t] = AtRest /\ verEpoch < MaxSwaps
  /\ verEpoch' = verEpoch + 1
  /\ verDoc' = Empty
  /\ verThread' = [verThread EXCEPT ![t] = Swapped(verEpoch')]
  /\ UNCHANGED <<verRev, drag, verLog, verHistory>>

ClearVersions(t) ==
  /\ verThread[t].pc = "boundary"
  /\ verLogEpoch' = verThread[t].at
  /\ chain' = <<>> /\ retained' = 0 /\ recorded' = 0
  /\ verThread' = [verThread EXCEPT ![t] = AtRest]
  /\ UNCHANGED <<verSession, drag, verHistory>>

VersionNext ==
  \E t \in Committers :
    \/ Commit(t) \/ Fold(t) \/ GestureBegin(t) \/ GestureEnd(t) \/ Stamp(t)
    \/ RecordVersion(t) \/ SwapDocument(t) \/ ClearVersions(t)

VersionSpec == VersionInit /\ [][VersionNext]_verVars

----------------------------------------------------------------------------
(* replay_plan: the nearest image at or before position i, and the batches *)
(* from there; run applies them, and gives up at one that does not apply.  *)
BaseOf(i) == Max({0} \cup {j \in 1..i : chain[j].materialized})
Unreadable == [k \in Keys |-> Unknown]
Replay(d, n) == IF d # Unreadable /\ Applies(d, n.op) THEN Apply(d, n.op) ELSE Unreadable
Replayed(i) ==
  LET run[j \in BaseOf(i)..i] ==
        IF j = BaseOf(i) THEN chain[j].image ELSE Replay(run[j - 1], chain[j])
  IN run[i]

(* The position that a revision is found at. *)
Found(r) == Min({i \in DOMAIN chain : chain[i].rev = r})

----------------------------------------------------------------------------
(* Properties.                                                             *)

VersionTypes ==
  /\ verDoc \in Image /\ verRev \in 1..MaxCommits /\ verEpoch \in 0..MaxSwaps
  /\ drag.open \in BOOLEAN /\ drag.op \in Op \cup {NoOp} /\ drag.folds \subseteq 1..MaxCommits
  /\ verLogEpoch \in 0..MaxSwaps
  /\ \A i \in DOMAIN chain : chain[i] \in Node
  /\ \A t \in Committers :
       \/ verThread[t] = AtRest
       \/ verThread[t].pc = "closing" /\ verThread[t].drag.op \in Op /\ verThread[t].drag.folds # {}
       \/ verThread[t].pc = "record" /\ verThread[t].batch \in Committed
       \/ verThread[t].pc = "boundary" /\ verThread[t].at \in 0..MaxSwaps
  /\ docs \in Seq(Image) /\ Len(docs) = verRev
  /\ nodeless \cup shared \subseteq 1..MaxCommits

(* Whatever order batches arrive in and whatever is evicted, the chain is  *)
(* in the order of revisions and begins with an image; it weighs what is   *)
(* said, and weighs too much only while no oldest nodes may go; and it has *)
(* as many nodes as the floor demands.                                     *)
VersionsAreKept ==
  /\ \A i \in DOMAIN chain : BaseOf(i) # 0 /\ \A j \in 1..i : chain[j].rev <= chain[i].rev
  /\ retained = Weight(chain)
  /\ retained > Budget => Cuts(chain) = {}
  /\ Len(chain) >= Min({Floor, recorded})

(* A version is read back as the document was at its revision, unless a    *)
(* revision that it is replayed over has no node of its own: its batch has *)
(* not arrived or was dropped, or its node was evicted before an older one *)
(* arrived, or it belongs to a drag which is open or which other edits     *)
(* overlapped.                                                             *)
OnItsWay(r) == \E t \in Committers : verThread[t].pc = "record" /\ verThread[t].batch.rev = r
VersionsReadBack ==
  \A r \in {chain[i].rev : i \in DOMAIN chain} :
    (\A u \in chain[BaseOf(Found(r))].rev..r : u \notin nodeless \cup shared /\ ~OnItsWay(u)) =>
      Replayed(Found(r)) = docs[r]

(* The versions kept are well typed, ordered, rooted in an image, weighed  *)
(* and cut down to the floor at most, and each reads back as the document  *)
(* was at its revision, as far as every revision it is replayed over has   *)
(* a node.                                                                 *)
VersionsAreSound == VersionTypes /\ VersionsAreKept /\ VersionsReadBack
=============================================================================
