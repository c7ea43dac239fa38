---------------------------- MODULE CommitHistory ----------------------------
(***************************************************************************)
(* How edits become undo steps.  A command changes the document in a       *)
(* transaction (control/session.rs, `Session::transact`), under the        *)
(* session lock, which numbers it; it reaches the undo stack later, under  *)
(* another lock (control/history.rs, `HistoryLog`), so two commands may    *)
(* arrive there the other way round.  A drag's edits are gathered into one *)
(* step when it ends (`GestureState`, `close_gesture`).  Undo, redo and    *)
(* the walk `undo_to` take a step off a stack, replay it as a transaction  *)
(* and put it on the other stack; opening a project replaces the document  *)
(* first and clears the stacks later (control/mod.rs).                     *)
(*                                                                         *)
(* A document is a value for each of its properties, a step a change of    *)
(* one of them; a drag moves one property.  Whether two steps merge also   *)
(* depends on their time, label and actor, and whether an edit joins the   *)
(* open drag on its actor: both may happen or not.  Left out: the journal  *)
(* and the version graph, fed by the same calls, the effects, the files.   *)
(***************************************************************************)
EXTENDS Integers, Sequences, SequencesExt, FiniteSets, FiniteSetsExt

CONSTANTS
  Threads,      \* threads that run commands
  Nobody,       \* holder of a free gate
  Knobs, Parts, \* properties with a coalescing key, and structural ones
  Values,       \* what a property may be set to
  Blank,        \* what it is in a new document
  Limit,        \* UNDO_STACK_LIMIT
  MaxRev, MaxEpoch  \* bounds: transactions, documents

Keys == Knobs \cup Parts

ASSUME ThreadsAssumption == Nobody \notin Threads
ASSUME DocumentAssumption == Knobs \cap Parts = {} /\ Blank \in Values
ASSUME BoundsAssumption == Limit \in Nat \ {0} /\ MaxRev \in Nat /\ MaxEpoch \in Nat

VARIABLES
  doc, rev, epoch, named,  \* Session: named, it has a project_dir
  drag,       \* GestureState: open, and the step folded so far
  logEpoch, undo, redo,  \* HistoryLog
  gate,       \* history_gate: who holds it
  thread,     \* thread[t]: the command t executes
  mixed       \* history: an edit and a replay have overlapped, or an edit
              \* has outlived a newer one (Outlived)

session == <<doc, rev, epoch, named>>
log == <<logEpoch, undo, redo>>
vars == <<session, drag, log, gate, thread, mixed>>

Document == [Keys -> Values]

(* made: history, the epoch of the document the step was taken from;       *)
(* dragged: it was gathered by a gesture, and so has no key to merge by.   *)
Step == [key : Keys, from : Values, to : Values, rev : Nat, made : Nat, dragged : BOOLEAN]
NoStep == [key |-> Nobody]
Drag == [open : BOOLEAN, step : Step \cup {NoStep}]
NoDrag == [open |-> FALSE, step |-> NoStep]

(* The step a command carries, the epoch that goes with it, and the        *)
(* revisions a walk has still to undo.                                     *)
Command ==
  [pc : {"idle", "record", "gate", "walk", "replay", "push", "return", "mint", "reread", "boundary"},
   job : {"none", "edit", "undo", "redo", "walk"},
   step : Step \cup {NoStep}, at : Nat, route : Seq(Nat)]
Idle == [pc |-> "idle", job |-> "none", step |-> NoStep, at |-> 0, route |-> <<>>]

Init ==
  /\ doc = [k \in Keys |-> Blank] /\ rev = 0 /\ epoch = 0 /\ named = FALSE
  /\ drag = NoDrag
  /\ logEpoch = 0 /\ undo = <<>> /\ redo = <<>>
  /\ gate = Nobody
  /\ thread = [t \in Threads |-> Idle]
  /\ mixed = FALSE

(* An edit is on its way to the log while a step is being replayed.        *)
Recording(t) == thread[t].pc = "record"
Replaying(t) == thread[t].pc \in {"replay", "push", "return"}
Overlap == (\E t \in Threads : Recording(t)) /\ (\E t \in Threads : Replaying(t))

(* An edit arrives at a log that does not stand for its document yet, or   *)
(* any more, or the stacks are cleared, while an older edit of the same    *)
(* document is still on its way: that one may yet be recorded, without it. *)
Outlived(t) ==
  \E u \in Threads :
    /\ Recording(u)
    /\ \/ /\ Recording(t) /\ thread[t].at # logEpoch
          /\ thread[u].at = thread[t].at /\ thread[u].step.rev < thread[t].step.rev
       \/ /\ thread[t].pc = "boundary"
          /\ thread[u].at = logEpoch /\ \E i \in DOMAIN undo : thread[u].step.rev < undo[i].rev

Becomes(t, c) == thread' = [thread EXCEPT ![t] = c] /\ mixed' = (mixed \/ Overlap' \/ Outlived(t))
Goto(t, l) == Becomes(t, [thread[t] EXCEPT !.pc = l])
Finish(t) == Becomes(t, Idle)

----------------------------------------------------------------------------
(* Edits.                                                                  *)

(* transact: the closure's change, the next revision. *)
Transact(k, v) ==
  /\ rev < MaxRev
  /\ doc' = [doc EXCEPT ![k] = v] /\ rev' = rev + 1
  /\ UNCHANGED <<epoch, named>>

ToLog(t, j, s, e) == Becomes(t, [Idle EXCEPT !.pc = "record", !.job = j, !.step = s, !.at = e])

(* A batch that changes nothing is recorded nowhere. *)
Edit(t) ==
  /\ thread[t].pc = "idle"
  /\ \E k \in Keys, v \in Values :
       /\ Transact(k, v)
       /\ IF v = doc[k]
          THEN Finish(t)
          ELSE ToLog(t, "edit", [key |-> k, from |-> doc[k], to |-> v, rev |-> rev + 1,
                                 made |-> epoch, dragged |-> FALSE], epoch)
  /\ UNCHANGED <<drag, log, gate>>

(* commit_transient_and_fold: a step that leads from the first value of    *)
(* the drag to the last; its revision and epoch come when it is closed.    *)
Fold(t) ==
  /\ thread[t].pc = "idle" /\ drag.open
  /\ \E k \in Knobs, v \in Values :
       /\ drag.step = NoStep \/ drag.step.key = k
       /\ v # doc[k]
       /\ Transact(k, v)
       /\ drag' = [drag EXCEPT !.step =
            IF drag.step = NoStep
            THEN [key |-> k, from |-> doc[k], to |-> v, rev |-> 0, made |-> epoch, dragged |-> TRUE]
            ELSE [drag.step EXCEPT !.to = v]]
  /\ UNCHANGED <<log, gate, thread, mixed>>

(* gesture_begin, gesture_end, undo, redo and undo_to all close an open    *)
(* drag first: its step is stamped with the session's revision and epoch   *)
(* and goes to the log, unless nothing was folded.  One step here, two in  *)
(* the code: others may run between the taking and the stamp.              *)
Close(t, j, next) ==
  /\ thread[t].pc = "idle"
  /\ IF drag.step # NoStep
     THEN ToLog(t, j, [drag.step EXCEPT !.rev = rev], epoch)
     ELSE Becomes(t, next)
  /\ UNCHANGED <<session, log, gate>>

GestureBegin(t) == Close(t, "edit", Idle) /\ drag' = [NoDrag EXCEPT !.open = TRUE]
GestureEnd(t) == drag.open /\ Close(t, "edit", Idle) /\ drag' = NoDrag

AtGate(j) == [Idle EXCEPT !.pc = "gate", !.job = j]
AskHistory(t) ==
  /\ \E j \in {"undo", "redo", "walk"} : Close(t, j, AtGate(j))
  /\ drag' = NoDrag

----------------------------------------------------------------------------
(* The stacks.                                                             *)

(* Faulty variants of definitions below: plausible bugs, not code.         *)
BelowByArrival(s, r) == Len(s)

(* The oldest step goes when there are too many. *)
Trim(s) == IF Len(s) > Limit THEN Tail(s) ELSE s

(* Where a revision belongs: above the last that is not newer. *)
Below(s, r) == Max({0} \cup {i \in DOMAIN s : s[i].rev <= r})

Insert(s, e) == Trim(InsertAt(s, Below(s, e.rev) + 1, e))

(* Only what arrives on top merges, by key: the older step's start, the    *)
(* newer one's end and revision.                                           *)
Merges(s, e) ==
  /\ s # <<>> /\ Below(s, e.rev) = Len(s)
  /\ e.key \in Knobs /\ e.key = Last(s).key
  /\ ~e.dragged /\ ~Last(s).dragged /\ e.rev > Last(s).rev

Merged(s, e) == [s EXCEPT ![Len(s)].to = e.to, ![Len(s)].rev = e.rev]

(* record_commit, record_gesture: a batch of another epoch is dropped. *)
Record(t) ==
  /\ thread[t].pc = "record"
  /\ IF thread[t].at = logEpoch
     THEN /\ redo' = <<>>
          /\ \/ undo' = Insert(undo, thread[t].step)
             \/ Merges(undo, thread[t].step) /\ undo' = Merged(undo, thread[t].step)
     ELSE UNCHANGED <<undo, redo>>
  /\ IF thread[t].job = "edit" THEN Finish(t) ELSE Becomes(t, AtGate(thread[t].job))
  /\ UNCHANGED <<session, drag, logEpoch, gate>>

----------------------------------------------------------------------------
(* Undo, redo, undo_to.                                                    *)

Enter(t, j) == thread[t].pc = "gate" /\ thread[t].job = j /\ gate = Nobody /\ gate' = t
Leave(t) == gate' = Nobody /\ Finish(t)

Carry(t, l, s) == Becomes(t, [thread[t] EXCEPT !.pc = l, !.step = s, !.at = logEpoch])

PopUndo(t) ==
  /\ Enter(t, "undo")
  /\ undo # <<>> /\ undo' = Front(undo) /\ Carry(t, "replay", Last(undo))
  /\ UNCHANGED <<session, drag, logEpoch, redo>>

PopRedo(t) ==
  /\ Enter(t, "redo")
  /\ redo # <<>> /\ redo' = Front(redo) /\ Carry(t, "replay", Last(redo))
  /\ UNCHANGED <<session, drag, logEpoch, undo>>

(* There is nothing to do, or the walk was asked for of a state that is    *)
(* no longer so.                                                           *)
Refuse(t) ==
  /\ thread[t].pc = "gate" /\ gate = Nobody
  /\ thread[t].job = "undo" => undo = <<>>
  /\ thread[t].job = "redo" => redo = <<>>
  /\ Leave(t)
  /\ UNCHANGED <<session, drag, log>>

(* undo_to: the revisions above the target, newest first.  The target is   *)
(* the one at position i.                                                  *)
PlanWalk(t) ==
  /\ Enter(t, "walk")
  /\ \E i \in DOMAIN undo :
       Becomes(t, [thread[t] EXCEPT !.pc = "walk", !.at = logEpoch,
                     !.route = [j \in 1..(Len(undo) - i) |-> undo[Len(undo) + 1 - j].rev]])
  /\ UNCHANGED <<session, drag, log>>

(* undo_walk_step: the planned revision or nothing; what belongs to        *)
(* another document than the walk goes back.                               *)
OnRoute(t) ==
  thread[t].route # <<>> /\ undo # <<>> /\ Last(undo).rev = Head(thread[t].route)

WalkPops(t) ==
  /\ thread[t].pc = "walk" /\ OnRoute(t)
  /\ undo' = Front(undo)
  /\ Becomes(t, [thread[t] EXCEPT !.pc = IF thread[t].at = logEpoch THEN "replay" ELSE "return",
                    !.step = Last(undo), !.at = logEpoch, !.route = Tail(@)])
  /\ UNCHANGED <<session, drag, logEpoch, redo, gate>>

WalkEnds(t) ==
  /\ thread[t].pc = "walk" /\ ~OnRoute(t)
  /\ Leave(t)
  /\ UNCHANGED <<session, drag, log>>

(* Faulty variants. *)
ReplayUnchecked(t) ==
  /\ thread[t].pc = "replay"
  /\ LET s == thread[t].step IN
       Transact(s.key, IF thread[t].job = "redo" THEN s.to ELSE s.from)
  /\ Goto(t, "push")
  /\ UNCHANGED <<drag, log, gate>>

ToRedoUnguarded(t) == redo' = Append(redo, thread[t].step) /\ UNCHANGED undo

(* commit_replay: in the document the step was popped from, or not at all. *)
Replay(t) ==
  /\ thread[t].pc = "replay" /\ thread[t].at = epoch
  /\ LET s == thread[t].step IN
       Transact(s.key, IF thread[t].job = "redo" THEN s.to ELSE s.from)
  /\ Goto(t, "push")
  /\ UNCHANGED <<drag, log, gate>>

(* The document is another, or what the step changes is gone. *)
ReplayFails(t) ==
  /\ thread[t].pc = "replay"
  /\ Goto(t, "return")
  /\ UNCHANGED <<session, drag, log, gate>>

(* push_redo and push_undo_unchanged: only if the log is still of the      *)
(* epoch the step was popped under.                                        *)
ToRedo(t) ==
  /\ redo' = IF thread[t].at = logEpoch THEN Append(redo, thread[t].step) ELSE redo
  /\ UNCHANGED undo

ToUndo(t) ==
  /\ undo' = IF thread[t].at = logEpoch THEN Trim(Append(undo, thread[t].step)) ELSE undo
  /\ UNCHANGED redo

Push(t) ==
  /\ thread[t].pc = "push"
  /\ IF thread[t].job = "redo" THEN ToUndo(t) ELSE ToRedo(t)
  /\ IF thread[t].job = "walk"
     THEN Becomes(t, [thread[t] EXCEPT !.pc = "walk", !.step = NoStep]) /\ UNCHANGED gate
     ELSE Leave(t)
  /\ UNCHANGED <<session, drag, logEpoch>>

Return(t) ==
  /\ thread[t].pc = "return"
  /\ IF thread[t].job = "redo" THEN ToRedo(t) ELSE ToUndo(t)
  /\ Leave(t)
  /\ UNCHANGED <<session, drag, logEpoch>>

----------------------------------------------------------------------------
(* The document is replaced, then the log follows.                         *)

Swap(d) ==
  /\ epoch < MaxEpoch
  /\ epoch' = epoch + 1 /\ doc' = d /\ named' = TRUE
  /\ UNCHANGED <<rev, drag, log, gate>>

ToBoundary(t, e) == Becomes(t, [Idle EXCEPT !.pc = "boundary", !.at = e])

(* open_project_epoch, create_project_at. *)
Open(t) ==
  /\ thread[t].pc = "idle"
  /\ \E d \in Document : Swap(d)
  /\ ToBoundary(t, epoch + 1)

(* ensure_project_epoch, save_project_as: only an unnamed document, which  *)
(* is not looked at again once the directory has been made.                *)
Mint(t) ==
  /\ thread[t].pc = "idle" /\ ~named
  /\ Goto(t, "mint")
  /\ UNCHANGED <<session, drag, log, gate>>

(* project::create fails. *)
MintFails(t) ==
  /\ thread[t].pc = "mint"
  /\ Finish(t)
  /\ UNCHANGED <<session, drag, log, gate>>

SaveAs(t) == thread[t].pc = "mint" /\ Swap(doc) /\ ToBoundary(t, epoch + 1)
Ensure(t) == thread[t].pc = "mint" /\ Swap(doc) /\ Goto(t, "reread")

(* ensure_project_epoch takes the epoch under a lock of its own. *)
Reread(t) ==
  /\ thread[t].pc = "reread"
  /\ ToBoundary(t, epoch)
  /\ UNCHANGED <<session, drag, log, gate>>

(* epoch_boundary. *)
Boundary(t) ==
  /\ thread[t].pc = "boundary"
  /\ logEpoch' = thread[t].at /\ undo' = <<>> /\ redo' = <<>>
  /\ Finish(t)
  /\ UNCHANGED <<session, drag, gate>>

----------------------------------------------------------------------------
Act(t) ==
  \/ Edit(t) \/ Fold(t) \/ GestureBegin(t) \/ GestureEnd(t) \/ AskHistory(t) \/ Record(t)
  \/ PopUndo(t) \/ PopRedo(t) \/ Refuse(t) \/ PlanWalk(t) \/ WalkPops(t) \/ WalkEnds(t)
  \/ Replay(t) \/ ReplayFails(t) \/ Push(t) \/ Return(t)
  \/ Open(t) \/ Mint(t) \/ MintFails(t) \/ SaveAs(t) \/ Ensure(t) \/ Reread(t) \/ Boundary(t)

Next == \E t \in Threads : Act(t)

Spec == Init /\ [][Next]_vars

----------------------------------------------------------------------------
(* Properties.                                                             *)

TypeOK ==
  /\ doc \in Document /\ rev \in 0..MaxRev /\ epoch \in 0..MaxEpoch /\ named \in BOOLEAN
  /\ drag \in Drag
  /\ logEpoch \in 0..MaxEpoch /\ undo \in Seq(Step) /\ redo \in Seq(Step)
  /\ Len(undo) <= Limit
  /\ gate \in Threads \cup {Nobody}
  /\ thread \in [Threads -> Command]
  /\ mixed \in BOOLEAN

OnStacks == {undo[i] : i \in DOMAIN undo} \cup {redo[i] : i \in DOMAIN redo}

(* A recorded edit on either stack was made in the document the log        *)
(* stands for: whatever swaps, late arrivals and returning steps overlap,  *)
(* none comes back after the stacks were cleared.  Of gestures this is     *)
(* not so, see the next property.                                          *)
StepsAreOfThisDocument ==
  \A s \in OnStacks : ~s.dragged => s.made = logEpoch

(* What record_gesture's comment says: the same guard against a stale      *)
(* epoch holds for the step a gesture leaves.                              *)
GesturesAreOfThisDocument ==
  \A s \in OnStacks : s.made = logEpoch

(* Undo and redo change the document only by steps made in it; for a       *)
(* gesture, by steps that were stamped with its epoch.                     *)
ReplayIsOwn ==
  [][\A t \in Threads :
       thread[t].pc = "replay" /\ thread'[t].pc = "push" /\ ~thread[t].step.dragged =>
         thread[t].step.made = epoch]_vars

(* Undo leads back the way the document came.  For a structural property,  *)
(* the steps on the undo stack and then those on the redo stack are one    *)
(* path of values, and the document is where the stacks meet, although     *)
(* the steps arrive at the log in any order.  This holds while no edit     *)
(* has overlapped a replay or outlived a newer one, and every edit made    *)
(* has arrived.                                                            *)
Line == undo \o Reverse(redo)

UndoLeadsBack ==
  (~mixed /\ logEpoch = epoch /\ \A t \in Threads : ~Recording(t) /\ ~Replaying(t)) =>
    \A k \in Parts :
      LET here == {i \in DOMAIN Line : Line[i].key = k}
          Beside(i, j) == i < j /\ \A m \in here : ~(i < m /\ m < j)
          met == Len(undo)
      IN  /\ \A i, j \in here : Beside(i, j) => Line[i].to = Line[j].from
          /\ \A i \in here : i <= met /\ Beside(i, met + 1) => Line[i].to = doc[k]
          /\ \A i \in here : met < i /\ Beside(met, i) => Line[i].from = doc[k]
=============================================================================
