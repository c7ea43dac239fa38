------------------------ MODULE CommitHistoryProofs ------------------------
(***************************************************************************)
(* Theorems about CommitHistory, for any threads, properties and values,   *)
(* any limit of the undo stack and any number of transactions and          *)
(* documents.                                                              *)
(***************************************************************************)
EXTENDS CommitHistory, SequenceTheorems, WellFoundedInduction, TLAPS

(* The steps that may be on the stacks of the document with epoch e. *)
Sound(e) == {s \in Step : ~s.dragged => s.made = e}

(* The commands a thread may execute: what is on its way to a stack, or    *)
(* back to one, is sound for the epoch it carries.                         *)
Carries(c) == c.pc \in {"record", "replay", "push", "return"}
FitCommand ==
  {c \in Command : c.at \in 0..MaxEpoch /\ (Carries(c) => c.step \in Sound(c.at))}

SessionTypes ==
  /\ doc \in Document /\ rev \in 0..MaxRev /\ epoch \in 0..MaxEpoch /\ named \in BOOLEAN

DragIsDragged == drag \in Drag /\ (drag.step # NoStep => drag.step.dragged)

StacksAreSound ==
  /\ logEpoch \in 0..MaxEpoch
  /\ undo \in Seq(Sound(logEpoch)) /\ redo \in Seq(Sound(logEpoch))
  /\ Len(undo) <= Limit

ThreadsAreFit ==
  /\ gate \in Threads \cup {Nobody}
  /\ thread \in [Threads -> FitCommand]
  /\ mixed \in BOOLEAN

IInv == SessionTypes /\ DragIsDragged /\ StacksAreSound /\ ThreadsAreFit

----------------------------------------------------------------------------
(* The stacks' operators stay within the sequences over a set.             *)

(* A nonempty set of naturals has a least element. *)
LEMMA LeastNatural ==
  ASSUME NEW D \in SUBSET Nat, D # {}
  PROVE  \E n \in D : \A m \in D : n <= m
<1> DEFINE Less == OpToRel(<, Nat)
<1>1. IsWellFoundedOn(Less, Nat)
  BY NatLessThanWellFounded
<1>2. \A m, n \in Nat : <<m, n>> \in Less <=> m < n
  BY DEF OpToRel
<1> HIDE DEF Less
<1>3. PICK n \in D : \A m \in D : ~(<<m, n>> \in Less)
  BY <1>1, WFMin
<1>4. ASSUME NEW m \in D PROVE n <= m
  <2>1. m \in Nat /\ n \in Nat /\ ~(<<m, n>> \in Less)
    BY <1>3
  <2>2. ~(m < n)
    BY <1>2, <2>1
  <2> QED
    BY <2>1, <2>2
<1> QED
  BY <1>4

(* Below is a position of the stack, or 0. *)
LEMMA BelowIsAPosition ==
  ASSUME NEW s \in Seq(Step), NEW r \in Nat
  PROVE  Below(s, r) \in 0..Len(s)
<1> DEFINE P == {0} \cup {i \in DOMAIN s : s[i].rev <= r}
           D == {Len(s) - i : i \in P}
<1>1. Len(s) \in Nat /\ DOMAIN s = 1..Len(s)
  BY LenProperties
<1>2. P \subseteq 0..Len(s) /\ 0 \in P
  BY <1>1
<1>3. D \in SUBSET Nat /\ D # {}
  BY <1>1, <1>2
<1>4. PICK n \in D : \A m \in D : n <= m
  BY <1>3, LeastNatural
<1>5. PICK k \in P : n = Len(s) - k
  BY <1>4
<1>6. ASSUME NEW i \in P PROVE k >= i
  <2>1. i \in Nat /\ k \in Nat
    BY <1>1, <1>2
  <2>2. n <= Len(s) - i
    BY <1>4
  <2> QED
    BY <1>1, <1>5, <2>1, <2>2
<1>7. Max(P) \in P
  BY <1>6 DEF Max
<1> QED
  BY <1>2, <1>7 DEF Below

LEMMA TrimKeeps ==
  ASSUME NEW S, NEW s \in Seq(S), Len(s) <= Limit + 1
  PROVE  Trim(s) \in Seq(S) /\ Len(Trim(s)) <= Limit
<1>1. CASE Len(s) > Limit
  <2>1. s # <<>> /\ Limit \in Nat /\ Len(s) \in Nat
    BY <1>1, EmptySeq, LenProperties, BoundsAssumption
  <2> QED
    BY <1>1, <2>1, HeadTailProperties DEF Trim
<1>2. CASE ~(Len(s) > Limit)
  BY <1>2, LenProperties, BoundsAssumption DEF Trim
<1> QED
  BY <1>1, <1>2

LEMMA InsertKeeps ==
  ASSUME NEW S \in SUBSET Step, NEW s \in Seq(S), NEW e \in S, Len(s) <= Limit
  PROVE  Insert(s, e) \in Seq(S) /\ Len(Insert(s, e)) <= Limit
<1> DEFINE b == Below(s, e.rev)
           low == SubSeq(s, 1, b)
           high == SubSeq(s, b + 1, Len(s))
<1>1. Len(s) \in Nat /\ \A i \in 1..Len(s) : s[i] \in S
  BY LenProperties, ElementOfSeq
<1>2. b \in 0..Len(s)
  <2>1. s \in Seq(Step) /\ e.rev \in Nat
    BY SeqMonotonic DEF Step
  <2> QED
    BY <2>1, BelowIsAPosition
<1> HIDE DEF b
<1>3. low \in Seq(S) /\ Len(low) = b
  BY <1>1, <1>2, SubSeqProperties
<1>4. high \in Seq(S) /\ Len(high) = Len(s) - b
  BY <1>1, <1>2, SubSeqProperties
<1> HIDE DEF low, high
<1>5. <<e>> \in Seq(S) /\ Len(<<e>>) = 1
  OBVIOUS
<1>6. low \o <<e>> \in Seq(S) /\ Len(low \o <<e>>) = b + 1
  BY <1>2, <1>3, <1>5, ConcatProperties
<1>7. low \o <<e>> \o high \in Seq(S) /\ Len(low \o <<e>> \o high) = Len(s) + 1
  BY <1>1, <1>2, <1>4, <1>6, ConcatProperties
<1>8. InsertAt(s, b + 1, e) = low \o <<e>> \o high
  <2>1. (b + 1) - 1 = b
    BY <1>2
  <2> QED
    BY <2>1 DEF InsertAt, low, high
<1>9. InsertAt(s, b + 1, e) \in Seq(S) /\ Len(InsertAt(s, b + 1, e)) <= Limit + 1
  <2>1. Len(s) + 1 <= Limit + 1
    BY <1>1, BoundsAssumption
  <2> QED
    BY <1>7, <1>8, <2>1, Zenon
<1>10. Insert(s, e) = Trim(InsertAt(s, b + 1, e))
  BY DEF Insert, b
<1> QED
  BY <1>9, <1>10, TrimKeeps

(* Merging changes the end and the revision of the last step only. *)
LEMMA MergedKeeps ==
  ASSUME NEW d, NEW s \in Seq(Sound(d)), NEW e \in Step, s # <<>>
  PROVE  Merged(s, e) \in Seq(Sound(d)) /\ Len(Merged(s, e)) = Len(s)
<1> DEFINE n == Len(s)
           m == [s[n] EXCEPT !.to = e.to, !.rev = e.rev]
<1>1. n \in 1..Len(s)
  BY EmptySeq
<1>2. s[n] \in Sound(d)
  BY <1>1, ElementOfSeq
<1>3. m \in Sound(d)
  BY <1>2 DEF Sound, Step
<1>4. Merged(s, e) = [s EXCEPT ![n] = m]
  BY <1>1, LenProperties DEF Merged
<1> QED
  BY <1>1, <1>3, <1>4, ExceptSeq

LEMMA FrontKeeps ==
  ASSUME NEW S, NEW s \in Seq(S), s # <<>>
  PROVE  /\ Last(s) \in S
         /\ Front(s) \in Seq(S)
         /\ Len(Front(s)) <= Len(s)
<1>1. Len(s) \in Nat \ {0} /\ \A i \in 1..Len(s) : s[i] \in S
  BY EmptySeq, ElementOfSeq
<1>2. Last(s) \in S
  BY <1>1 DEF Last
<1>3. SubSeq(s, 1, Len(s) - 1) \in Seq(S) /\ Len(SubSeq(s, 1, Len(s) - 1)) = Len(s) - 1
  BY <1>1, SubSeqProperties
<1> QED
  BY <1>1, <1>2, <1>3 DEF Front

----------------------------------------------------------------------------
(* The commands.                                                           *)

LEMMA IdleIsFit == Idle \in FitCommand
<1>1. Idle \in Command
  BY DEF Idle, Command
<1> QED
  BY <1>1, BoundsAssumption DEF Idle, FitCommand, Carries

(* A thread that goes on with a fit command leaves all threads fit. *)
LEMMA BecomesFit ==
  ASSUME ThreadsAreFit, gate' \in Threads \cup {Nobody},
         NEW t \in Threads, NEW c \in FitCommand, Becomes(t, c)
  PROVE  ThreadsAreFit'
<1>1. thread' \in [Threads -> FitCommand]
  BY DEF ThreadsAreFit, Becomes
<1>2. mixed' \in BOOLEAN
  BY Zenon DEF ThreadsAreFit, Becomes
<1> QED
  BY <1>1, <1>2 DEF ThreadsAreFit

(* A thread that goes to a place where it carries nothing, or on with what *)
(* it carries, under the same epoch.                                       *)
LEMMA GotoFit ==
  ASSUME NEW c \in FitCommand,
         NEW l \in {"push", "return", "mint", "reread"},
         c.pc = "replay" \/ l \in {"mint", "reread"}
  PROVE  [c EXCEPT !.pc = l] \in FitCommand
BY DEF FitCommand, Command, Carries

LEMMA ToBoundaryFit ==
  ASSUME NEW e \in 0..MaxEpoch
  PROVE  [Idle EXCEPT !.pc = "boundary", !.at = e] \in FitCommand
<1>1. e \in Nat
  BY BoundsAssumption
<1>2. ASSUME NEW c \in FitCommand
      PROVE  [c EXCEPT !.pc = "boundary", !.at = e] \in FitCommand
  BY <1>1 DEF FitCommand, Command, Carries
<1> QED
  BY <1>2, IdleIsFit

LEMMA ToLogFit ==
  ASSUME NEW j \in {"edit", "undo", "redo", "walk"}, NEW e \in 0..MaxEpoch, NEW s \in Sound(e)
  PROVE  [Idle EXCEPT !.pc = "record", !.job = j, !.step = s, !.at = e] \in FitCommand
<1>1. e \in Nat /\ s \in Step
  BY BoundsAssumption DEF Sound
<1>2. ASSUME NEW c \in Command
      PROVE  [c EXCEPT !.pc = "record", !.job = j, !.step = s, !.at = e] \in FitCommand
  BY <1>1 DEF FitCommand, Command, Carries
<1>3. Idle \in Command
  BY IdleIsFit DEF FitCommand
<1> QED
  BY <1>2, <1>3

LEMMA AtGateFit ==
  ASSUME NEW j \in {"none", "edit", "undo", "redo", "walk"}
  PROVE  AtGate(j) \in FitCommand
<1>1. ASSUME NEW c \in FitCommand
      PROVE  [c EXCEPT !.pc = "gate", !.job = j] \in FitCommand
  BY DEF FitCommand, Command, Carries
<1> QED
  BY <1>1, IdleIsFit DEF AtGate

(* What is popped off a sound stack is fit to be carried. *)
LEMMA CarryFit ==
  ASSUME ThreadsAreFit, StacksAreSound, NEW t \in Threads, NEW s \in Sound(logEpoch),
         NEW l \in {"replay", "return"}, NEW r \in Seq(Nat)
  PROVE  /\ [thread[t] EXCEPT !.pc = l, !.step = s, !.at = logEpoch] \in FitCommand
         /\ [thread[t] EXCEPT !.pc = l, !.step = s, !.at = logEpoch, !.route = r] \in FitCommand
<1>1. thread[t] \in Command
  BY DEF ThreadsAreFit, FitCommand
<1>2. logEpoch \in 0..MaxEpoch /\ logEpoch \in Nat /\ s \in Step
  BY BoundsAssumption DEF StacksAreSound, Sound
<1> QED
  BY <1>1, <1>2 DEF FitCommand, Command, Carries

----------------------------------------------------------------------------
(* The invariant is inductive.                                             *)

LEMMA TransactTypes ==
  ASSUME SessionTypes, NEW k \in Keys, NEW v \in Values, Transact(k, v)
  PROVE  SessionTypes'
BY BoundsAssumption DEF SessionTypes, Transact, Document

LEMMA SwapTypes ==
  ASSUME SessionTypes, NEW d \in Document, Swap(d)
  PROVE  SessionTypes' /\ epoch' = epoch + 1 /\ epoch' \in 0..MaxEpoch
BY BoundsAssumption DEF SessionTypes, Swap

LEMMA UnchangedParts ==
  ASSUME IInv
  PROVE  /\ UNCHANGED session => SessionTypes'
         /\ UNCHANGED drag => DragIsDragged'
         /\ UNCHANGED log => StacksAreSound'
         /\ UNCHANGED <<gate, thread, mixed>> => ThreadsAreFit'
BY DEF IInv, session, log, SessionTypes, DragIsDragged, StacksAreSound, ThreadsAreFit

(* Close: a folded step is stamped, and then sound under any epoch. *)
LEMMA CloseFit ==
  ASSUME IInv, NEW t \in Threads, NEW j \in {"edit", "undo", "redo", "walk"},
         NEW next \in FitCommand, Close(t, j, next)
  PROVE  SessionTypes' /\ StacksAreSound' /\ ThreadsAreFit'
<1>1. SessionTypes' /\ StacksAreSound'
  BY UnchangedParts DEF Close
<1>2. gate' \in Threads \cup {Nobody} /\ ThreadsAreFit
  BY DEF Close, IInv, ThreadsAreFit
<1>3. CASE drag.step # NoStep
  <2> DEFINE s == [drag.step EXCEPT !.rev = rev]
  <2>1. drag.step \in Step /\ drag.step.dragged
    BY <1>3 DEF IInv, DragIsDragged, Drag
  <2>2. rev \in Nat
    BY BoundsAssumption DEF IInv, SessionTypes
  <2>3. s \in Sound(epoch)
    BY <2>1, <2>2 DEF Sound, Step
  <2>4. epoch \in 0..MaxEpoch
    BY DEF IInv, SessionTypes
  <2> HIDE DEF s
  <2>5. [Idle EXCEPT !.pc = "record", !.job = j, !.step = s, !.at = epoch] \in FitCommand
    BY <2>3, <2>4, ToLogFit
  <2>6. Becomes(t, [Idle EXCEPT !.pc = "record", !.job = j, !.step = s, !.at = epoch])
    BY <1>3 DEF Close, ToLog, s
  <2> QED
    BY <1>1, <1>2, <2>5, <2>6, BecomesFit
<1>4. CASE drag.step = NoStep
  <2>1. Becomes(t, next)
    BY <1>4 DEF Close
  <2> QED
    BY <1>1, <1>2, <2>1, BecomesFit
<1> QED
  BY <1>3, <1>4

(* The edits. *)
LEMMA EditKeeps ==
  ASSUME IInv, NEW t \in Threads, Edit(t)
  PROVE  IInv'
<1>1. DragIsDragged' /\ StacksAreSound'
  BY UnchangedParts DEF Edit
<1>2. gate' \in Threads \cup {Nobody} /\ ThreadsAreFit
  BY DEF Edit, IInv, ThreadsAreFit
<1>3. PICK k \in Keys, v \in Values :
        /\ Transact(k, v)
        /\ IF v = doc[k]
           THEN Finish(t)
           ELSE ToLog(t, "edit", [key |-> k, from |-> doc[k], to |-> v, rev |-> rev + 1,
                                  made |-> epoch, dragged |-> FALSE], epoch)
  BY DEF Edit
<1>4. SessionTypes'
  BY <1>3, TransactTypes DEF IInv
<1>5. ThreadsAreFit'
  <2>1. CASE v = doc[k]
    BY <1>2, <1>3, <2>1, IdleIsFit, BecomesFit DEF Finish
  <2>2. CASE v # doc[k]
    <3> DEFINE s == [key |-> k, from |-> doc[k], to |-> v, rev |-> rev + 1,
                     made |-> epoch, dragged |-> FALSE]
    <3>1. doc[k] \in Values /\ rev + 1 \in Nat /\ epoch \in Nat /\ epoch \in 0..MaxEpoch
      BY BoundsAssumption DEF IInv, SessionTypes, Document
    <3>2. s \in Sound(epoch)
      BY <3>1 DEF Sound, Step
    <3>3. Becomes(t, [Idle EXCEPT !.pc = "record", !.job = "edit", !.step = s, !.at = epoch])
      BY <1>3, <2>2 DEF ToLog
    <3> HIDE DEF s
    <3>4. [Idle EXCEPT !.pc = "record", !.job = "edit", !.step = s, !.at = epoch] \in FitCommand
      BY <3>1, <3>2, ToLogFit
    <3> QED
      BY <1>2, <3>3, <3>4, BecomesFit
  <2> QED
    BY <2>1, <2>2
<1> QED
  BY <1>1, <1>4, <1>5 DEF IInv

LEMMA FoldKeeps ==
  ASSUME IInv, NEW t \in Threads, Fold(t)
  PROVE  IInv'
<1>1. StacksAreSound' /\ ThreadsAreFit'
  BY UnchangedParts DEF Fold
<1>2. PICK k \in Knobs, v \in Values :
        /\ Transact(k, v)
        /\ drag' = [drag EXCEPT !.step =
             IF drag.step = NoStep
             THEN [key |-> k, from |-> doc[k], to |-> v, rev |-> 0, made |-> epoch, dragged |-> TRUE]
             ELSE [drag.step EXCEPT !.to = v]]
  BY DEF Fold
<1>3. k \in Keys
  BY DEF Keys
<1>4. SessionTypes'
  BY <1>2, <1>3, TransactTypes DEF IInv
<1>5. DragIsDragged'
  <2>1. doc[k] \in Values /\ epoch \in Nat /\ drag \in Drag
    BY <1>3, BoundsAssumption DEF IInv, SessionTypes, Document, DragIsDragged
  <2>2. PICK s \in Step : s.dragged /\ drag' = [drag EXCEPT !.step = s]
    <3>1. CASE drag.step = NoStep
      <4> DEFINE s == [key |-> k, from |-> doc[k], to |-> v, rev |-> 0,
                       made |-> epoch, dragged |-> TRUE]
      <4>1. s \in Step /\ s.dragged
        BY <1>3, <2>1 DEF Step
      <4>2. drag' = [drag EXCEPT !.step = s]
        BY <1>2, <3>1
      <4> QED
        BY <4>1, <4>2
    <3>2. CASE drag.step # NoStep
      <4> DEFINE s == [drag.step EXCEPT !.to = v]
      <4>1. drag.step \in Step /\ drag.step.dragged
        BY <2>1, <3>2 DEF IInv, DragIsDragged, Drag
      <4>2. s \in Step /\ s.dragged
        BY <4>1 DEF Step
      <4>3. drag' = [drag EXCEPT !.step = s]
        BY <1>2, <3>2
      <4> QED
        BY <4>2, <4>3
    <3> QED
      BY <3>1, <3>2
  <2>3. drag' \in Drag /\ drag'.step = s
    BY <2>1, <2>2 DEF Drag
  <2> QED
    BY <2>2, <2>3 DEF DragIsDragged
<1> QED
  BY <1>1, <1>4, <1>5 DEF IInv

LEMMA DragEnds ==
  ASSUME NEW b \in BOOLEAN, drag' = [NoDrag EXCEPT !.open = b] \/ drag' = NoDrag
  PROVE  DragIsDragged'
<1>1. NoDrag \in Drag /\ NoDrag.step = NoStep
  BY DEF NoDrag, Drag
<1>2. ASSUME NEW d \in Drag
      PROVE  [d EXCEPT !.open = b] \in Drag /\ [d EXCEPT !.open = b].step = d.step
  BY DEF Drag
<1> QED
  BY <1>1, <1>2 DEF DragIsDragged

LEMMA GesturesKeep ==
  ASSUME IInv, NEW t \in Threads, GestureBegin(t) \/ GestureEnd(t) \/ AskHistory(t)
  PROVE  IInv'
<1>1. CASE GestureBegin(t) \/ GestureEnd(t)
  <2>1. Close(t, "edit", Idle) /\ (drag' = [NoDrag EXCEPT !.open = TRUE] \/ drag' = NoDrag)
    BY <1>1 DEF GestureBegin, GestureEnd
  <2>2. SessionTypes' /\ StacksAreSound' /\ ThreadsAreFit'
    BY <2>1, CloseFit, IdleIsFit
  <2>3. DragIsDragged'
    BY <2>1, DragEnds
  <2> QED
    BY <2>2, <2>3 DEF IInv
<1>2. CASE AskHistory(t)
  <2>1. PICK j \in {"undo", "redo", "walk"} : Close(t, j, AtGate(j))
    BY <1>2 DEF AskHistory
  <2>2. AtGate(j) \in FitCommand
    BY AtGateFit
  <2>3. SessionTypes' /\ StacksAreSound' /\ ThreadsAreFit'
    BY <2>1, <2>2, CloseFit
  <2>4. drag' = NoDrag
    BY <1>2 DEF AskHistory
  <2>5. DragIsDragged'
    BY <2>4, DragEnds
  <2> QED
    BY <2>3, <2>5 DEF IInv
<1> QED
  BY <1>1, <1>2

(* A step recorded under the log's epoch is sound for it. *)
LEMMA RecordKeeps ==
  ASSUME IInv, NEW t \in Threads, Record(t)
  PROVE  IInv'
<1>1. SessionTypes' /\ DragIsDragged'
  BY UnchangedParts DEF Record
<1>2. thread[t] \in FitCommand /\ thread[t].pc = "record"
  BY DEF IInv, ThreadsAreFit, Record
<1>3. StacksAreSound'
  <2> DEFINE e == thread[t].step
  <2>1. CASE thread[t].at = logEpoch
    <3>1. e \in Sound(logEpoch) /\ e \in Step
      BY <1>2, <2>1 DEF FitCommand, Carries, Sound
    <3>2. logEpoch' = logEpoch /\ redo' = <<>>
      BY <2>1 DEF Record
    <3>3. Sound(logEpoch) \in SUBSET Step /\ undo \in Seq(Sound(logEpoch)) /\ Len(undo) <= Limit
      BY DEF Sound, IInv, StacksAreSound
    <3>4. undo' = Insert(undo, e) \/ (undo # <<>> /\ undo' = Merged(undo, e))
      BY <2>1 DEF Record, Merges
    <3> HIDE DEF e
    <3>5. undo' \in Seq(Sound(logEpoch)) /\ Len(undo') <= Limit
      BY <3>1, <3>3, <3>4, InsertKeeps, MergedKeeps
    <3> QED
      BY <3>2, <3>5 DEF IInv, StacksAreSound
  <2>2. CASE thread[t].at # logEpoch
    BY <2>2 DEF Record, IInv, StacksAreSound
  <2> QED
    BY <2>1, <2>2
<1>4. ThreadsAreFit'
  <2>1. gate' \in Threads \cup {Nobody} /\ ThreadsAreFit
    BY DEF Record, IInv, ThreadsAreFit
  <2>2. AtGate(thread[t].job) \in FitCommand
    BY <1>2, AtGateFit DEF FitCommand, Command
  <2>3. Becomes(t, Idle) \/ Becomes(t, AtGate(thread[t].job))
    BY DEF Record, Finish
  <2> QED
    BY <2>1, <2>2, <2>3, IdleIsFit, BecomesFit
<1> QED
  BY <1>1, <1>3, <1>4 DEF IInv

(* Undo, redo and the walk: what is popped is carried with the log's epoch. *)
LEMMA PopsKeep ==
  ASSUME IInv, NEW t \in Threads, PopUndo(t) \/ PopRedo(t)
  PROVE  IInv'
<1>1. SessionTypes' /\ DragIsDragged'
  BY UnchangedParts DEF PopUndo, PopRedo
<1>2. gate' \in Threads \cup {Nobody} /\ ThreadsAreFit /\ StacksAreSound
  BY DEF PopUndo, PopRedo, Enter, IInv
<1>3. PICK s \in Seq(Sound(logEpoch)) :
        /\ s # <<>> /\ Carry(t, "replay", Last(s))
        /\ \/ s = undo /\ undo' = Front(s) /\ redo' = redo
           \/ s = redo /\ redo' = Front(s) /\ undo' = undo
        /\ logEpoch' = logEpoch
  BY <1>2 DEF PopUndo, PopRedo, StacksAreSound
<1>4. Last(s) \in Sound(logEpoch) /\ Front(s) \in Seq(Sound(logEpoch)) /\ Len(Front(s)) <= Len(s)
  BY <1>3, FrontKeeps
<1>5. StacksAreSound'
  <2>1. Len(undo) <= Limit /\ Len(undo) \in Nat /\ Len(Front(s)) \in Nat
    BY <1>2, <1>4, LenProperties DEF StacksAreSound
  <2> QED
    BY <1>2, <1>3, <1>4, <2>1, BoundsAssumption DEF StacksAreSound
<1>6. [thread[t] EXCEPT !.pc = "replay", !.step = Last(s), !.at = logEpoch] \in FitCommand
  <2>1. <<>> \in Seq(Nat)
    OBVIOUS
  <2> QED
    BY <1>2, <1>4, <2>1, CarryFit
<1>7. ThreadsAreFit'
  BY <1>2, <1>3, <1>6, BecomesFit DEF Carry
<1> QED
  BY <1>1, <1>5, <1>7 DEF IInv

LEMMA LeavesKeep ==
  ASSUME IInv, NEW t \in Threads, Refuse(t) \/ WalkEnds(t)
  PROVE  IInv'
<1>1. SessionTypes' /\ DragIsDragged' /\ StacksAreSound'
  BY UnchangedParts DEF Refuse, WalkEnds
<1>2. ThreadsAreFit /\ gate' \in Threads \cup {Nobody} /\ Becomes(t, Idle)
  BY DEF IInv, Refuse, WalkEnds, Leave, Finish
<1>3. ThreadsAreFit'
  BY <1>2, IdleIsFit, BecomesFit
<1> QED
  BY <1>1, <1>3 DEF IInv

LEMMA PlanKeeps ==
  ASSUME IInv, NEW t \in Threads, PlanWalk(t)
  PROVE  IInv'
<1>1. SessionTypes' /\ DragIsDragged' /\ StacksAreSound'
  BY UnchangedParts DEF PlanWalk
<1>2. ThreadsAreFit /\ StacksAreSound /\ gate' \in Threads \cup {Nobody}
  BY DEF IInv, PlanWalk, Enter
<1>3. PICK i \in DOMAIN undo :
        Becomes(t, [thread[t] EXCEPT !.pc = "walk", !.at = logEpoch,
                      !.route = [j \in 1..(Len(undo) - i) |-> undo[Len(undo) + 1 - j].rev]])
  BY DEF PlanWalk
<1> DEFINE r == [j \in 1..(Len(undo) - i) |-> undo[Len(undo) + 1 - j].rev]
<1>4. r \in Seq(Nat)
  <2>1. Len(undo) \in Nat /\ i \in 1..Len(undo)
    BY <1>2, LenProperties DEF StacksAreSound
  <2>2. \A n \in 1..Len(undo) : undo[n].rev \in Nat
    BY <1>2, ElementOfSeq DEF StacksAreSound, Sound, Step
  <2>3. r \in [1..(Len(undo) - i) -> Nat]
    BY <2>1, <2>2
  <2>4. Len(undo) - i \in Nat
    BY <2>1
  <2> HIDE DEF r
  <2> QED
    BY <2>3, <2>4, SeqDef
<1> HIDE DEF r
<1>5. [thread[t] EXCEPT !.pc = "walk", !.at = logEpoch, !.route = r] \in FitCommand
  <2>1. thread[t] \in Command /\ logEpoch \in 0..MaxEpoch /\ logEpoch \in Nat
    BY <1>2, BoundsAssumption DEF ThreadsAreFit, FitCommand, StacksAreSound
  <2> QED
    BY <1>4, <2>1 DEF FitCommand, Command, Carries
<1>6. ThreadsAreFit'
  BY <1>2, <1>3, <1>5, BecomesFit DEF r
<1> QED
  BY <1>1, <1>6 DEF IInv

LEMMA WalkPopsKeeps ==
  ASSUME IInv, NEW t \in Threads, WalkPops(t)
  PROVE  IInv'
<1>1. SessionTypes' /\ DragIsDragged'
  BY UnchangedParts DEF WalkPops
<1>2. ThreadsAreFit /\ StacksAreSound /\ gate' \in Threads \cup {Nobody}
  BY DEF IInv, WalkPops, ThreadsAreFit
<1>3. undo # <<>> /\ undo' = Front(undo) /\ redo' = redo /\ logEpoch' = logEpoch
  BY DEF WalkPops, OnRoute
<1>4. Last(undo) \in Sound(logEpoch) /\ undo' \in Seq(Sound(logEpoch)) /\ Len(undo') <= Len(undo)
  BY <1>2, <1>3, FrontKeeps DEF StacksAreSound
<1>5. StacksAreSound'
  <2>1. Len(undo) <= Limit /\ Len(undo) \in Nat /\ Len(undo') \in Nat
    BY <1>2, <1>4, LenProperties DEF StacksAreSound
  <2> QED
    BY <1>2, <1>3, <1>4, <2>1, BoundsAssumption DEF StacksAreSound
<1>6. ThreadsAreFit'
  <2> DEFINE l == IF thread[t].at = logEpoch THEN "replay" ELSE "return"
             r == Tail(thread[t].route)
  <2>1. r \in Seq(Nat)
    BY <1>2, HeadTailProperties DEF WalkPops, OnRoute, ThreadsAreFit, FitCommand, Command
  <2>2. l \in {"replay", "return"}
    OBVIOUS
  <2>3. Becomes(t, [thread[t] EXCEPT !.pc = l, !.step = Last(undo), !.at = logEpoch, !.route = r])
    BY DEF WalkPops
  <2> HIDE DEF l, r
  <2>4. [thread[t] EXCEPT !.pc = l, !.step = Last(undo), !.at = logEpoch, !.route = r] \in FitCommand
    BY <1>2, <1>4, <2>1, <2>2, CarryFit
  <2> QED
    BY <1>2, <2>3, <2>4, BecomesFit
<1> QED
  BY <1>1, <1>5, <1>6 DEF IInv

LEMMA ReplaysKeep ==
  ASSUME IInv, NEW t \in Threads, Replay(t) \/ ReplayFails(t)
  PROVE  IInv'
<1>1. DragIsDragged' /\ StacksAreSound'
  BY UnchangedParts DEF Replay, ReplayFails
<1>2. ThreadsAreFit /\ gate' \in Threads \cup {Nobody} /\ thread[t] \in FitCommand /\ thread[t].pc = "replay"
  BY DEF IInv, Replay, ReplayFails, ThreadsAreFit
<1>3. PICK l \in {"push", "return"} : Becomes(t, [thread[t] EXCEPT !.pc = l])
  BY DEF Replay, ReplayFails, Goto
<1>4. ThreadsAreFit'
  BY <1>2, <1>3, GotoFit, BecomesFit
<1>5. SessionTypes'
  <2>1. CASE Replay(t)
    <3>1. thread[t].step \in Step
      BY <1>2 DEF FitCommand, Carries, Sound
    <3> DEFINE k == thread[t].step.key
               v == IF thread[t].job = "redo" THEN thread[t].step.to ELSE thread[t].step.from
    <3>2. k \in Keys /\ v \in Values
      BY <3>1 DEF Step
    <3>3. Transact(k, v)
      BY <2>1 DEF Replay
    <3> HIDE DEF k, v
    <3> QED
      BY <3>2, <3>3, TransactTypes DEF IInv
  <2>2. CASE ReplayFails(t)
    BY <2>2, UnchangedParts DEF ReplayFails
  <2> QED
    BY <2>1, <2>2
<1> QED
  BY <1>1, <1>4, <1>5 DEF IInv

(* A step goes back only to stacks of the epoch it was popped under. *)
LEMMA PushesAreSound ==
  ASSUME IInv, NEW t \in Threads, Carries(thread[t]), logEpoch' = logEpoch,
         ToRedo(t) \/ ToUndo(t)
  PROVE  StacksAreSound'
<1> DEFINE s == thread[t].step
           S == Sound(logEpoch)
<1>1. StacksAreSound /\ thread[t] \in FitCommand
  BY DEF IInv, ThreadsAreFit
<1>2. thread[t].at = logEpoch => s \in S
  BY <1>1 DEF FitCommand
<1>3. undo \in Seq(S) /\ redo \in Seq(S) /\ Len(undo) <= Limit
  BY <1>1 DEF StacksAreSound
<1> HIDE DEF s, S
<1>4. CASE ToRedo(t)
  <2>1. undo' = undo /\ redo' = IF thread[t].at = logEpoch THEN Append(redo, s) ELSE redo
    BY <1>4 DEF ToRedo, s
  <2>2. redo' \in Seq(S)
    BY <1>2, <1>3, <2>1
  <2> QED
    BY <1>1, <1>3, <2>1, <2>2 DEF StacksAreSound, S
<1>5. CASE ToUndo(t)
  <2>1. redo' = redo /\ undo' = IF thread[t].at = logEpoch THEN Trim(Append(undo, s)) ELSE undo
    BY <1>5 DEF ToUndo, s
  <2>2. s \in S => Append(undo, s) \in Seq(S) /\ Len(Append(undo, s)) = Len(undo) + 1
    BY <1>3
  <2>3. s \in S => Len(Append(undo, s)) <= Limit + 1
    BY <1>3, <2>2, LenProperties, BoundsAssumption
  <2>4. undo' \in Seq(S) /\ Len(undo') <= Limit
    BY <1>2, <1>3, <2>1, <2>2, <2>3, TrimKeeps
  <2> QED
    BY <1>1, <1>3, <2>1, <2>4 DEF StacksAreSound, S
<1> QED
  BY <1>4, <1>5

LEMMA PushesKeep ==
  ASSUME IInv, NEW t \in Threads, Push(t) \/ Return(t)
  PROVE  IInv'
<1>1. SessionTypes' /\ DragIsDragged'
  BY UnchangedParts DEF Push, Return
<1>2. StacksAreSound'
  <2>1. Carries(thread[t]) /\ logEpoch' = logEpoch /\ (ToRedo(t) \/ ToUndo(t))
    BY DEF Push, Return, Carries
  <2> QED
    BY <2>1, PushesAreSound
<1>3. ThreadsAreFit'
  <2>1. ThreadsAreFit /\ gate' \in Threads \cup {Nobody} /\ thread[t] \in FitCommand
    BY DEF IInv, Push, Return, Leave, ThreadsAreFit
  <2>2. [thread[t] EXCEPT !.pc = "walk", !.step = NoStep] \in FitCommand
    BY <2>1 DEF FitCommand, Command, Carries
  <2>3. Becomes(t, Idle) \/ Becomes(t, [thread[t] EXCEPT !.pc = "walk", !.step = NoStep])
    BY DEF Push, Return, Leave, Finish
  <2> QED
    BY <2>1, <2>2, <2>3, IdleIsFit, BecomesFit
<1> QED
  BY <1>1, <1>2, <1>3 DEF IInv

(* The document is replaced: the stacks are not touched before Boundary,   *)
(* which empties them.                                                     *)
LEMMA SwapsKeep ==
  ASSUME IInv, NEW t \in Threads, Open(t) \/ SaveAs(t) \/ Ensure(t)
  PROVE  IInv'
<1>1. SessionTypes /\ ThreadsAreFit /\ thread[t] \in FitCommand
  BY DEF IInv, ThreadsAreFit
<1>2. PICK d \in Document : Swap(d)
  BY <1>1 DEF Open, SaveAs, Ensure, SessionTypes
<1>3. SessionTypes' /\ epoch' = epoch + 1 /\ epoch' \in 0..MaxEpoch
  BY <1>1, <1>2, SwapTypes
<1>4. DragIsDragged' /\ StacksAreSound' /\ gate' = gate
  BY <1>2, UnchangedParts DEF Swap
<1>5. [Idle EXCEPT !.pc = "boundary", !.at = epoch + 1] \in FitCommand
  BY <1>3, ToBoundaryFit
<1>6. [thread[t] EXCEPT !.pc = "reread"] \in FitCommand
  BY <1>1, GotoFit
<1>7. \/ Becomes(t, [Idle EXCEPT !.pc = "boundary", !.at = epoch + 1])
      \/ Becomes(t, [thread[t] EXCEPT !.pc = "reread"])
  BY DEF Open, SaveAs, Ensure, ToBoundary, Goto
<1>8. gate' \in Threads \cup {Nobody}
  BY <1>1, <1>4 DEF ThreadsAreFit
<1>9. ThreadsAreFit'
  BY <1>1, <1>5, <1>6, <1>7, <1>8, BecomesFit
<1> QED
  BY <1>3, <1>4, <1>9 DEF IInv

LEMMA MintsKeep ==
  ASSUME IInv, NEW t \in Threads, Mint(t) \/ MintFails(t) \/ Reread(t)
  PROVE  IInv'
<1>1. SessionTypes' /\ DragIsDragged' /\ StacksAreSound'
  BY UnchangedParts DEF Mint, MintFails, Reread
<1>2. ThreadsAreFit /\ gate' \in Threads \cup {Nobody} /\ thread[t] \in FitCommand
  BY DEF IInv, Mint, MintFails, Reread, ThreadsAreFit
<1>3. [thread[t] EXCEPT !.pc = "mint"] \in FitCommand
  BY <1>2, GotoFit
<1>4. [Idle EXCEPT !.pc = "boundary", !.at = epoch] \in FitCommand
  BY ToBoundaryFit DEF IInv, SessionTypes
<1>5. \/ Becomes(t, [thread[t] EXCEPT !.pc = "mint"])
      \/ Becomes(t, Idle)
      \/ Becomes(t, [Idle EXCEPT !.pc = "boundary", !.at = epoch])
  BY DEF Mint, MintFails, Reread, Goto, Finish, ToBoundary
<1>6. ThreadsAreFit'
  BY <1>2, <1>3, <1>4, <1>5, IdleIsFit, BecomesFit
<1> QED
  BY <1>1, <1>6 DEF IInv

LEMMA BoundaryKeeps ==
  ASSUME IInv, NEW t \in Threads, Boundary(t)
  PROVE  IInv'
<1>1. SessionTypes' /\ DragIsDragged'
  BY UnchangedParts DEF Boundary
<1>2. ThreadsAreFit /\ gate' \in Threads \cup {Nobody} /\ thread[t] \in FitCommand
  BY DEF IInv, Boundary, ThreadsAreFit
<1>3. StacksAreSound'
  <2>1. logEpoch' = thread[t].at /\ undo' = <<>> /\ redo' = <<>>
    BY DEF Boundary
  <2>2. thread[t].at \in 0..MaxEpoch
    BY <1>2 DEF FitCommand
  <2>3. <<>> \in Seq(Sound(logEpoch')) /\ Len(<<>>) <= Limit
    BY EmptySeq, BoundsAssumption
  <2> QED
    BY <2>1, <2>2, <2>3 DEF StacksAreSound
<1>4. ThreadsAreFit'
  BY <1>2, IdleIsFit, BecomesFit DEF Boundary, Finish
<1> QED
  BY <1>1, <1>3, <1>4 DEF IInv

LEMMA InitHolds == Init => IInv
<1> SUFFICES ASSUME Init PROVE IInv
  OBVIOUS
<1>1. SessionTypes
  <2>1. doc \in Document
    BY DocumentAssumption DEF Init, Document
  <2>2. 0 \in 0..MaxRev /\ 0 \in 0..MaxEpoch
    BY BoundsAssumption
  <2> QED
    BY <2>1, <2>2 DEF Init, SessionTypes
<1>2. DragIsDragged
  BY DEF Init, DragIsDragged, NoDrag, Drag
<1>3. StacksAreSound
  BY EmptySeq, BoundsAssumption DEF Init, StacksAreSound
<1>4. ThreadsAreFit
  BY IdleIsFit DEF Init, ThreadsAreFit
<1> QED
  BY <1>1, <1>2, <1>3, <1>4 DEF IInv

LEMMA StepsKeep == IInv /\ [Next]_vars => IInv'
<1> SUFFICES ASSUME IInv, [Next]_vars PROVE IInv'
  OBVIOUS
<1>1. CASE UNCHANGED vars
  BY <1>1, UnchangedParts DEF vars, IInv
<1>2. CASE Next
  <2>1. PICK t \in Threads : Act(t)
    BY <1>2 DEF Next
  <2> QED
    BY <2>1, EditKeeps, FoldKeeps, GesturesKeep, RecordKeeps, PopsKeep, LeavesKeep, PlanKeeps,
       WalkPopsKeeps, ReplaysKeep, PushesKeep, SwapsKeep, MintsKeep, BoundaryKeeps
       DEF Act
<1> QED
  BY <1>1, <1>2

LEMMA InvariantHolds == Spec => []IInv
BY InitHolds, StepsKeep, PTL DEF Spec

----------------------------------------------------------------------------
(* The theorems.                                                           *)

(* The session, the log and the threads keep their types, and the undo     *)
(* stack its limit, whatever order commits, walks and swaps arrive in      *)
(* (control/history.rs, UNDO_STACK_LIMIT).                                 *)
THEOREM Types == Spec => []TypeOK
<1>1. IInv => TypeOK
  <2> SUFFICES ASSUME IInv PROVE TypeOK
    OBVIOUS
  <2>1. undo \in Seq(Step) /\ redo \in Seq(Step) /\ Len(undo) <= Limit
    <3>1. Sound(logEpoch) \subseteq Step
      BY DEF Sound
    <3> QED
      BY <3>1, SeqMonotonic DEF IInv, StacksAreSound
  <2>2. thread \in [Threads -> Command]
    BY DEF IInv, ThreadsAreFit, FitCommand
  <2> QED
    BY <2>1, <2>2 DEF TypeOK, IInv, SessionTypes, DragIsDragged, StacksAreSound, ThreadsAreFit
<1> QED
  BY <1>1, InvariantHolds, PTL

(* No recorded edit is on a stack of another document than the one it was  *)
(* made in (record_commit, push_redo, push_undo_unchanged and              *)
(* epoch_boundary, under the log's epoch lock).                            *)
THEOREM RecordedStepsStayHome == Spec => []StepsAreOfThisDocument
<1>1. IInv => StepsAreOfThisDocument
  <2> SUFFICES ASSUME IInv, NEW s \in OnStacks, ~s.dragged PROVE s.made = logEpoch
    BY DEF StepsAreOfThisDocument
  <2>1. \A i \in DOMAIN undo : undo[i] \in Sound(logEpoch)
    BY LenProperties, ElementOfSeq DEF IInv, StacksAreSound
  <2>2. \A i \in DOMAIN redo : redo[i] \in Sound(logEpoch)
    BY LenProperties, ElementOfSeq DEF IInv, StacksAreSound
  <2>3. s \in Sound(logEpoch)
    BY <2>1, <2>2 DEF OnStacks
  <2> QED
    BY <2>3 DEF Sound
<1> QED
  BY <1>1, InvariantHolds, PTL

(* A step of thread t changes thread t only. *)
LEMMA ThreadSteps ==
  ASSUME NEW t \in Threads, Act(t)
  PROVE  UNCHANGED thread \/ \E c : thread' = [thread EXCEPT ![t] = c]
<1>1. Fold(t) => UNCHANGED thread
  BY DEF Fold
<1>2. \A j, next : Close(t, j, next) => \E c : Becomes(t, c)
  BY Zenon DEF Close, ToLog
<1>3. Edit(t) => \E c : Becomes(t, c)
  BY Zenon DEF Edit, ToLog, Finish
<1>4. GestureBegin(t) \/ GestureEnd(t) \/ AskHistory(t) => \E c : Becomes(t, c)
  BY <1>2, Zenon DEF GestureBegin, GestureEnd, AskHistory
<1>5. Record(t) \/ PopUndo(t) \/ PopRedo(t) \/ Refuse(t) => \E c : Becomes(t, c)
  BY Zenon DEF Record, PopUndo, PopRedo, Refuse, Carry, Leave, Finish
<1>6. PlanWalk(t) \/ WalkPops(t) \/ WalkEnds(t) => \E c : Becomes(t, c)
  BY Zenon DEF PlanWalk, WalkPops, WalkEnds, Leave, Finish
<1>7. Replay(t) \/ ReplayFails(t) \/ Push(t) \/ Return(t) => \E c : Becomes(t, c)
  BY Zenon DEF Replay, ReplayFails, Push, Return, Goto, Leave, Finish
<1>8. Open(t) \/ Mint(t) \/ MintFails(t) \/ SaveAs(t) => \E c : Becomes(t, c)
  BY Zenon DEF Open, Mint, MintFails, SaveAs, Goto, Finish, ToBoundary
<1>9. Ensure(t) \/ Reread(t) \/ Boundary(t) => \E c : Becomes(t, c)
  BY Zenon DEF Ensure, Reread, Boundary, Goto, Finish, ToBoundary
<1> QED
  BY <1>1, <1>3, <1>4, <1>5, <1>6, <1>7, <1>8, <1>9 DEF Act, Becomes

(* A thread that replays a step can do nothing but apply it, or fail to. *)
LEMMA OnlyReplays ==
  ASSUME NEW t \in Threads, thread[t].pc = "replay", Act(t)
  PROVE  Replay(t) \/ ReplayFails(t)
<1>1. ~Edit(t) /\ ~Fold(t) /\ ~Record(t) /\ \A j, next : ~Close(t, j, next)
  BY DEF Edit, Fold, Record, Close
<1>2. ~GestureBegin(t) /\ ~GestureEnd(t) /\ ~AskHistory(t)
  BY <1>1, Zenon DEF GestureBegin, GestureEnd, AskHistory
<1>3. ~PopUndo(t) /\ ~PopRedo(t) /\ ~Refuse(t) /\ ~PlanWalk(t) /\ ~WalkPops(t) /\ ~WalkEnds(t)
  BY DEF PopUndo, PopRedo, Refuse, PlanWalk, Enter, WalkPops, WalkEnds
<1>4. ~Push(t) /\ ~Return(t) /\ ~Open(t) /\ ~Mint(t) /\ ~MintFails(t)
  BY DEF Push, Return, Open, Mint, MintFails
<1>5. ~SaveAs(t) /\ ~Ensure(t) /\ ~Reread(t) /\ ~Boundary(t)
  BY DEF SaveAs, Ensure, Reread, Boundary
<1> QED
  BY <1>1, <1>2, <1>3, <1>4, <1>5 DEF Act

(* Undo, redo and undo_to never apply a recorded edit to another document  *)
(* than its own (the check in commit_replay's closure).                    *)
THEOREM ReplaysStayHome == Spec => ReplayIsOwn
<1> DEFINE OwnReplay ==
      \A t \in Threads :
        thread[t].pc = "replay" /\ thread'[t].pc = "push" /\ ~thread[t].step.dragged =>
          thread[t].step.made = epoch
<1>1. IInv /\ [Next]_vars => [OwnReplay]_vars
  <2> SUFFICES ASSUME IInv, Next,
                      NEW u \in Threads, thread[u].pc = "replay", thread'[u].pc = "push",
                      ~thread[u].step.dragged
               PROVE  thread[u].step.made = epoch
    OBVIOUS
  <2>1. thread[u].step \in Sound(thread[u].at) /\ thread \in [Threads -> FitCommand]
    BY DEF IInv, ThreadsAreFit, FitCommand, Carries
  <2>2. thread[u].at = epoch
    <3>1. PICK t \in Threads : Act(t)
      BY DEF Next
    <3>2. UNCHANGED thread \/ \E c : thread' = [thread EXCEPT ![t] = c]
      BY <3>1, ThreadSteps
    <3>3. t = u
      BY <2>1, <3>2
    <3>4. Replay(t) \/ ReplayFails(t)
      BY <3>1, <3>3, OnlyReplays
    <3>5. ~ReplayFails(t)
      BY <2>1, <3>3 DEF ReplayFails, Goto, Becomes, FitCommand, Command
    <3> QED
      BY <3>3, <3>4, <3>5 DEF Replay
  <2> QED
    BY <2>1, <2>2 DEF Sound
<1>2. Spec => [][OwnReplay]_vars
  BY <1>1, InvariantHolds, PTL DEF Spec
<1> QED
  BY <1>2 DEF ReplayIsOwn

----------------------------------------------------------------------------
(* The way back.  Steps of one structural property are told apart by their *)
(* revisions; those that undo still has to walk, oldest first, lead to the *)
(* document, and those that redo has to walk lead on from it.              *)

Stack(s) == {s[i] : i \in DOMAIN s}
Of(X, k) == {s \in X : s.key = k}

Low(s, n) == s.rev <= n.rev /\ (s.key = n.key /\ s.key \in Parts => s.rev < n.rev)
Rising(s) == \A i, j \in DOMAIN s : i < j => Low(s[i], s[j])
Falling(s) == \A i, j \in DOMAIN s : i < j => Low(s[j], s[i])

Between(s, n, X) == s.rev < n.rev /\ \A x \in X : ~(s.rev < x.rev /\ x.rev < n.rev)

(* Of the steps X, those from revision f on lead to the value v.           *)
LeadsTo(X, v, f) ==
  \A s \in X : s.rev >= f =>
    /\ (\A x \in X : x.rev <= s.rev) => s.to = v
    /\ \A n \in X : Between(s, n, X) => s.to = n.from

(* The steps Y lead on from the value v.                                   *)
LeadsOn(Y, v) ==
  \A s \in Y :
    /\ (\A x \in Y : s.rev <= x.rev) => s.from = v
    /\ \A n \in Y : Between(s, n, Y) => s.to = n.from

(* A full stack has forgotten what is older than its oldest step.          *)
Floor(s) == IF Len(s) = Limit THEN s[1].rev ELSE 0

(* A new step leads on from where the others led.                          *)
LEMMA NewStepLeads ==
  ASSUME NEW X \in SUBSET Step, NEW v, NEW f \in Nat, LeadsTo(X, v, f),
         NEW e \in Step, e.from = v, \A x \in X : x.rev < e.rev
  PROVE  LeadsTo(X \cup {e}, e.to, f)
<1> DEFINE Z == X \cup {e}
<1> SUFFICES ASSUME NEW s \in Z, s.rev >= f
             PROVE  /\ (\A x \in Z : x.rev <= s.rev) => s.to = e.to
                    /\ \A n \in Z : Between(s, n, Z) => s.to = n.from
  BY DEF LeadsTo
<1>1. \A x \in Z : x.rev \in Nat
  BY DEF Step
<1>2. CASE s = e
  <2>1. \A n \in Z : n.rev <= e.rev
    BY <1>1
  <2> QED
    BY <1>1, <1>2, <2>1 DEF Between
<1>3. CASE s # e
  <2>1. s \in X /\ s.rev < e.rev
    BY <1>3
  <2>2. ~(\A x \in Z : x.rev <= s.rev)
    BY <1>1, <2>1
  <2>3. ASSUME NEW n \in Z, Between(s, n, Z) PROVE s.to = n.from
    <3>1. CASE n = e
      <4>1. \A x \in X : x.rev <= s.rev
        BY <1>1, <2>3, <3>1 DEF Between
      <4> QED
        BY <2>1, <3>1, <4>1 DEF LeadsTo
    <3>2. CASE n # e
      <4>1. n \in X /\ Between(s, n, X)
        BY <2>3, <3>2 DEF Between
      <4> QED
        BY <2>1, <4>1 DEF LeadsTo
    <3> QED
      BY <3>1, <3>2
  <2> QED
    BY <2>2, <2>3
<1> QED
  BY <1>2, <1>3

(* The oldest steps may go.                                                *)
LEMMA OldStepsGo ==
  ASSUME NEW X \in SUBSET Step, NEW v, NEW f \in Nat, LeadsTo(X, v, f),
         NEW Z \in SUBSET X, NEW g \in Nat,
         \A s \in Z : s.rev >= g => s.rev >= f /\ \A x \in X \ Z : x.rev <= s.rev
  PROVE  LeadsTo(Z, v, g)
<1> SUFFICES ASSUME NEW s \in Z, s.rev >= g
             PROVE  /\ (\A x \in Z : x.rev <= s.rev) => s.to = v
                    /\ \A n \in Z : Between(s, n, Z) => s.to = n.from
  BY DEF LeadsTo
<1>1. s \in X /\ s.rev >= f /\ \A x \in X \ Z : x.rev <= s.rev
  OBVIOUS
<1>2. (\A x \in Z : x.rev <= s.rev) => \A x \in X : x.rev <= s.rev
  BY <1>1
<1>3. ASSUME NEW n \in Z, Between(s, n, Z) PROVE n \in X /\ Between(s, n, X)
  <2>1. \A x \in X : x.rev \in Nat
    BY DEF Step
  <2> QED
    BY <1>1, <1>3, <2>1 DEF Between
<1> QED
  BY <1>1, <1>2, <1>3 DEF LeadsTo

(* The newest ones may go of those that lead on.                           *)
LEMMA NewStepsGo ==
  ASSUME NEW Y \in SUBSET Step, NEW v, LeadsOn(Y, v), NEW Z \in SUBSET Y,
         \A s \in Z : \A x \in Y \ Z : s.rev <= x.rev
  PROVE  LeadsOn(Z, v)
<1> SUFFICES ASSUME NEW s \in Z
             PROVE  /\ (\A x \in Z : s.rev <= x.rev) => s.from = v
                    /\ \A n \in Z : Between(s, n, Z) => s.to = n.from
  BY DEF LeadsOn
<1>1. s \in Y /\ \A x \in Y \ Z : s.rev <= x.rev
  OBVIOUS
<1>2. (\A x \in Z : s.rev <= x.rev) => \A x \in Y : s.rev <= x.rev
  BY <1>1
<1>3. ASSUME NEW n \in Z, Between(s, n, Z) PROVE n \in Y /\ Between(s, n, Y)
  <2>1. \A x \in Y : x.rev \in Nat
    BY DEF Step
  <2>2. \A x \in Y \ Z : n.rev <= x.rev
    OBVIOUS
  <2> QED
    BY <1>3, <2>1, <2>2 DEF Between
<1> QED
  BY <1>1, <1>2, <1>3 DEF LeadsOn

(* The newest step is undone.                                              *)
LEMMA StepBack ==
  ASSUME NEW X \in SUBSET Step, NEW Y \in SUBSET Step, NEW v, NEW f \in Nat,
         LeadsTo(X, v, f), LeadsOn(Y, v),
         NEW e \in X, e.rev >= f, \A x \in X \ {e} : x.rev < e.rev, \A y \in Y : e.rev < y.rev
  PROVE  LeadsTo(X \ {e}, e.from, f) /\ LeadsOn(Y \cup {e}, e.from)
<1>1. \A x \in X : x.rev \in Nat
  BY DEF Step
<1>2. \A y \in Y : y.rev \in Nat
  BY DEF Step
<1>3. e.to = v
  BY <1>1 DEF LeadsTo
<1> DEFINE W == X \ {e}
           Z == Y \cup {e}
<1>4. ASSUME NEW s \in W, s.rev >= f
      PROVE  /\ (\A x \in W : x.rev <= s.rev) => s.to = e.from
             /\ \A n \in W : Between(s, n, W) => s.to = n.from
  <2>1. (\A x \in W : x.rev <= s.rev) => Between(s, e, X)
    BY <1>1 DEF Between
  <2>2. \A n \in W : Between(s, n, W) => Between(s, n, X)
    BY <1>1 DEF Between
  <2> QED
    BY <1>4, <2>1, <2>2 DEF LeadsTo
<1>5. ASSUME NEW s \in Z
      PROVE  /\ (\A x \in Z : s.rev <= x.rev) => s.from = e.from
             /\ \A n \in Z : Between(s, n, Z) => s.to = n.from
  <2>1. CASE s = e
    <3>1. ASSUME NEW n \in Z, Between(e, n, Z) PROVE e.to = n.from
      <4>1. n \in Y /\ \A y \in Y : n.rev <= y.rev
        BY <1>1, <1>2, <3>1 DEF Between
      <4> QED
        BY <1>3, <4>1 DEF LeadsOn
    <3> QED
      BY <2>1, <3>1
  <2>2. CASE s # e
    <3>1. s \in Y /\ e.rev < s.rev
      BY <2>2
    <3>2. ~(\A x \in Z : s.rev <= x.rev)
      BY <1>1, <1>2, <3>1
    <3>3. ASSUME NEW n \in Z, Between(s, n, Z) PROVE n \in Y /\ Between(s, n, Y)
      BY <1>1, <1>2, <3>1, <3>3 DEF Between
    <3> QED
      BY <3>1, <3>2, <3>3 DEF LeadsOn
  <2> QED
    BY <2>1, <2>2
<1> QED
  BY <1>4, <1>5 DEF LeadsTo, LeadsOn

(* The next step is redone.                                                *)
LEMMA StepForth ==
  ASSUME NEW X \in SUBSET Step, NEW Y \in SUBSET Step, NEW v, NEW f \in Nat,
         LeadsTo(X, v, f), LeadsOn(Y, v),
         NEW e \in Y, \A y \in Y \ {e} : e.rev < y.rev, \A x \in X : x.rev < e.rev
  PROVE  LeadsTo(X \cup {e}, e.to, f) /\ LeadsOn(Y \ {e}, e.to)
<1>1. \A y \in Y : y.rev \in Nat
  BY DEF Step
<1>2. e.from = v
  BY <1>1 DEF LeadsOn
<1>3. LeadsTo(X \cup {e}, e.to, f)
  BY <1>2, NewStepLeads
<1> DEFINE W == Y \ {e}
<1>4. ASSUME NEW s \in W
      PROVE  /\ (\A x \in W : s.rev <= x.rev) => s.from = e.to
             /\ \A n \in W : Between(s, n, W) => s.to = n.from
  <2>1. (\A x \in W : s.rev <= x.rev) => Between(e, s, Y)
    BY <1>1 DEF Between
  <2>2. \A n \in W : Between(s, n, W) => Between(s, n, Y)
    BY <1>1 DEF Between
  <2> QED
    BY <1>4, <2>1, <2>2 DEF LeadsOn
<1> QED
  BY <1>3, <1>4 DEF LeadsOn

----------------------------------------------------------------------------
(* What the stacks' operators do to the order of the steps.                *)

LEMMA BelowDivides ==
  ASSUME NEW s \in Seq(Step), NEW r \in Nat
  PROVE  /\ Below(s, r) \in 0..Len(s)
         /\ \A i \in DOMAIN s : s[i].rev <= r => i <= Below(s, r)
         /\ Below(s, r) # 0 => s[Below(s, r)].rev <= r
<1> DEFINE P == {0} \cup {i \in DOMAIN s : s[i].rev <= r}
           G == {Len(s) - i : i \in P}
<1>1. Len(s) \in Nat /\ DOMAIN s = 1..Len(s)
  BY LenProperties
<1>2. P \subseteq 0..Len(s) /\ 0 \in P
  BY <1>1
<1>3. G \in SUBSET Nat /\ G # {}
  BY <1>1, <1>2
<1>4. PICK n \in G : \A m \in G : n <= m
  BY <1>3, LeastNatural
<1>5. PICK k \in P : n = Len(s) - k
  BY <1>4
<1>6. ASSUME NEW i \in P PROVE k >= i
  <2>1. i \in Nat /\ k \in Nat
    BY <1>1, <1>2
  <2>2. n <= Len(s) - i
    BY <1>4
  <2> QED
    BY <1>1, <1>5, <2>1, <2>2
<1>7. Max(P) \in P /\ \A i \in P : Max(P) >= i
  BY <1>6 DEF Max
<1>8. Below(s, r) = Max(P)
  BY DEF Below
<1> HIDE DEF P
<1>9. Below(s, r) \in P /\ \A i \in P : i <= Below(s, r)
  <2>1. \A i \in P : i \in Nat
    BY <1>2
  <2>2. Below(s, r) \in Nat
    BY <1>7, <1>8, <2>1
  <2> QED
    BY <1>7, <1>8, <2>1, <2>2
<1> QED
  BY <1>2, <1>9 DEF P

LEMMA StacksAreSteps ==
  ASSUME NEW u \in Seq(Step)
  PROVE  Stack(u) \in SUBSET Step
BY LenProperties, ElementOfSeq DEF Stack

LEMMA StackOfOwn ==
  ASSUME NEW s \in Seq(Step), NEW e \in Step
  PROVE  Stack(s) \cup {e} \in SUBSET Step /\ s \in Seq(Stack(s) \cup {e})
<1> DEFINE S == Stack(s) \cup {e}
<1>1. Len(s) \in Nat /\ DOMAIN s = 1..Len(s) /\ s \in [1..Len(s) -> Step]
  BY LenProperties
<1>2. \A i \in 1..Len(s) : s[i] \in S
  BY <1>1 DEF Stack
<1> HIDE DEF S
<1>3. s \in [1..Len(s) -> S]
  BY <1>1, <1>2
<1>4. s \in Seq(S)
  BY <1>1, <1>3, SeqDef
<1> QED
  BY <1>4, StacksAreSteps DEF S

(* Step e has joined the stack s, which forgets its oldest step if full.   *)
Joins(s, e, n) ==
  /\ n \in Seq(Step) /\ Len(n) <= Limit /\ Rising(n)
  /\ Stack(n) \subseteq Stack(s) \cup {e}
  /\ Floor(s) <= Floor(n)
  /\ \A x \in (Stack(s) \cup {e}) \ Stack(n) : Len(n) = Limit /\ x.rev <= n[1].rev

(* w: s with e put in after position b. *)
LEMMA PutInJoins ==
  ASSUME NEW s \in Seq(Step), Len(s) <= Limit, Rising(s), NEW e \in Step,
         NEW b \in 0..Len(s), NEW w \in Seq(Step), Len(w) = Len(s) + 1,
         \A i \in 1..Len(w) : w[i] = IF i <= b THEN s[i] ELSE IF i = b + 1 THEN e ELSE s[i - 1],
         \A i \in 1..b : Low(s[i], e),
         \A i \in (b + 1)..Len(s) : Low(e, s[i])
  PROVE  Joins(s, e, Trim(w))
<1>1. /\ Len(s) \in Nat /\ DOMAIN s = 1..Len(s) /\ Len(w) \in Nat /\ DOMAIN w = 1..Len(w)
      /\ Limit \in Nat \ {0} /\ b \in Nat /\ b <= Len(s)
  BY LenProperties, BoundsAssumption
<1>10. Len(s) \in Nat /\ Limit \in Nat
  BY <1>1
<1>2. (\A i \in 1..Len(s) : s[i] \in Step) /\ (\A i \in 1..Len(w) : w[i] \in Step)
  BY ElementOfSeq
<1>3. \A x \in Step : x.rev \in Nat
  BY DEF Step
<1>4. Rising(w)
  <2> SUFFICES ASSUME NEW i \in 1..Len(w), NEW j \in 1..Len(w), i < j PROVE Low(w[i], w[j])
    BY <1>1 DEF Rising
  <2>1. \A m, n \in 1..Len(s) : m < n => Low(s[m], s[n])
    BY <1>1 DEF Rising
  <2>2. CASE j <= b
    BY <1>1, <2>1, <2>2
  <2>3. CASE j = b + 1
    BY <1>1, <2>3
  <2>4. CASE j > b + 1 /\ i <= b
    <3>1. i \in 1..Len(s) /\ j - 1 \in 1..Len(s) /\ i < j - 1 /\ w[i] = s[i] /\ w[j] = s[j - 1]
      BY <1>1, <2>4
    <3> QED
      BY <2>1, <3>1
  <2>5. CASE j > b + 1 /\ i = b + 1
    <3>1. j - 1 \in (b + 1)..Len(s) /\ w[i] = e /\ w[j] = s[j - 1]
      BY <1>1, <2>5
    <3> QED
      BY <3>1
  <2>6. CASE j > b + 1 /\ i > b + 1
    <3>1. i - 1 \in 1..Len(s) /\ j - 1 \in 1..Len(s) /\ i - 1 < j - 1 /\ w[i] = s[i - 1] /\ w[j] = s[j - 1]
      BY <1>1, <2>6
    <3> QED
      BY <2>1, <3>1
  <2> QED
    BY <1>1, <2>2, <2>3, <2>4, <2>5, <2>6
<1>5. Stack(w) = Stack(s) \cup {e}
  <2>1. ASSUME NEW i \in 1..Len(w) PROVE w[i] \in Stack(s) \cup {e}
    <3>1. i <= b => i \in 1..Len(s)
      BY <1>1
    <3>2. i > b + 1 => i - 1 \in 1..Len(s)
      BY <1>1
    <3> QED
      BY <1>1, <3>1, <3>2 DEF Stack
  <2>2. e \in Stack(w)
    <3>1. b + 1 \in 1..Len(w) /\ w[b + 1] = e
      BY <1>1
    <3> QED
      BY <1>1, <3>1 DEF Stack
  <2>3. ASSUME NEW i \in 1..Len(s) PROVE s[i] \in Stack(w)
    <3>1. CASE i <= b
      <4>1. i \in 1..Len(w) /\ w[i] = s[i]
        BY <1>1, <3>1
      <4> QED
        BY <1>1, <4>1 DEF Stack
    <3>2. CASE i > b
      <4>1. i + 1 \in 1..Len(w) /\ w[i + 1] = s[(i + 1) - 1] /\ (i + 1) - 1 = i
        BY <1>1, <3>2
      <4> QED
        BY <1>1, <4>1 DEF Stack
    <3> QED
      BY <1>1, <3>1, <3>2
  <2> QED
    BY <1>1, <2>1, <2>2, <2>3 DEF Stack
<1>6. s # <<>> => 1 \in 1..Len(s)
  BY <1>1, EmptySeq
<1>7. CASE Len(s) < Limit
  <2>1. Trim(w) = w
    BY <1>1, <1>7 DEF Trim
  <2>2. Floor(s) = 0 /\ Floor(w) \in Nat
    <3>1. 1 \in 1..Len(w)
      BY <1>1
    <3>2. w[1].rev \in Nat
      BY <1>2, <1>3, <3>1
    <3>3. Len(s) # Limit
      BY ONLY <1>10, <1>7
    <3> QED
      BY <3>2, <3>3 DEF Floor
  <2> QED
    BY <1>1, <1>4, <1>5, <1>7, <2>1, <2>2 DEF Joins
<1>8. CASE Len(s) = Limit
  <2> DEFINE n == Tail(w)
  <2>1. Trim(w) = n
    BY <1>1, <1>8 DEF Trim
  <2>2. n \in Seq(Step) /\ Len(n) = Limit /\ \A i \in 1..Limit : n[i] = w[i + 1]
    <3>1. w # <<>>
      BY <1>1, EmptySeq
    <3> QED
      BY <1>1, <1>8, <3>1, HeadTailProperties
  <2> HIDE DEF n
  <2>3. DOMAIN n = 1..Limit
    BY <2>2, LenProperties
  <2>4. Rising(n)
    <3> SUFFICES ASSUME NEW i \in 1..Limit, NEW j \in 1..Limit, i < j PROVE Low(n[i], n[j])
      BY <2>3 DEF Rising
    <3>1. i + 1 \in DOMAIN w /\ j + 1 \in DOMAIN w /\ i + 1 < j + 1
      BY <1>1, <1>8
    <3>2. Low(w[i + 1], w[j + 1])
      BY <1>4, <3>1 DEF Rising
    <3> QED
      BY <2>2, <3>2
  <2>5. Stack(n) \subseteq Stack(w)
    <3>1. \A i \in 1..Limit : i + 1 \in 1..Len(w)
      BY <1>1, <1>8
    <3> QED
      BY <1>1, <2>2, <2>3, <3>1 DEF Stack
  <2>6. n[1] = w[2] /\ 1 \in 1..Limit /\ 2 \in 1..Len(w) /\ 1 \in 1..Len(w)
    BY <1>1, <1>8, <2>2
  <2>7. Floor(n) = w[2].rev /\ Floor(s) = s[1].rev
    BY <1>8, <2>2, <2>6 DEF Floor
  <2>8. s[1].rev <= w[2].rev
    <3>1. CASE b = 0
      <4>1. w[2] = s[1]
        BY <1>1, <1>8, <2>6, <3>1
      <4>2. s[1].rev \in Nat
        BY <1>1, <1>2, <1>3, <1>8
      <4> QED
        BY <4>1, <4>2
    <3>2. CASE b # 0
      <4>1. w[1] = s[1]
        BY <1>1, <2>6, <3>2
      <4>2. Low(w[1], w[2])
        BY <1>1, <1>4, <2>6 DEF Rising
      <4> QED
        BY <4>1, <4>2 DEF Low
    <3> QED
      BY <3>1, <3>2
  <2>9. ASSUME NEW x \in Stack(w) \ Stack(n) PROVE x.rev <= n[1].rev
    <3>1. PICK i \in 1..Len(w) : x = w[i]
      BY <1>1 DEF Stack
    <3>2. i = 1
      <4>1. ASSUME i # 1 PROVE FALSE
        <5>1. i - 1 \in 1..Limit /\ n[i - 1] = w[(i - 1) + 1] /\ (i - 1) + 1 = i
          BY <1>1, <1>8, <2>2, <4>1
        <5>2. x \in Stack(n)
          BY <2>3, <3>1, <5>1 DEF Stack
        <5> QED
          BY <5>2
      <4> QED
        BY <4>1
    <3>3. Low(w[1], w[2])
      BY <1>1, <1>4, <2>6 DEF Rising
    <3> QED
      BY <2>6, <3>1, <3>2, <3>3 DEF Low
  <2> QED
    BY <1>5, <2>1, <2>2, <2>4, <2>5, <2>7, <2>8, <2>9 DEF Joins
<1>9. Len(s) < Limit \/ Len(s) = Limit
  BY ONLY <1>10, Len(s) <= Limit
<1> QED
  BY <1>7, <1>8, <1>9

LEMMA InsertJoins ==
  ASSUME NEW s \in Seq(Step), Len(s) <= Limit, Rising(s), NEW e \in Step,
         \A x \in Stack(s) : x.key = e.key /\ x.key \in Parts => x.rev # e.rev
  PROVE  Joins(s, e, Insert(s, e))
<1> DEFINE b == Below(s, e.rev)
           low == SubSeq(s, 1, b)
           high == SubSeq(s, b + 1, Len(s))
           w == low \o <<e>> \o high
<1>1. Len(s) \in Nat /\ DOMAIN s = 1..Len(s) /\ e.rev \in Nat /\ \A i \in 1..Len(s) : s[i] \in Step /\ s[i].rev \in Nat
  <2>1. Len(s) \in Nat /\ DOMAIN s = 1..Len(s) /\ \A i \in 1..Len(s) : s[i] \in Step
    BY LenProperties, ElementOfSeq
  <2>2. \A x \in Step : x.rev \in Nat
    BY DEF Step
  <2> QED
    BY <2>1, <2>2
<1>2. /\ b \in 0..Len(s)
      /\ \A i \in 1..Len(s) : s[i].rev <= e.rev => i <= b
      /\ b # 0 => s[b].rev <= e.rev
  BY <1>1, BelowDivides
<1>3. InsertAt(s, b + 1, e) = w
  <2>1. (b + 1) - 1 = b
    BY <1>2
  <2> QED
    BY <2>1 DEF InsertAt
<1>4. Insert(s, e) = Trim(w)
  BY <1>3 DEF Insert
<1> HIDE DEF b
<1>5. low \in Seq(Step) /\ Len(low) = b /\ \A i \in 1..b : low[i] = s[i]
  <2>1. \A i \in 1..b : s[i] \in Step
    BY <1>1, <1>2
  <2>2. b \in Int /\ 1 \in Int /\ (IF 1 <= b THEN b - 1 + 1 ELSE 0) = b /\ b - 1 + 1 = b /\ \A i \in 1..b : 1 + i - 1 = i
    BY <1>2
  <2>3. /\ SubSeq(s, 1, b) \in Seq(Step) /\ Len(SubSeq(s, 1, b)) = (IF 1 <= b THEN b - 1 + 1 ELSE 0)
        /\ \A i \in 1..(b - 1 + 1) : SubSeq(s, 1, b)[i] = s[1 + i - 1]
    BY <2>1, <2>2, SubSeqProperties
  <2> QED
    BY <2>2, <2>3
<1>6. high \in Seq(Step) /\ Len(high) = Len(s) - b /\ \A i \in 1..(Len(s) - b) : high[i] = s[b + i]
  <2> DEFINE l == Len(s)
  <2>1. \A i \in (b + 1)..l : s[i] \in Step
    BY <1>1, <1>2
  <2>4. l \in Nat /\ b \in 0..l
    BY <1>1, <1>2
  <2> HIDE DEF l
  <2>2. /\ b + 1 \in Int /\ l \in Int /\ (IF b + 1 <= l THEN l - (b + 1) + 1 ELSE 0) = l - b
        /\ l - (b + 1) + 1 = l - b /\ \A i \in 1..(l - b) : (b + 1) + i - 1 = b + i
    BY ONLY <2>4
  <2>3. /\ SubSeq(s, b + 1, l) \in Seq(Step) /\ Len(SubSeq(s, b + 1, l)) = (IF b + 1 <= l THEN l - (b + 1) + 1 ELSE 0)
        /\ \A i \in 1..(l - (b + 1) + 1) : SubSeq(s, b + 1, l)[i] = s[(b + 1) + i - 1]
    <3>1. \A i \in (b + 1)..Len(s) : s[i] \in Step
      BY <2>1 DEF l
    <3>2. b + 1 \in Int /\ Len(s) \in Int
      BY <2>2 DEF l
    <3> QED
      BY <3>1, <3>2, SubSeqProperties DEF l
  <2> QED
    BY <2>2, <2>3 DEF l
<1> HIDE DEF low, high
<1>7. <<e>> \in Seq(Step) /\ Len(<<e>>) = 1 /\ <<e>>[1] = e
  OBVIOUS
<1>8. /\ low \o <<e>> \in Seq(Step) /\ Len(low \o <<e>>) = b + 1
      /\ \A i \in 1..(b + 1) : (low \o <<e>>)[i] = IF i <= b THEN s[i] ELSE e
  <2>1. /\ low \o <<e>> \in Seq(Step) /\ Len(low \o <<e>>) = Len(low) + Len(<<e>>)
        /\ \A i \in 1..Len(low) + Len(<<e>>) :
             (low \o <<e>>)[i] = IF i <= Len(low) THEN low[i] ELSE <<e>>[i - Len(low)]
    BY <1>5, <1>7, ConcatProperties
  <2>2. \A i \in 1..(b + 1) : i <= b \/ i - b = 1
    BY <1>2
  <2>3. \A i \in 1..(b + 1) : i <= b => i \in 1..b
    BY <1>2
  <2> QED
    BY <1>5, <1>7, <2>1, <2>2, <2>3
<1> DEFINE head == low \o <<e>>
<1> HIDE DEF head
<1>9. /\ w \in Seq(Step) /\ Len(w) = Len(s) + 1
      /\ \A i \in 1..(Len(s) + 1) : w[i] = IF i <= b + 1 THEN head[i] ELSE high[i - (b + 1)]
  <2>1. /\ head \o high \in Seq(Step) /\ Len(head \o high) = Len(head) + Len(high)
        /\ \A i \in 1..Len(head) + Len(high) :
             (head \o high)[i] = IF i <= Len(head) THEN head[i] ELSE high[i - Len(head)]
    BY <1>6, <1>8, ConcatProperties DEF head
  <2>2. w = head \o high /\ Len(head) = b + 1
    BY <1>8 DEF head
  <2>3. (b + 1) + (Len(s) - b) = Len(s) + 1
    BY <1>1, <1>2
  <2> HIDE DEF w
  <2> QED
    BY <1>6, <2>1, <2>2, <2>3
<1>10. \A i \in 1..Len(w) : w[i] = IF i <= b THEN s[i] ELSE IF i = b + 1 THEN e ELSE s[i - 1]
  <2> SUFFICES ASSUME NEW i \in 1..(Len(s) + 1)
               PROVE  w[i] = IF i <= b THEN s[i] ELSE IF i = b + 1 THEN e ELSE s[i - 1]
    BY <1>9
  <2>1. CASE i <= b + 1
    <3>1. i \in 1..(b + 1)
      BY <1>1, <1>2, <2>1
    <3>2. w[i] = head[i]
      BY <1>9, <2>1
    <3>3. i > b => i = b + 1
      BY <1>2, <2>1
    <3> QED
      BY <1>2, <1>8, <3>1, <3>2, <3>3 DEF head
  <2>2. CASE i > b + 1
    <3>1. i - (b + 1) \in 1..(Len(s) - b) /\ b + (i - (b + 1)) = i - 1 /\ ~(i <= b) /\ i # b + 1 /\ ~(i <= b + 1)
      BY <1>1, <1>2, <2>2
    <3>2. w[i] = high[i - (b + 1)]
      BY <1>9, <3>1
    <3> QED
      BY <1>6, <3>1, <3>2
  <2>3. i <= b + 1 \/ i > b + 1
    <3>1. i \in Nat /\ b \in Nat
      BY <1>1, <1>2
    <3> QED
      BY ONLY <3>1
  <2> QED
    BY <2>1, <2>2, <2>3
<1> HIDE DEF w
<1>11. \A i \in 1..b : Low(s[i], e)
  <2> SUFFICES ASSUME NEW i \in 1..b PROVE Low(s[i], e)
    OBVIOUS
  <2>1. i \in 1..Len(s) /\ b \in 1..Len(s) /\ (i < b \/ i = b)
    BY <1>1, <1>2
  <2>2. s[i].rev <= s[b].rev
    BY <1>1, <2>1 DEF Rising, Low
  <2>3. s[i].rev <= e.rev /\ s[i].rev \in Nat
    BY <1>1, <1>2, <2>1, <2>2
  <2>4. s[i] \in Stack(s)
    BY <1>1, <2>1 DEF Stack
  <2> QED
    BY <1>1, <2>3, <2>4 DEF Low
<1>12. \A i \in (b + 1)..Len(s) : Low(e, s[i])
  <2> SUFFICES ASSUME NEW i \in (b + 1)..Len(s) PROVE Low(e, s[i])
    OBVIOUS
  <2>1. i \in 1..Len(s) /\ ~(i <= b)
    BY <1>1, <1>2
  <2>2. e.rev < s[i].rev
    BY <1>1, <1>2, <2>1
  <2> QED
    BY <1>1, <2>1, <2>2 DEF Low
<1>13. Len(w) = Len(s) + 1 /\ w \in Seq(Step)
  BY <1>9
<1> QED
  BY <1>2, <1>4, <1>10, <1>11, <1>12, <1>13, PutInJoins

(* What is no older than all of them comes on top.                         *)
LEMMA AppendJoins ==
  ASSUME NEW s \in Seq(Step), Len(s) <= Limit, Rising(s), NEW e \in Step,
         \A x \in Stack(s) : Low(x, e)
  PROVE  Joins(s, e, Trim(Append(s, e)))
<1>1. Len(s) \in Nat /\ DOMAIN s = 1..Len(s)
  BY LenProperties
<1> DEFINE b == Len(s)
           w == Append(s, e)
<1>2. w \in Seq(Step) /\ Len(w) = b + 1 /\ (\A i \in 1..b : w[i] = s[i]) /\ w[b + 1] = e
  BY AppendProperties
<1> HIDE DEF w
<1>3. \A i \in 1..Len(w) : w[i] = IF i <= b THEN s[i] ELSE IF i = b + 1 THEN e ELSE s[i - 1]
  BY <1>1, <1>2
<1>4. (\A i \in 1..b : Low(s[i], e)) /\ (\A i \in (b + 1)..Len(s) : Low(e, s[i]))
  BY <1>1 DEF Stack
<1>5. b \in 0..Len(s)
  BY <1>1
<1> HIDE DEF b
<1>6. Len(w) = Len(s) + 1
  BY <1>2 DEF b
<1>7. Joins(s, e, Trim(w))
  BY <1>2, <1>3, <1>4, <1>5, <1>6, PutInJoins
<1> QED
  BY <1>7 DEF w

LEMMA AppendRises ==
  ASSUME NEW s \in Seq(Step), NEW e \in Step
  PROVE  /\ Stack(Append(s, e)) = Stack(s) \cup {e}
         /\ Falling(s) /\ (\A x \in Stack(s) : Low(e, x)) => Falling(Append(s, e))
<1>1. Len(s) \in Nat /\ DOMAIN s = 1..Len(s)
  BY LenProperties
<1> DEFINE w == Append(s, e)
<1>2. w \in Seq(Step) /\ Len(w) = Len(s) + 1 /\ (\A i \in 1..Len(s) : w[i] = s[i]) /\ w[Len(s) + 1] = e
  BY AppendProperties
<1> HIDE DEF w
<1>3. DOMAIN w = 1..(Len(s) + 1)
  BY <1>2, LenProperties
<1>4. \A i \in 1..(Len(s) + 1) : i \in 1..Len(s) \/ i = Len(s) + 1
  BY <1>1
<1>5. Stack(w) = Stack(s) \cup {e}
  <2>1. Len(s) + 1 \in DOMAIN w /\ \A i \in DOMAIN s : i \in DOMAIN w
    BY <1>1, <1>3
  <2> QED
    BY <1>1, <1>2, <1>3, <1>4, <2>1 DEF Stack
<1>6. ASSUME Falling(s), \A x \in Stack(s) : Low(e, x) PROVE Falling(w)
  <2> SUFFICES ASSUME NEW i \in DOMAIN w, NEW j \in DOMAIN w, i < j PROVE Low(w[j], w[i])
    BY DEF Falling
  <2>1. i \in DOMAIN s /\ w[i] = s[i] /\ s[i] \in Stack(s)
    BY <1>1, <1>2, <1>3 DEF Stack
  <2>2. CASE j = Len(s) + 1
    BY <1>2, <1>6, <2>1, <2>2
  <2>3. CASE j \in 1..Len(s)
    BY <1>1, <1>2, <1>6, <2>1, <2>3 DEF Falling
  <2> QED
    BY <1>3, <1>4, <2>2, <2>3
<1> QED
  BY <1>5, <1>6 DEF w

LEMMA FrontRises ==
  ASSUME NEW s \in Seq(Step), s # <<>>
  PROVE  /\ Front(s) \in Seq(Step) /\ Len(Front(s)) = Len(s) - 1 /\ Last(s) \in Step
         /\ Stack(s) = Stack(Front(s)) \cup {Last(s)}
         /\ Rising(s) => Rising(Front(s)) /\ \A x \in Stack(Front(s)) : Low(x, Last(s))
         /\ Falling(s) => Falling(Front(s)) /\ \A x \in Stack(Front(s)) : Low(Last(s), x)
<1>1. Len(s) \in Nat \ {0} /\ DOMAIN s = 1..Len(s) /\ \A i \in 1..Len(s) : s[i] \in Step
  BY EmptySeq, LenProperties, ElementOfSeq
<1> DEFINE n == Len(s)
           f == Front(s)
<1>2. f \in Seq(Step) /\ Len(f) = n - 1 /\ \A i \in 1..(n - 1) : f[i] = s[i]
  <2>1. \A i \in 1..(n - 1) : s[i] \in Step
    BY <1>1
  <2>2. n - 1 \in Int /\ (IF 1 <= n - 1 THEN (n - 1) - 1 + 1 ELSE 0) = n - 1 /\ (n - 1) - 1 + 1 = n - 1
        /\ \A i \in 1..(n - 1) : 1 + i - 1 = i
    BY <1>1
  <2> DEFINE m == n - 1
  <2> HIDE DEF m
  <2>3. /\ SubSeq(s, 1, m) \in Seq(Step) /\ Len(SubSeq(s, 1, m)) = (IF 1 <= m THEN m - 1 + 1 ELSE 0)
        /\ \A i \in 1..(m - 1 + 1) : SubSeq(s, 1, m)[i] = s[1 + i - 1]
    BY <2>1, <2>2, SubSeqProperties DEF m
  <2> QED
    BY <2>2, <2>3 DEF Front, m
<1>3. Last(s) = s[n] /\ Last(s) \in Step
  BY <1>1 DEF Last
<1> HIDE DEF f
<1>4. DOMAIN f = 1..(n - 1) /\ \A i \in 1..(n - 1) : i \in 1..n /\ i < n
  BY <1>1, <1>2, LenProperties
<1>5. Stack(s) = Stack(f) \cup {Last(s)}
  <2>3. n \in Nat
    BY <1>1
  <2>1. \A i \in 1..n : i = n \/ i \in 1..(n - 1)
    BY ONLY <2>3
  <2>2. n \in 1..n
    BY <1>1
  <2> QED
    BY <1>1, <1>2, <1>3, <1>4, <2>1, <2>2 DEF Stack
<1>8. n \in 1..n
  BY <1>1
<1>6. ASSUME Rising(s) PROVE Rising(f) /\ \A x \in Stack(f) : Low(x, Last(s))
  <2>1. \A i, j \in 1..n : i < j => Low(s[i], s[j])
    BY <1>1, <1>6 DEF Rising
  <2>2. \A i, j \in 1..(n - 1) : i < j => Low(f[i], f[j])
    BY <1>2, <1>4, <2>1
  <2>3. \A i \in 1..(n - 1) : Low(f[i], Last(s))
    BY <1>2, <1>3, <1>4, <1>8, <2>1
  <2> QED
    BY <1>4, <2>2, <2>3 DEF Rising, Stack
<1>7. ASSUME Falling(s) PROVE Falling(f) /\ \A x \in Stack(f) : Low(Last(s), x)
  <2>1. \A i, j \in 1..n : i < j => Low(s[j], s[i])
    BY <1>1, <1>7 DEF Falling
  <2>2. \A i, j \in 1..(n - 1) : i < j => Low(f[j], f[i])
    BY <1>2, <1>4, <2>1
  <2>3. \A i \in 1..(n - 1) : Low(Last(s), f[i])
    BY <1>2, <1>3, <1>4, <1>8, <2>1
  <2> QED
    BY <1>4, <2>2, <2>3 DEF Falling, Stack
<1> QED
  BY <1>2, <1>3, <1>5, <1>6, <1>7 DEF f

(* What Record, Push and Return make of the stack s when e comes to it: n. *)
Gathers(s, e, n) ==
  /\ n \in Seq(Step) /\ Len(n) <= Limit /\ Rising(n) /\ Floor(s) <= Floor(n)
  /\ \A x \in Stack(n) : x \in Stack(s) \cup {e} \/ (x.key \in Knobs /\ x.rev = e.rev)
  /\ \A x \in Stack(s) \cup {e} :
       x.key \in Parts => x \in Stack(n) \/ (Len(n) = Limit /\ x.rev <= n[1].rev)

LEMMA JoinsGathers ==
  ASSUME NEW s, NEW e, NEW n, Joins(s, e, n)
  PROVE  Gathers(s, e, n)
BY DEF Joins, Gathers

(* The last step of s, a knob's, gets e's end and revision.                *)
LEMMA MergedShape ==
  ASSUME NEW s \in Seq(Step), NEW e \in Step, Merges(s, e)
  PROVE  /\ Len(s) \in Nat /\ Len(s) \in 1..Len(s)
         /\ Merged(s, e) \in Seq(Step) /\ Len(Merged(s, e)) = Len(s)
         /\ Merged(s, e)[Len(s)].key = e.key /\ Merged(s, e)[Len(s)].rev = e.rev
         /\ e.key \in Knobs /\ e.key = s[Len(s)].key /\ e.rev > s[Len(s)].rev
         /\ \A i \in 1..Len(s) : i # Len(s) => Merged(s, e)[i] = s[i]
<1> DEFINE l == Len(s)
           m == [s[l] EXCEPT !.to = e.to, !.rev = e.rev]
           n == Merged(s, e)
<1>1. l \in Nat /\ l \in 1..l /\ DOMAIN s = 1..l /\ s[l] \in Step
  BY EmptySeq, LenProperties, ElementOfSeq DEF Merges
<1>2. e.key \in Knobs /\ e.key = s[l].key /\ e.rev > s[l].rev
  BY DEF Merges, Last
<1>3. m \in Step /\ m.key = e.key /\ m.rev = e.rev
  <2>1. e.to \in Values /\ e.rev \in Nat
    BY DEF Step
  <2>2. m \in Step
    BY <1>1, <2>1 DEF Step
  <2>3. m.key = s[l].key /\ m.rev = e.rev
    BY <1>1, <2>1 DEF Step
  <2> QED
    BY <1>2, <2>2, <2>3
<1>4. n = [s EXCEPT ![l] = m]
  BY <1>1 DEF Merged
<1> HIDE DEF n, m
<1>5. n \in Seq(Step) /\ Len(n) = l /\ \A i \in 1..l : n[i] = IF i = l THEN m ELSE s[i]
  BY <1>1, <1>3, <1>4, ExceptSeq
<1> QED
  BY <1>1, <1>2, <1>3, <1>5 DEF n

(* What is on the stack after it, of any order.                            *)
LEMMA MergedFrom ==
  ASSUME NEW s \in Seq(Step), NEW e \in Step, Merges(s, e)
  PROVE  \A x \in Stack(Merged(s, e)) : x \in Stack(s) \/ (x.key \in Knobs /\ x.rev = e.rev)
<1> DEFINE n == Merged(s, e)
<1>1. /\ n \in Seq(Step) /\ Len(n) = Len(s) /\ n[Len(s)].key \in Knobs /\ n[Len(s)].rev = e.rev
      /\ \A i \in 1..Len(s) : i # Len(s) => n[i] = s[i]
  BY MergedShape
<1> HIDE DEF n
<1>2. DOMAIN n = 1..Len(s) /\ DOMAIN s = 1..Len(s)
  BY <1>1, LenProperties
<1>3. \A x \in Stack(n) : x \in Stack(s) \/ (x.key \in Knobs /\ x.rev = e.rev)
  BY <1>1, <1>2 DEF Stack
<1> QED
  BY <1>3 DEF n

LEMMA InsertFrom ==
  ASSUME NEW s \in Seq(Step), Len(s) <= Limit, NEW e \in Step
  PROVE  Stack(Insert(s, e)) \subseteq Stack(s) \cup {e}
<1> DEFINE S == Stack(s) \cup {e}
<1>1. S \in SUBSET Step /\ s \in Seq(S) /\ e \in S
  BY StackOfOwn
<1> HIDE DEF S
<1>2. Insert(s, e) \in Seq(S)
  BY <1>1, InsertKeeps
<1> QED
  BY <1>2, LenProperties, ElementOfSeq DEF Stack, S

LEMMA PutBackFrom ==
  ASSUME NEW s \in Seq(Step), Len(s) <= Limit, NEW e \in Step
  PROVE  Stack(Trim(Append(s, e))) \subseteq Stack(s) \cup {e}
<1> DEFINE S == Stack(s) \cup {e}
<1>1. S \in SUBSET Step /\ s \in Seq(S) /\ e \in S
  BY StackOfOwn
<1> HIDE DEF S
<1>2. Append(s, e) \in Seq(S) /\ Len(Append(s, e)) <= Limit + 1
  BY <1>1, AppendProperties, LenProperties, BoundsAssumption
<1>3. Trim(Append(s, e)) \in Seq(S)
  BY <1>2, TrimKeeps
<1> QED
  BY <1>3, LenProperties, ElementOfSeq DEF Stack, S

LEMMA MergedGathers ==
  ASSUME NEW s \in Seq(Step), Len(s) <= Limit, Rising(s), NEW e \in Step, Merges(s, e)
  PROVE  Gathers(s, e, Merged(s, e))
<1> DEFINE l == Len(s)
           n == Merged(s, e)
<1>1. l \in Nat /\ l \in 1..l /\ DOMAIN s = 1..l /\ (\A i \in 1..l : s[i] \in Step)
  BY MergedShape, LenProperties, ElementOfSeq
<1>2. e.key \in Knobs /\ e.key = s[l].key /\ e.rev > s[l].rev
  BY MergedShape
<1>3. \A x \in Step : x.rev \in Nat /\ x.key \in Keys
  BY DEF Step
<1>4. /\ n \in Seq(Step) /\ Len(n) = l /\ n[l].key = e.key /\ n[l].rev = e.rev
      /\ \A i \in 1..l : i # l => n[i] = s[i]
  BY MergedShape
<1> HIDE DEF n
<1>7. DOMAIN n = 1..l
  BY <1>4, LenProperties
<1>8. \A i, j \in 1..l : i < j => Low(s[i], s[j])
  BY <1>1 DEF Rising
<1>9. \A x \in Parts : x \notin Knobs
  BY DocumentAssumption
<1>10. Rising(n)
  <2> SUFFICES ASSUME NEW i \in 1..l, NEW j \in 1..l, i < j PROVE Low(n[i], n[j])
    BY <1>7 DEF Rising
  <2>4. i # l
    <3>1. l \in Nat
      BY <1>1
    <3> QED
      BY ONLY <3>1, i \in 1..l, j \in 1..l, i < j
  <2>1. n[i] = s[i] /\ Low(s[i], s[j]) /\ s[i].rev \in Nat
    BY <1>1, <1>3, <1>4, <1>8, <2>4
  <2>2. CASE j = l
    <3>1. s[i].rev <= s[l].rev /\ s[l].rev \in Nat /\ e.rev \in Nat
      BY <1>1, <1>2, <1>3, <2>1, <2>2 DEF Low
    <3>2. s[i].rev < e.rev
      BY ONLY <1>2, <2>1, <3>1
    <3>3. n[j].rev = e.rev
      BY <1>4, <2>2
    <3> QED
      BY <2>1, <3>1, <3>2, <3>3 DEF Low
  <2>3. CASE j # l
    BY <1>4, <2>1, <2>3
  <2> QED
    BY <2>2, <2>3
<1>11. s[1].rev <= n[1].rev /\ 1 \in 1..l
  <2>1. 1 \in 1..l /\ s[1].rev \in Nat
    BY <1>1, <1>3
  <2>2. CASE l = 1
    <3>1. e.rev > s[1].rev /\ e.rev \in Nat /\ n[1].rev = e.rev
      BY <1>2, <1>3, <1>4, <2>2
    <3> QED
      BY ONLY <2>1, <3>1
  <2>3. CASE l # 1
    BY <1>4, <2>1, <2>3
  <2> QED
    BY <2>1, <2>2, <2>3
<1>12. Floor(s) <= Floor(n)
  BY <1>4, <1>11 DEF Floor
<1>13. \A x \in Stack(n) : x \in Stack(s) \cup {e} \/ (x.key \in Knobs /\ x.rev = e.rev)
  BY MergedFrom DEF n
<1>14. ASSUME NEW x \in Stack(s) \cup {e}, x.key \in Parts PROVE x \in Stack(n)
  <2>1. x # e
    BY <1>2, <1>9, <1>14
  <2>2. PICK i \in 1..l : x = s[i]
    BY <1>1, <2>1 DEF Stack
  <2>3. i # l
    BY <1>2, <1>9, <1>14, <2>2
  <2> QED
    BY <1>4, <1>7, <2>2, <2>3 DEF Stack
<1>15. Len(n) <= Limit
  BY <1>4
<1> QED
  BY <1>4, <1>10, <1>12, <1>13, <1>14, <1>15 DEF Gathers, n

----------------------------------------------------------------------------
(* The way back and forth: S are the edits on their way to the log, B and  *)
(* F the steps carried by a replay that are, and are not, part of the      *)
(* document d, u and r the stacks; what r holds counts only if no edit is  *)
(* to clear it.                                                            *)
PastOf(S, B, u) == S \cup B \cup Stack(u)
AheadOf(S, F, r) == F \cup (IF S = {} THEN Stack(r) ELSE {})

InBetween(u, r, X) ==
  /\ \A x \in Stack(u), y \in Stack(r) : Low(x, y)
  /\ \A e \in X : (\A x \in Stack(u) : Low(x, e)) /\ (\A y \in Stack(r) : Low(e, y))

Straight(d, S, B, F, u, r) ==
  /\ \A k \in Parts : LeadsTo(Of(PastOf(S, B, u), k), d[k], Floor(u))
  /\ \A k \in Parts : LeadsOn(Of(AheadOf(S, F, r), k), d[k])
  /\ Rising(u)
  /\ S = {} => Falling(r) /\ InBetween(u, r, B \cup F)

LEMMA FloorIsARevision ==
  ASSUME NEW u \in Seq(Step)
  PROVE  /\ Floor(u) \in Nat
         /\ Rising(u) => \A x \in Stack(u) : Floor(u) <= x.rev
<1>1. Len(u) \in Nat /\ DOMAIN u = 1..Len(u) /\ (\A i \in 1..Len(u) : u[i] \in Step) /\ Limit \in Nat \ {0}
  BY LenProperties, ElementOfSeq, BoundsAssumption
<1>2. \A x \in Step : x.rev \in Nat
  BY DEF Step
<1>3. CASE Len(u) = Limit
  <2>1. 1 \in 1..Len(u) /\ Floor(u) = u[1].rev
    BY <1>1, <1>3 DEF Floor
  <2>2. ASSUME Rising(u), NEW i \in 1..Len(u) PROVE Floor(u) <= u[i].rev
    <3>1. i = 1 \/ 1 < i
      BY <1>1
    <3>2. u[1].rev \in Nat
      BY <1>1, <1>2, <2>1
    <3> QED
      BY <1>1, <2>1, <2>2, <3>1, <3>2 DEF Rising, Low
  <2> QED
    BY <1>1, <1>2, <2>1, <2>2 DEF Stack
<1>4. CASE Len(u) # Limit
  <2>1. Floor(u) = 0
    BY <1>4 DEF Floor
  <2>2. \A i \in 1..Len(u) : 0 <= u[i].rev
    BY <1>1, <1>2
  <2> QED
    BY <1>1, <2>1, <2>2 DEF Stack
<1> QED
  BY <1>3, <1>4

LEMMA EmptyStack == Stack(<<>>) = {} /\ Floor(<<>>) = 0 /\ Rising(<<>>) /\ Falling(<<>>)
<1>1. Len(<<>>) = 0 /\ DOMAIN <<>> = {} /\ Limit # 0
  BY EmptySeq, BoundsAssumption
<1> QED
  BY <1>1 DEF Stack, Floor, Rising, Falling

(* An edit is made, or a drag closed.                                      *)
LEMMA EditLeads ==
  ASSUME NEW d, NEW D, NEW S \in SUBSET Step, NEW u \in Seq(Step), NEW r, Straight(d, S, {}, {}, u, r),
         NEW e \in Step, \A k \in Parts : k # e.key => D[k] = d[k],
         e.key \in Parts => /\ e.from = d[e.key] /\ D[e.key] = e.to
                            /\ \A x \in S \cup Stack(u) : x.rev < e.rev
  PROVE  Straight(D, S \cup {e}, {}, {}, u, r)
<1> DEFINE X == PastOf(S, {}, u)
           Z == PastOf(S \cup {e}, {}, u)
<1>1. X \in SUBSET Step /\ Z = X \cup {e} /\ X = S \cup Stack(u) /\ Floor(u) \in Nat
  BY StacksAreSteps, FloorIsARevision DEF PastOf
<1>2. AheadOf(S \cup {e}, {}, r) = {}
  BY DEF AheadOf
<1> HIDE DEF X, Z
<1>3. ASSUME NEW k \in Parts PROVE LeadsTo(Of(Z, k), D[k], Floor(u)) /\ LeadsOn(Of({}, k), D[k])
  <2>1. LeadsTo(Of(X, k), d[k], Floor(u))
    BY DEF Straight, X
  <2>2. CASE k # e.key
    <3>1. Of(Z, k) = Of(X, k) /\ D[k] = d[k]
      BY <1>1, <2>2 DEF Of
    <3> QED
      BY <2>1, <3>1 DEF LeadsOn, Of
  <2>3. CASE k = e.key
    <3>1. Of(Z, k) = Of(X, k) \cup {e} /\ Of(X, k) \in SUBSET Step
      BY <1>1, <2>3 DEF Of
    <3>2. e.from = d[k] /\ D[k] = e.to /\ \A x \in Of(X, k) : x.rev < e.rev
      BY <1>1, <2>3 DEF Of
    <3>3. LeadsTo(Of(X, k) \cup {e}, e.to, Floor(u))
      BY <1>1, <2>1, <3>1, <3>2, NewStepLeads
    <3> QED
      BY <3>1, <3>2, <3>3 DEF LeadsOn, Of
  <2> QED
    BY <2>2, <2>3
<1>4. Rising(u) /\ S \cup {e} # {}
  BY DEF Straight
<1> QED
  BY <1>2, <1>3, <1>4 DEF Straight, Z

(* A step is gathered into the undo stack.                                 *)
LEMMA GatherLeads ==
  ASSUME NEW R \in SUBSET Step, NEW e \in Step, NEW u \in Seq(Step), NEW n, Gathers(u, e, n),
         NEW k \in Parts, NEW v, LeadsTo(Of(R \cup {e} \cup Stack(u), k), v, Floor(u))
  PROVE  LeadsTo(Of(R \cup Stack(n), k), v, Floor(n))
<1> DEFINE X == Of(R \cup {e} \cup Stack(u), k)
           Z == Of(R \cup Stack(n), k)
<1>1. k \notin Knobs
  BY DocumentAssumption
<1>2. X \in SUBSET Step /\ Z \in SUBSET X
  <2>1. Stack(u) \in SUBSET Step
    BY StacksAreSteps
  <2>2. \A x \in Stack(n) : x.key = k => x \in Stack(u) \cup {e}
    BY <1>1 DEF Gathers
  <2> QED
    BY <2>1, <2>2 DEF Of
<1>3. Floor(u) \in Nat /\ Floor(n) \in Nat /\ Floor(u) <= Floor(n)
  BY FloorIsARevision DEF Gathers
<1>4. ASSUME NEW s \in Z, s.rev >= Floor(n)
      PROVE  s.rev >= Floor(u) /\ \A x \in X \ Z : x.rev <= s.rev
  <2>1. \A x \in Step : x.rev \in Nat
    BY DEF Step
  <2>2. s.rev \in Nat
    BY <1>2, <2>1
  <2>3. ASSUME NEW x \in X \ Z PROVE x.rev <= s.rev
    <3>1. x \in Stack(u) \cup {e} /\ x.key \in Parts /\ x \notin Stack(n) /\ x.rev \in Nat
      BY <1>2, <2>1 DEF Of
    <3>2. x.rev <= Floor(n)
      BY <3>1 DEF Gathers, Floor
    <3> QED
      BY ONLY <1>3, <1>4, <2>2, <3>1, <3>2
  <2>4. s.rev >= Floor(u)
    BY ONLY <1>3, <1>4, <2>2
  <2> QED
    BY <2>3, <2>4
<1>5. LeadsTo(X, v, Floor(u))
  OBVIOUS
<1> HIDE DEF X, Z
<1>6. LeadsTo(Z, v, Floor(n))
  BY <1>2, <1>3, <1>4, <1>5, OldStepsGo
<1> QED
  BY <1>6 DEF Z

(* An edit reaches the log that stands for its document.                   *)
LEMMA RecordLeads ==
  ASSUME NEW d, NEW S \in SUBSET Step, NEW e \in Step, NEW u \in Seq(Step), NEW r,
         Straight(d, S \cup {e}, {}, {}, u, r), NEW n, Gathers(u, e, n)
  PROVE  Straight(d, S, {}, {}, n, <<>>)
<1>1. ASSUME NEW k \in Parts PROVE LeadsTo(Of(PastOf(S, {}, n), k), d[k], Floor(n))
  <2>1. LeadsTo(Of(PastOf(S \cup {e}, {}, u), k), d[k], Floor(u))
    BY DEF Straight
  <2>2. PastOf(S \cup {e}, {}, u) = S \cup {e} \cup Stack(u) /\ PastOf(S, {}, n) = S \cup Stack(n)
    BY DEF PastOf
  <2> QED
    BY <2>1, <2>2, GatherLeads
<1>2. AheadOf(S, {}, <<>>) = {} /\ \A k : LeadsOn(Of({}, k), d[k])
  BY EmptyStack DEF AheadOf, LeadsOn, Of
<1>3. Rising(n) /\ Falling(<<>>) /\ InBetween(n, <<>>, {} \cup {})
  BY EmptyStack DEF Gathers, InBetween
<1> QED
  BY <1>1, <1>2, <1>3 DEF Straight

(* It reaches one that does not.                                           *)
LEMMA LateLeads ==
  ASSUME NEW d, NEW S \in SUBSET Step, NEW e \in Step, Straight(d, S \cup {e}, {}, {}, <<>>, <<>>),
         \A x \in S : e.rev <= x.rev
  PROVE  Straight(d, S, {}, {}, <<>>, <<>>)
<1>1. ASSUME NEW k \in Parts PROVE LeadsTo(Of(PastOf(S, {}, <<>>), k), d[k], 0)
  <2> DEFINE X == Of(S \cup {e}, k)
             Z == Of(S, k)
  <2>1. PastOf(S \cup {e}, {}, <<>>) = S \cup {e} /\ PastOf(S, {}, <<>>) = S
    BY EmptyStack DEF PastOf
  <2>2. LeadsTo(X, d[k], 0)
    BY <2>1, EmptyStack DEF Straight
  <2>3. X \in SUBSET Step /\ Z \in SUBSET X /\ 0 \in Nat
    BY DEF Of
  <2>4. \A s \in Z : s.rev >= 0 => s.rev >= 0 /\ \A x \in X \ Z : x.rev <= s.rev
    BY DEF Of
  <2> HIDE DEF X, Z
  <2>5. LeadsTo(Z, d[k], 0)
    BY <2>2, <2>3, <2>4, OldStepsGo
  <2> QED
    BY <2>1, <2>5 DEF Z
<1>2. AheadOf(S, {}, <<>>) = {} /\ \A k : LeadsOn(Of({}, k), d[k])
  BY EmptyStack DEF AheadOf, LeadsOn, Of
<1>3. Rising(<<>>) /\ Falling(<<>>) /\ InBetween(<<>>, <<>>, {} \cup {})
  BY EmptyStack DEF InBetween
<1> QED
  BY <1>1, <1>2, <1>3, EmptyStack DEF Straight

(* The stacks are cleared, or stand for another document.                  *)
LEMMA ClearLeads ==
  ASSUME NEW d, NEW S \in SUBSET Step, NEW B \in SUBSET Step, NEW F \in SUBSET Step,
         NEW u \in Seq(Step), NEW r \in Seq(Step), Straight(d, S, B, F, u, r),
         S = {} \/ B \cup F = {}, \A s \in S, x \in Stack(u) : x.rev <= s.rev
  PROVE  Straight(d, S, B, F, <<>>, <<>>)
<1>1. Stack(u) \in SUBSET Step /\ Stack(r) \in SUBSET Step /\ Floor(u) \in Nat
  BY StacksAreSteps, FloorIsARevision
<1>2. \A s \in S \cup B : \A x \in Stack(u) : x.rev <= s.rev
  <2>1. CASE S = {}
    BY <2>1 DEF Straight, InBetween, Low
  <2>2. CASE B \cup F = {}
    BY <2>2
  <2> QED
    BY <2>1, <2>2
<1>3. ASSUME NEW k \in Parts PROVE LeadsTo(Of(PastOf(S, B, <<>>), k), d[k], 0)
  <2> DEFINE X == Of(S \cup B \cup Stack(u), k)
             Z == Of(S \cup B, k)
  <2>1. PastOf(S, B, u) = S \cup B \cup Stack(u) /\ PastOf(S, B, <<>>) = S \cup B
    BY EmptyStack DEF PastOf
  <2>2. LeadsTo(X, d[k], Floor(u))
    BY <2>1 DEF Straight
  <2>3. X \in SUBSET Step /\ Z \in SUBSET X /\ 0 \in Nat
    BY <1>1 DEF Of
  <2>4. \A s \in Z : s.rev >= Floor(u) /\ \A x \in X \ Z : x.rev <= s.rev
    <3> SUFFICES ASSUME NEW s \in Z PROVE s.rev >= Floor(u) /\ \A x \in X \ Z : x.rev <= s.rev
      OBVIOUS
    <3>1. s \in S \cup B /\ s \in Step
      BY <2>3 DEF Of
    <3>2. \A x \in X \ Z : x.rev <= s.rev
      BY <1>2, <3>1 DEF Of
    <3>3. s.rev >= Floor(u)
      <4>1. s.rev \in Nat
        BY <3>1 DEF Step
      <4>2. Floor(u) = 0 \/ \E x \in Stack(u) : Floor(u) = x.rev
        <5>1. Len(u) = Limit => 1 \in DOMAIN u
          BY LenProperties, BoundsAssumption
        <5> QED
          BY <5>1 DEF Floor, Stack
      <4> QED
        BY <1>2, <3>1, <4>1, <4>2
    <3> QED
      BY <3>2, <3>3
  <2> HIDE DEF X, Z
  <2>5. LeadsTo(Z, d[k], 0)
    BY <1>1, <2>2, <2>3, <2>4, OldStepsGo
  <2> QED
    BY <2>1, <2>5 DEF Z
<1>4. ASSUME NEW k \in Parts PROVE LeadsOn(Of(AheadOf(S, F, <<>>), k), d[k])
  <2> DEFINE Y == Of(AheadOf(S, F, r), k)
             Z == Of(F, k)
  <2>1. AheadOf(S, F, <<>>) = F
    BY EmptyStack DEF AheadOf
  <2>2. LeadsOn(Y, d[k]) /\ Y \in SUBSET Step /\ Z \in SUBSET Y
    BY <1>1 DEF Straight, AheadOf, Of
  <2>3. \A s \in Z : \A x \in Y \ Z : s.rev <= x.rev
    <3>1. ASSUME NEW s \in Z, NEW x \in Y \ Z PROVE s.rev <= x.rev
      <4>1. S = {} /\ s \in B \cup F /\ x \in Stack(r)
        BY DEF AheadOf, Of
      <4> QED
        BY <4>1 DEF Straight, InBetween, Low
    <3> QED
      BY <3>1
  <2> HIDE DEF Y, Z
  <2>4. LeadsOn(Z, d[k])
    BY <2>2, <2>3, NewStepsGo
  <2> QED
    BY <2>1, <2>4 DEF Z
<1>5. Rising(<<>>) /\ Falling(<<>>) /\ InBetween(<<>>, <<>>, B \cup F)
  BY EmptyStack DEF InBetween
<1> QED
  BY <1>3, <1>4, <1>5, EmptyStack DEF Straight

(* Nothing is on its way, and the log does not stand for the document.     *)
LEMMA NothingLeads ==
  ASSUME NEW d
  PROVE  Straight(d, {}, {}, {}, <<>>, <<>>)
<1>1. PastOf({}, {}, <<>>) = {} /\ AheadOf({}, {}, <<>>) = {}
  BY EmptyStack DEF PastOf, AheadOf
<1>2. InBetween(<<>>, <<>>, {} \cup {})
  BY EmptyStack DEF InBetween
<1> QED
  BY <1>1, <1>2, EmptyStack DEF Straight, LeadsTo, LeadsOn, Of

(* A step is taken off the undo stack.                                     *)
LEMMA PopUndoLeads ==
  ASSUME NEW d, NEW u \in Seq(Step), u # <<>>, NEW r, Straight(d, {}, {}, {}, u, r)
  PROVE  Straight(d, {}, {Last(u)}, {}, Front(u), r)
<1> DEFINE e == Last(u)
           w == Front(u)
<1>1. /\ w \in Seq(Step) /\ e \in Step /\ Stack(u) = Stack(w) \cup {e} /\ Len(w) = Len(u) - 1
      /\ Rising(w) /\ \A x \in Stack(w) : Low(x, e)
  <2>1. Rising(u)
    BY DEF Straight
  <2> QED
    BY <2>1, FrontRises
<1> HIDE DEF e, w
<1>2. Stack(u) \in SUBSET Step /\ Floor(u) \in Nat /\ Floor(w) \in Nat
  BY <1>1, StacksAreSteps, FloorIsARevision
<1>3. ASSUME NEW k \in Parts PROVE LeadsTo(Of(PastOf({}, {e}, w), k), d[k], Floor(w))
  <2> DEFINE X == Of(Stack(u), k)
  <2>1. PastOf({}, {}, u) = Stack(u) /\ PastOf({}, {e}, w) = Stack(u)
    BY <1>1 DEF PastOf
  <2>2. LeadsTo(X, d[k], Floor(u)) /\ X \in SUBSET Step
    BY <1>2, <2>1 DEF Straight, Of
  <2>3. \A s \in X : s.rev >= Floor(u)
    <3>1. \A s \in Stack(u) : Floor(u) <= s.rev
      BY FloorIsARevision DEF Straight
    <3>2. \A x \in Step : x.rev \in Nat
      BY DEF Step
    <3> QED
      BY <1>2, <3>1, <3>2 DEF Of
  <2> HIDE DEF X
  <2>4. LeadsTo(X, d[k], Floor(w))
    BY <1>2, <2>2, <2>3, OldStepsGo
  <2> QED
    BY <2>1, <2>4 DEF X
<1>4. AheadOf({}, {}, r) = Stack(r) /\ Falling(r) /\ InBetween(u, r, {} \cup {})
  BY DEF Straight, AheadOf
<1>5. InBetween(w, r, {e} \cup {})
  BY <1>1, <1>4 DEF InBetween
<1> QED
  BY <1>1, <1>3, <1>4, <1>5 DEF Straight, e, w

(* A step is taken off the redo stack.                                     *)
LEMMA PopRedoLeads ==
  ASSUME NEW d, NEW u, NEW r \in Seq(Step), r # <<>>, Straight(d, {}, {}, {}, u, r)
  PROVE  Straight(d, {}, {}, {Last(r)}, u, Front(r))
<1> DEFINE e == Last(r)
           w == Front(r)
<1>1. Falling(r) /\ InBetween(u, r, {} \cup {})
  BY DEF Straight
<1>2. Stack(r) = Stack(w) \cup {e} /\ Falling(w) /\ \A x \in Stack(w) : Low(e, x)
  BY <1>1, FrontRises
<1> HIDE DEF e, w
<1>3. AheadOf({}, {}, r) = Stack(r) /\ AheadOf({}, {e}, w) = Stack(r)
  BY <1>2 DEF AheadOf
<1>4. InBetween(u, w, {} \cup {e})
  BY <1>1, <1>2 DEF InBetween
<1> QED
  BY <1>2, <1>3, <1>4 DEF Straight, e, w

(* A carried step and those on the stacks, of one structural property.     *)
LEMMA CarriedStep ==
  ASSUME NEW u \in Seq(Step), NEW r \in Seq(Step), NEW e \in Step, InBetween(u, r, {e}), Rising(u)
  PROVE  /\ \A x \in Stack(u) : x.key = e.key /\ e.key \in Parts => x.rev < e.rev
         /\ \A x \in Stack(r) : x.key = e.key /\ e.key \in Parts => e.rev < x.rev
         /\ Floor(u) \in Nat /\ Floor(u) <= e.rev
<1>1. Floor(u) = 0 \/ \E x \in Stack(u) : Floor(u) = x.rev
  <2>1. Len(u) = Limit => 1 \in DOMAIN u
    BY LenProperties, BoundsAssumption
  <2> QED
    BY <2>1 DEF Floor, Stack
<1>2. e.rev \in Nat
  BY DEF Step
<1>3. Floor(u) <= e.rev
  BY <1>1, <1>2 DEF InBetween, Low
<1> QED
  BY <1>3, FloorIsARevision DEF InBetween, Low

(* A carried step is undone.                                               *)
LEMMA BackLeads ==
  ASSUME NEW d, NEW D, NEW u \in Seq(Step), NEW r \in Seq(Step), NEW e \in Step,
         Straight(d, {}, {e}, {}, u, r),
         \A k \in Parts : D[k] = IF k = e.key THEN e.from ELSE d[k]
  PROVE  Straight(D, {}, {}, {e}, u, r)
<1>1. Falling(r) /\ InBetween(u, r, {e}) /\ Rising(u)
  BY DEF Straight
<1>2. /\ PastOf({}, {e}, u) = Stack(u) \cup {e} /\ PastOf({}, {}, u) = Stack(u)
      /\ AheadOf({}, {}, r) = Stack(r) /\ AheadOf({}, {e}, r) = Stack(r) \cup {e}
  BY DEF PastOf, AheadOf
<1>3. Stack(u) \in SUBSET Step /\ Stack(r) \in SUBSET Step
  BY StacksAreSteps
<1>4. ASSUME NEW k \in Parts
      PROVE  LeadsTo(Of(Stack(u), k), D[k], Floor(u)) /\ LeadsOn(Of(Stack(r) \cup {e}, k), D[k])
  <2> DEFINE X == Of(Stack(u) \cup {e}, k)
             Y == Of(Stack(r), k)
  <2>1. LeadsTo(X, d[k], Floor(u)) /\ LeadsOn(Y, d[k]) /\ X \in SUBSET Step /\ Y \in SUBSET Step
    BY <1>2, <1>3 DEF Straight, Of
  <2>2. CASE k # e.key
    <3>1. Of(Stack(u), k) = X /\ Of(Stack(r) \cup {e}, k) = Y /\ D[k] = d[k]
      BY <2>2 DEF Of
    <3> QED
      BY <2>1, <3>1
  <2>3. CASE k = e.key
    <3>1. /\ \A x \in Stack(u) : x.key = e.key /\ e.key \in Parts => x.rev < e.rev
          /\ \A x \in Stack(r) : x.key = e.key /\ e.key \in Parts => e.rev < x.rev
          /\ Floor(u) \in Nat /\ Floor(u) <= e.rev
      BY <1>1, CarriedStep
    <3>2. e.rev \in Nat
      BY DEF Step
    <3>3. e \notin Stack(u)
      BY <2>3, <3>1, <3>2
    <3>4. /\ e \in X /\ X \ {e} = Of(Stack(u), k) /\ Y \cup {e} = Of(Stack(r) \cup {e}, k)
          /\ D[k] = e.from /\ (\A x \in X \ {e} : x.rev < e.rev) /\ (\A y \in Y : e.rev < y.rev)
          /\ e.rev >= Floor(u)
      BY <2>3, <3>1, <3>2, <3>3 DEF Of
    <3> HIDE DEF X, Y
    <3>5. LeadsTo(X \ {e}, e.from, Floor(u)) /\ LeadsOn(Y \cup {e}, e.from)
      BY <2>1, <3>1, <3>4, StepBack
    <3> QED
      BY <3>4, <3>5
  <2> QED
    BY <2>2, <2>3
<1> QED
  BY <1>1, <1>2, <1>4 DEF Straight

(* A carried step is redone.                                               *)
LEMMA ForthLeads ==
  ASSUME NEW d, NEW D, NEW u \in Seq(Step), NEW r \in Seq(Step), NEW e \in Step,
         Straight(d, {}, {}, {e}, u, r),
         \A k \in Parts : D[k] = IF k = e.key THEN e.to ELSE d[k]
  PROVE  Straight(D, {}, {e}, {}, u, r)
<1>1. Falling(r) /\ InBetween(u, r, {e}) /\ Rising(u)
  BY DEF Straight
<1>2. /\ PastOf({}, {e}, u) = Stack(u) \cup {e} /\ PastOf({}, {}, u) = Stack(u)
      /\ AheadOf({}, {}, r) = Stack(r) /\ AheadOf({}, {e}, r) = Stack(r) \cup {e}
  BY DEF PastOf, AheadOf
<1>3. Stack(u) \in SUBSET Step /\ Stack(r) \in SUBSET Step
  BY StacksAreSteps
<1>4. ASSUME NEW k \in Parts
      PROVE  LeadsTo(Of(Stack(u) \cup {e}, k), D[k], Floor(u)) /\ LeadsOn(Of(Stack(r), k), D[k])
  <2> DEFINE X == Of(Stack(u), k)
             Y == Of(Stack(r) \cup {e}, k)
  <2>1. LeadsTo(X, d[k], Floor(u)) /\ LeadsOn(Y, d[k]) /\ X \in SUBSET Step /\ Y \in SUBSET Step
    BY <1>2, <1>3 DEF Straight, Of
  <2>2. CASE k # e.key
    <3>1. Of(Stack(r), k) = Y /\ Of(Stack(u) \cup {e}, k) = X /\ D[k] = d[k]
      BY <2>2 DEF Of
    <3> QED
      BY <2>1, <3>1
  <2>3. CASE k = e.key
    <3>1. /\ \A x \in Stack(u) : x.key = e.key /\ e.key \in Parts => x.rev < e.rev
          /\ \A x \in Stack(r) : x.key = e.key /\ e.key \in Parts => e.rev < x.rev
          /\ Floor(u) \in Nat
      BY <1>1, CarriedStep
    <3>2. e.rev \in Nat
      BY DEF Step
    <3>3. e \notin Stack(r)
      BY <2>3, <3>1, <3>2
    <3>4. /\ e \in Y /\ Y \ {e} = Of(Stack(r), k) /\ X \cup {e} = Of(Stack(u) \cup {e}, k)
          /\ D[k] = e.to /\ (\A y \in Y \ {e} : e.rev < y.rev) /\ (\A x \in X : x.rev < e.rev)
      BY <2>3, <3>1, <3>2, <3>3 DEF Of
    <3> HIDE DEF X, Y
    <3>5. LeadsTo(X \cup {e}, e.to, Floor(u)) /\ LeadsOn(Y \ {e}, e.to)
      BY <2>1, <3>1, <3>4, StepForth
    <3> QED
      BY <3>4, <3>5
  <2> QED
    BY <2>2, <2>3
<1> QED
  BY <1>1, <1>2, <1>4 DEF Straight

(* A carried step is put on the undo stack.                                *)
LEMMA ToUndoLeads ==
  ASSUME NEW d, NEW u \in Seq(Step), Len(u) <= Limit, NEW r \in Seq(Step), NEW e \in Step,
         Straight(d, {}, {e}, {}, u, r)
  PROVE  Straight(d, {}, {}, {}, Trim(Append(u, e)), r)
<1> DEFINE n == Trim(Append(u, e))
<1>1. Falling(r) /\ InBetween(u, r, {e}) /\ Rising(u)
  BY DEF Straight
<1>2. Joins(u, e, n)
  BY <1>1, AppendJoins DEF InBetween
<1>3. Gathers(u, e, n)
  BY <1>2, JoinsGathers
<1> HIDE DEF n
<1>4. ASSUME NEW k \in Parts PROVE LeadsTo(Of(PastOf({}, {}, n), k), d[k], Floor(n))
  <2>1. PastOf({}, {e}, u) = {} \cup {e} \cup Stack(u) /\ PastOf({}, {}, n) = {} \cup Stack(n)
    BY DEF PastOf
  <2>2. LeadsTo(Of(PastOf({}, {e}, u), k), d[k], Floor(u))
    BY DEF Straight
  <2> QED
    BY <1>3, <2>1, <2>2, GatherLeads
<1>5. InBetween(n, r, {} \cup {})
  BY <1>1, <1>2 DEF InBetween, Joins
<1>6. \A k \in Parts : LeadsOn(Of(AheadOf({}, {}, r), k), d[k])
  BY DEF Straight
<1> QED
  BY <1>1, <1>3, <1>4, <1>5, <1>6 DEF Straight, Gathers, n

(* A carried step is put on the redo stack.                                *)
LEMMA ToRedoLeads ==
  ASSUME NEW d, NEW u, NEW r \in Seq(Step), NEW e \in Step, Straight(d, {}, {}, {e}, u, r)
  PROVE  Straight(d, {}, {}, {}, u, Append(r, e))
<1> DEFINE n == Append(r, e)
<1>1. Falling(r) /\ InBetween(u, r, {e})
  BY DEF Straight
<1>2. Stack(n) = Stack(r) \cup {e} /\ Falling(n)
  BY <1>1, AppendRises DEF InBetween
<1> HIDE DEF n
<1>3. AheadOf({}, {e}, r) = Stack(r) \cup {e} /\ AheadOf({}, {}, n) = Stack(r) \cup {e}
  BY <1>2 DEF AheadOf
<1>4. InBetween(u, n, {} \cup {})
  BY <1>1, <1>2 DEF InBetween
<1> QED
  BY <1>2, <1>3, <1>4 DEF Straight, n

(* Of another document only what structural properties have matters.       *)
LEMMA OtherLeads ==
  ASSUME NEW d, NEW D, \A k \in Parts : D[k] = d[k],
         NEW S, NEW B, NEW F, NEW u, NEW r, Straight(d, S, B, F, u, r)
  PROVE  Straight(D, S, B, F, u, r)
BY DEF Straight

----------------------------------------------------------------------------
(* The invariant: what the threads carry, in which role.                   *)

Carrying == {"replay", "push", "return"}
Sending(e) == {c \in Command : c.pc = "record" /\ c.at = e}
Backing(e) == {c \in Command : c.pc \in Carrying /\ c.at = e /\ (c.job = "redo" <=> c.pc = "push")}
Forthing(e) == {c \in Command : c.pc \in Carrying /\ c.at = e /\ ~(c.job = "redo" <=> c.pc = "push")}

StepsOf(th, R) == {th[u].step : u \in {v \in Threads : th[v] \in R}}
Others(th, t, R) == {th[u].step : u \in {v \in Threads \ {t} : th[v] \in R}}
Own(c, R) == IF c \in R THEN {c.step} ELSE {}
Held(c) == IF Carries(c) THEN {c.step} ELSE {}

Sent == StepsOf(thread, Sending(epoch))
Backs == StepsOf(thread, Backing(epoch))
Forths == StepsOf(thread, Forthing(epoch))
UndoHere == IF logEpoch = epoch THEN undo ELSE <<>>
RedoHere == IF logEpoch = epoch THEN redo ELSE <<>>

WayIsStraight == Straight(doc, Sent, Backs, Forths, UndoHere, RedoHere)

(* No step is newer than the document, no epoch than the session's.        *)
Dated ==
  /\ logEpoch <= epoch
  /\ \A x \in Stack(undo) \cup Stack(redo) : x.rev <= rev
  /\ \A t \in Threads : thread[t].at <= epoch /\ \A x \in Held(thread[t]) : x.rev <= rev

(* A structural edit that is not recorded yet has its revision to itself.  *)
Alone(c, X) == \A x \in X : x.key \in Parts => x.rev # c.step.rev
Distinct ==
  \A t \in Threads : thread[t].pc = "record" /\ thread[t].step.key \in Parts =>
    /\ Alone(thread[t], Stack(undo) \cup Stack(redo))
    /\ \A u \in Threads \ {t} : Alone(thread[t], Held(thread[u]))

AtGatePcs == {"walk", "replay", "push", "return"}
MayHold(c, t, g) == c.pc \in AtGatePcs => g = t /\ (c.pc = "walk" => c.job = "walk")
Gated == \A t \in Threads : MayHold(thread[t], t, gate)

DragsAreKnobs == drag.step # NoStep => drag.step.key \in Knobs

Home ==
  /\ IInv /\ Dated /\ Distinct /\ Gated /\ DragsAreKnobs
  /\ ~mixed => ~Overlap /\ WayIsStraight

LEMMA HomeTypes ==
  ASSUME IInv
  PROVE  /\ undo \in Seq(Step) /\ redo \in Seq(Step) /\ Len(undo) <= Limit
         /\ thread \in [Threads -> Command] /\ \A t \in Threads : Held(thread[t]) \in SUBSET Step
         /\ rev \in Nat /\ epoch \in Nat /\ logEpoch \in Nat /\ \A t \in Threads : thread[t].at \in Nat
         /\ UndoHere \in Seq(Step) /\ RedoHere \in Seq(Step) /\ Len(UndoHere) <= Limit
<1>1. Sound(logEpoch) \subseteq Step
  BY DEF Sound
<1>2. undo \in Seq(Step) /\ redo \in Seq(Step) /\ Len(undo) <= Limit
  BY <1>1, SeqMonotonic DEF IInv, StacksAreSound
<1>3. thread \in [Threads -> FitCommand]
  BY DEF IInv, ThreadsAreFit
<1>4. \A c \in FitCommand : c \in Command /\ c.at \in 0..MaxEpoch /\ Held(c) \in SUBSET Step
  BY DEF FitCommand, Held, Sound
<1>5. thread \in [Threads -> Command]
  BY <1>3, <1>4
<1>6. \A t \in Threads : thread[t].at \in 0..MaxEpoch /\ Held(thread[t]) \in SUBSET Step
  BY <1>3, <1>4
<1>7. rev \in Nat /\ epoch \in Nat /\ logEpoch \in Nat /\ \A n \in 0..MaxEpoch : n \in Nat
  BY BoundsAssumption DEF IInv, SessionTypes, StacksAreSound
<1>8. <<>> \in Seq(Step) /\ Len(<<>>) <= Limit
  BY EmptySeq, BoundsAssumption
<1> QED
  BY <1>2, <1>5, <1>6, <1>7, <1>8 DEF UndoHere, RedoHere

(* One thread's command changes.                                           *)
LEMMA ThreadMoves ==
  ASSUME NEW th \in [Threads -> Command], NEW new \in [Threads -> Command], NEW t \in Threads,
         \A u \in Threads \ {t} : new[u] = th[u], NEW R \in SUBSET Command
  PROVE  /\ StepsOf(th, R) = Others(th, t, R) \cup Own(th[t], R)
         /\ StepsOf(new, R) = Others(th, t, R) \cup Own(new[t], R)
<1>1. StepsOf(th, R) = Others(th, t, R) \cup Own(th[t], R)
  BY DEF StepsOf, Others, Own
<1>2. StepsOf(new, R) = Others(th, t, R) \cup Own(new[t], R)
  BY DEF StepsOf, Others, Own
<1> QED
  BY <1>1, <1>2

(* Who has the gate is the only one to carry a step off a stack.           *)
LEMMA GateIsOwn ==
  ASSUME Gated, NEW t \in Threads, gate \in {Nobody, t}, NEW e
  PROVE  Others(thread, t, Backing(e)) = {} /\ Others(thread, t, Forthing(e)) = {}
<1>1. ASSUME NEW u \in Threads \ {t}, thread[u].pc \in Carrying PROVE FALSE
  <2>1. gate = u /\ u # Nobody
    BY <1>1, ThreadsAssumption DEF Gated, MayHold, Carrying, AtGatePcs
  <2> QED
    BY <2>1
<1> QED
  BY <1>1 DEF Others, Backing, Forthing

(* While a step is carried no edit is on its way, and the other way round. *)
LEMMA NoneSends ==
  ASSUME ~Overlap, NEW t \in Threads, thread[t].pc \in Carrying, NEW e
  PROVE  StepsOf(thread, Sending(e)) = {}
BY DEF Overlap, Recording, Replaying, Carrying, StepsOf, Sending

LEMMA NoneCarries ==
  ASSUME ~Overlap, NEW t \in Threads, thread[t].pc = "record", NEW e
  PROVE  StepsOf(thread, Backing(e)) = {} /\ StepsOf(thread, Forthing(e)) = {}
BY DEF Overlap, Recording, Replaying, Carrying, StepsOf, Backing, Forthing

(* What a step of a thread does to dates, revisions and the gate.          *)
LEMMA BasicsKept ==
  ASSUME IInv, IInv', Dated, Distinct, Gated, NEW t \in Threads, NEW c,
         thread' = [thread EXCEPT ![t] = c],
         rev <= rev', epoch <= epoch', logEpoch' <= epoch', c.at <= epoch',
         \A x \in Held(c) :
           \/ x \in Held(thread[t]) \cup Stack(undo) \cup Stack(redo)
           \/ x.rev <= rev' /\ (x.key \in Knobs \/ rev < x.rev),
         \A x \in Stack(undo') \cup Stack(redo') :
           \/ x \in Held(thread[t]) \cup Stack(undo) \cup Stack(redo)
           \/ x.rev <= rev' /\ x.key \in Knobs,
         c.pc = "record" => c.step.key \in Knobs \/ rev < c.step.rev,
         gate' = gate \/ gate \in {Nobody, t},
         MayHold(c, t, gate')
  PROVE  Dated' /\ Distinct' /\ Gated'
<1>1. thread'[t] = c /\ \A u \in Threads \ {t} : thread'[u] = thread[u]
  BY HomeTypes
<1>2. rev \in Nat /\ rev' \in Nat /\ epoch \in Nat /\ epoch' \in Nat
  <2>1. rev \in 0..MaxRev /\ rev' \in 0..MaxRev /\ epoch \in 0..MaxEpoch /\ epoch' \in 0..MaxEpoch
    BY DEF IInv, SessionTypes
  <2> QED
    BY ONLY <2>1, BoundsAssumption
<1>3. \A x \in Held(thread[t]) \cup Stack(undo) \cup Stack(redo) : x.rev \in Nat
  <2>1. Held(thread[t]) \cup Stack(undo) \cup Stack(redo) \in SUBSET Step
    BY HomeTypes, StacksAreSteps
  <2> QED
    BY <2>1 DEF Step
<1>4. \A k \in Parts : k \notin Knobs
  BY DocumentAssumption
<1>5. Dated'
  <2>3. \A x \in Held(thread[t]) \cup Stack(undo) \cup Stack(redo) : x.rev <= rev'
    BY <1>2, <1>3 DEF Dated
  <2>1. \A x \in Held(c) \cup Stack(undo') \cup Stack(redo') : x.rev <= rev'
    BY <2>3
  <2>2. ASSUME NEW u \in Threads \ {t} PROVE thread'[u].at <= epoch' /\ \A x \in Held(thread'[u]) : x.rev <= rev'
    <3>1. thread'[u] = thread[u] /\ thread[u].at <= epoch /\ thread[u].at \in Nat
      BY <1>1, HomeTypes DEF Dated
    <3>2. \A x \in Held(thread[u]) : x.rev \in Nat /\ x.rev <= rev
      BY HomeTypes DEF Dated, Step
    <3> QED
      BY <1>2, <3>1, <3>2
  <2> QED
    BY <1>1, <2>1, <2>2 DEF Dated
<1>6. Distinct'
  <2> SUFFICES ASSUME NEW v \in Threads, thread'[v].pc = "record", thread'[v].step.key \in Parts
               PROVE  /\ Alone(thread'[v], Stack(undo') \cup Stack(redo'))
                      /\ \A u \in Threads \ {v} : Alone(thread'[v], Held(thread'[u]))
    BY DEF Distinct
  <2>1. \A u \in Threads : \A x \in Held(thread[u]) : x.rev <= rev /\ x.rev \in Nat
    BY HomeTypes DEF Dated, Step
  <2>2. \A x \in Stack(undo) \cup Stack(redo) : x.rev <= rev /\ x.rev \in Nat
    BY <1>3 DEF Dated
  <2>3. CASE v = t
    <3>1. rev < c.step.rev /\ c.step.rev \in Nat
      <4>1. c \in FitCommand /\ Carries(c)
        BY <1>1, <2>3 DEF IInv, ThreadsAreFit, Carries
      <4>2. c.step \in Step
        BY <4>1 DEF FitCommand, Sound
      <4> QED
        BY <1>1, <1>4, <2>3, <4>2 DEF Step
    <3>2. \A x : x.rev <= rev /\ x.rev \in Nat => x.rev # c.step.rev
      BY <1>2, <3>1
    <3>3. Alone(c, Stack(undo') \cup Stack(redo'))
      <4>1. \A x \in Held(thread[t]) \cup Stack(undo) \cup Stack(redo) : x.rev <= rev /\ x.rev \in Nat
        BY <2>1, <2>2
      <4> QED
        BY <1>4, <3>2, <4>1 DEF Alone
    <3>4. \A u \in Threads \ {t} : Alone(c, Held(thread[u]))
      BY <2>1, <3>2 DEF Alone
    <3> QED
      BY <1>1, <2>3, <3>3, <3>4
  <2>4. CASE v # t
    <3>1. thread'[v] = thread[v]
      BY <1>1, <2>4
    <3>2. /\ Alone(thread[v], Stack(undo) \cup Stack(redo))
          /\ \A u \in Threads \ {v} : Alone(thread[v], Held(thread[u]))
      BY <3>1 DEF Distinct
    <3>3. Alone(thread[v], Stack(undo') \cup Stack(redo'))
      BY <1>4, <2>4, <3>2 DEF Alone
    <3>4. thread[v].step.rev <= rev /\ thread[v].step.rev \in Nat
      BY <2>1, <3>1 DEF Held, Carries
    <3>5. \A x : rev < x.rev => x.rev # thread[v].step.rev
      BY <1>2, <3>4
    <3>6. Alone(thread[v], Held(c))
      BY <1>4, <2>4, <3>2, <3>5 DEF Alone
    <3> QED
      BY <1>1, <3>1, <3>2, <3>3, <3>6
  <2> QED
    BY <2>3, <2>4
<1>7. Gated'
  BY <1>1, ThreadsAssumption DEF Gated, MayHold
<1> QED
  BY <1>5, <1>6, <1>7

LEMMA Unmixed ==
  ASSUME NEW t \in Threads, NEW c, Becomes(t, c), ~mixed'
  PROVE  ~mixed /\ ~Overlap' /\ ~Outlived(t)
BY Zenon DEF Becomes

(* The command that a thread goes on with.                                 *)
LEMMA NextCommand ==
  ASSUME IInv, IInv', NEW t \in Threads, NEW c, thread' = [thread EXCEPT ![t] = c]
  PROVE  c \in Command /\ thread'[t] = c /\ \A u \in Threads \ {t} : thread'[u] = thread[u]
<1>1. thread'[t] = c /\ \A u \in Threads \ {t} : thread'[u] = thread[u]
  BY HomeTypes
<1>2. thread'[t] \in FitCommand
  BY DEF IInv, ThreadsAreFit
<1> QED
  BY <1>1, <1>2 DEF FitCommand

(* What is on its way is the others' and the thread's own, in every role.  *)
RolesAdd(t) ==
  /\ Sent = Others(thread, t, Sending(epoch)) \cup Own(thread[t], Sending(epoch))
  /\ Backs = Others(thread, t, Backing(epoch)) \cup Own(thread[t], Backing(epoch))
  /\ Forths = Others(thread, t, Forthing(epoch)) \cup Own(thread[t], Forthing(epoch))
  /\ Sent' = Others(thread, t, Sending(epoch)) \cup Own(thread'[t], Sending(epoch))
  /\ Backs' = Others(thread, t, Backing(epoch)) \cup Own(thread'[t], Backing(epoch))
  /\ Forths' = Others(thread, t, Forthing(epoch)) \cup Own(thread'[t], Forthing(epoch))

LEMMA RolesMove ==
  ASSUME IInv, IInv', NEW t \in Threads, \A u \in Threads \ {t} : thread'[u] = thread[u], epoch' = epoch
  PROVE  RolesAdd(t)
<1>1. thread \in [Threads -> Command] /\ thread' \in [Threads -> Command]
  <2>1. thread' \in [Threads -> FitCommand]
    BY DEF IInv, ThreadsAreFit
  <2> QED
    BY <2>1, HomeTypes DEF FitCommand
<1>2. PICK th : th = thread
  OBVIOUS
<1>3. PICK new : new = thread'
  OBVIOUS
<1>4. PICK e : e = epoch
  OBVIOUS
<1>5. th \in [Threads -> Command] /\ new \in [Threads -> Command] /\ \A u \in Threads \ {t} : new[u] = th[u]
  BY <1>1, <1>2, <1>3
<1>6. ASSUME NEW R \in SUBSET Command
      PROVE  /\ StepsOf(th, R) = Others(th, t, R) \cup Own(th[t], R)
             /\ StepsOf(new, R) = Others(th, t, R) \cup Own(new[t], R)
  BY ONLY <1>5, ThreadMoves
<1>7. Sent = StepsOf(th, Sending(e)) /\ Backs = StepsOf(th, Backing(e)) /\ Forths = StepsOf(th, Forthing(e))
  BY <1>2, <1>4 DEF Sent, Backs, Forths
<1>8. Sent' = StepsOf(new, Sending(e)) /\ Backs' = StepsOf(new, Backing(e)) /\ Forths' = StepsOf(new, Forthing(e))
  BY <1>3, <1>4 DEF Sent, Backs, Forths
<1>9. Sending(e) \in SUBSET Command /\ Backing(e) \in SUBSET Command /\ Forthing(e) \in SUBSET Command
  BY DEF Sending, Backing, Forthing
<1> QED
  BY <1>2, <1>3, <1>4, <1>6, <1>7, <1>8, <1>9 DEF RolesAdd

(* The thread's role is what it was.                                       *)
LEMMA SameRolesLead ==
  ASSUME IInv, IInv', WayIsStraight, NEW t \in Threads, \A u \in Threads \ {t} : thread'[u] = thread[u],
         epoch' = epoch, UNCHANGED log, \A k \in Parts : doc'[k] = doc[k],
         Own(thread'[t], Sending(epoch)) = Own(thread[t], Sending(epoch)),
         Own(thread'[t], Backing(epoch)) = Own(thread[t], Backing(epoch)),
         Own(thread'[t], Forthing(epoch)) = Own(thread[t], Forthing(epoch))
  PROVE  WayIsStraight'
<1>1. Sent' = Sent /\ Backs' = Backs /\ Forths' = Forths
  BY RolesMove DEF RolesAdd
<1>2. UndoHere' = UndoHere /\ RedoHere' = RedoHere
  BY DEF UndoHere, RedoHere, log
<1>3. Straight(doc', Sent, Backs, Forths, UndoHere, RedoHere)
  BY OtherLeads DEF WayIsStraight
<1> QED
  BY <1>1, <1>2, <1>3 DEF WayIsStraight

(* The thread carries nothing, before and after.                           *)
LEMMA QuietKeeps ==
  ASSUME Home, IInv', NEW t \in Threads, NEW c, Becomes(t, c), ~Carries(thread[t]), ~Carries(c),
         c.at <= epoch, rev <= rev', epoch' = epoch, UNCHANGED log, \A k \in Parts : doc'[k] = doc[k],
         gate' = gate \/ gate \in {Nobody, t}, MayHold(c, t, gate'), DragsAreKnobs'
  PROVE  Home'
<1>1. IInv /\ Dated /\ Distinct /\ Gated /\ thread' = [thread EXCEPT ![t] = c]
  BY DEF Home, Becomes
<1>2. epoch \in Nat /\ logEpoch \in Nat /\ logEpoch <= epoch
  BY <1>1, HomeTypes DEF Dated
<1>3. Dated' /\ Distinct' /\ Gated'
  <2>1. Held(c) = {} /\ undo' = undo /\ redo' = redo /\ logEpoch' = logEpoch /\ c.pc # "record"
    BY DEF Held, Carries, log
  <2>2. /\ \A x \in Held(c) : FALSE
        /\ \A x \in Stack(undo') \cup Stack(redo') : x \in Held(thread[t]) \cup Stack(undo) \cup Stack(redo)
    BY <2>1
  <2>3. epoch <= epoch' /\ logEpoch' <= epoch' /\ c.at <= epoch'
    BY <1>2, <2>1
  <2> QED
    BY <1>1, <2>1, <2>2, <2>3, BasicsKept
<1>4. ASSUME ~mixed' PROVE ~Overlap' /\ WayIsStraight'
  <2>1. ~mixed /\ ~Overlap'
    BY <1>4, Unmixed
  <2>2. Own(c, Sending(epoch)) = {} /\ Own(c, Backing(epoch)) = {} /\ Own(c, Forthing(epoch)) = {}
    BY DEF Own, Sending, Backing, Forthing, Carries, Carrying
  <2>3. /\ Own(thread[t], Sending(epoch)) = {} /\ Own(thread[t], Backing(epoch)) = {}
        /\ Own(thread[t], Forthing(epoch)) = {}
    BY DEF Own, Sending, Backing, Forthing, Carries, Carrying
  <2>4. WayIsStraight /\ thread'[t] = c /\ \A u \in Threads \ {t} : thread'[u] = thread[u]
    BY <1>1, <2>1, NextCommand DEF Home
  <2> QED
    BY <1>1, <2>1, <2>2, <2>3, <2>4, SameRolesLead
<1> QED
  BY <1>3, <1>4 DEF Home

(* The steps that leave the document and the log alone.                    *)
LEMMA LeavesStayHome ==
  ASSUME Home, IInv', NEW t \in Threads,
         Refuse(t) \/ PlanWalk(t) \/ WalkEnds(t) \/ Mint(t) \/ MintFails(t) \/ Reread(t)
  PROVE  Home'
<1>1. UNCHANGED <<session, drag, log>> /\ rev' = rev /\ epoch' = epoch /\ doc' = doc
  BY DEF Refuse, PlanWalk, WalkEnds, Mint, MintFails, Reread, session
<1>2. /\ thread[t] \in Command /\ epoch \in Nat /\ logEpoch \in Nat /\ rev \in Nat
      /\ thread[t].at <= epoch /\ logEpoch <= epoch
  <2>1. IInv /\ Dated
    BY DEF Home
  <2> QED
    BY <2>1, HomeTypes DEF Dated
<1>3. DragsAreKnobs' /\ rev <= rev' /\ UNCHANGED log
  BY <1>1, <1>2 DEF Home, DragsAreKnobs
<1>4. Gated /\ (thread[t].pc \in AtGatePcs => gate = t)
  BY DEF Home, Gated, MayHold
<1>5. Idle.pc = "idle" /\ Idle.at = 0 /\ ~Carries(Idle) /\ \A g : MayHold(Idle, t, g)
  BY DEF Idle, Carries, AtGatePcs, MayHold
<1>6. CASE Refuse(t) \/ WalkEnds(t) \/ MintFails(t)
  <2>1. Becomes(t, Idle) /\ (gate' = gate \/ gate \in {Nobody, t}) /\ ~Carries(thread[t])
    BY <1>4, <1>6 DEF Refuse, WalkEnds, MintFails, Leave, Finish, Carries, AtGatePcs
  <2>2. 0 <= epoch
    BY <1>2
  <2> QED
    BY <1>1, <1>3, <1>5, <2>1, <2>2, QuietKeeps
<1>7. CASE PlanWalk(t)
  <2>1. PICK i \in DOMAIN undo :
          Becomes(t, [thread[t] EXCEPT !.pc = "walk", !.at = logEpoch,
                        !.route = [j \in 1..(Len(undo) - i) |-> undo[Len(undo) + 1 - j].rev]])
    BY <1>7 DEF PlanWalk
  <2> DEFINE o == [j \in 1..(Len(undo) - i) |-> undo[Len(undo) + 1 - j].rev]
             c == [thread[t] EXCEPT !.pc = "walk", !.at = logEpoch, !.route = o]
  <2>2. c.pc = "walk" /\ c.at = logEpoch /\ c.job = thread[t].job
    BY <1>2 DEF Command
  <2>3. Becomes(t, c)
    BY <2>1
  <2> HIDE DEF c
  <2>4. gate = Nobody /\ gate' = t /\ thread[t].pc = "gate" /\ thread[t].job = "walk"
    BY <1>7 DEF PlanWalk, Enter
  <2>5. ~Carries(c) /\ ~Carries(thread[t]) /\ c.at <= epoch /\ MayHold(c, t, gate')
    BY <1>2, <2>2, <2>4 DEF Carries, MayHold
  <2> QED
    BY <1>1, <1>3, <2>2, <2>3, <2>4, <2>5, QuietKeeps
<1>8. CASE Mint(t)
  <2> DEFINE c == [thread[t] EXCEPT !.pc = "mint"]
  <2>1. Becomes(t, c) /\ thread[t].pc = "idle" /\ gate' = gate
    BY <1>8 DEF Mint, Goto
  <2>2. c.pc = "mint" /\ c.at = thread[t].at
    BY <1>2 DEF Command
  <2> HIDE DEF c
  <2>3. ~Carries(c) /\ ~Carries(thread[t]) /\ c.at <= epoch /\ MayHold(c, t, gate')
    BY <1>2, <2>1, <2>2 DEF Carries, AtGatePcs, MayHold
  <2> QED
    BY <1>1, <1>3, <2>1, <2>3, QuietKeeps
<1>9. CASE Reread(t)
  <2> DEFINE c == [Idle EXCEPT !.pc = "boundary", !.at = epoch]
  <2>1. Becomes(t, c) /\ thread[t].pc = "reread" /\ gate' = gate
    BY <1>9 DEF Reread, ToBoundary
  <2>2. c.pc = "boundary" /\ c.at = epoch
    BY DEF Idle
  <2> HIDE DEF c
  <2>3. ~Carries(c) /\ ~Carries(thread[t]) /\ c.at <= epoch /\ MayHold(c, t, gate')
    BY <1>2, <2>1, <2>2 DEF Carries, AtGatePcs, MayHold
  <2> QED
    BY <1>1, <1>3, <2>1, <2>3, QuietKeeps
<1> QED
  BY <1>6, <1>7, <1>8, <1>9

(* A transient edit of a drag changes a knob's property only.              *)
LEMMA FoldStaysHome ==
  ASSUME Home, IInv', NEW t \in Threads, Fold(t)
  PROVE  Home'
<1>1. PICK k \in Knobs, v \in Values :
        /\ drag.step = NoStep \/ drag.step.key = k
        /\ Transact(k, v)
        /\ drag' = [drag EXCEPT !.step =
             IF drag.step = NoStep
             THEN [key |-> k, from |-> doc[k], to |-> v, rev |-> 0, made |-> epoch, dragged |-> TRUE]
             ELSE [drag.step EXCEPT !.to = v]]
  BY DEF Fold
<1>2. doc' = [doc EXCEPT ![k] = v] /\ rev' = rev + 1 /\ epoch' = epoch
  BY <1>1 DEF Transact
<1>3. logEpoch' = logEpoch /\ undo' = undo /\ redo' = redo /\ gate' = gate /\ thread' = thread /\ mixed' = mixed
  BY DEF Fold, log
<1>4. IInv /\ rev \in Nat
  BY HomeTypes DEF Home
<1>5. DragsAreKnobs'
  <2>1. drag \in Drag
    BY DEF Home, IInv, DragIsDragged
  <2>2. CASE drag.step = NoStep
    <3> DEFINE s == [key |-> k, from |-> doc[k], to |-> v, rev |-> 0, made |-> epoch, dragged |-> TRUE]
    <3>1. drag' = [drag EXCEPT !.step = s] /\ s.key = k
      BY <1>1, <2>2
    <3> HIDE DEF s
    <3>2. drag'.step = s
      BY <2>1, <3>1 DEF Drag
    <3> QED
      BY <3>1, <3>2 DEF DragsAreKnobs
  <2>3. CASE drag.step # NoStep
    <3> DEFINE s == [drag.step EXCEPT !.to = v]
    <3>1. drag.step \in Step
      BY <2>1, <2>3 DEF Drag
    <3>2. drag' = [drag EXCEPT !.step = s] /\ s.key = k
      BY <1>1, <2>3, <3>1 DEF Step
    <3> HIDE DEF s
    <3>3. drag'.step = s
      BY <2>1, <3>2 DEF Drag
    <3> QED
      BY <3>2, <3>3 DEF DragsAreKnobs
  <2> QED
    BY <2>2, <2>3
<1>6. Dated'
  <2>1. \A x \in Stack(undo) \cup Stack(redo) : x.rev \in Nat
    <3>1. Stack(undo) \cup Stack(redo) \in SUBSET Step
      BY <1>4, HomeTypes, StacksAreSteps
    <3> QED
      BY <3>1 DEF Step
  <2>2. \A u \in Threads : \A x \in Held(thread[u]) : x.rev \in Nat
    BY <1>4, HomeTypes DEF Step
  <2>3. \A r \in Nat : r <= rev => r <= rev + 1
    BY ONLY <1>4
  <2> QED
    BY <1>2, <1>3, <2>1, <2>2, <2>3 DEF Home, Dated
<1>7. Distinct' /\ Gated'
  BY <1>3 DEF Home, Distinct, Gated
<1>8. ASSUME ~mixed' PROVE ~Overlap' /\ WayIsStraight'
  <2>1. ~mixed /\ ~Overlap /\ WayIsStraight
    BY <1>3, <1>8 DEF Home
  <2>2. ~Overlap'
    BY <1>3, <2>1 DEF Overlap, Recording, Replaying
  <2>3. \A p \in Parts : doc'[p] = doc[p]
    <3>1. doc \in Document
      BY DEF Home, IInv, SessionTypes
    <3>2. \A p \in Parts : p # k /\ p \in Keys
      BY DocumentAssumption DEF Keys
    <3> QED
      BY <1>2, <3>1, <3>2 DEF Document
  <2>4. Straight(doc', Sent, Backs, Forths, UndoHere, RedoHere)
    BY <2>1, <2>3, OtherLeads DEF WayIsStraight
  <2>5. Sent' = Sent /\ Backs' = Backs /\ Forths' = Forths /\ UndoHere' = UndoHere /\ RedoHere' = RedoHere
    BY <1>2, <1>3 DEF Sent, Backs, Forths, UndoHere, RedoHere
  <2> QED
    BY <2>2, <2>4, <2>5 DEF WayIsStraight
<1> QED
  BY <1>5, <1>6, <1>7, <1>8 DEF Home

(* While an edit is on its way nobody carries a step, and the other way    *)
(* round.                                                                  *)
LEMMA NobodyElse ==
  ASSUME ~Overlap', NEW t \in Threads, \A u \in Threads \ {t} : thread'[u] = thread[u]
  PROVE  /\ thread'[t].pc = "record" =>
              \A e : Others(thread, t, Backing(e)) = {} /\ Others(thread, t, Forthing(e)) = {}
         /\ thread'[t].pc \in Carrying => \A e : Others(thread, t, Sending(e)) = {}
<1>1. ASSUME thread'[t].pc = "record", NEW u \in Threads \ {t} PROVE thread[u].pc \notin Carrying
  BY <1>1 DEF Overlap, Recording, Replaying, Carrying
<1>2. ASSUME thread'[t].pc \in Carrying, NEW u \in Threads \ {t} PROVE thread[u].pc # "record"
  BY <1>2 DEF Overlap, Recording, Replaying, Carrying
<1>3. thread'[t].pc = "record" =>
        \A e : Others(thread, t, Backing(e)) = {} /\ Others(thread, t, Forthing(e)) = {}
  BY <1>1 DEF Others, Backing, Forthing
<1>4. thread'[t].pc \in Carrying => \A e : Others(thread, t, Sending(e)) = {}
  BY <1>2 DEF Others, Sending
<1> QED
  BY <1>3, <1>4

LEMMA OthersAreSteps ==
  ASSUME IInv, NEW t \in Threads, NEW e
  PROVE  /\ Others(thread, t, Sending(e)) \in SUBSET Step
         /\ Others(thread, t, Backing(e)) \in SUBSET Step
         /\ Others(thread, t, Forthing(e)) \in SUBSET Step
<1>1. \A u \in Threads : Held(thread[u]) \in SUBSET Step
  BY HomeTypes
<1> QED
  BY <1>1 DEF Others, Sending, Backing, Forthing, Held, Carries, Carrying

(* An edit sets out for the log.                                           *)
LEMMA SendLeads ==
  ASSUME Home, IInv', NEW t \in Threads, NEW c, Becomes(t, c), ~mixed', ~Carries(thread[t]),
         c.pc = "record", c.at = epoch, epoch' = epoch, UNCHANGED log,
         \A k \in Parts : k # c.step.key => doc'[k] = doc[k],
         c.step.key \in Parts => c.step.from = doc[c.step.key] /\ doc'[c.step.key] = c.step.to /\ rev < c.step.rev
  PROVE  WayIsStraight'
<1>1. IInv /\ WayIsStraight /\ ~Overlap'
  BY Unmixed DEF Home
<1>2. c \in Command /\ thread'[t] = c /\ \A u \in Threads \ {t} : thread'[u] = thread[u]
  BY <1>1, NextCommand DEF Becomes
<1> DEFINE e == c.step
           S == Others(thread, t, Sending(epoch))
<1>3. e \in Step
  <2>1. c \in FitCommand /\ Carries(c)
    BY <1>2 DEF IInv, ThreadsAreFit, Carries
  <2> QED
    BY <2>1 DEF FitCommand, Sound
<1>4. /\ Own(thread[t], Sending(epoch)) = {} /\ Own(thread[t], Backing(epoch)) = {}
      /\ Own(thread[t], Forthing(epoch)) = {} /\ Own(c, Sending(epoch)) = {e}
      /\ Own(c, Backing(epoch)) = {} /\ Own(c, Forthing(epoch)) = {}
  BY <1>2 DEF Own, Sending, Backing, Forthing, Carries, Carrying
<1>5. Others(thread, t, Backing(epoch)) = {} /\ Others(thread, t, Forthing(epoch)) = {}
  BY <1>1, <1>2, NobodyElse
<1>6. Sent = S /\ Backs = {} /\ Forths = {} /\ Sent' = S \cup {e} /\ Backs' = {} /\ Forths' = {}
  <2>1. RolesAdd(t)
    BY <1>1, <1>2, RolesMove
  <2> QED
    BY <1>2, <1>4, <1>5, <2>1 DEF RolesAdd
<1>7. UndoHere' = UndoHere /\ RedoHere' = RedoHere
  BY DEF UndoHere, RedoHere, log
<1>8. S \in SUBSET Step /\ UndoHere \in Seq(Step)
  BY <1>1, HomeTypes, OthersAreSteps
<1>9. ASSUME e.key \in Parts PROVE \A x \in S \cup Stack(UndoHere) : x.rev < e.rev
  <2>1. \A x \in S \cup Stack(UndoHere) : x.rev <= rev
    <3>1. \A x \in Stack(UndoHere) : x \in Stack(undo)
      BY EmptyStack DEF UndoHere
    <3>2. \A x \in S : \E u \in Threads : x \in Held(thread[u])
      BY DEF Others, Sending, Held, Carries
    <3> QED
      BY <3>1, <3>2 DEF Home, Dated
  <2>2. \A x \in S \cup Stack(UndoHere) : x.rev \in Nat
    BY <1>8, StacksAreSteps DEF Step
  <2>3. rev < e.rev /\ rev \in Nat /\ e.rev \in Nat
    BY <1>1, <1>3, <1>9, HomeTypes DEF Step
  <2> QED
    BY <2>1, <2>2, <2>3
<1> HIDE DEF e, S
<1>10. Straight(doc, S, {}, {}, UndoHere, RedoHere)
  BY <1>1, <1>6 DEF WayIsStraight
<1>11. /\ \A k \in Parts : k # e.key => doc'[k] = doc[k]
       /\ e.key \in Parts => e.from = doc[e.key] /\ doc'[e.key] = e.to
  BY DEF e
<1>12. Straight(doc', S \cup {e}, {}, {}, UndoHere, RedoHere)
  BY <1>3, <1>8, <1>9, <1>10, <1>11, EditLeads
<1> QED
  BY <1>6, <1>7, <1>12 DEF WayIsStraight

LEMMA SendKeeps ==
  ASSUME Home, IInv', NEW t \in Threads, NEW c, Becomes(t, c), ~Carries(thread[t]),
         c.pc = "record", c.at = epoch, epoch' = epoch, UNCHANGED log, gate' = gate, DragsAreKnobs',
         rev <= rev', c.step.rev <= rev', c.step.key \in Knobs \/ rev < c.step.rev,
         \A k \in Parts : k # c.step.key => doc'[k] = doc[k],
         c.step.key \in Parts => c.step.from = doc[c.step.key] /\ doc'[c.step.key] = c.step.to
  PROVE  Home'
<1>1. IInv /\ Dated /\ Distinct /\ Gated /\ thread' = [thread EXCEPT ![t] = c]
  BY DEF Home, Becomes
<1>2. epoch \in Nat /\ logEpoch \in Nat /\ logEpoch <= epoch
  BY <1>1, HomeTypes DEF Dated
<1>3. Dated' /\ Distinct' /\ Gated'
  <2>1. Held(c) = {c.step} /\ undo' = undo /\ redo' = redo /\ logEpoch' = logEpoch /\ MayHold(c, t, gate')
    BY DEF Held, Carries, log, AtGatePcs, MayHold
  <2>2. epoch <= epoch' /\ logEpoch' <= epoch' /\ c.at <= epoch'
    BY <1>2, <2>1
  <2> QED
    BY <1>1, <2>1, <2>2, BasicsKept
<1>4. ASSUME ~mixed' PROVE ~Overlap' /\ WayIsStraight'
  <2>1. ~Overlap'
    BY <1>4, Unmixed
  <2>2. c.step.key \in Parts => rev < c.step.rev
    BY DocumentAssumption
  <2>3. WayIsStraight'
    BY <1>4, <2>2, SendLeads
  <2> QED
    BY <2>1, <2>3
<1> QED
  BY <1>3, <1>4 DEF Home

LEMMA RecordCommand ==
  ASSUME NEW j, NEW s, NEW e
  PROVE  LET c == [Idle EXCEPT !.pc = "record", !.job = j, !.step = s, !.at = e]
         IN  c.pc = "record" /\ c.step = s /\ c.at = e
BY DEF Idle

LEMMA EditStaysHome ==
  ASSUME Home, IInv', NEW t \in Threads, Edit(t)
  PROVE  Home'
<1>1. PICK k \in Keys, v \in Values :
        /\ Transact(k, v)
        /\ IF v = doc[k]
           THEN Finish(t)
           ELSE ToLog(t, "edit", [key |-> k, from |-> doc[k], to |-> v, rev |-> rev + 1,
                                  made |-> epoch, dragged |-> FALSE], epoch)
  BY DEF Edit
<1>2. doc' = [doc EXCEPT ![k] = v] /\ rev' = rev + 1 /\ epoch' = epoch
  BY <1>1 DEF Transact
<1>3. UNCHANGED <<drag, log, gate>> /\ UNCHANGED log /\ gate' = gate /\ thread[t].pc = "idle"
  BY DEF Edit
<1>4. IInv /\ doc \in Document /\ rev \in Nat /\ epoch \in Nat
  BY HomeTypes DEF Home, IInv, SessionTypes
<1>5. ~Carries(thread[t]) /\ DragsAreKnobs' /\ rev <= rev' /\ rev < rev + 1
  BY <1>2, <1>3, <1>4 DEF Carries, Home, DragsAreKnobs
<1>6. /\ \A p \in Parts : p # k => doc'[p] = doc[p]
      /\ doc'[k] = v
  BY <1>2, <1>4 DEF Document, Keys
<1>7. CASE v = doc[k]
  <2>1. Becomes(t, Idle)
    BY <1>1, <1>7 DEF Finish
  <2>2. ~Carries(Idle) /\ Idle.at <= epoch /\ MayHold(Idle, t, gate')
    BY <1>4 DEF Idle, Carries, AtGatePcs, MayHold
  <2>3. \A p \in Parts : doc'[p] = doc[p]
    BY <1>6, <1>7
  <2> QED
    BY <1>2, <1>3, <1>5, <2>1, <2>2, <2>3, QuietKeeps
<1>8. CASE v # doc[k]
  <2> DEFINE s == [key |-> k, from |-> doc[k], to |-> v, rev |-> rev + 1,
                   made |-> epoch, dragged |-> FALSE]
             c == [Idle EXCEPT !.pc = "record", !.job = "edit", !.step = s, !.at = epoch]
  <2>1. Becomes(t, c)
    BY <1>1, <1>8 DEF ToLog
  <2>2. s.key = k /\ s.from = doc[k] /\ s.to = v /\ s.rev = rev + 1
    OBVIOUS
  <2> HIDE DEF s
  <2>3. c.pc = "record" /\ c.step = s /\ c.at = epoch
    BY RecordCommand
  <2> HIDE DEF c
  <2>4. c.step.rev <= rev' /\ rev < c.step.rev
    BY <1>2, <1>4, <1>5, <2>2, <2>3
  <2>5. /\ \A p \in Parts : p # c.step.key => doc'[p] = doc[p]
        /\ c.step.key \in Parts => c.step.from = doc[c.step.key] /\ doc'[c.step.key] = c.step.to
    BY <1>6, <2>2, <2>3
  <2> QED
    BY <1>2, <1>3, <1>5, <2>1, <2>3, <2>4, <2>5, SendKeeps
<1> QED
  BY <1>7, <1>8

LEMMA CloseStaysHome ==
  ASSUME Home, IInv', NEW t \in Threads, NEW j, NEW next, Close(t, j, next),
         ~Carries(next), next.at = 0, next.pc \notin AtGatePcs, DragsAreKnobs'
  PROVE  Home'
<1>1. /\ UNCHANGED log /\ gate' = gate /\ doc' = doc /\ rev' = rev /\ epoch' = epoch /\ thread[t].pc = "idle"
  BY DEF Close, session
<1>2. IInv /\ rev \in Nat /\ epoch \in Nat
  BY HomeTypes DEF Home
<1>3. ~Carries(thread[t]) /\ rev <= rev'
  BY <1>1, <1>2 DEF Carries
<1>4. CASE drag.step = NoStep
  <2>1. Becomes(t, next) /\ next.at <= epoch /\ MayHold(next, t, gate')
    BY <1>2, <1>4 DEF Close, MayHold
  <2> QED
    BY <1>1, <1>3, <2>1, QuietKeeps
<1>5. CASE drag.step # NoStep
  <2> DEFINE s == [drag.step EXCEPT !.rev = rev]
             c == [Idle EXCEPT !.pc = "record", !.job = j, !.step = s, !.at = epoch]
  <2>1. Becomes(t, c)
    BY <1>5 DEF Close, ToLog
  <2>2. s.key \in Knobs /\ s.rev = rev
    <3>1. drag.step \in Step /\ drag.step.key \in Knobs
      BY <1>5 DEF Home, IInv, DragIsDragged, Drag, DragsAreKnobs
    <3> QED
      BY <3>1 DEF Step
  <2> HIDE DEF s
  <2>3. c.pc = "record" /\ c.step = s /\ c.at = epoch
    BY RecordCommand
  <2> HIDE DEF c
  <2>4. c.step.key \in Knobs /\ c.step.rev <= rev' /\ c.step.key \notin Parts
    BY <1>1, <1>2, <2>2, <2>3, DocumentAssumption
  <2>5. \A p \in Parts : doc'[p] = doc[p]
    BY <1>1
  <2> QED
    BY <1>1, <1>3, <2>1, <2>3, <2>4, <2>5, SendKeeps
<1> QED
  BY <1>4, <1>5

LEMMA GesturesStayHome ==
  ASSUME Home, IInv', NEW t \in Threads, GestureBegin(t) \/ GestureEnd(t) \/ AskHistory(t)
  PROVE  Home'
<1>1. DragsAreKnobs'
  <2>1. drag' = [NoDrag EXCEPT !.open = TRUE] \/ drag' = NoDrag
    BY DEF GestureBegin, GestureEnd, AskHistory
  <2>2. drag'.step = NoStep
    BY <2>1 DEF NoDrag
  <2> QED
    BY <2>2 DEF DragsAreKnobs
<1>2. \E j : Close(t, j, Idle) \/ Close(t, j, AtGate(j))
  BY DEF GestureBegin, GestureEnd, AskHistory
<1>3. ~Carries(Idle) /\ Idle.at = 0 /\ Idle.pc \notin AtGatePcs
  BY DEF Idle, Carries, AtGatePcs
<1>4. \A j : ~Carries(AtGate(j)) /\ AtGate(j).at = 0 /\ AtGate(j).pc \notin AtGatePcs
  BY DEF AtGate, Idle, Carries, AtGatePcs
<1>5. PICK j : Close(t, j, Idle) \/ Close(t, j, AtGate(j))
  BY <1>2
<1>6. CASE Close(t, j, Idle)
  BY <1>1, <1>3, <1>6, CloseStaysHome
<1>7. CASE Close(t, j, AtGate(j))
  <2> DEFINE next == AtGate(j)
  <2>1. Close(t, j, next) /\ ~Carries(next) /\ next.at = 0 /\ next.pc \notin AtGatePcs
    BY <1>4, <1>7
  <2> HIDE DEF next
  <2> QED
    BY <1>1, <2>1, CloseStaysHome
<1> QED
  BY <1>5, <1>6, <1>7

(* An edit reaches the log: one of the stacks' own document, or of         *)
(* another.                                                                *)
LEMMA RecordStraight ==
  ASSUME Home, IInv', NEW t \in Threads, Record(t), ~mixed'
  PROVE  WayIsStraight'
<1> DEFINE s == thread[t].step
           S == Others(thread, t, Sending(epoch))
<1>1. PICK c : Becomes(t, c) /\ ~Carries(c)
  <2>1. ~Carries(Idle) /\ \A j : ~Carries(AtGate(j))
    BY DEF Carries, AtGate, Idle
  <2>2. Becomes(t, Idle) \/ Becomes(t, AtGate(thread[t].job))
    BY DEF Record, Finish
  <2> QED
    BY <2>1, <2>2
<1>2. IInv /\ ~mixed /\ ~Overlap /\ WayIsStraight /\ ~Outlived(t) /\ Distinct
  BY <1>1, Unmixed DEF Home
<1>3. c \in Command /\ thread'[t] = c /\ \A u \in Threads \ {t} : thread'[u] = thread[u]
  BY <1>1, <1>2, NextCommand DEF Becomes
<1>4. thread[t].pc = "record" /\ epoch' = epoch /\ doc' = doc /\ logEpoch' = logEpoch
  BY DEF Record, session
<1>5. s \in Step /\ thread[t] \in Command
  <2>1. thread[t] \in FitCommand /\ Carries(thread[t])
    BY <1>2, <1>4 DEF IInv, ThreadsAreFit, Carries
  <2> QED
    BY <2>1 DEF FitCommand, Sound
<1>6. /\ Own(c, Sending(epoch)) = {} /\ Own(c, Backing(epoch)) = {} /\ Own(c, Forthing(epoch)) = {}
      /\ Own(thread[t], Backing(epoch)) = {} /\ Own(thread[t], Forthing(epoch)) = {}
      /\ Own(thread[t], Sending(epoch)) = IF thread[t].at = epoch THEN {s} ELSE {}
  BY <1>1, <1>4, <1>5 DEF Own, Sending, Backing, Forthing, Carries, Carrying
<1>7. Backs = {} /\ Forths = {}
  BY <1>2, <1>4, NoneCarries DEF Backs, Forths
<1>8. /\ Sent = S \cup (IF thread[t].at = epoch THEN {s} ELSE {}) /\ Sent' = S
      /\ Backs' = {} /\ Forths' = {}
  <2>1. RolesAdd(t)
    BY <1>2, <1>3, <1>4, RolesMove
  <2> QED
    BY <1>3, <1>6, <1>7, <2>1 DEF RolesAdd
<1>9. S \in SUBSET Step /\ undo \in Seq(Step) /\ redo \in Seq(Step) /\ Len(undo) <= Limit
  BY <1>2, HomeTypes, OthersAreSteps
<1> HIDE DEF s, S
<1>10. CASE thread[t].at = logEpoch /\ logEpoch = epoch
  <2>1. UndoHere = undo /\ RedoHere = redo /\ UndoHere' = undo' /\ RedoHere' = <<>>
    BY <1>4, <1>10 DEF Record, UndoHere, RedoHere
  <2>2. Straight(doc, S \cup {s}, {}, {}, undo, redo)
    BY <1>2, <1>7, <1>8, <1>10, <2>1 DEF WayIsStraight
  <2>3. Rising(undo)
    BY <2>2 DEF Straight
  <2>4. Gathers(undo, s, undo')
    <3>1. CASE undo' = Insert(undo, s)
      <4>1. \A x \in Stack(undo) : x.key = s.key /\ x.key \in Parts => x.rev # s.rev
        BY <1>2, <1>4 DEF Distinct, Alone, s
      <4>2. Joins(undo, s, Insert(undo, s))
        BY <1>5, <1>9, <2>3, <4>1, InsertJoins
      <4> QED
        BY <3>1, <4>2, JoinsGathers
    <3>2. CASE Merges(undo, s) /\ undo' = Merged(undo, s)
      BY <1>5, <1>9, <2>3, <3>2, MergedGathers
    <3> QED
      BY <1>10, <3>1, <3>2 DEF Record, s
  <2>5. Straight(doc, S, {}, {}, undo', <<>>)
    BY <1>5, <1>9, <2>2, <2>4, RecordLeads
  <2> QED
    BY <1>4, <1>8, <2>1, <2>5 DEF WayIsStraight
<1>11. CASE logEpoch # epoch /\ thread[t].at = epoch
  <2>1. UndoHere = <<>> /\ RedoHere = <<>> /\ UndoHere' = <<>> /\ RedoHere' = <<>>
    BY <1>4, <1>11 DEF UndoHere, RedoHere
  <2>2. Straight(doc, S \cup {s}, {}, {}, <<>>, <<>>)
    BY <1>2, <1>7, <1>8, <1>11, <2>1 DEF WayIsStraight
  <2>3. \A x \in S : s.rev <= x.rev
    <3> SUFFICES ASSUME NEW u \in Threads \ {t}, thread[u] \in Sending(epoch)
                 PROVE  s.rev <= thread[u].step.rev
      BY DEF S, Others
    <3>1. ~(thread[u].step.rev < s.rev)
      BY <1>2, <1>4, <1>11 DEF Outlived, Recording, Sending, s
    <3>2. thread[u].step \in Step
      <4>1. Carries(thread[u])
        BY DEF Sending, Carries
      <4> QED
        BY <1>2, <4>1, HomeTypes DEF Held
    <3> QED
      BY <1>5, <3>1, <3>2 DEF Step
  <2>4. Straight(doc, S, {}, {}, <<>>, <<>>)
    BY <1>5, <1>9, <2>2, <2>3, LateLeads
  <2> QED
    BY <1>4, <1>8, <2>1, <2>4 DEF WayIsStraight
<1>12. CASE logEpoch # epoch /\ thread[t].at # epoch
  <2>1. UndoHere' = UndoHere /\ RedoHere' = RedoHere
    BY <1>4, <1>12 DEF UndoHere, RedoHere
  <2>2. Sent' = Sent /\ Backs' = Backs /\ Forths' = Forths
    BY <1>7, <1>8, <1>12
  <2> QED
    BY <1>2, <1>4, <2>1, <2>2 DEF WayIsStraight
<1>13. CASE logEpoch = epoch /\ thread[t].at # epoch
  <2>1. UndoHere' = UndoHere /\ RedoHere' = RedoHere
    BY <1>4, <1>13 DEF Record, UndoHere, RedoHere
  <2>2. Sent' = Sent /\ Backs' = Backs /\ Forths' = Forths
    BY <1>7, <1>8, <1>13
  <2> QED
    BY <1>2, <1>4, <2>1, <2>2 DEF WayIsStraight
<1> QED
  BY <1>10, <1>11, <1>12, <1>13

LEMMA RecordStaysHome ==
  ASSUME Home, IInv', NEW t \in Threads, Record(t)
  PROVE  Home'
<1>1. PICK c : Becomes(t, c) /\ ~Carries(c) /\ c.at = 0 /\ c.pc \notin AtGatePcs
  <2>1. ~Carries(Idle) /\ Idle.at = 0 /\ Idle.pc \notin AtGatePcs
    BY DEF Carries, Idle, AtGatePcs
  <2>2. \A j : ~Carries(AtGate(j)) /\ AtGate(j).at = 0 /\ AtGate(j).pc \notin AtGatePcs
    BY DEF Carries, AtGate, Idle, AtGatePcs
  <2>3. Becomes(t, Idle) \/ Becomes(t, AtGate(thread[t].job))
    BY DEF Record, Finish
  <2> QED
    BY <2>1, <2>2, <2>3
<1>2. /\ thread[t].pc = "record" /\ epoch' = epoch /\ rev' = rev /\ logEpoch' = logEpoch /\ gate' = gate
      /\ drag' = drag
  BY DEF Record, session
<1>3. IInv /\ Dated /\ Distinct /\ Gated /\ rev \in Nat /\ epoch \in Nat /\ logEpoch \in Nat
  BY HomeTypes DEF Home
<1> DEFINE s == thread[t].step
<1>4. s \in Held(thread[t]) /\ s.rev <= rev
  BY <1>2, <1>3 DEF Held, Carries, Dated
<1>5. \A x \in Stack(undo') \cup Stack(redo') :
        x \in Held(thread[t]) \cup Stack(undo) \cup Stack(redo) \/ (x.rev <= rev' /\ x.key \in Knobs)
  <2>1. CASE thread[t].at = logEpoch
    <3>1. redo' = <<>> /\ (undo' = Insert(undo, s) \/ (Merges(undo, s) /\ undo' = Merged(undo, s)))
      BY <2>1 DEF Record
    <3>2. undo \in Seq(Step) /\ Len(undo) <= Limit /\ s \in Step
      <4>1. Held(thread[t]) \in SUBSET Step
        BY <1>3, HomeTypes
      <4> QED
        BY <1>3, <1>4, <4>1, HomeTypes
    <3> HIDE DEF s
    <3>3. \A x \in Stack(Insert(undo, s)) : x \in Stack(undo) \cup {s}
      BY <3>2, InsertFrom
    <3>4. Merges(undo, s) => \A x \in Stack(Merged(undo, s)) : x \in Stack(undo) \/ (x.rev = s.rev /\ x.key \in Knobs)
      BY <3>2, MergedFrom
    <3> QED
      BY <1>2, <1>4, <3>1, <3>3, <3>4, EmptyStack
  <2>2. CASE thread[t].at # logEpoch
    BY <2>2 DEF Record
  <2> QED
    BY <2>1, <2>2
<1>6. Dated' /\ Distinct' /\ Gated'
  <2>1. Held(c) = {} /\ c.pc # "record" /\ thread' = [thread EXCEPT ![t] = c] /\ MayHold(c, t, gate')
    BY <1>1 DEF Held, Carries, Becomes, MayHold
  <2>2. rev <= rev' /\ epoch <= epoch' /\ logEpoch' <= epoch' /\ c.at <= epoch'
    BY <1>1, <1>2, <1>3 DEF Dated
  <2> QED
    BY <1>1, <1>2, <1>3, <1>5, <2>1, <2>2, BasicsKept
<1>7. DragsAreKnobs'
  BY <1>2 DEF Home, DragsAreKnobs
<1>8. ASSUME ~mixed' PROVE ~Overlap' /\ WayIsStraight'
  BY <1>1, <1>8, Unmixed, RecordStraight
<1> QED
  BY <1>6, <1>7, <1>8 DEF Home

(* A step is taken off a stack, and nothing else happens.                  *)
Takes(t, c, s) ==
  /\ Becomes(t, c) /\ c.pc \in {"replay", "return"} /\ c.step = s /\ c.at = logEpoch
  /\ ~Carries(thread[t]) /\ gate \in {Nobody, t} /\ gate' = t
  /\ doc' = doc /\ rev' = rev /\ epoch' = epoch /\ logEpoch' = logEpoch /\ drag' = drag

LEMMA TakesKeeps ==
  ASSUME Home, IInv', NEW t \in Threads, NEW c, NEW s, Takes(t, c, s),
         s \in Stack(undo) \cup Stack(redo),
         Stack(undo') \subseteq Stack(undo), Stack(redo') \subseteq Stack(redo)
  PROVE  Dated' /\ Distinct' /\ Gated' /\ DragsAreKnobs'
<1>1. /\ IInv /\ Dated /\ Distinct /\ Gated /\ DragsAreKnobs
      /\ rev \in Nat /\ epoch \in Nat /\ logEpoch \in Nat /\ logEpoch <= epoch
  BY HomeTypes DEF Home, Dated
<1>2. Held(c) = {s} /\ c.pc # "record" /\ thread' = [thread EXCEPT ![t] = c] /\ MayHold(c, t, gate')
  BY DEF Takes, Held, Carries, Becomes, MayHold
<1>3. /\ rev <= rev' /\ epoch <= epoch' /\ logEpoch' <= epoch' /\ c.at <= epoch'
      /\ gate \in {Nobody, t} /\ drag' = drag
  BY <1>1 DEF Takes
<1>4. Dated' /\ Distinct' /\ Gated'
  BY <1>1, <1>2, <1>3, BasicsKept
<1> QED
  BY <1>1, <1>3, <1>4 DEF DragsAreKnobs

(* Before nothing was on its way, after it the step is.                    *)
LEMMA TakesRoles ==
  ASSUME Home, IInv', NEW t \in Threads, NEW c, NEW s, Takes(t, c, s), ~mixed'
  PROVE  /\ ~Overlap' /\ WayIsStraight /\ s \in Step
         /\ Sent = {} /\ Backs = {} /\ Forths = {} /\ Sent' = {}
         /\ Backs' = IF logEpoch = epoch /\ c.job # "redo" THEN {s} ELSE {}
         /\ Forths' = IF logEpoch = epoch /\ c.job = "redo" THEN {s} ELSE {}
<1>1. IInv /\ WayIsStraight /\ Gated /\ ~Overlap' /\ thread' = [thread EXCEPT ![t] = c]
  BY Unmixed DEF Home, Takes, Becomes
<1>2. c \in Command /\ thread'[t] = c /\ \A u \in Threads \ {t} : thread'[u] = thread[u]
  BY <1>1, NextCommand
<1>3. s \in Step
  <2>1. c \in FitCommand /\ Carries(c)
    BY <1>2 DEF IInv, ThreadsAreFit, Takes, Carries
  <2> QED
    BY <2>1 DEF FitCommand, Sound, Takes
<1>4. /\ Others(thread, t, Backing(epoch)) = {} /\ Others(thread, t, Forthing(epoch)) = {}
      /\ Others(thread, t, Sending(epoch)) = {}
  <2>1. gate \in {Nobody, t} /\ c.pc \in Carrying
    BY DEF Takes, Carrying
  <2> QED
    BY <1>1, <1>2, <2>1, GateIsOwn, NobodyElse
<1>5. /\ Own(thread[t], Sending(epoch)) = {} /\ Own(thread[t], Backing(epoch)) = {}
      /\ Own(thread[t], Forthing(epoch)) = {} /\ Own(c, Sending(epoch)) = {}
      /\ Own(c, Backing(epoch)) = IF logEpoch = epoch /\ c.job # "redo" THEN {s} ELSE {}
      /\ Own(c, Forthing(epoch)) = IF logEpoch = epoch /\ c.job = "redo" THEN {s} ELSE {}
  BY <1>2 DEF Takes, Own, Sending, Backing, Forthing, Carries, Carrying
<1>6. RolesAdd(t)
  BY <1>1, <1>2, RolesMove DEF Takes
<1> QED
  BY <1>1, <1>2, <1>3, <1>4, <1>5, <1>6 DEF RolesAdd

LEMMA TakeBackStaysHome ==
  ASSUME Home, IInv', NEW t \in Threads, NEW c, Takes(t, c, Last(undo)), c.job # "redo",
         undo # <<>>, undo' = Front(undo), redo' = redo
  PROVE  Home'
<1> DEFINE s == Last(undo)
<1>1. undo \in Seq(Step) /\ redo \in Seq(Step)
  BY HomeTypes DEF Home
<1>2. s \in Stack(undo) /\ Stack(undo') \subseteq Stack(undo)
  BY <1>1, FrontRises
<1>3. Dated' /\ Distinct' /\ Gated' /\ DragsAreKnobs'
  BY <1>2, TakesKeeps
<1>4. ASSUME ~mixed' PROVE ~Overlap' /\ WayIsStraight'
  <2>1. /\ ~Overlap' /\ WayIsStraight /\ s \in Step
        /\ Sent = {} /\ Backs = {} /\ Forths = {} /\ Sent' = {}
        /\ Backs' = IF logEpoch = epoch THEN {s} ELSE {}
        /\ Forths' = {}
    BY <1>4, TakesRoles
  <2>2. doc' = doc /\ epoch' = epoch /\ logEpoch' = logEpoch
    BY DEF Takes
  <2>3. CASE logEpoch = epoch
    <3>1. UndoHere = undo /\ RedoHere = redo /\ UndoHere' = undo' /\ RedoHere' = redo
      BY <2>2, <2>3 DEF UndoHere, RedoHere
    <3>2. Straight(doc, {}, {}, {}, undo, redo)
      BY <2>1, <3>1 DEF WayIsStraight
    <3>3. Straight(doc, {}, {s}, {}, undo', redo)
      BY <1>1, <3>2, PopUndoLeads
    <3> QED
      BY <2>1, <2>2, <2>3, <3>1, <3>3 DEF WayIsStraight
  <2>4. CASE logEpoch # epoch
    <3>1. UndoHere = UndoHere' /\ RedoHere = RedoHere' /\ Backs' = {}
      BY <2>1, <2>2, <2>4 DEF UndoHere, RedoHere
    <3> QED
      BY <2>1, <2>2, <3>1 DEF WayIsStraight
  <2> QED
    BY <2>1, <2>3, <2>4
<1> QED
  BY <1>3, <1>4 DEF Home

LEMMA TakeForthStaysHome ==
  ASSUME Home, IInv', NEW t \in Threads, NEW c, Takes(t, c, Last(redo)), c.job = "redo",
         redo # <<>>, redo' = Front(redo), undo' = undo
  PROVE  Home'
<1> DEFINE s == Last(redo)
<1>1. undo \in Seq(Step) /\ redo \in Seq(Step)
  BY HomeTypes DEF Home
<1>2. s \in Stack(redo) /\ Stack(redo') \subseteq Stack(redo)
  BY <1>1, FrontRises
<1>3. Dated' /\ Distinct' /\ Gated' /\ DragsAreKnobs'
  BY <1>2, TakesKeeps
<1>4. ASSUME ~mixed' PROVE ~Overlap' /\ WayIsStraight'
  <2>1. /\ ~Overlap' /\ WayIsStraight /\ s \in Step
        /\ Sent = {} /\ Backs = {} /\ Forths = {} /\ Sent' = {}
        /\ Backs' = {}
        /\ Forths' = IF logEpoch = epoch THEN {s} ELSE {}
    BY <1>4, TakesRoles
  <2>2. doc' = doc /\ epoch' = epoch /\ logEpoch' = logEpoch
    BY DEF Takes
  <2>3. CASE logEpoch = epoch
    <3>1. UndoHere = undo /\ RedoHere = redo /\ UndoHere' = undo /\ RedoHere' = redo'
      BY <2>2, <2>3 DEF UndoHere, RedoHere
    <3>2. Straight(doc, {}, {}, {}, undo, redo)
      BY <2>1, <3>1 DEF WayIsStraight
    <3>3. Straight(doc, {}, {}, {s}, undo, redo')
      BY <1>1, <3>2, PopRedoLeads
    <3> QED
      BY <2>1, <2>2, <2>3, <3>1, <3>3 DEF WayIsStraight
  <2>4. CASE logEpoch # epoch
    <3>1. UndoHere = UndoHere' /\ RedoHere = RedoHere' /\ Forths' = {}
      BY <2>1, <2>2, <2>4 DEF UndoHere, RedoHere
    <3> QED
      BY <2>1, <2>2, <3>1 DEF WayIsStraight
  <2> QED
    BY <2>1, <2>3, <2>4
<1> QED
  BY <1>3, <1>4 DEF Home

LEMMA PopsStayHome ==
  ASSUME Home, IInv', NEW t \in Threads, PopUndo(t) \/ PopRedo(t) \/ WalkPops(t)
  PROVE  Home'
<1>1. thread[t] \in Command /\ Gated
  BY HomeTypes DEF Home
<1>2. doc' = doc /\ rev' = rev /\ epoch' = epoch /\ logEpoch' = logEpoch /\ drag' = drag
  BY DEF PopUndo, PopRedo, WalkPops, session
<1>3. \A l, s : LET c == [thread[t] EXCEPT !.pc = l, !.step = s, !.at = logEpoch]
                IN  c.pc = l /\ c.step = s /\ c.at = logEpoch /\ c.job = thread[t].job
  BY <1>1 DEF Command
<1>4. CASE PopUndo(t)
  <2> DEFINE c == [thread[t] EXCEPT !.pc = "replay", !.step = Last(undo), !.at = logEpoch]
  <2>1. c.pc = "replay" /\ c.step = Last(undo) /\ c.at = logEpoch /\ c.job = thread[t].job
    BY <1>3
  <2>2. Becomes(t, c)
    BY <1>4 DEF PopUndo, Carry
  <2> HIDE DEF c
  <2>3. thread[t].pc = "gate" /\ thread[t].job = "undo" /\ gate = Nobody /\ gate' = t
    BY <1>4 DEF PopUndo, Enter
  <2>4. Takes(t, c, Last(undo)) /\ c.job # "redo"
    BY <1>2, <2>1, <2>2, <2>3 DEF Takes, Carries
  <2> QED
    BY <1>4, <2>4, TakeBackStaysHome DEF PopUndo
<1>5. CASE PopRedo(t)
  <2> DEFINE c == [thread[t] EXCEPT !.pc = "replay", !.step = Last(redo), !.at = logEpoch]
  <2>1. c.pc = "replay" /\ c.step = Last(redo) /\ c.at = logEpoch /\ c.job = thread[t].job
    BY <1>3
  <2>2. Becomes(t, c)
    BY <1>5 DEF PopRedo, Carry
  <2> HIDE DEF c
  <2>3. thread[t].pc = "gate" /\ thread[t].job = "redo" /\ gate = Nobody /\ gate' = t
    BY <1>5 DEF PopRedo, Enter
  <2>4. Takes(t, c, Last(redo)) /\ c.job = "redo"
    BY <1>2, <2>1, <2>2, <2>3 DEF Takes, Carries
  <2> QED
    BY <1>5, <2>4, TakeForthStaysHome DEF PopRedo
<1>6. CASE WalkPops(t)
  <2>1. PICK c : /\ Becomes(t, c) /\ c.pc \in {"replay", "return"} /\ c.step = Last(undo)
                 /\ c.at = logEpoch /\ c.job = thread[t].job
    <3> DEFINE l == IF thread[t].at = logEpoch THEN "replay" ELSE "return"
               s == Last(undo)
               o == Tail(thread[t].route)
               c == [thread[t] EXCEPT !.pc = l, !.step = s, !.at = logEpoch, !.route = o]
    <3>1. Becomes(t, c)
      BY <1>6 DEF WalkPops
    <3>2. c.pc = l /\ c.step = s /\ c.at = logEpoch /\ c.job = thread[t].job
      BY <1>1 DEF Command
    <3> HIDE DEF c
    <3> QED
      BY <3>1, <3>2
  <2>2. thread[t].pc = "walk" /\ gate' = gate /\ undo # <<>> /\ undo' = Front(undo) /\ redo' = redo
    BY <1>6 DEF WalkPops, OnRoute
  <2>3. gate = t /\ thread[t].job = "walk"
    BY <1>1, <2>2 DEF Gated, MayHold, AtGatePcs
  <2>4. Takes(t, c, Last(undo)) /\ c.job # "redo"
    BY <1>2, <2>1, <2>2, <2>3 DEF Takes, Carries
  <2> QED
    BY <2>2, <2>4, TakeBackStaysHome
<1> QED
  BY <1>4, <1>5, <1>6

(* Who carries a step has the gate, and no edit is on its way.             *)
LEMMA CarriesAlone ==
  ASSUME Home, NEW t \in Threads, thread[t].pc \in Carrying
  PROVE  /\ gate = t /\ thread[t] \in Command /\ thread[t].step \in Step /\ thread[t].step.rev <= rev
         /\ Others(thread, t, Backing(epoch)) = {} /\ Others(thread, t, Forthing(epoch)) = {}
         /\ ~mixed => Sent = {}
<1>1. IInv /\ Gated /\ Dated
  BY DEF Home
<1>2. gate = t
  BY <1>1 DEF Gated, MayHold, Carrying, AtGatePcs
<1>3. thread[t] \in Command /\ thread[t].step \in Step /\ thread[t].step.rev <= rev
  <2>1. Held(thread[t]) = {thread[t].step}
    BY DEF Held, Carries, Carrying
  <2> QED
    BY <1>1, <2>1, HomeTypes DEF Dated
<1>4. ~mixed => Sent = {}
  BY NoneSends DEF Home, Sent
<1> QED
  BY <1>1, <1>2, <1>3, <1>4, GateIsOwn

(* commit_replay: the step's part in the way changes sides.                *)
LEMMA ReplayStraight ==
  ASSUME Home, IInv', NEW t \in Threads, Replay(t), ~mixed'
  PROVE  WayIsStraight'
<1> DEFINE s == thread[t].step
           c == [thread[t] EXCEPT !.pc = "push"]
<1>1. Becomes(t, c) /\ thread[t].pc = "replay" /\ thread[t].at = epoch
  BY DEF Replay, Goto
<1>2. IInv /\ ~mixed /\ WayIsStraight
  BY <1>1, Unmixed DEF Home
<1>3. /\ thread[t] \in Command /\ s \in Step /\ Sent = {}
      /\ Others(thread, t, Backing(epoch)) = {} /\ Others(thread, t, Forthing(epoch)) = {}
  BY <1>1, <1>2, CarriesAlone DEF Carrying
<1>4. c.pc = "push" /\ c.step = s /\ c.at = epoch /\ c.job = thread[t].job
  BY <1>1, <1>3 DEF Command
<1> HIDE DEF c
<1>5. c \in Command /\ thread'[t] = c /\ \A u \in Threads \ {t} : thread'[u] = thread[u]
  BY <1>1, <1>2, NextCommand DEF Becomes
<1>6. epoch' = epoch /\ UndoHere' = UndoHere /\ RedoHere' = RedoHere
  BY DEF Replay, Transact, UndoHere, RedoHere, log
<1>7. RolesAdd(t)
  BY <1>2, <1>5, <1>6, RolesMove
<1>8. Own(thread[t], Sending(epoch)) = {} /\ Own(c, Sending(epoch)) = {}
  BY <1>1, <1>4 DEF Own, Sending
<1>9. Sent' = {}
  BY <1>3, <1>5, <1>7, <1>8 DEF RolesAdd
<1>10. UndoHere \in Seq(Step) /\ RedoHere \in Seq(Step) /\ doc \in Document
  BY <1>2, HomeTypes DEF IInv, SessionTypes
<1>11. \A p \in Parts : p \in Keys
  BY DEF Keys
<1>12. CASE thread[t].job # "redo"
  <2>1. /\ Own(thread[t], Backing(epoch)) = {s} /\ Own(thread[t], Forthing(epoch)) = {}
        /\ Own(c, Backing(epoch)) = {} /\ Own(c, Forthing(epoch)) = {s}
    BY <1>1, <1>3, <1>4, <1>5, <1>12 DEF Own, Backing, Forthing, Carrying
  <2>2. Backs = {s} /\ Forths = {} /\ Backs' = {} /\ Forths' = {s}
    BY <1>3, <1>5, <1>7, <2>1 DEF RolesAdd
  <2>3. doc' = [doc EXCEPT ![s.key] = s.from]
    BY <1>12 DEF Replay, Transact
  <2> HIDE DEF s
  <2>4. \A p \in Parts : doc'[p] = IF p = s.key THEN s.from ELSE doc[p]
    BY <1>10, <1>11, <2>3 DEF Document
  <2>5. Straight(doc, {}, {s}, {}, UndoHere, RedoHere)
    BY <1>2, <1>3, <2>2 DEF WayIsStraight
  <2>6. Straight(doc', {}, {}, {s}, UndoHere, RedoHere)
    BY <1>3, <1>10, <2>4, <2>5, BackLeads
  <2> QED
    BY <1>6, <1>9, <2>2, <2>6 DEF WayIsStraight
<1>13. CASE thread[t].job = "redo"
  <2>1. /\ Own(thread[t], Backing(epoch)) = {} /\ Own(thread[t], Forthing(epoch)) = {s}
        /\ Own(c, Backing(epoch)) = {s} /\ Own(c, Forthing(epoch)) = {}
    BY <1>1, <1>3, <1>4, <1>5, <1>13 DEF Own, Backing, Forthing, Carrying
  <2>2. Backs = {} /\ Forths = {s} /\ Backs' = {s} /\ Forths' = {}
    BY <1>3, <1>5, <1>7, <2>1 DEF RolesAdd
  <2>3. doc' = [doc EXCEPT ![s.key] = s.to]
    BY <1>13 DEF Replay, Transact
  <2> HIDE DEF s
  <2>4. \A p \in Parts : doc'[p] = IF p = s.key THEN s.to ELSE doc[p]
    BY <1>10, <1>11, <2>3 DEF Document
  <2>5. Straight(doc, {}, {}, {s}, UndoHere, RedoHere)
    BY <1>2, <1>3, <2>2 DEF WayIsStraight
  <2>6. Straight(doc', {}, {s}, {}, UndoHere, RedoHere)
    BY <1>3, <1>10, <2>4, <2>5, ForthLeads
  <2> QED
    BY <1>6, <1>9, <2>2, <2>6 DEF WayIsStraight
<1> QED
  BY <1>12, <1>13

LEMMA ReplaysStayStraight ==
  ASSUME Home, IInv', NEW t \in Threads, Replay(t) \/ ReplayFails(t)
  PROVE  Home'
<1> DEFINE C(l) == [thread[t] EXCEPT !.pc = l]
<1>1. thread[t].pc = "replay" /\ gate' = gate /\ epoch' = epoch /\ UNCHANGED log /\ drag' = drag
  BY DEF Replay, ReplayFails, Transact, session
<1>2. /\ gate = t /\ thread[t] \in Command /\ thread[t].step \in Step
      /\ IInv /\ Dated /\ Distinct /\ Gated /\ DragsAreKnobs /\ rev \in Nat /\ epoch \in Nat /\ logEpoch \in Nat
  BY <1>1, CarriesAlone, HomeTypes DEF Home, Carrying
<1>3. PICK c : /\ Becomes(t, c) /\ c.pc \in {"push", "return"} /\ (ReplayFails(t) => c.pc = "return")
               /\ c.step = thread[t].step /\ c.at = thread[t].at /\ c.job = thread[t].job
  <2>1. \A l : C(l).pc = l /\ C(l).step = thread[t].step /\ C(l).at = thread[t].at /\ C(l).job = thread[t].job
    BY <1>2 DEF Command
  <2>2. CASE Replay(t) /\ ~ReplayFails(t)
    <3>1. Becomes(t, C("push"))
      BY <2>2 DEF Replay, Goto
    <3> HIDE DEF C
    <3> QED
      BY <2>1, <2>2, <3>1
  <2>3. CASE ReplayFails(t)
    <3>1. Becomes(t, C("return"))
      BY <2>3 DEF ReplayFails, Goto
    <3> HIDE DEF C
    <3> QED
      BY <2>1, <3>1
  <2> QED
    BY <2>2, <2>3
<1>4. rev <= rev'
  BY <1>2 DEF Replay, ReplayFails, Transact, session
<1>5. Dated' /\ Distinct' /\ Gated'
  <2>1. /\ Held(c) = {thread[t].step} /\ Held(thread[t]) = {thread[t].step} /\ c.pc # "record"
        /\ thread' = [thread EXCEPT ![t] = c] /\ MayHold(c, t, gate')
        /\ undo' = undo /\ redo' = redo /\ logEpoch' = logEpoch
    BY <1>1, <1>2, <1>3 DEF Held, Carries, Becomes, MayHold, log
  <2>2. epoch <= epoch' /\ logEpoch' <= epoch' /\ c.at <= epoch'
    BY <1>1, <1>2, <1>3, <2>1 DEF Dated
  <2> QED
    BY <1>1, <1>2, <1>4, <2>1, <2>2, BasicsKept
<1>6. ASSUME ~mixed' PROVE ~Overlap' /\ WayIsStraight'
  <2>1. ~mixed /\ ~Overlap' /\ WayIsStraight
    BY <1>3, <1>6, Unmixed DEF Home
  <2>2. CASE Replay(t)
    BY <1>6, <2>1, <2>2, ReplayStraight
  <2>3. CASE ReplayFails(t)
    <3>1. c \in Command /\ thread'[t] = c /\ \A u \in Threads \ {t} : thread'[u] = thread[u]
      BY <1>2, <1>3, NextCommand DEF Becomes
    <3>2. /\ Own(c, Sending(epoch)) = Own(thread[t], Sending(epoch))
          /\ Own(c, Backing(epoch)) = Own(thread[t], Backing(epoch))
          /\ Own(c, Forthing(epoch)) = Own(thread[t], Forthing(epoch))
      BY <1>1, <1>2, <1>3, <2>3, <3>1 DEF Own, Sending, Backing, Forthing, Carrying
    <3>3. \A k \in Parts : doc'[k] = doc[k]
      BY <2>3 DEF ReplayFails, session
    <3> QED
      BY <1>1, <1>2, <2>1, <3>1, <3>2, <3>3, SameRolesLead
  <2> QED
    BY <2>2, <2>3
<1>7. DragsAreKnobs'
  BY <1>1, <1>2 DEF DragsAreKnobs
<1> QED
  BY <1>5, <1>6, <1>7 DEF Home

(* push_undo_unchanged and push_redo: a step goes back on the stack that   *)
(* its part in the way is on.                                              *)
Puts(t) == IF thread[t].job = "redo" <=> thread[t].pc = "push" THEN ToUndo(t) ELSE ToRedo(t)

LEMMA PutsStraight ==
  ASSUME Home, IInv', NEW t \in Threads, thread[t].pc \in {"push", "return"}, Puts(t),
         NEW c, Becomes(t, c), ~Carries(c), doc' = doc, epoch' = epoch, logEpoch' = logEpoch, ~mixed'
  PROVE  WayIsStraight'
<1> DEFINE s == thread[t].step
           back == thread[t].job = "redo" <=> thread[t].pc = "push"
<1>1. IInv /\ ~mixed /\ WayIsStraight
  BY Unmixed DEF Home
<1>2. /\ thread[t] \in Command /\ s \in Step /\ Sent = {}
      /\ Others(thread, t, Backing(epoch)) = {} /\ Others(thread, t, Forthing(epoch)) = {}
  BY <1>1, CarriesAlone DEF Carrying
<1>3. c \in Command /\ thread'[t] = c /\ \A u \in Threads \ {t} : thread'[u] = thread[u]
  BY <1>1, NextCommand DEF Becomes
<1>4. RolesAdd(t)
  BY <1>1, <1>3, RolesMove
<1>5. /\ Own(c, Sending(epoch)) = {} /\ Own(c, Backing(epoch)) = {} /\ Own(c, Forthing(epoch)) = {}
      /\ Own(thread[t], Sending(epoch)) = {}
  BY DEF Own, Sending, Backing, Forthing, Carries, Carrying
<1>6. /\ Own(thread[t], Backing(epoch)) = IF thread[t].at = epoch /\ back THEN {s} ELSE {}
      /\ Own(thread[t], Forthing(epoch)) = IF thread[t].at = epoch /\ ~back THEN {s} ELSE {}
  BY <1>2 DEF Own, Backing, Forthing, Carrying
<1>7. Sent' = {} /\ Backs' = {} /\ Forths' = {}
  BY <1>2, <1>3, <1>4, <1>5 DEF RolesAdd
<1>8. undo \in Seq(Step) /\ redo \in Seq(Step) /\ Len(undo) <= Limit
  BY <1>1, HomeTypes
<1>9. CASE logEpoch # epoch
  <2>1. UndoHere' = <<>> /\ RedoHere' = <<>>
    BY <1>9 DEF UndoHere, RedoHere
  <2>2. Straight(doc, {}, {}, {}, <<>>, <<>>)
    BY NothingLeads
  <2> QED
    BY <1>7, <2>1, <2>2 DEF WayIsStraight
<1>10. CASE logEpoch = epoch /\ thread[t].at # epoch
  <2>1. UndoHere' = UndoHere /\ RedoHere' = RedoHere
    BY <1>10 DEF Puts, ToUndo, ToRedo, UndoHere, RedoHere
  <2>2. Backs = {} /\ Forths = {}
    BY <1>2, <1>4, <1>6, <1>10 DEF RolesAdd
  <2> QED
    BY <1>1, <1>2, <1>7, <2>1, <2>2 DEF WayIsStraight
<1>11. CASE logEpoch = epoch /\ thread[t].at = epoch /\ back
  <2>1. Backs = {s} /\ Forths = {}
    BY <1>2, <1>4, <1>6, <1>11 DEF RolesAdd
  <2>2. ToUndo(t)
    BY <1>11 DEF Puts
  <2>3. undo' = Trim(Append(undo, s)) /\ redo' = redo
    BY <1>11, <2>2 DEF ToUndo
  <2>4. /\ UndoHere = undo /\ RedoHere = redo
        /\ UndoHere' = Trim(Append(undo, s)) /\ RedoHere' = redo
    BY <1>11, <2>3 DEF UndoHere, RedoHere
  <2> HIDE DEF s, back
  <2>5. Straight(doc, {}, {s}, {}, undo, redo)
    BY <1>1, <1>2, <2>1, <2>4 DEF WayIsStraight
  <2>6. Straight(doc, {}, {}, {}, Trim(Append(undo, s)), redo)
    BY <1>2, <1>8, <2>5, ToUndoLeads
  <2> QED
    BY <1>7, <2>4, <2>6 DEF WayIsStraight
<1>12. CASE logEpoch = epoch /\ thread[t].at = epoch /\ ~back
  <2>1. Backs = {} /\ Forths = {s}
    BY <1>2, <1>4, <1>6, <1>12 DEF RolesAdd
  <2>2. ToRedo(t)
    BY <1>12 DEF Puts
  <2>3. redo' = Append(redo, s) /\ undo' = undo
    BY <1>12, <2>2 DEF ToRedo
  <2>4. /\ UndoHere = undo /\ RedoHere = redo
        /\ UndoHere' = undo /\ RedoHere' = Append(redo, s)
    BY <1>12, <2>3 DEF UndoHere, RedoHere
  <2> HIDE DEF s, back
  <2>5. Straight(doc, {}, {}, {s}, undo, redo)
    BY <1>1, <1>2, <2>1, <2>4 DEF WayIsStraight
  <2>6. Straight(doc, {}, {}, {}, undo, Append(redo, s))
    BY <1>2, <1>8, <2>5, ToRedoLeads
  <2> QED
    BY <1>7, <2>4, <2>6 DEF WayIsStraight
<1> QED
  BY <1>9, <1>10, <1>11, <1>12

LEMMA PushesStayHome ==
  ASSUME Home, IInv', NEW t \in Threads, Push(t) \/ Return(t)
  PROVE  Home'
<1>1. /\ thread[t].pc \in {"push", "return"} /\ Puts(t)
      /\ doc' = doc /\ rev' = rev /\ epoch' = epoch /\ logEpoch' = logEpoch /\ drag' = drag
  BY DEF Push, Return, Puts, session
<1>2. /\ gate = t /\ thread[t] \in Command /\ thread[t].step \in Step
      /\ IInv /\ Dated /\ Distinct /\ Gated /\ DragsAreKnobs /\ rev \in Nat /\ epoch \in Nat /\ logEpoch \in Nat
  BY <1>1, CarriesAlone, HomeTypes DEF Home, Carrying
<1>3. PICK c : /\ Becomes(t, c) /\ ~Carries(c) /\ c.at <= epoch /\ MayHold(c, t, gate')
               /\ gate' \in {gate, Nobody}
  <2>1. CASE Leave(t)
    <3>1. ~Carries(Idle) /\ Idle.at <= epoch /\ MayHold(Idle, t, gate')
      BY <1>2 DEF Idle, Carries, MayHold, AtGatePcs
    <3> QED
      BY <2>1, <3>1 DEF Leave, Finish
  <2>2. CASE ~Leave(t)
    <3>1. /\ Becomes(t, [thread[t] EXCEPT !.pc = "walk", !.step = NoStep])
          /\ gate' = gate /\ thread[t].job = "walk"
      BY <2>2 DEF Push, Return
    <3> DEFINE n == NoStep
               c == [thread[t] EXCEPT !.pc = "walk", !.step = n]
    <3>2. c.pc = "walk" /\ c.at = thread[t].at /\ c.job = thread[t].job
      BY <1>2 DEF Command
    <3>3. Becomes(t, c)
      BY <3>1
    <3> HIDE DEF c
    <3>4. ~Carries(c) /\ c.at <= epoch /\ MayHold(c, t, gate')
      BY <1>2, <3>1, <3>2 DEF Carries, MayHold, Dated
    <3> QED
      BY <3>1, <3>3, <3>4
  <2> QED
    BY <2>1, <2>2
<1>4. Dated' /\ Distinct' /\ Gated'
  <2>1. /\ Held(c) = {} /\ c.pc # "record" /\ thread' = [thread EXCEPT ![t] = c]
        /\ thread[t].step \in Held(thread[t])
    BY <1>1, <1>3 DEF Held, Carries, Becomes
  <2>2. rev <= rev' /\ epoch <= epoch' /\ logEpoch' <= epoch' /\ c.at <= epoch'
    BY <1>1, <1>2, <1>3 DEF Dated
  <2>3. Stack(undo') \cup Stack(redo') \subseteq Held(thread[t]) \cup Stack(undo) \cup Stack(redo)
    <3> DEFINE s == thread[t].step
    <3>1. undo \in Seq(Step) /\ redo \in Seq(Step) /\ Len(undo) <= Limit
      BY <1>2, HomeTypes
    <3>2. \/ undo' = undo /\ redo' = redo
          \/ undo' = undo /\ redo' = Append(redo, s)
          \/ undo' = Trim(Append(undo, s)) /\ redo' = redo
      BY <1>1 DEF Puts, ToUndo, ToRedo
    <3>3. s \in Step /\ s \in Held(thread[t])
      BY <1>2, <2>1
    <3> HIDE DEF s
    <3>4. Stack(Append(redo, s)) = Stack(redo) \cup {s} /\ Stack(Trim(Append(undo, s))) \subseteq Stack(undo) \cup {s}
      BY <3>1, <3>3, AppendRises, PutBackFrom
    <3> QED
      BY <3>2, <3>3, <3>4
  <2> QED
    BY <1>2, <1>3, <2>1, <2>2, <2>3, BasicsKept
<1>5. DragsAreKnobs'
  BY <1>1, <1>2 DEF DragsAreKnobs
<1>6. ASSUME ~mixed' PROVE ~Overlap' /\ WayIsStraight'
  <2>1. ~Overlap'
    BY <1>3, <1>6, Unmixed
  <2>2. WayIsStraight'
    BY <1>1, <1>3, <1>6, PutsStraight
  <2> QED
    BY <2>1, <2>2
<1> QED
  BY <1>4, <1>5, <1>6 DEF Home

(* The document is replaced: what was on its way belongs to another one.   *)
LEMMA SwapsStayHome ==
  ASSUME Home, IInv', NEW t \in Threads, Open(t) \/ SaveAs(t) \/ Ensure(t)
  PROVE  Home'
<1>1. /\ epoch' = epoch + 1 /\ rev' = rev /\ UNCHANGED log /\ gate' = gate /\ drag' = drag
      /\ thread[t].pc \in {"idle", "mint"}
  <2>1. \E d : Swap(d)
    BY DEF Open, SaveAs, Ensure
  <2> QED
    BY <2>1 DEF Swap, Open, SaveAs, Ensure
<1>2. /\ IInv /\ Dated /\ Distinct /\ Gated /\ DragsAreKnobs /\ rev \in Nat /\ epoch \in Nat /\ logEpoch \in Nat
      /\ logEpoch <= epoch /\ thread[t] \in Command /\ thread[t].at <= epoch /\ thread[t].at \in Nat
  BY HomeTypes DEF Home, Dated
<1>3. PICK c : Becomes(t, c) /\ c.pc \in {"boundary", "reread"} /\ c.at <= epoch'
  <2>1. CASE Ensure(t)
    <3> DEFINE c == [thread[t] EXCEPT !.pc = "reread"]
    <3>1. Becomes(t, c)
      BY <2>1 DEF Ensure, Goto
    <3>2. c.pc = "reread" /\ c.at = thread[t].at
      BY <1>2 DEF Command
    <3> HIDE DEF c
    <3>3. c.at <= epoch'
      BY <1>1, <1>2, <3>2
    <3> QED
      BY <3>1, <3>2, <3>3
  <2>2. CASE Open(t) \/ SaveAs(t)
    <3> DEFINE c == [Idle EXCEPT !.pc = "boundary", !.at = epoch + 1]
    <3>1. Becomes(t, c)
      BY <2>2 DEF Open, SaveAs, ToBoundary
    <3>2. c.pc = "boundary" /\ c.at = epoch + 1
      BY DEF Idle
    <3> HIDE DEF c
    <3>3. c.at <= epoch'
      BY <1>1, <1>2, <3>2
    <3> QED
      BY <3>1, <3>2, <3>3
  <2> QED
    BY <2>1, <2>2
<1>4. Dated' /\ Distinct' /\ Gated'
  <2>1. /\ Held(c) = {} /\ c.pc # "record" /\ thread' = [thread EXCEPT ![t] = c] /\ MayHold(c, t, gate')
        /\ undo' = undo /\ redo' = redo /\ logEpoch' = logEpoch
    BY <1>1, <1>3 DEF Held, Carries, Becomes, MayHold, AtGatePcs, log
  <2>2. rev <= rev' /\ epoch <= epoch' /\ logEpoch' <= epoch'
    BY <1>1, <1>2, <2>1
  <2> QED
    BY <1>1, <1>2, <1>3, <2>1, <2>2, BasicsKept
<1>5. DragsAreKnobs'
  BY <1>1, <1>2 DEF DragsAreKnobs
<1>6. ASSUME ~mixed' PROVE ~Overlap' /\ WayIsStraight'
  <2>1. ~Overlap'
    BY <1>3, <1>6, Unmixed
  <2>2. thread'[t] = c /\ \A u \in Threads \ {t} : thread'[u] = thread[u]
    BY <1>2, <1>3, NextCommand DEF Becomes
  <2>3. ASSUME NEW u \in Threads PROVE thread'[u].pc \in {"boundary", "reread"} \/ thread'[u].at # epoch'
    <3>1. u # t => thread[u].at <= epoch /\ thread[u].at \in Nat
      BY <1>2, HomeTypes DEF Dated
    <3> QED
      BY <1>1, <1>2, <1>3, <2>2, <3>1
  <2>4. Sent' = {} /\ Backs' = {} /\ Forths' = {}
    BY <2>3 DEF Sent, Backs, Forths, StepsOf, Sending, Backing, Forthing, Carrying
  <2>5. UndoHere' = <<>> /\ RedoHere' = <<>>
    <3>1. logEpoch' # epoch'
      BY <1>1, <1>2 DEF log
    <3> QED
      BY <3>1 DEF UndoHere, RedoHere
  <2>6. \A d : Straight(d, {}, {}, {}, <<>>, <<>>)
    BY NothingLeads
  <2>7. WayIsStraight'
    BY <2>4, <2>5, <2>6 DEF WayIsStraight
  <2> QED
    BY <2>1, <2>7
<1> QED
  BY <1>4, <1>5, <1>6 DEF Home

(* epoch_boundary.                                                         *)
LEMMA BoundaryStaysHome ==
  ASSUME Home, IInv', NEW t \in Threads, Boundary(t)
  PROVE  Home'
<1>1. /\ thread[t].pc = "boundary" /\ Becomes(t, Idle) /\ logEpoch' = thread[t].at
      /\ undo' = <<>> /\ redo' = <<>> /\ gate' = gate /\ drag' = drag
      /\ doc' = doc /\ rev' = rev /\ epoch' = epoch
  BY DEF Boundary, Finish, session
<1>2. /\ IInv /\ Dated /\ Distinct /\ Gated /\ DragsAreKnobs /\ rev \in Nat /\ epoch \in Nat /\ logEpoch \in Nat
      /\ thread[t].at <= epoch
  BY HomeTypes DEF Home, Dated
<1>3. ~Carries(Idle) /\ Held(Idle) = {} /\ Idle.pc # "record" /\ Idle.at = 0 /\ MayHold(Idle, t, gate')
  BY DEF Idle, Carries, Held, MayHold, AtGatePcs
<1>4. Dated' /\ Distinct' /\ Gated'
  <2>1. thread' = [thread EXCEPT ![t] = Idle] /\ Stack(undo') = {} /\ Stack(redo') = {}
    BY <1>1, EmptyStack DEF Becomes
  <2>2. rev <= rev' /\ epoch <= epoch' /\ logEpoch' <= epoch' /\ Idle.at <= epoch'
    BY <1>1, <1>2, <1>3
  <2> QED
    BY <1>1, <1>2, <1>3, <2>1, <2>2, BasicsKept
<1>5. DragsAreKnobs'
  BY <1>1, <1>2 DEF DragsAreKnobs
<1>6. ASSUME ~mixed' PROVE ~Overlap' /\ WayIsStraight'
  <2>1. ~mixed /\ ~Overlap' /\ ~Overlap /\ ~Outlived(t) /\ WayIsStraight
    BY <1>1, <1>6, Unmixed DEF Home
  <2>2. thread'[t] = Idle /\ \A u \in Threads \ {t} : thread'[u] = thread[u]
    BY <1>1, <1>2, NextCommand DEF Becomes
  <2>3. Sent' = Sent /\ Backs' = Backs /\ Forths' = Forths
    <3>1. RolesAdd(t)
      BY <1>1, <1>2, <2>2, RolesMove
    <3>2. \A c : ~Carries(c) => /\ Own(c, Sending(epoch)) = {} /\ Own(c, Backing(epoch)) = {}
                                /\ Own(c, Forthing(epoch)) = {}
      BY DEF Own, Sending, Backing, Forthing, Carries, Carrying
    <3>3. ~Carries(thread[t])
      BY <1>1 DEF Carries
    <3> QED
      BY <1>3, <2>2, <3>1, <3>2, <3>3 DEF RolesAdd
  <2>4. UndoHere' = <<>> /\ RedoHere' = <<>>
    BY <1>1 DEF UndoHere, RedoHere
  <2>5. Sent = {} \/ Backs \cup Forths = {}
    BY <2>1 DEF Overlap, Recording, Replaying, Sent, Backs, Forths, StepsOf, Sending, Backing, Forthing, Carrying
  <2>6. \A s \in Sent, x \in Stack(UndoHere) : x.rev <= s.rev
    <3> SUFFICES ASSUME NEW u \in Threads, thread[u] \in Sending(epoch), NEW x \in Stack(UndoHere)
                 PROVE  x.rev <= thread[u].step.rev
      BY DEF Sent, StepsOf
    <3>1. logEpoch = epoch /\ UndoHere = undo
      BY EmptyStack DEF UndoHere
    <3>2. PICK i \in DOMAIN undo : x = undo[i]
      BY <3>1 DEF Stack
    <3>3. ~(thread[u].step.rev < undo[i].rev)
      BY <1>1, <2>1, <3>1 DEF Outlived, Recording, Sending
    <3>4. thread[u].step \in Step /\ x \in Step
      <4>1. thread[u].step \in Held(thread[u])
        BY DEF Sending, Held, Carries
      <4> QED
        BY <1>2, <3>1, <4>1, HomeTypes, StacksAreSteps
    <3> QED
      BY <3>2, <3>3, <3>4 DEF Step
  <2>7. /\ Sent \in SUBSET Step /\ Backs \in SUBSET Step /\ Forths \in SUBSET Step
        /\ UndoHere \in Seq(Step) /\ RedoHere \in Seq(Step)
    <3>1. \A u \in Threads : Held(thread[u]) \in SUBSET Step
      BY <1>2, HomeTypes
    <3>2. Sent \in SUBSET Step /\ Backs \in SUBSET Step /\ Forths \in SUBSET Step
      BY <3>1 DEF Sent, Backs, Forths, StepsOf, Sending, Backing, Forthing, Held, Carries, Carrying
    <3> QED
      BY <1>2, <3>2, HomeTypes
  <2>8. Straight(doc, Sent, Backs, Forths, <<>>, <<>>)
    BY <2>1, <2>5, <2>6, <2>7, ClearLeads DEF WayIsStraight
  <2>9. WayIsStraight'
    BY <1>1, <2>3, <2>4, <2>8 DEF WayIsStraight
  <2> QED
    BY <2>1, <2>9
<1> QED
  BY <1>4, <1>5, <1>6 DEF Home

(* Initially there is nothing; every step keeps the way straight.          *)
LEMMA InitIsHome == Init => Home
<1> SUFFICES ASSUME Init PROVE Home
  OBVIOUS
<1>1. IInv
  BY InitHolds
<1>2. \A t \in Threads : thread[t] = Idle
  BY DEF Init
<1>3. Idle.pc = "idle" /\ Idle.at = 0 /\ Held(Idle) = {} /\ Idle.pc \notin AtGatePcs
  BY DEF Idle, Held, Carries, AtGatePcs
<1>4. Stack(undo) \cup Stack(redo) = {}
  BY EmptyStack DEF Init
<1>5. Dated
  <2>1. logEpoch = 0 /\ epoch = 0
    BY DEF Init
  <2> QED
    BY <1>2, <1>3, <1>4, <2>1 DEF Dated
<1>6. Distinct /\ Gated
  BY <1>2, <1>3 DEF Distinct, Gated, MayHold
<1>7. DragsAreKnobs
  BY DEF Init, NoDrag, DragsAreKnobs
<1>8. ~Overlap
  BY <1>2, <1>3 DEF Overlap, Recording
<1>9. WayIsStraight
  <2>1. Sent = {} /\ Backs = {} /\ Forths = {}
    BY <1>2, <1>3 DEF Sent, Backs, Forths, StepsOf, Sending, Backing, Forthing, Carrying
  <2>2. UndoHere = <<>> /\ RedoHere = <<>>
    BY DEF Init, UndoHere, RedoHere
  <2> QED
    BY <2>1, <2>2, NothingLeads DEF WayIsStraight
<1> QED
  BY <1>1, <1>5, <1>6, <1>7, <1>8, <1>9 DEF Home

LEMMA StepsStayHome == Home /\ [Next]_vars => Home'
<1> SUFFICES ASSUME Home, [Next]_vars PROVE Home'
  OBVIOUS
<1>1. IInv'
  BY StepsKeep DEF Home
<1>2. CASE UNCHANGED vars
  <2>1. /\ doc' = doc /\ rev' = rev /\ epoch' = epoch /\ drag' = drag /\ logEpoch' = logEpoch
        /\ undo' = undo /\ redo' = redo /\ gate' = gate /\ thread' = thread /\ mixed' = mixed
    BY <1>2 DEF vars, session, log
  <2>2. Dated' /\ Distinct' /\ Gated' /\ DragsAreKnobs'
    BY <2>1 DEF Home, Dated, Distinct, Gated, DragsAreKnobs
  <2>3. ~mixed' => ~Overlap' /\ WayIsStraight'
    BY <2>1 DEF Home, Overlap, Recording, Replaying, WayIsStraight, Sent, Backs, Forths, UndoHere, RedoHere
  <2> QED
    BY <1>1, <2>2, <2>3 DEF Home
<1>3. CASE Next
  <2>1. PICK t \in Threads : Act(t)
    BY <1>3 DEF Next
  <2> QED
    BY <1>1, <2>1, EditStaysHome, FoldStaysHome, GesturesStayHome, RecordStaysHome, PopsStayHome,
       LeavesStayHome, ReplaysStayStraight, PushesStayHome, SwapsStayHome, BoundaryStaysHome
       DEF Act
<1> QED
  BY <1>2, <1>3

LEMMA HomeHolds == Spec => []Home
<1>1. Init => Home
  BY InitIsHome
<1>2. Home /\ [Next]_vars => Home'
  BY StepsStayHome
<1> QED
  BY <1>1, <1>2, PTL DEF Spec

(* The line that the undo stack and the redo stack make.                   *)
LEMMA LineShape ==
  ASSUME NEW u \in Seq(Step), NEW r \in Seq(Step)
  PROVE  /\ DOMAIN (u \o Reverse(r)) = 1..(Len(u) + Len(r))
         /\ \A i \in 1..Len(u) : (u \o Reverse(r))[i] = u[i]
         /\ \A i \in (Len(u) + 1)..(Len(u) + Len(r)) :
              /\ Len(u) + Len(r) + 1 - i \in 1..Len(r)
              /\ (u \o Reverse(r))[i] = r[Len(u) + Len(r) + 1 - i]
<1>1. Len(u) \in Nat /\ Len(r) \in Nat /\ DOMAIN u = 1..Len(u) /\ DOMAIN r = 1..Len(r)
  BY LenProperties
<1>2. Reverse(r) \in Seq(Step) /\ Len(Reverse(r)) = Len(r)
  <2>1. \A i \in 1..Len(r) : Len(r) - i + 1 \in 1..Len(r)
    BY <1>1
  <2>2. \A i \in 1..Len(r) : r[Len(r) - i + 1] \in Step
    BY <2>1, ElementOfSeq
  <2>3. Reverse(r) \in [1..Len(r) -> Step]
    BY <2>2 DEF Reverse
  <2> QED
    BY <1>1, <2>3, SeqDef, LenProperties
<1>3. \A i \in 1..Len(r) : Reverse(r)[i] = r[Len(r) - i + 1]
  BY DEF Reverse
<1>4. /\ Len(u \o Reverse(r)) = Len(u) + Len(r)
      /\ u \o Reverse(r) \in Seq(Step)
      /\ \A i \in 1..(Len(u) + Len(r)) :
           (u \o Reverse(r))[i] = IF i <= Len(u) THEN u[i] ELSE Reverse(r)[i - Len(u)]
  <2>1. PICK w : w = Reverse(r)
    OBVIOUS
  <2>2. w \in Seq(Step) /\ Len(w) = Len(r)
    BY <1>2, <2>1
  <2>3. /\ Len(u \o w) = Len(u) + Len(w) /\ u \o w \in Seq(Step)
        /\ \A i \in 1..(Len(u) + Len(w)) : (u \o w)[i] = IF i <= Len(u) THEN u[i] ELSE w[i - Len(u)]
    BY ONLY <2>2, ConcatProperties
  <2> QED
    BY <2>1, <2>2, <2>3
<1>5. DOMAIN (u \o Reverse(r)) = 1..(Len(u) + Len(r))
  BY <1>4, LenProperties
<1>6. ASSUME NEW i \in 1..Len(u) PROVE (u \o Reverse(r))[i] = u[i]
  BY <1>1, <1>4
<1>7. ASSUME NEW i \in (Len(u) + 1)..(Len(u) + Len(r))
      PROVE  /\ Len(u) + Len(r) + 1 - i \in 1..Len(r)
             /\ (u \o Reverse(r))[i] = r[Len(u) + Len(r) + 1 - i]
  <2>1. /\ i \in 1..(Len(u) + Len(r)) /\ ~(i <= Len(u)) /\ i - Len(u) \in 1..Len(r)
        /\ Len(r) - (i - Len(u)) + 1 = Len(u) + Len(r) + 1 - i
        /\ Len(u) + Len(r) + 1 - i \in 1..Len(r)
    BY <1>1
  <2>2. (u \o Reverse(r))[i] = Reverse(r)[i - Len(u)]
    BY <1>4, <2>1
  <2> QED
    BY <1>3, <2>1, <2>2
<1> QED
  BY <1>5, <1>6, <1>7

(* UndoLeadsBack of a line L whose stacks meet at position met, where the  *)
(* property k has the value v.                                             *)
OnePath(L, met, v, k) ==
  LET here == {i \in DOMAIN L : L[i].key = k}
      Beside(i, j) == i < j /\ \A m \in here : ~(i < m /\ m < j)
  IN  /\ \A i, j \in here : Beside(i, j) => L[i].to = L[j].from
      /\ \A i \in here : i <= met /\ Beside(i, met + 1) => L[i].to = v
      /\ \A i \in here : met < i /\ Beside(met, i) => L[i].from = v

LEMMA LineIsStraight ==
  ASSUME NEW d, NEW u \in Seq(Step), NEW r \in Seq(Step), NEW k \in Parts, NEW L,
         Straight(d, {}, {}, {}, u, r), L = u \o Reverse(r)
  PROVE  OnePath(L, Len(u), d[k], k)
<1> DEFINE here == {i \in DOMAIN L : L[i].key = k}
           Beside(i, j) == i < j /\ \A m \in here : ~(i < m /\ m < j)
           met == Len(u)
           all == Len(u) + Len(r)
           U == Of(Stack(u), k)
           R == Of(Stack(r), k)
<1>1. met \in Nat /\ Len(r) \in Nat /\ all \in Nat /\ DOMAIN u = 1..met /\ DOMAIN r = 1..Len(r)
  BY LenProperties
<1>2. /\ DOMAIN L = 1..all /\ \A i \in 1..met : L[i] = u[i]
      /\ \A i \in (met + 1)..all : all + 1 - i \in 1..Len(r) /\ L[i] = r[all + 1 - i]
  BY LineShape
<1>3. /\ LeadsTo(U, d[k], Floor(u)) /\ LeadsOn(R, d[k]) /\ Rising(u) /\ Falling(r) /\ InBetween(u, r, {})
  <2>1. PastOf({}, {}, u) = Stack(u) /\ AheadOf({}, {}, r) = Stack(r) /\ {} \cup {} = {}
    BY DEF PastOf, AheadOf
  <2> QED
    BY <2>1 DEF Straight
<1>4. \A i \in here : i \in Nat /\ L[i].key = k /\ L[i].rev \in Nat
  <2>1. \A i \in 1..met : u[i] \in Step
    BY ElementOfSeq
  <2>2. \A i \in 1..Len(r) : r[i] \in Step
    BY ElementOfSeq
  <2>3. \A i \in 1..all : i \in Nat /\ (i \in 1..met \/ i \in (met + 1)..all)
    BY <1>1
  <2> QED
    BY <1>2, <2>1, <2>2, <2>3 DEF Step
<1>5. /\ \A i \in here : i <= met => i \in 1..met /\ L[i] = u[i] /\ L[i] \in U
      /\ \A i \in here : met < i =>
           i \in (met + 1)..all /\ all + 1 - i \in 1..Len(r) /\ L[i] = r[all + 1 - i] /\ L[i] \in R
  <2>1. \A i \in 1..all : (i <= met => i \in 1..met) /\ (met < i => i \in (met + 1)..all)
    BY <1>1
  <2> QED
    BY <1>1, <1>2, <2>1 DEF Of, Stack
<1>6. /\ \A x \in U : \E p \in here : p <= met /\ L[p] = x
      /\ \A x \in R : \E p \in here : met < p /\ L[p] = x
  <2>1. ASSUME NEW x \in U PROVE \E p \in here : p <= met /\ L[p] = x
    <3>1. PICK i \in 1..met : x = u[i] /\ x.key = k
      BY <1>1 DEF Of, Stack
    <3>2. i \in 1..all /\ i <= met
      BY <1>1
    <3> QED
      BY <1>2, <3>1, <3>2
  <2>2. ASSUME NEW x \in R PROVE \E p \in here : met < p /\ L[p] = x
    <3>1. PICK i \in 1..Len(r) : x = r[i] /\ x.key = k
      BY <1>1 DEF Of, Stack
    <3>2. /\ all + 1 - i \in 1..all /\ all + 1 - i \in (met + 1)..all /\ met < all + 1 - i
          /\ all + 1 - (all + 1 - i) = i
      BY <1>1
    <3>3. L[all + 1 - i] = x
      BY <1>2, <3>1, <3>2
    <3> QED
      BY <1>2, <3>1, <3>2, <3>3
  <2> QED
    BY <2>1, <2>2
<1>7. \A i, j \in here : i < j => L[i].rev < L[j].rev
  <2> SUFFICES ASSUME NEW i \in here, NEW j \in here, i < j PROVE L[i].rev < L[j].rev
    OBVIOUS
  <2>1. (i <= met /\ j <= met) \/ (i <= met /\ met < j) \/ (met < i /\ met < j)
    <3>1. i \in Nat /\ j \in Nat /\ i < j /\ met \in Nat
      BY <1>1, <1>4
    <3> QED
      BY ONLY <3>1
  <2>2. Low(L[i], L[j]) => L[i].rev < L[j].rev
    BY <1>4 DEF Low
  <2>3. CASE i <= met /\ j <= met
    BY <1>1, <1>3, <1>5, <2>2, <2>3 DEF Rising
  <2>4. CASE i <= met /\ met < j
    BY <1>3, <1>5, <2>2, <2>4 DEF InBetween, Of
  <2>5. CASE met < i /\ met < j
    <3>1. all + 1 - j < all + 1 - i
      BY <1>1, <1>4
    <3> QED
      BY <1>1, <1>3, <1>5, <2>2, <2>5, <3>1 DEF Falling
  <2> QED
    BY <2>1, <2>3, <2>4, <2>5
<1>8. \A i \in here : i <= met => L[i].rev >= Floor(u)
  <2>1. Floor(u) \in Nat /\ \A x \in Stack(u) : Floor(u) <= x.rev
    BY <1>3, FloorIsARevision
  <2> QED
    BY <1>4, <1>5, <2>1 DEF Of
<1> HIDE DEF here, met, all, U, R
(* The newest below the meeting point, the oldest above it. *)
<1>9. ASSUME NEW i \in here, i <= met, \A p \in here : p <= met => p <= i
      PROVE  L[i].to = d[k]
  <2>1. ASSUME NEW x \in U PROVE x.rev <= L[i].rev
    <3>1. PICK p \in here : p <= met /\ L[p] = x
      BY <1>6
    <3>2. p = i \/ p < i
      BY <1>4, <1>9, <3>1
    <3>3. L[p].rev \in Nat /\ L[i].rev \in Nat /\ (p < i => L[p].rev < L[i].rev)
      BY <1>4, <1>7, <1>9, <3>1
    <3>4. L[p].rev <= L[i].rev
      BY ONLY <3>2, <3>3
    <3> QED
      BY <3>1, <3>4
  <2> QED
    BY <1>3, <1>5, <1>8, <1>9, <2>1 DEF LeadsTo
<1>10. ASSUME NEW i \in here, met < i, \A p \in here : met < p => i <= p
       PROVE  L[i].from = d[k]
  <2>1. ASSUME NEW x \in R PROVE L[i].rev <= x.rev
    <3>1. PICK p \in here : met < p /\ L[p] = x
      BY <1>6
    <3>2. p = i \/ i < p
      BY <1>4, <1>10, <3>1
    <3>3. L[p].rev \in Nat /\ L[i].rev \in Nat /\ (i < p => L[i].rev < L[p].rev)
      BY <1>4, <1>7, <1>10, <3>1
    <3>4. L[i].rev <= L[p].rev
      BY ONLY <3>2, <3>3
    <3> QED
      BY <3>1, <3>4
  <2> QED
    BY <1>3, <1>5, <1>10, <2>1 DEF LeadsOn
<1>11. ASSUME NEW i \in here, NEW j \in here, Beside(i, j)
       PROVE  L[i].to = L[j].from
  <2>1. i \in Nat /\ j \in Nat /\ met \in Nat /\ i < j /\ \A p \in here : p \in Nat /\ (p <= i \/ j <= p)
    <3>1. i \in Nat /\ j \in Nat /\ i < j /\ \A p \in here : p \in Nat /\ ~(i < p /\ p < j)
      BY <1>4, <1>11
    <3>2. \A p \in here : p <= i \/ j <= p
      BY ONLY <3>1
    <3> QED
      BY <1>1, <3>1, <3>2
  <2>2. L[i].rev < L[j].rev
    BY <1>7, <2>1
  <2>3. ASSUME NEW p \in here PROVE ~(L[i].rev < L[p].rev /\ L[p].rev < L[j].rev)
    <3>1. p = i \/ p < i \/ p = j \/ j < p
      BY <2>1
    <3>2. /\ L[p].rev \in Nat /\ L[i].rev \in Nat /\ L[j].rev \in Nat
          /\ p < i => L[p].rev < L[i].rev
          /\ j < p => L[j].rev < L[p].rev
      BY <1>4, <1>7
    <3> QED
      BY ONLY <3>1, <3>2
  <2>4. CASE j <= met
    <3>1. i <= met
      BY <2>1, <2>4
    <3>2. Between(L[i], L[j], U)
      BY <1>6, <2>2, <2>3 DEF Between
    <3> QED
      BY <1>3, <1>5, <1>8, <2>4, <3>1, <3>2 DEF LeadsTo
  <2>5. CASE met < i
    <3>1. met < j
      BY <2>1, <2>5
    <3>2. Between(L[i], L[j], R)
      BY <1>6, <2>2, <2>3 DEF Between
    <3> QED
      BY <1>3, <1>5, <2>5, <3>1, <3>2 DEF LeadsOn
  <2>6. CASE i <= met /\ met < j
    <3>1. (\A p \in here : p <= met => p <= i) /\ \A p \in here : met < p => j <= p
      BY <2>1, <2>6
    <3> QED
      BY <1>9, <1>10, <2>6, <3>1
  <2>7. j <= met \/ met < i \/ (i <= met /\ met < j)
    <3>1. i \in Nat /\ j \in Nat /\ met \in Nat
      BY <2>1
    <3> QED
      BY ONLY <3>1
  <2> QED
    BY <2>4, <2>5, <2>6, <2>7
<1>12. ASSUME NEW i \in here, i <= met, Beside(i, met + 1)
       PROVE  L[i].to = d[k]
  <2>1. \A p \in here : p <= met => p <= i
    <3>1. i \in Nat /\ met \in Nat /\ \A p \in here : p \in Nat /\ ~(i < p /\ p < met + 1)
      BY <1>1, <1>4, <1>12
    <3> QED
      BY ONLY <3>1
  <2> QED
    BY <1>9, <1>12, <2>1
<1>13. ASSUME NEW i \in here, met < i, Beside(met, i)
       PROVE  L[i].from = d[k]
  <2>1. \A p \in here : met < p => i <= p
    <3>1. i \in Nat /\ met \in Nat /\ \A p \in here : p \in Nat /\ ~(met < p /\ p < i)
      BY <1>1, <1>4, <1>13
    <3> QED
      BY ONLY <3>1
  <2> QED
    BY <1>10, <1>13, <2>1
<1> QED
  BY <1>11, <1>12, <1>13 DEF here, met, OnePath

(* Undo leads back the way the document came, and redo on from there.      *)
THEOREM UndoLeadsTheWayBack == Spec => []UndoLeadsBack
<1>1. Home => UndoLeadsBack
  <2> SUFFICES ASSUME Home, ~mixed, logEpoch = epoch, \A t \in Threads : ~Recording(t) /\ ~Replaying(t),
                      NEW k \in Parts
               PROVE  OnePath(Line, Len(undo), doc[k], k)
    BY DEF UndoLeadsBack, OnePath
  <2>1. undo \in Seq(Step) /\ redo \in Seq(Step)
    BY HomeTypes DEF Home
  <2>2. Sent = {} /\ Backs = {} /\ Forths = {}
    BY DEF Recording, Replaying, Sent, Backs, Forths, StepsOf, Sending, Backing, Forthing, Carrying
  <2>3. Straight(doc, {}, {}, {}, undo, redo)
    BY <2>2 DEF Home, WayIsStraight, UndoHere, RedoHere
  <2>4. Line = undo \o Reverse(redo)
    BY DEF Line
  <2>5. PICK d : d = doc
    OBVIOUS
  <2>6. PICK u \in Seq(Step) : u = undo
    BY <2>1
  <2>7. PICK r \in Seq(Step) : r = redo
    BY <2>1
  <2>8. PICK L : L = Line
    OBVIOUS
  <2>9. Straight(d, {}, {}, {}, u, r) /\ L = u \o Reverse(r)
    BY <2>3, <2>4, <2>5, <2>6, <2>7, <2>8
  <2>10. OnePath(L, Len(u), d[k], k)
    BY ONLY <2>9, LineIsStraight
  <2> QED
    BY <2>5, <2>6, <2>7, <2>8, <2>10
<1> QED
  BY <1>1, HomeHolds, PTL

=============================================================================
