--------------------------- MODULE WorkersProofs ---------------------------
(* The workers beside the engine, for any number of them: jobs end once    *)
(* and as they were ended, and workers hold slots; a take keeps time on    *)
(* its way to disk; and graphs are handed to the streams that play them,   *)
(* for any number of streams and any ring capacities.                      *)
EXTENDS SidecarJobs, CaptureTake, GraphExchange, FiniteSetTheorems, SequenceTheorems, TLAPS

Zeros == [e \in Terminal |-> 0]
Once(j) == [e \in Terminal |-> IF e = Ending(j) THEN 1 ELSE 0]
Living(j) == child[j] \in {"alive", "exited"}

(* A supervisor and its worker.  The worker lives while the supervisor is  *)
(* at one of the three awaits that can see it, and then there is a slot.   *)
Supervised(j) ==
  /\ Living(j) <=> pc[j] \in {"read", "reap", "term"}
  /\ pc[j] \in {"new", "start", "wait", "spawn"} => child[j] = "none"
  /\ pc[j] \in {"spawn", "read", "reap", "term"} => j \in holding
  /\ pc[j] \in {"new", "start", "wait", "gone"} => j \notin holding

(* What a supervisor has seen has happened.                                *)
Seen(j) ==
  /\ verdict[j] = first[j]
  /\ verdict[j] # "none" => child[j] # "none"
  /\ cancelled[j] \/ notify[j] => requested[j]

(* The registry is behind the supervisor until it finishes, and never goes *)
(* another way than Ending says, which moves no more by then.              *)
Registered(j) ==
  /\ pc[j] = "new" => state[j] = "unknown"
  /\ pc[j] \notin {"new", "tell", "gone"} => state[j] \in {"queued", "running"}
  /\ pc[j] \in {"tell", "gone"} => state[j] \in {Ending(j), "unknown"}
  /\ told[j] = IF pc[j] = "gone" THEN Once(j) ELSE Zeros

Fits == IsFiniteSet(holding) /\ Cardinality(holding) <= WorkerSlots

Job(j) == Supervised(j) /\ Seen(j) /\ Registered(j)
IInv == JobsTypeOK /\ Fits /\ \A j \in Jobs : Job(j)

LEMMA InitIInv == ASSUME SlotsAssumption PROVE JobsInit => IInv
<1> SUFFICES ASSUME JobsInit PROVE IInv
  OBVIOUS
<1>1. JobsTypeOK
  BY DEF JobsInit, JobsTypeOK, SlotsAssumption, Terminal
<1>2. Fits
  BY FS_EmptySet DEF JobsInit, Fits, SlotsAssumption
<1>3. ASSUME NEW j \in Jobs PROVE Job(j)
  BY <1>3 DEF JobsInit, Job, Supervised, Living, Seen, Registered, Zeros
<1> QED
  BY <1>1, <1>2, <1>3 DEF IInv

----------------------------------------------------------------------------
(* A step of one job leaves the others'.                                   *)
Others(j) ==
  \A k \in Jobs \ {j} :
    /\ state'[k] = state[k] /\ requested'[k] = requested[k] /\ notify'[k] = notify[k]
    /\ pc'[k] = pc[k] /\ (k \in holding' <=> k \in holding) /\ child'[k] = child[k]
    /\ verdict'[k] = verdict[k] /\ first'[k] = first[k]
    /\ cancelled'[k] = cancelled[k] /\ told'[k] = told[k]

Step(j) == Submit(j) \/ Cancel(j) \/ SweepTerminal(j) \/ Supervise(j) \/ Eof(j) \/ Exit(j)

LEMMA OthersKeep ==
  ASSUME NEW j \in Jobs, IInv, Others(j), NEW k \in Jobs \ {j}
  PROVE  Job(k)'
BY DEF IInv, Others, Job, Supervised, Living, Seen, Registered, Zeros, Once, Ending

LEMMA StepSpares ==
  ASSUME NEW j \in Jobs, JobsTypeOK, Step(j)
  PROVE  Others(j)
<1> USE DEF JobsTypeOK, Others, Goes, SeesCancel, Runs, worker
<1>1. CASE Submit(j) BY <1>1 DEF Submit
<1>2. CASE Cancel(j) BY <1>2 DEF Cancel
<1>3. CASE SweepTerminal(j) BY <1>3 DEF SweepTerminal
<1>4. CASE Start(j) BY <1>4 DEF Start
<1>5. CASE AcquireSlot(j) BY <1>5 DEF AcquireSlot
<1>6. CASE CancelQueued(j) BY <1>6 DEF CancelQueued
<1>7. CASE Spawn(j) BY <1>7 DEF Spawn
<1>8. CASE ReadLine(j) BY <1>8 DEF ReadLine
<1>9. CASE CancelRunning(j) BY <1>9 DEF CancelRunning
<1>10. CASE Terminate(j) BY <1>10 DEF Terminate
<1>11. CASE Reap(j) BY <1>11 DEF Reap
<1>12. CASE Finalize(j) BY <1>12 DEF Finalize
<1>13. CASE Tell(j) BY <1>13 DEF Tell
<1>14. CASE Eof(j) BY <1>14 DEF Eof
<1>15. CASE Exit(j) BY <1>15 DEF Exit
<1> QED
  BY <1>1, <1>2, <1>3, <1>4, <1>5, <1>6, <1>7, <1>8, <1>9, <1>10, <1>11, <1>12, <1>13, <1>14, <1>15
  DEF Step, Supervise

----------------------------------------------------------------------------
(* Types.                                                                  *)
LEMMA ToldTyped ==
  ASSUME JobsTypeOK, NEW j \in Jobs, told[j] = Zeros, told' = [told EXCEPT ![j][Ending(j)] = @ + 1]
  PROVE  told' \in [Jobs -> [Terminal -> 0..2]]
<1>1. Ending(j) \in Terminal
  BY DEF Ending, Terminal
<1>2. [told[j] EXCEPT ![Ending(j)] = @ + 1] \in [Terminal -> 0..2]
  BY <1>1 DEF Zeros
<1> QED
  BY <1>2 DEF JobsTypeOK

LEMMA StepTypes ==
  ASSUME SlotsAssumption, NEW j \in Jobs, IInv, Step(j)
  PROVE  JobsTypeOK'
<1> USE DEF IInv, JobsTypeOK, Goes, SeesCancel, Runs, worker, Terminal, SlotsAssumption
<1>1. CASE Submit(j) BY <1>1 DEF Submit
<1>2. CASE Cancel(j) BY <1>2 DEF Cancel
<1>3. CASE SweepTerminal(j) BY <1>3 DEF SweepTerminal
<1>4. CASE Start(j) BY <1>4 DEF Start
<1>5. CASE AcquireSlot(j) BY <1>5 DEF AcquireSlot
<1>6. CASE CancelQueued(j) BY <1>6 DEF CancelQueued
<1>7. CASE Spawn(j) BY <1>7 DEF Spawn
<1>8. CASE ReadLine(j)
  <2>1. verdict' \in [Jobs -> {"none", "done", "error"}] /\ first' \in [Jobs -> {"none", "done", "error"}]
    BY <1>8 DEF ReadLine
  <2>2. state' \in [Jobs -> {"unknown", "queued", "running"} \cup Terminal]
    BY <1>8 DEF ReadLine
  <2>3. lines' \in [Jobs -> 0..MaxLines]
    BY <1>8 DEF ReadLine
  <2> QED
    BY <1>8, <2>1, <2>2, <2>3 DEF ReadLine
<1>9. CASE CancelRunning(j) BY <1>9 DEF CancelRunning
<1>10. CASE Terminate(j) BY <1>10 DEF Terminate
<1>11. CASE Reap(j) BY <1>11 DEF Reap
<1>12. CASE Finalize(j) BY <1>12 DEF Finalize, Ending
<1>13. CASE Tell(j)
  <2>1. told[j] = Zeros
    BY <1>13 DEF Tell, Job, Registered
  <2>2. told' \in [Jobs -> [Terminal -> 0..2]]
    BY <1>13, <2>1, ToldTyped DEF Tell
  <2> QED
    BY <1>13, <2>2 DEF Tell
<1>14. CASE Eof(j) BY <1>14 DEF Eof
<1>15. CASE Exit(j) BY <1>15 DEF Exit
<1> QED
  BY <1>1, <1>2, <1>3, <1>4, <1>5, <1>6, <1>7, <1>8, <1>9, <1>10, <1>11, <1>12, <1>13, <1>14, <1>15
  DEF Step, Supervise

----------------------------------------------------------------------------
(* The step's own job.                                                     *)
LEMMA StepOwn ==
  ASSUME NEW j \in Jobs, IInv, Step(j)
  PROVE  Job(j)'
<1> USE DEF IInv, JobsTypeOK, Goes, SeesCancel, Runs, worker,
            Job, Supervised, Living, Seen, Registered, Once, Zeros, Ending
<1>1. CASE Submit(j) BY <1>1 DEF Submit
<1>2. CASE Cancel(j) BY <1>2 DEF Cancel
<1>3. CASE SweepTerminal(j) BY <1>3 DEF SweepTerminal, Terminal
<1>4. CASE Start(j) BY <1>4 DEF Start
<1>5. CASE AcquireSlot(j) BY <1>5 DEF AcquireSlot
<1>6. CASE CancelQueued(j) BY <1>6 DEF CancelQueued
<1>7. CASE Spawn(j) BY <1>7 DEF Spawn
<1>8. CASE ReadLine(j) BY <1>8 DEF ReadLine
<1>9. CASE CancelRunning(j) BY <1>9 DEF CancelRunning
<1>10. CASE Terminate(j) BY <1>10 DEF Terminate
<1>11. CASE Reap(j) BY <1>11 DEF Reap
<1>12. CASE Finalize(j) BY <1>12 DEF Finalize
<1>13. CASE Tell(j)
  <2>1. Ending(j)' = Ending(j)
    BY <1>13 DEF Tell
  <2>2. told'[j] = [Zeros EXCEPT ![Ending(j)] = @ + 1]
    BY <1>13 DEF Tell
  <2>3. told'[j] = Once(j)'
    BY <2>1, <2>2
  <2>4. Supervised(j)' /\ Seen(j)'
    BY <1>13 DEF Tell
  <2> QED
    BY <1>13, <2>1, <2>3, <2>4 DEF Tell
<1>14. CASE Eof(j) BY <1>14 DEF Eof
<1>15. CASE Exit(j) BY <1>15 DEF Exit
<1> QED
  BY <1>1, <1>2, <1>3, <1>4, <1>5, <1>6, <1>7, <1>8, <1>9, <1>10, <1>11, <1>12, <1>13, <1>14, <1>15
  DEF Step, Supervise

(* One semaphore: only AcquireSlot takes, and never more than there are.   *)
LEMMA StepFits ==
  ASSUME SlotsAssumption, NEW j \in Jobs, IInv, Step(j)
  PROVE  Fits'
<1> USE DEF IInv, Fits
<1>1. CASE AcquireSlot(j)
  <2>1. holding' = holding \cup {j} /\ Cardinality(holding) < WorkerSlots
    BY <1>1 DEF AcquireSlot
  <2>2. IsFiniteSet(holding) /\ Cardinality(holding) \in Nat
    BY FS_CardinalityType
  <2>3. /\ IsFiniteSet(holding \cup {j})
        /\ Cardinality(holding \cup {j}) =
             IF j \in holding THEN Cardinality(holding) ELSE Cardinality(holding) + 1
    BY <2>2, FS_AddElement
  <2>4. Cardinality(holding \cup {j}) <= WorkerSlots
    BY <2>1, <2>2, <2>3 DEF SlotsAssumption
  <2> QED
    BY <2>1, <2>3, <2>4
<1>2. CASE holding' \subseteq holding
  <2>1. IsFiniteSet(holding') /\ Cardinality(holding') <= Cardinality(holding)
    BY <1>2, FS_Subset
  <2> QED
    BY <2>1, FS_CardinalityType DEF SlotsAssumption
<1>3. AcquireSlot(j) \/ holding' \subseteq holding
  BY DEF Step, Supervise, Submit, Cancel, SweepTerminal, Start, CancelQueued, Spawn, ReadLine,
         CancelRunning, Terminate, Reap, Finalize, Tell, Eof, Exit
<1> QED
  BY <1>1, <1>2, <1>3

LEMMA NextIInv == ASSUME SlotsAssumption PROVE IInv /\ [JobsNext]_jobVars => IInv'
<1> SUFFICES ASSUME IInv, [JobsNext]_jobVars PROVE IInv'
  OBVIOUS
<1>1. CASE UNCHANGED jobVars
  BY <1>1 DEF jobVars, IInv, JobsTypeOK, Fits, Job, Supervised, Living, Seen, Registered, Once, Zeros, Ending
<1>2. ASSUME NEW j \in Jobs, Step(j) PROVE IInv'
  <2>1. Others(j)
    BY <1>2, StepSpares DEF IInv
  <2>2. \A k \in Jobs : Job(k)'
    BY <1>2, <2>1, StepOwn, OthersKeep
  <2> QED
    BY <1>2, <2>2, StepTypes, StepFits DEF IInv
<1> QED
  BY <1>1, <1>2 DEF JobsNext, Step

LEMMA InvariantHolds == ASSUME SlotsAssumption PROVE JobsSpec => []IInv
BY InitIInv, NextIInv, PTL DEF JobsSpec

----------------------------------------------------------------------------
(* The registry, the permits and the verdicts stay well typed.             *)
THEOREM Types == ASSUME SlotsAssumption PROVE JobsSpec => []JobsTypeOK
BY InvariantHolds, PTL DEF IInv

(* Whatever cancel falls at whichever await, one terminal event is sent,   *)
(* it is the registry's, and a running job is never called over (finalize, *)
(* jobs.rs).                                                               *)
THEOREM JobsEndOnce == ASSUME SlotsAssumption PROVE JobsSpec => []OneEnding
<1>1. IInv => OneEnding
  <2> SUFFICES ASSUME IInv, NEW j \in Jobs, pc[j] = "gone"
               PROVE  \E e \in Terminal :
                        /\ told[j] = [t \in Terminal |-> IF t = e THEN 1 ELSE 0]
                        /\ state[j] \in {e, "unknown"}
    BY DEF IInv, Job, Registered, OneEnding
  <2>1. Ending(j) \in Terminal
    BY DEF Ending, Terminal
  <2>2. told[j] = Once(j) /\ state[j] \in {Ending(j), "unknown"}
    BY DEF IInv, Job, Registered
  <2> QED
    BY <2>1, <2>2 DEF Once
<1> QED
  BY <1>1, InvariantHolds, PTL

(* A job is done only if its worker said so first and is gone, an error    *)
(* only if it did not, cancelled only if someone cancelled (run_job).      *)
THEOREM EndingsAreEarned == ASSUME SlotsAssumption PROVE JobsSpec => []EndingIsEarned
<1>1. IInv => EndingIsEarned
  <2> SUFFICES ASSUME IInv, NEW j \in Jobs
               PROVE  /\ state[j] = "done" => first[j] = "done" /\ child[j] = "reaped"
                      /\ state[j] = "error" => first[j] # "done"
                      /\ state[j] = "cancelled" => requested[j]
    BY DEF EndingIsEarned
  <2> QED
    BY DEF IInv, JobsTypeOK, Job, Supervised, Living, Seen, Registered, Ending
<1> QED
  BY <1>1, InvariantHolds, PTL

(* Never more workers than slots, and each is reaped before its slot goes  *)
(* to another (the permit that run_job holds).                             *)
THEOREM SlotsBoundWorkers == ASSUME SlotsAssumption PROVE JobsSpec => []WorkersHoldSlots
<1>1. IInv => WorkersHoldSlots
  BY DEF IInv, JobsTypeOK, Fits, Job, Supervised, Living, WorkersHoldSlots
<1> QED
  BY <1>1, InvariantHolds, PTL

(* A job ends once, as its worker or its user ended it, and its worker     *)
(* never outlives its slot.                                                *)
THEOREM JobEndingsAreTrue == ASSUME SlotsAssumption PROVE JobsSpec => []EndingsAreTrue
BY Types, JobsEndOnce, EndingsAreEarned, SlotsBoundWorkers, PTL DEF EndingsAreTrue

----------------------------------------------------------------------------
(* A take keeps time.  What a take is, said of one track without the       *)
(* state: as far as the callback has got, what is missing from its tail is *)
(* owed, and all of that was missed.                                       *)
InTime(take, debt, span, gaps, hush) ==
  /\ take \in Seq(Nat) /\ debt \in Nat /\ span \in Nat
  /\ Len(take) + debt = span
  /\ gaps \subseteq 1..span /\ (Len(take) + 1)..span \subseteq gaps
  /\ \A i \in 1..Len(take) : take[i] = (IF i \in hush \/ i \in gaps THEN Silence ELSE i)

(* What the callback adds at the end of a take in time leaves it in time:  *)
(* silence it owed ...                                                     *)
LEMMA SilenceKeepsTime ==
  ASSUME NEW take, NEW debt, NEW span, NEW gaps, NEW hush, InTime(take, debt, span, gaps, hush),
         NEW n \in Nat, n <= debt
  PROVE  InTime(take \o Hush(n), debt - n, span, gaps, hush)
<1>1. Hush(n) \in Seq(Nat) /\ Len(Hush(n)) = n /\ \A i \in 1..n : Hush(n)[i] = 0
  BY DEF Hush, Silence
<1> DEFINE add == Hush(n)
<1> HIDE DEF add
<1>2. take \in Seq(Nat) /\ add \in Seq(Nat) /\ Len(add) = n
  BY <1>1 DEF InTime, add
<1>3. /\ take \o add \in Seq(Nat) /\ Len(take \o add) = Len(take) + n
      /\ \A i \in 1..Len(take) + n : (take \o add)[i] = IF i <= Len(take) THEN take[i] ELSE add[i - Len(take)]
  BY <1>2, ConcatProperties
<1> DEFINE more == take \o add
<1> HIDE DEF more
<1>4. Len(take) \in Nat
  BY <1>2
<1>5. ASSUME NEW i \in 1..Len(more) PROVE more[i] = (IF i \in hush \/ i \in gaps THEN Silence ELSE i)
  <2>1. CASE i <= Len(take)
    BY <1>3, <1>4, <2>1 DEF InTime, more
  <2>2. CASE i > Len(take)
    <3>1. i - Len(take) \in 1..n /\ i \in (Len(take) + 1)..span
      BY <1>3, <1>4, <2>2 DEF InTime, more
    <3>2. more[i] = 0
      BY <1>1, <1>3, <1>4, <2>2, <3>1 DEF more, add
    <3> QED
      BY <3>1, <3>2 DEF InTime, Silence
  <2> QED
    BY <1>3, <1>4, <2>1, <2>2 DEF more
<1>6. (Len(more) + 1)..span \subseteq gaps
  BY <1>3, <1>4 DEF InTime, more
<1>7. debt - n \in Nat /\ Len(take) + n + (debt - n) = span
  BY <1>4 DEF InTime
<1>8. more \in Seq(Nat) /\ Len(more) = Len(take) + n
  BY <1>3 DEF more
<1>9. InTime(more, debt - n, span, gaps, hush)
  <2>1. Len(more) + (debt - n) = span
    BY <1>7, <1>8
  <2> QED
    BY <2>1, <1>5, <1>6, <1>7, <1>8 DEF InTime
<1> QED
  BY <1>9 DEF more, add

(* ... and what the ring has room for of a new buffer, once the debt is    *)
(* repaid; the rest of it is missed.                                       *)
LEMMA NewsKeepsTime ==
  ASSUME NEW take, NEW debt, NEW span, NEW gaps, NEW hush, InTime(take, debt, span, gaps, hush),
         NEW size \in Nat, NEW r \in 0..size, debt # 0 => r = 0,
         NEW add \in Seq(Nat), Len(add) = r,
         \A i \in 1..r : add[i] = (IF span + i \in hush THEN Silence ELSE span + i)
  PROVE  InTime(take \o add, debt + size - r, span + size,
                gaps \cup (span + r + 1)..(span + size), hush)
<1>1. take \in Seq(Nat) /\ Len(take) \in Nat
  BY DEF InTime
<1>2. /\ take \o add \in Seq(Nat) /\ Len(take \o add) = Len(take) + r
      /\ \A i \in 1..Len(take) + r : (take \o add)[i] = IF i <= Len(take) THEN take[i] ELSE add[i - Len(take)]
  BY <1>1, ConcatProperties
<1> DEFINE more == take \o add
           wide == gaps \cup (span + r + 1)..(span + size)
<1> HIDE DEF more
<1>3. ASSUME NEW i \in 1..Len(more) PROVE more[i] = (IF i \in hush \/ i \in wide THEN Silence ELSE i)
  <2>1. CASE i <= Len(take)
    <3>1. i \in wide <=> i \in gaps
      BY <2>1, <1>1 DEF InTime
    <3> QED
      BY <1>1, <1>2, <2>1, <3>1 DEF InTime, more
  <2>2. CASE i > Len(take)
    <3>1. debt = 0 /\ Len(take) = span
      BY <1>1, <1>2, <2>2 DEF InTime, more
    <3>2. i - span \in 1..r /\ i \notin wide
      BY <1>1, <1>2, <2>2, <3>1 DEF InTime, more
    <3>3. more[i] = add[i - span]
      BY <1>1, <1>2, <2>2, <3>1, <3>2 DEF more
    <3>4. span + (i - span) = i
      BY <3>1, <1>1
    <3> QED
      BY <3>2, <3>3, <3>4
  <2> QED
    BY <1>1, <1>2, <2>1, <2>2 DEF more
<1>4. (Len(more) + 1)..(span + size) \subseteq wide
  BY <1>1, <1>2 DEF InTime, more
<1>5. wide \subseteq 1..(span + size)
  BY <1>1 DEF InTime
<1>6. more \in Seq(Nat) /\ Len(more) = Len(take) + r
  BY <1>2 DEF more
<1>7. InTime(more, debt + size - r, span + size, wide, hush)
  <2>1. debt \in Nat /\ span \in Nat /\ Len(take) + debt = span
    BY DEF InTime
  <2>2. debt + size - r \in Nat /\ span + size \in Nat
    BY <2>1
  <2>3. \A l, d, n, k \in Int : l + n + (d + k - n) = (l + d) + k
    OBVIOUS
  <2>5. Len(take) + r + (debt + size - r) = (Len(take) + debt) + size
    BY <2>1, <1>1, <2>3
  <2>4. Len(more) + (debt + size - r) = span + size
    BY <1>6, <2>1, <2>5
  <2> QED
    BY <1>3, <1>4, <1>5, <1>6, <2>2, <2>4 DEF InTime
<1> QED
  BY <1>7 DEF more

(* How much of the take track t's callback has dealt with.                 *)
Reach(t) == IF Passed(t) THEN captured ELSE captured - cb.size

(* The buffer in hand is the last captured, and is held or not as a whole. *)
Delivered ==
  /\ held \subseteq 1..captured /\ cb.size \in Nat /\ cb.size <= captured
  /\ cb.pc # "idle" => \A i \in (captured - cb.size + 1)..captured : i \in held <=> cb.hush

WriterOK ==
  writer \in [pc : {"sweep", "residue", "finalize", "done", "failed"},
              track : 1..(ArmedTracks + 1), moved : BOOLEAN]

(* The writer goes past its sweeps only when no callback can run any more, *)
(* and closes its files only when every ring is empty.                     *)
Closing ==
  /\ ~open => cb.pc = "idle"
  /\ stop => ~open
  /\ writer.pc \in {"residue", "finalize", "done"} => ~open
  /\ writer.pc \in {"finalize", "done"} => \A t \in Tracks : trackRing[t] = <<>>
  /\ result = "clips" => writer.pc = "done"

Kept(t) == InTime(Take(t), owed[t], Reach(t), missed[t], held)

TInv ==
  /\ TakeTypeOK /\ WriterOK /\ Delivered /\ Closing
  /\ \A t \in Tracks : Kept(t)

LEMMA TakeInitTInv == TakeInit => TInv
<1> SUFFICES ASSUME TakeInit PROVE TInv
  OBVIOUS
<1>1. TakeTypeOK
  <2>1. ArmedTracks \in Nat /\ 1 \in Tracks
    BY TakeAssumption DEF Tracks
  <2>2. trackRing \in [Tracks -> Seq(0..MaxFrames)] /\ \A t \in Tracks : Len(trackRing[t]) <= Cap
    BY TakeAssumption DEF TakeInit
  <2>3. cb \in [pc : {"idle", "repay", "record"}, track : Tracks, size : Buffers \cup {0}, hush : BOOLEAN]
    BY <2>1 DEF TakeInit, Quiet
  <2>4. file \in [Tracks -> Seq(0..MaxFrames)] /\ owed \in [Tracks -> 0..MaxFrames]
    BY TakeAssumption DEF TakeInit
  <2>5. captured \in 0..MaxFrames /\ held \subseteq 1..MaxFrames /\ missed \in [Tracks -> SUBSET (1..MaxFrames)]
    BY TakeAssumption DEF TakeInit
  <2>6. /\ open \in BOOLEAN /\ stop \in BOOLEAN
        /\ writer.pc \in {"sweep", "residue", "finalize", "done", "failed"}
        /\ result \in {"none", "clips", "error"}
    BY DEF TakeInit, Sweep
  <2> QED
    BY <2>2, <2>3, <2>4, <2>5, <2>6 DEF TakeTypeOK
<1>2. WriterOK
  BY TakeAssumption DEF TakeInit, WriterOK, Sweep
<1>3. Delivered /\ Closing
  BY DEF TakeInit, Delivered, Closing, Quiet, Sweep
<1>4. ASSUME NEW t \in Tracks PROVE Kept(t)
  <2>1. Take(t) = <<>> /\ owed[t] = 0 /\ Reach(t) = 0 /\ missed[t] = {}
    BY DEF TakeInit, Take, Reach, Passed, Quiet
  <2>2. InTime(<<>>, 0, 0, {}, held)
    BY DEF InTime
  <2> QED
    BY <2>1, <2>2 DEF Kept
<1> QED
  BY <1>1, <1>2, <1>3, <1>4 DEF TInv

(* A step that moves neither a take nor the callback's place in it.        *)
LEMMA KeptStays ==
  ASSUME NEW t \in Tracks, Kept(t), Take(t)' = Take(t),
         UNCHANGED <<owed, missed, held, captured, cb>>
  PROVE  Kept(t)'
<1>1. Reach(t)' = Reach(t) /\ owed'[t] = owed[t] /\ missed'[t] = missed[t] /\ held' = held
  BY DEF Reach, Passed
<1> QED
  BY <1>1 DEF Kept

LEMMA DeliverTInv == TInv /\ Deliver => TInv'
<1> SUFFICES ASSUME TInv, Deliver PROVE TInv'
  OBVIOUS
<1>1. PICK n \in Buffers, hold \in BOOLEAN :
        /\ captured + n <= MaxFrames
        /\ captured' = captured + n
        /\ held' = IF hold THEN held \cup (captured + 1)..(captured + n) ELSE held
        /\ cb' = [pc |-> "repay", track |-> 1, size |-> n, hush |-> hold]
  BY DEF Deliver
<1>2. n \in Nat /\ captured \in Nat /\ MaxFrames \in Nat /\ held \subseteq 1..captured
  BY TakeAssumption DEF TInv, TakeTypeOK, Delivered
<1>3. cb'.pc = "repay" /\ cb'.track = 1 /\ cb'.size = n /\ cb'.hush = hold
  BY <1>1
<1>4. UNCHANGED <<open, missed, trackRing, owed, file, stop, writer, result>> /\ open /\ cb.pc = "idle"
  BY DEF Deliver
<1>5. TakeTypeOK'
  <2>1. captured' \in 0..MaxFrames /\ held' \subseteq 1..MaxFrames
    BY <1>1, <1>2
  <2>2. 1 \in Tracks
    BY TakeAssumption DEF Tracks
  <2>3. cb' \in [pc : {"idle", "repay", "record"}, track : Tracks, size : Buffers \cup {0}, hush : BOOLEAN]
    BY <1>1, <2>2
  <2> QED
    BY <1>4, <2>1, <2>3 DEF TInv, TakeTypeOK
<1>6. Delivered'
  <2>1. held' \subseteq 1..captured'
    BY <1>1, <1>2
  <2>2. \A i \in (captured' - n + 1)..captured' : i \in held' <=> hold
    BY <1>1, <1>2
  <2> QED
    BY <1>1, <1>2, <1>3, <2>1, <2>2 DEF Delivered
<1>7. WriterOK' /\ Closing'
  BY <1>4 DEF TInv, WriterOK, Closing
<1>8. ASSUME NEW t \in Tracks PROVE Kept(t)'
  <2>1. Reach(t) = captured
    BY <1>4 DEF Reach, Passed
  <2>2. Reach(t)' = captured
    <3>1. t \in Nat /\ 1 <= t
      BY <1>8, TakeAssumption DEF Tracks
    <3>2. ~Passed(t)'
      BY <1>3, <3>1 DEF Passed
    <3> QED
      BY <1>1, <1>2, <1>3, <3>2 DEF Reach
  <2>3. Take(t)' = Take(t) /\ owed'[t] = owed[t] /\ missed'[t] = missed[t]
    BY <1>4 DEF Take
  <2>4. \A i \in 1..captured : i \in held' <=> i \in held
    BY <1>1, <1>2
  <2>5. InTime(Take(t), owed[t], captured, missed[t], held)
    BY <1>8, <2>1 DEF TInv, Kept
  <2>6. InTime(Take(t), owed[t], captured, missed[t], held')
    <3>1. Len(Take(t)) \in Nat /\ Len(Take(t)) <= captured
      BY <2>5, <1>2 DEF InTime
    <3> QED
      BY <2>4, <2>5, <3>1, <1>2 DEF InTime
  <2> QED
    BY <2>2, <2>3, <2>6 DEF Kept
<1> QED
  BY <1>5, <1>6, <1>7, <1>8 DEF TInv, Tracks

(* A step that adds to the end of a ring adds to the end of its take.      *)
LEMMA RingGrows ==
  ASSUME TakeTypeOK, NEW t \in Tracks, NEW add \in Seq(0..MaxFrames),
         trackRing'[t] = trackRing[t] \o add, file' = file
  PROVE  Take(t)' = Take(t) \o add
<1>1. file[t] \in Seq(0..MaxFrames) /\ trackRing[t] \in Seq(0..MaxFrames)
  BY DEF TakeTypeOK
<1>2. (file[t] \o trackRing[t]) \o add = file[t] \o (trackRing[t] \o add)
  <2>1. \A x, y, z \in Seq(0..MaxFrames) : (x \o y) \o z = x \o (y \o z)
    BY ONLY ConcatAssociative
  <2> QED
    BY <1>1, <2>1
<1> QED
  BY <1>2 DEF Take

(* The other tracks, when the callback works on one.                       *)
LEMMA OtherTracksKept ==
  ASSUME TInv, NEW t \in Tracks, t # cb.track,
         cb.pc # "idle", Passed(t)' <=> Passed(t), cb'.pc = "idle" \/ cb'.size = cb.size,
         trackRing'[t] = trackRing[t], file' = file,
         owed'[t] = owed[t], missed'[t] = missed[t], held' = held, captured' = captured
  PROVE  Kept(t)'
<1>1. cb'.pc = "idle" => Passed(t)'
  BY DEF Passed
<1>2. Reach(t)' = Reach(t)
  BY <1>1 DEF Reach
<1>3. Take(t)' = Take(t)
  BY DEF Take
<1> QED
  BY <1>2, <1>3 DEF TInv, Kept

LEMMA RepayTInv == TInv /\ Repay => TInv'
<1> SUFFICES ASSUME TInv, Repay PROVE TInv'
  OBVIOUS
<1> DEFINE c == cb.track
           n == Least(owed[c], FreeSlots(c))
           hushes == Hush(n)
           debtAfter == owed[c] - n
           after == [cb EXCEPT !.pc = "record"]
<1>1. /\ cb.pc = "repay" /\ cb' = after
      /\ trackRing' = [trackRing EXCEPT ![c] = @ \o hushes]
      /\ owed' = [owed EXCEPT ![c] = debtAfter]
      /\ UNCHANGED <<open, captured, held, missed, file, stop, writer, result>>
  BY DEF Repay
<1>2. after.pc = "record" /\ after.track = c /\ after.size = cb.size /\ after.hush = cb.hush
      /\ after \in [pc : {"idle", "repay", "record"}, track : Tracks, size : Buffers \cup {0}, hush : BOOLEAN]
  BY DEF TInv, TakeTypeOK
<1>3. c \in Tracks /\ Len(trackRing[c]) \in Nat /\ Len(trackRing[c]) <= Cap /\ trackRing[c] \in Seq(0..MaxFrames)
      /\ owed[c] \in 0..MaxFrames
  BY DEF TInv, TakeTypeOK
<1>4. n \in Nat /\ n <= owed[c] /\ Len(trackRing[c]) + n <= Cap
  BY <1>3, TakeAssumption DEF Least, FreeSlots
<1>5. hushes \in Seq(0..MaxFrames) /\ Len(hushes) = n
  BY <1>4, TakeAssumption DEF Hush, Silence
<1>6. debtAfter \in 0..MaxFrames
  BY <1>3, <1>4, TakeAssumption
<1> HIDE DEF after, n, debtAfter
<1>7. InTime(Take(c) \o hushes, debtAfter, Reach(c), missed[c], held)
  BY <1>3, <1>4, SilenceKeepsTime DEF TInv, Kept, debtAfter
<1> HIDE DEF hushes
<1>8. trackRing[c] \o hushes \in Seq(0..MaxFrames) /\ Len(trackRing[c] \o hushes) <= Cap
  BY <1>3, <1>4, <1>5, ConcatProperties
<1> DEFINE longer == trackRing[c] \o hushes
<1> HIDE DEF longer
<1>9. trackRing' = [trackRing EXCEPT ![c] = longer]
  BY <1>1 DEF longer
<1>10. TakeTypeOK'
  <2>1. trackRing' \in [Tracks -> Seq(0..MaxFrames)] /\ \A t \in Tracks : Len(trackRing'[t]) <= Cap
    BY <1>8, <1>9 DEF longer, TInv, TakeTypeOK
  <2>2. owed' \in [Tracks -> 0..MaxFrames]
    BY <1>1, <1>6 DEF TInv, TakeTypeOK
  <2> QED
    BY <1>1, <1>2, <2>1, <2>2 DEF TInv, TakeTypeOK
<1>11. Delivered' /\ WriterOK'
  BY <1>1, <1>2 DEF TInv, Delivered, WriterOK
<1>12. Closing'
  <2>1. open
    BY <1>1 DEF TInv, Closing
  <2> QED
    BY <1>1, <2>1 DEF TInv, Closing
<1>13. ASSUME NEW t \in Tracks PROVE Kept(t)'
  <2>1. Passed(t)' <=> Passed(t)
    BY <1>1, <1>2 DEF Passed
  <2>2. CASE t = c
    <3>1. trackRing'[t] = trackRing[t] \o hushes /\ owed'[t] = debtAfter /\ missed'[t] = missed[t]
      BY <1>1, <1>3, <2>2 DEF TInv, TakeTypeOK
    <3>2. Take(t)' = Take(t) \o hushes
      BY <3>1, <1>1, <1>5, RingGrows DEF TInv
    <3>3. Reach(t)' = Reach(t)
      BY <1>1, <1>2, <2>1 DEF Reach
    <3> QED
      BY <1>1, <1>7, <2>2, <3>1, <3>2, <3>3 DEF Kept
  <2>3. CASE t # c
    <3>1. trackRing'[t] = trackRing[t] /\ owed'[t] = owed[t] /\ missed'[t] = missed[t]
      BY <1>1, <2>3 DEF TInv, TakeTypeOK
    <3> QED
      BY <1>1, <1>2, <2>1, <2>3, <3>1, OtherTracksKept
  <2> QED
    BY <2>2, <2>3
<1> QED
  BY <1>10, <1>11, <1>12, <1>13 DEF TInv, Tracks

LEMMA RecordTInv == TInv /\ Record => TInv'
<1> SUFFICES ASSUME TInv, Record PROVE TInv'
  OBVIOUS
<1> DEFINE c == cb.track
           r == Room
           news == Frames(r)
           debtAfter == owed[c] + cb.size - r
           gaps == missed[c] \cup (captured - cb.size + r + 1)..captured
           next == [cb EXCEPT !.pc = "repay", !.track = @ + 1]
<1>1. /\ cb.pc = "record" /\ cb' = IF c < ArmedTracks THEN next ELSE Quiet
      /\ trackRing' = [trackRing EXCEPT ![c] = @ \o news]
      /\ owed' = [owed EXCEPT ![c] = debtAfter]
      /\ missed' = [missed EXCEPT ![c] = gaps]
      /\ UNCHANGED <<open, captured, held, file, stop, writer, result>>
  BY DEF Record
<1>2. /\ next.pc = "repay" /\ next.track = c + 1 /\ next.size = cb.size /\ next.hush = cb.hush
      /\ c < ArmedTracks =>
           next \in [pc : {"idle", "repay", "record"}, track : Tracks, size : Buffers \cup {0}, hush : BOOLEAN]
  <2>1. /\ cb = [pc |-> cb.pc, track |-> c, size |-> cb.size, hush |-> cb.hush]
        /\ c \in Nat \ {0} /\ cb.size \in Buffers \cup {0} /\ cb.hush \in BOOLEAN
    BY TakeAssumption DEF TInv, TakeTypeOK, Tracks
  <2>2. next = [pc |-> "repay", track |-> c + 1, size |-> cb.size, hush |-> cb.hush]
    <3>1. [cb EXCEPT !.pc = "repay"] = [pc |-> "repay", track |-> c, size |-> cb.size, hush |-> cb.hush]
      BY <2>1
    <3>2. \A k, s, h : [[pc |-> "repay", track |-> k, size |-> s, hush |-> h] EXCEPT !.track = k + 1]
                       = [pc |-> "repay", track |-> k + 1, size |-> s, hush |-> h]
      OBVIOUS
    <3>3. [[pc |-> "repay", track |-> c, size |-> cb.size, hush |-> cb.hush] EXCEPT !.track = c + 1]
          = [pc |-> "repay", track |-> c + 1, size |-> cb.size, hush |-> cb.hush]
      BY <3>2
    <3> QED
      BY <3>1, <3>3
  <2>3. c < ArmedTracks => c + 1 \in Tracks
    BY <2>1, TakeAssumption DEF Tracks
  <2> HIDE DEF next
  <2> QED
    BY <2>1, <2>2, <2>3
<1>3. Quiet.pc = "idle" /\ Quiet.size = 0
      /\ Quiet \in [pc : {"idle", "repay", "record"}, track : Tracks, size : Buffers \cup {0}, hush : BOOLEAN]
  BY TakeAssumption DEF Quiet, Tracks
<1>4. /\ c \in Tracks /\ Len(trackRing[c]) \in Nat /\ Len(trackRing[c]) <= Cap
      /\ trackRing[c] \in Seq(0..MaxFrames) /\ owed[c] \in 0..MaxFrames
      /\ captured \in Nat /\ captured <= MaxFrames /\ cb.size \in Nat /\ cb.size <= captured
      /\ missed[c] \subseteq 1..MaxFrames
  BY TakeAssumption DEF TInv, TakeTypeOK, Delivered
<1>5. r \in 0..cb.size /\ Len(trackRing[c]) + r <= Cap /\ (owed[c] # 0 => r = 0)
  BY <1>4, TakeAssumption DEF Room, Least, FreeSlots
<1>6. Reach(c) = captured - cb.size
  <2>1. ~Passed(c)
    BY <1>1, <1>4, TakeAssumption DEF Passed, Tracks
  <2> QED
    BY <2>1 DEF Reach
<1>7. /\ news \in Seq(0..MaxFrames) /\ Len(news) = r
      /\ \A i \in 1..r : news[i] = IF cb.hush THEN 0 ELSE captured - cb.size + i
  <2> HIDE DEF r
  <2>1. \A i \in 1..r : captured - cb.size + i \in 0..MaxFrames
    <3>1. cb.size \in Nat /\ captured \in Nat /\ MaxFrames \in Nat /\ r \in 0..cb.size
      BY <1>4, <1>5, TakeAssumption
    <3>2. \A a, s, n, m, i \in Nat : n <= s /\ s <= a /\ a <= m /\ i >= 1 /\ i <= n => a - s + i \in 0..m
      OBVIOUS
    <3> QED
      BY <1>4, <3>1, <3>2
  <2>2. r \in Nat /\ 0 \in 0..MaxFrames
    BY <1>4, <1>5, TakeAssumption
  <2>3. CASE cb.hush
    BY <2>2, <2>3 DEF Frames, Hush, Silence
  <2>4. CASE ~cb.hush
    BY <2>1, <2>2, <2>4 DEF Frames
  <2> QED
    BY <2>3, <2>4
<1> HIDE DEF next, r, news
<1>8. \A i \in 1..r : news[i] = (IF Reach(c) + i \in held THEN Silence ELSE Reach(c) + i)
  <2>1. ASSUME NEW i \in 1..r
        PROVE  news[i] = (IF Reach(c) + i \in held THEN Silence ELSE Reach(c) + i)
    <3>1. Reach(c) + i \in (captured - cb.size + 1)..captured
      BY <1>4, <1>5, <1>6
    <3>2. Reach(c) + i \in held <=> cb.hush
      BY <1>1, <3>1 DEF TInv, Delivered
    <3> QED
      BY <1>6, <1>7, <3>2 DEF Silence
  <2> QED
    BY <2>1
<1>9. InTime(Take(c) \o news, debtAfter, captured, gaps, held)
  <2>1. InTime(Take(c), owed[c], Reach(c), missed[c], held)
    BY <1>4 DEF TInv, Kept
  <2>2. news \in Seq(Nat)
    <3>1. 0..MaxFrames \subseteq Nat
      BY TakeAssumption
    <3> QED
      BY ONLY <1>7, <3>1, SeqMonotonic
  <2>3. InTime(Take(c) \o news, debtAfter, Reach(c) + cb.size,
               missed[c] \cup (Reach(c) + r + 1)..(Reach(c) + cb.size), held)
    BY <1>4, <1>5, <1>7, <1>8, <2>1, <2>2, NewsKeepsTime
  <2>4. Reach(c) + cb.size = captured
    BY <1>4, <1>6
  <2> QED
    BY <1>6, <2>3, <2>4
<1>10. debtAfter \in 0..MaxFrames /\ gaps \subseteq 1..MaxFrames
  <2>1. debtAfter \in Nat /\ Len(Take(c) \o news) \in Nat /\ Len(Take(c) \o news) + debtAfter = captured
    BY <1>9 DEF InTime
  <2>2. gaps \subseteq 1..captured
    BY <1>9 DEF InTime
  <2> HIDE DEF debtAfter, gaps
  <2> QED
    BY <1>4, <2>1, <2>2, TakeAssumption
<1> HIDE DEF debtAfter, gaps
<1>11. trackRing[c] \o news \in Seq(0..MaxFrames) /\ Len(trackRing[c] \o news) <= Cap
  BY <1>4, <1>5, <1>7, ConcatProperties
<1> DEFINE longer == trackRing[c] \o news
<1> HIDE DEF longer
<1>12. trackRing' = [trackRing EXCEPT ![c] = longer]
  BY <1>1 DEF longer
<1>13. TakeTypeOK'
  <2>1. trackRing' \in [Tracks -> Seq(0..MaxFrames)] /\ \A t \in Tracks : Len(trackRing'[t]) <= Cap
    BY <1>11, <1>12 DEF longer, TInv, TakeTypeOK
  <2>2. owed' \in [Tracks -> 0..MaxFrames] /\ missed' \in [Tracks -> SUBSET (1..MaxFrames)]
    BY <1>1, <1>10 DEF TInv, TakeTypeOK
  <2> QED
    BY <1>1, <1>2, <1>3, <2>1, <2>2 DEF TInv, TakeTypeOK
<1>14. Delivered' /\ WriterOK'
  <2>1. Delivered'
    BY <1>1, <1>2, <1>3, <1>4 DEF TInv, Delivered
  <2> QED
    BY <1>1, <2>1 DEF TInv, WriterOK
<1>15. Closing'
  <2>1. open
    BY <1>1 DEF TInv, Closing
  <2> QED
    BY <1>1, <2>1 DEF TInv, Closing
<1>16. ASSUME NEW t \in Tracks PROVE Kept(t)'
  <2>1. CASE t = c
    <3>1. trackRing'[t] = trackRing[t] \o news /\ owed'[t] = debtAfter /\ missed'[t] = gaps
      BY <1>1, <1>4, <2>1 DEF TInv, TakeTypeOK
    <3>2. Take(t)' = Take(t) \o news
      BY <3>1, <1>1, <1>7, RingGrows DEF TInv
    <3>3. Passed(t)'
      BY <1>1, <1>2, <1>3, <1>4, <2>1, TakeAssumption DEF Passed, Tracks
    <3>4. Reach(t)' = captured
      BY <1>1, <3>3 DEF Reach
    <3> QED
      BY <1>1, <1>9, <2>1, <3>1, <3>2, <3>4 DEF Kept
  <2>2. CASE t # c
    <3>1. trackRing'[t] = trackRing[t] /\ owed'[t] = owed[t] /\ missed'[t] = missed[t]
      BY <1>1, <2>2 DEF TInv, TakeTypeOK
    <3>2. Passed(t)' <=> Passed(t)
      BY <1>1, <1>2, <1>3, <1>4, <2>2, TakeAssumption DEF Passed, Tracks
    <3>3. cb'.pc = "idle" \/ cb'.size = cb.size
      BY <1>1, <1>2, <1>3
    <3> QED
      BY <1>1, <2>2, <3>1, <3>2, <3>3, OtherTracksKept
  <2> QED
    BY <2>1, <2>2
<1> QED
  BY <1>13, <1>14, <1>15, <1>16 DEF TInv, Tracks

LEMMA NextTrackIsOK ==
  ASSUME WriterOK, writer.track <= ArmedTracks, NEW b \in BOOLEAN
  PROVE  NextTrack(b) \in [pc : {writer.pc}, track : 1..(ArmedTracks + 1), moved : BOOLEAN]
<1> DEFINE w == NextTrack(b)
<1>1. w = [[writer EXCEPT !.track = @ + 1] EXCEPT !.moved = b]
  BY DEF NextTrack
<1>2. [writer EXCEPT !.track = @ + 1]
        \in [pc : {writer.pc}, track : 1..(ArmedTracks + 1), moved : BOOLEAN]
  <2>1. writer.track + 1 \in 1..(ArmedTracks + 1)
    BY TakeAssumption DEF WriterOK
  <2> QED
    BY <2>1 DEF WriterOK
<1> QED
  BY <1>1, <1>2

LEMMA DrainTInv == TInv /\ Drain => TInv'
<1> SUFFICES ASSUME TInv, Drain PROVE TInv'
  OBVIOUS
<1> DEFINE d == writer.track
<1>1. /\ writer.pc = "sweep" /\ d <= ArmedTracks
      /\ UNCHANGED <<open, captured, held, missed, cb, owed, stop, result>>
  BY DEF Drain
<1>2. d \in Tracks /\ WriterOK
  BY <1>1, TakeAssumption DEF TInv, WriterOK, Tracks
<1>3. ASSUME NEW b \in BOOLEAN, writer' = NextTrack(b)
      PROVE  writer'.pc = "sweep" /\ WriterOK'
  BY <1>1, <1>2, <1>3, NextTrackIsOK DEF WriterOK
<1>4. CASE trackRing[d] = <<>> /\ writer' = NextTrack(writer.moved) /\ UNCHANGED <<trackRing, file>>
  <2>1. writer.moved \in BOOLEAN
    BY <1>2 DEF WriterOK
  <2>2. writer'.pc = "sweep" /\ WriterOK'
    BY <1>3, <1>4, <2>1
  <2>3. \A t \in Tracks : Kept(t)'
    BY <1>1, <1>4, KeptStays DEF TInv, Take
  <2> QED
    BY <1>1, <1>4, <2>2, <2>3 DEF TInv, TakeTypeOK, Delivered, Closing, Tracks
<1>5. CASE \E k \in 1..Len(trackRing[d]) :
             /\ file' = [file EXCEPT ![d] = @ \o SubSeq(trackRing[d], 1, k)]
             /\ trackRing' = [trackRing EXCEPT ![d] = SubSeq(@, k + 1, Len(@))]
             /\ writer' = NextTrack(TRUE)
  <2>1. PICK k \in 1..Len(trackRing[d]) :
             /\ file' = [file EXCEPT ![d] = @ \o SubSeq(trackRing[d], 1, k)]
             /\ trackRing' = [trackRing EXCEPT ![d] = SubSeq(@, k + 1, Len(@))]
             /\ writer' = NextTrack(TRUE)
    BY <1>5
  <2> DEFINE head == SubSeq(trackRing[d], 1, k)
             tail == SubSeq(trackRing[d], k + 1, Len(trackRing[d]))
  <2>2. file' = [file EXCEPT ![d] = @ \o head] /\ trackRing' = [trackRing EXCEPT ![d] = tail]
    BY <2>1
  <2>3. /\ file[d] \in Seq(0..MaxFrames) /\ trackRing[d] \in Seq(0..MaxFrames)
        /\ Len(trackRing[d]) \in Nat /\ Len(trackRing[d]) <= Cap
    BY <1>2 DEF TInv, TakeTypeOK
  <2>4. /\ file[d] \o head \in Seq(0..MaxFrames) /\ tail \in Seq(0..MaxFrames)
        /\ Len(tail) = Len(trackRing[d]) - k
        /\ (file[d] \o head) \o tail = file[d] \o trackRing[d]
    <3>1. head = SubSeq(trackRing[d], 1, k) /\ tail = SubSeq(trackRing[d], k + 1, Len(trackRing[d]))
      OBVIOUS
    <3> HIDE DEF head, tail
    <3>2. PICK f, g, h, l, n : f = file[d] /\ g = trackRing[d] /\ h = head /\ l = tail /\ n = k
      OBVIOUS
    <3>3. /\ f \in Seq(0..MaxFrames) /\ g \in Seq(0..MaxFrames) /\ n \in 1..Len(g)
          /\ h = SubSeq(g, 1, n) /\ l = SubSeq(g, n + 1, Len(g))
      BY <2>3, <3>1, <3>2
    <3>4. /\ f \o h \in Seq(0..MaxFrames) /\ l \in Seq(0..MaxFrames)
          /\ Len(l) = Len(g) - n /\ (f \o h) \o l = f \o g
      <4>1. Len(g) \in Nat /\ n \in Nat /\ n <= Len(g) /\ 1 <= n
        BY <3>3
      <4>2. \A i \in 1..Len(g) : g[i] \in 0..MaxFrames
        BY ONLY <3>3, ElementOfSeq
      <4>3. h \in Seq(0..MaxFrames) /\ l \in Seq(0..MaxFrames) /\ Len(l) = Len(g) - n
        BY ONLY <3>3, <4>1, <4>2, SubSeqProperties
      <4>4. h \o l = g
        <5>1. 1 \in 1..Len(g) + 1 /\ n \in 1 - 1..Len(g) /\ Len(g) \in n..Len(g)
          BY <4>1
        <5>2. SubSeq(g, 1, n) \o SubSeq(g, n + 1, Len(g)) = SubSeq(g, 1, Len(g))
          BY ONLY <3>3, <5>1, ConcatAdjacentSubSeq
        <5>3. SubSeq(g, 1, Len(g)) = g
          BY ONLY <3>3, SubSeqFull
        <5> QED
          BY <3>3, <5>2, <5>3
      <4>5. (f \o h) \o l = f \o (h \o l)
        <5>1. \A x, y, z \in Seq(0..MaxFrames) : (x \o y) \o z = x \o (y \o z)
          BY ONLY ConcatAssociative
        <5> QED
          BY <3>3, <4>3, <5>1
      <4>6. f \o h \in Seq(0..MaxFrames)
        BY ONLY <3>3, <4>3, ConcatProperties
      <4> QED
        BY <4>3, <4>4, <4>5, <4>6
    <3> QED
      BY <3>2, <3>4
  <2> HIDE DEF head, tail
  <2>5. writer'.pc = "sweep" /\ WriterOK'
    BY <1>3, <2>1
  <2>6. Len(tail) <= Cap
    BY <2>3, <2>4, TakeAssumption
  <2>7. TakeTypeOK'
    <3>1. trackRing' \in [Tracks -> Seq(0..MaxFrames)] /\ \A t \in Tracks : Len(trackRing'[t]) <= Cap
      BY <2>2, <2>4, <2>6 DEF TInv, TakeTypeOK
    <3> DEFINE longer == file[d] \o head
    <3>2. longer \in Seq(0..MaxFrames) /\ file' = [file EXCEPT ![d] = longer]
      BY <2>2, <2>4
    <3> HIDE DEF longer
    <3>3. file' \in [Tracks -> Seq(0..MaxFrames)]
      BY <3>2 DEF TInv, TakeTypeOK
    <3> QED
      BY <1>1, <2>5, <3>1, <3>3 DEF TInv, TakeTypeOK
  <2>8. ASSUME NEW t \in Tracks PROVE Kept(t)'
    <3>1. CASE t = d
      <4>1. file'[t] = file[t] \o head /\ trackRing'[t] = tail
        BY <1>2, <2>2, <3>1 DEF TInv, TakeTypeOK
      <4>2. Take(t)' = Take(t)
        BY <2>4, <3>1, <4>1 DEF Take
      <4> QED
        BY <1>1, <4>2, KeptStays DEF TInv
    <3>2. CASE t # d
      <4>1. file'[t] = file[t] /\ trackRing'[t] = trackRing[t]
        BY <2>2, <3>2 DEF TInv, TakeTypeOK
      <4> QED
        BY <1>1, <4>1, KeptStays DEF TInv, Take
    <3> QED
      BY <3>1, <3>2
  <2>9. Delivered' /\ Closing'
    BY <1>1, <2>5 DEF TInv, Delivered, Closing
  <2> QED
    BY <2>5, <2>7, <2>8, <2>9 DEF TInv, Tracks
<1> QED
  BY <1>4, <1>5 DEF Drain

(* The other steps move no frame.                                          *)
LEMMA StandingTInv ==
  ASSUME TInv, UNCHANGED <<captured, held, missed, cb, trackRing, owed, file>>,
         open' \in BOOLEAN, stop' \in BOOLEAN, result' \in {"none", "clips", "error"},
         WriterOK', Closing'
  PROVE  TInv'
<1>1. writer'.pc \in {"sweep", "residue", "finalize", "done", "failed"}
  BY DEF WriterOK
<1>2. TakeTypeOK' /\ Delivered'
  BY <1>1 DEF TInv, TakeTypeOK, Delivered
<1>3. \A t \in Tracks : Kept(t)'
  BY KeptStays DEF TInv, Take
<1> QED
  BY <1>2, <1>3 DEF TInv, Tracks

LEMMA StandingSteps ==
  ASSUME TInv, DiskFails \/ EndSweep \/ Residue \/ CloseFiles \/ Close \/ Stop \/ Finish
  PROVE  TInv'
<1>1. TakeTypeOK /\ WriterOK /\ Closing
  BY DEF TInv
<1>2. ASSUME NEW p \in {"sweep", "residue", "finalize", "done", "failed"}, writer' = [writer EXCEPT !.pc = p]
      PROVE  WriterOK' /\ writer'.pc = p
  BY <1>1, <1>2 DEF WriterOK
<1>3. ASSUME writer' = Sweep PROVE WriterOK' /\ writer'.pc = "sweep"
  BY <1>3, TakeAssumption DEF WriterOK, Sweep
<1>4. CASE DiskFails
  <2>1. WriterOK' /\ writer'.pc = "failed" /\ writer.pc # "done"
    BY <1>2, <1>4 DEF DiskFails
  <2>2. Closing'
    BY <1>1, <1>4, <2>1 DEF DiskFails, Closing
  <2> QED
    BY <1>1, <1>4, <2>1, <2>2, StandingTInv DEF DiskFails, TakeTypeOK
<1>5. CASE EndSweep
  <2>1. /\ WriterOK' /\ writer'.pc \in {"sweep", "residue"} /\ writer.pc = "sweep"
        /\ writer'.pc = "residue" => stop \/ ~open
    BY <1>2, <1>3, <1>5 DEF EndSweep, Abandoned
  <2>2. Closing'
    BY <1>1, <1>5, <2>1 DEF EndSweep, Closing
  <2> QED
    BY <1>1, <1>5, <2>1, <2>2, StandingTInv DEF EndSweep, TakeTypeOK
<1>6. CASE Residue
  <2>1. /\ WriterOK' /\ writer'.pc \in {"sweep", "finalize"} /\ writer.pc = "residue"
        /\ writer'.pc = "finalize" => \A t \in Tracks : trackRing[t] = <<>>
    BY <1>2, <1>3, <1>6 DEF Residue
  <2>2. Closing'
    BY <1>1, <1>6, <2>1 DEF Residue, Closing
  <2> QED
    BY <1>1, <1>6, <2>1, <2>2, StandingTInv DEF Residue, TakeTypeOK
<1>7. CASE CloseFiles
  <2>1. WriterOK' /\ writer'.pc = "done" /\ writer.pc = "finalize"
    BY <1>2, <1>7 DEF CloseFiles
  <2>2. Closing'
    BY <1>1, <1>7, <2>1 DEF CloseFiles, Closing
  <2> QED
    BY <1>1, <1>7, <2>1, <2>2, StandingTInv DEF CloseFiles, TakeTypeOK
<1>8. CASE Close
  <2>1. WriterOK' /\ Closing'
    BY <1>1, <1>8 DEF Close, Closing, WriterOK
  <2> QED
    BY <1>1, <1>8, <2>1, StandingTInv DEF Close, TakeTypeOK
<1>9. CASE Stop
  <2>1. WriterOK' /\ Closing'
    BY <1>1, <1>9 DEF Stop, Closing, WriterOK
  <2> QED
    BY <1>1, <1>9, <2>1, StandingTInv DEF Stop, TakeTypeOK
<1>10. CASE Finish
  <2>1. WriterOK' /\ Closing'
    BY <1>1, <1>10 DEF Finish, Closing, WriterOK
  <2>2. result' \in {"none", "clips", "error"}
    BY <1>10 DEF Finish
  <2> QED
    BY <1>1, <1>10, <2>1, <2>2, StandingTInv DEF Finish, TakeTypeOK
<1> QED
  BY <1>4, <1>5, <1>6, <1>7, <1>8, <1>9, <1>10

LEMMA StutterTInv == TInv /\ UNCHANGED takeVars => TInv'
<1> SUFFICES ASSUME TInv, UNCHANGED takeVars PROVE TInv'
  OBVIOUS
<1>1. TakeTypeOK /\ WriterOK /\ Closing
  BY DEF TInv
<1>2. WriterOK' /\ Closing'
  BY <1>1 DEF takeVars, WriterOK, Closing
<1> QED
  BY <1>1, <1>2, StandingTInv DEF takeVars, TakeTypeOK

LEMMA TInvIsEnough == TInv => TakeIsWhole
<1> SUFFICES ASSUME TInv PROVE TakeIsWhole
  OBVIOUS
<1>1. ASSUME NEW t \in Tracks, Passed(t) PROVE Len(Take(t)) + owed[t] = captured
  BY <1>1 DEF TInv, Kept, InTime, Reach
<1>2. TakeKeepsTime
  BY <1>1 DEF TInv, Kept, InTime, TakeKeepsTime
<1>3. ASSUME result = "clips", NEW t \in Tracks PROVE Len(file[t]) + owed[t] = captured
  <2>1. trackRing[t] = <<>> /\ cb.pc = "idle"
    BY <1>3 DEF TInv, Closing
  <2>2. Take(t) = file[t]
    BY <2>1, ConcatEmptySeq DEF TInv, TakeTypeOK, Take
  <2> QED
    BY <1>1, <2>1, <2>2 DEF Passed
<1> QED
  BY <1>2, <1>3 DEF TInv, TakeIsWhole, NothingLeftBehind

(* Whatever the number of tracks, the rings' room and the buffers' sizes,  *)
(* however the writer is held up, and whatever the user holds: a take      *)
(* keeps time, and the clips it ends with hold all of it                   *)
(* (audio/recorder.rs, audio/engine.rs InputCb::capture).                  *)
THEOREM TakesAreWhole == TakeSpec => []TakeIsWhole
<1>1. TakeInit => TInv
  BY TakeInitTInv
<1>2. TInv /\ [TakeNext]_takeVars => TInv'
  BY DeliverTInv, RepayTInv, RecordTInv, DrainTInv, StandingSteps, StutterTInv DEF TakeNext
<1>3. TInv => TakeIsWhole
  BY TInvIsEnough
<1> QED
  BY <1>1, <1>2, <1>3, PTL DEF TakeSpec

----------------------------------------------------------------------------
(* The graph exchange.                                                     *)

(* From the test of the retire ring to the push, the ring keeps a slot:    *)
(* the control thread only takes out, and no other callback puts in.       *)
RetireHasRoom ==
  \A s \in Streams : rt[s].pc \in {"pop", "swap", "push"} => Len(retire[s]) < RetireSlots

(* The newest generation a graph of stream s may have: while a rebuild is  *)
(* between its tables and its push, its own generation is still to come.   *)
Issued(g) == IF cpc \in {"drain", "push"} THEN g < generation ELSE g <= generation

(* The graphs a callback has ahead of it are in order, newer than the one  *)
(* it plays, and older than the next to be pushed.                         *)
Ascending(s) ==
  /\ \A i, j \in DOMAIN ring[s] : i < j => ring[s][i] < ring[s][j]
  /\ \A i \in DOMAIN ring[s] : Issued(ring[s][i]) /\ ring[s][i] > rt[s].graph
  /\ rt[s].graph # None => Issued(rt[s].graph)
  /\ rt[s].pc = "swap" =>
       /\ Issued(rt[s].hand) /\ rt[s].hand > rt[s].graph
       /\ \A i \in DOMAIN ring[s] : ring[s][i] > rt[s].hand

(* The parts of the type invariant that the proofs need. *)
GraphTypes ==
  /\ generation \in Nat
  /\ cpc \in {"idle", "install", "join", "publish", "drain", "push"}
  /\ {output, opening} \subseteq Streams \cup {NoStream}
  /\ cpc \in {"drain", "push"} => output \in Streams /\ generation # 0
  /\ ring \in [Streams -> Seq(Graph)]
  /\ retire \in [Streams -> Seq(Graph)]
  /\ rt \in [Streams -> RtState]

GraphInv ==
  /\ GraphTypes
  /\ RetireHasRoom
  /\ NoFreeOnAudioThread
  /\ \A s \in Streams : Ascending(s)

----------------------------------------------------------------------------

(* What a push and a pop do to the entries of a queue. *)
LEMMA AppendEntries ==
  ASSUME NEW q \in Seq(Graph), NEW g \in Graph
  PROVE  /\ Append(q, g) \in Seq(Graph)
         /\ DOMAIN q = 1..Len(q) /\ Len(q) \in Nat
         /\ DOMAIN Append(q, g) = 1..(Len(q) + 1)
         /\ Append(q, g)[Len(q) + 1] = g
         /\ \A i \in 1..Len(q) : Append(q, g)[i] = q[i] /\ q[i] \in Graph
  OBVIOUS

LEMMA TailEntries ==
  ASSUME NEW q \in Seq(Graph), q # <<>>
  PROVE  /\ Tail(q) \in Seq(Graph)
         /\ DOMAIN q = 1..Len(q) /\ Len(q) \in Nat \ {0}
         /\ Head(q) = q[1] /\ q[1] \in Graph
         /\ DOMAIN Tail(q) = 1..(Len(q) - 1)
         /\ \A i \in 1..(Len(q) - 1) : Tail(q)[i] = q[i + 1]
         /\ Len(Tail(q)) = Len(q) - 1
  OBVIOUS

LEMMA InitGraphInv == Init => GraphInv
  <1> SUFFICES ASSUME Init PROVE GraphInv OBVIOUS
  <1> USE DEF Init
  <1>1. GraphTypes BY DEF GraphTypes, RtState, Graph, None
  <1>2. RetireHasRoom /\ NoFreeOnAudioThread BY DEF RetireHasRoom, NoFreeOnAudioThread
  <1>3. \A s \in Streams : Ascending(s) BY DEF Ascending, Issued, None
  <1> QED BY <1>1, <1>2, <1>3 DEF GraphInv

(* Steps of the control thread. *)
LEMMA ControlGraphInv == ASSUME GraphInv, Control PROVE GraphInv'
  <1> USE DEF GraphInv, control, streams, queues, graphs
  <1>1. CASE AskRebuild \/ RetryRebuild \/ (\E s \in Streams : PlayStream(s)) \/ StopPrevious
    <2>1. /\ UNCHANGED <<generation, output, queues, rt, rtFreed>>
          /\ opening' \in Streams \cup {NoStream}
          /\ cpc \in {"idle", "install"} /\ cpc' \in {"publish", "install", "join"}
      <3>1. CASE AskRebuild BY <3>1 DEF AskRebuild, GraphTypes
      <3>2. CASE RetryRebuild BY <3>2 DEF RetryRebuild, GraphTypes
      <3>3. CASE \E s \in Streams : PlayStream(s) BY <3>3 DEF PlayStream, GraphTypes
      <3>4. CASE StopPrevious BY <3>4 DEF StopPrevious, GraphTypes
      <3> QED BY <1>1, <3>1, <3>2, <3>3, <3>4
    <2> QED BY <2>1 DEF GraphTypes, RetireHasRoom, NoFreeOnAudioThread, Ascending, Issued
  <1>2. CASE PublishTables
    <2> USE <1>2 DEF PublishTables
    <2>1. GraphTypes' BY DEF GraphTypes
    <2>2. RetireHasRoom' /\ NoFreeOnAudioThread' BY DEF RetireHasRoom, NoFreeOnAudioThread
    <2>3. \A g \in Nat : Issued(g) => Issued(g)' BY DEF GraphTypes, Issued
    <2>4. ASSUME NEW s \in Streams PROVE Ascending(s)'
      BY <2>3 DEF GraphTypes, Ascending, RtState, Graph
    <2> QED BY <2>1, <2>2, <2>4
  <1>3. CASE DropRetired
    <2> USE <1>3 DEF DropRetired
    <2>1. GraphTypes' BY DEF GraphTypes
    <2>2. Len(Tail(retire[output])) <= Len(retire[output]) /\ output \in Streams BY DEF GraphTypes
    <2>3. RetireHasRoom' /\ NoFreeOnAudioThread'
      BY <2>2, RingAssumption DEF GraphTypes, RetireHasRoom, NoFreeOnAudioThread
    <2>4. ASSUME NEW s \in Streams PROVE Ascending(s)' BY DEF Ascending, Issued
    <2> QED BY <2>1, <2>3, <2>4
  <1>4. CASE DrainDone
    BY <1>4 DEF DrainDone, GraphTypes, RetireHasRoom, NoFreeOnAudioThread, Ascending, Issued
  <1>5. CASE PushGraph
    <2>1. /\ cpc = "push" /\ cpc' = "idle" /\ output \in Streams
          /\ generation \in Graph
          /\ UNCHANGED <<generation, output, opening, retire, rt, rtFreed>>
      BY <1>5 DEF PushGraph, GraphTypes, Graph
    <2>2. RetireHasRoom' /\ NoFreeOnAudioThread'
      BY <2>1 DEF RetireHasRoom, NoFreeOnAudioThread
    <2>3. \A g \in Nat : Issued(g) => Issued(g)' /\ generation > g
      BY <2>1 DEF Issued, Graph
    <2>4. CASE UNCHANGED ring
      <3>1. GraphTypes' BY <2>1, <2>4 DEF GraphTypes
      <3>2. ASSUME NEW s \in Streams PROVE Ascending(s)'
        BY <2>1, <2>3, <2>4 DEF GraphTypes, Ascending, RtState, Graph
      <3> QED BY <2>2, <3>1, <3>2
    <2>5. CASE ring' = [ring EXCEPT ![output] = Append(@, generation)]
      <3>1. ring[output] \in Seq(Graph) BY <2>1 DEF GraphTypes
      <3>2. ring'[output] = Append(ring[output], generation)
        BY <2>1, <2>5 DEF GraphTypes
      <3>3. \A s \in Streams \ {output} : ring'[s] = ring[s]
        BY <2>5 DEF GraphTypes
      <3>4. GraphTypes'
        BY <2>1, <2>5, <3>1, AppendEntries DEF GraphTypes
      <3>5. ASSUME NEW s \in Streams \ {output} PROVE Ascending(s)'
        BY <2>1, <2>3, <3>3 DEF GraphTypes, Ascending, RtState, Graph
      <3>6. Ascending(output)'
        <4> DEFINE q == ring[output]
        <4>1. /\ DOMAIN q = 1..Len(q) /\ Len(q) \in Nat
              /\ DOMAIN ring'[output] = 1..(Len(q) + 1)
              /\ ring'[output][Len(q) + 1] = generation
              /\ \A i \in 1..Len(q) : ring'[output][i] = q[i] /\ q[i] \in Graph
          BY <2>1, <3>1, <3>2, AppendEntries
        <4>2. /\ \A i \in 1..Len(q) : q[i] < generation /\ q[i] > rt[output].graph
              /\ \A i, j \in 1..Len(q) : i < j => q[i] < q[j]
          BY <2>1, <2>3, <4>1 DEF Ascending, Graph
        <4>3. Issued(generation)' BY <2>1 DEF Issued, Graph
        <4>4. /\ rt[output].graph \in Nat /\ rt[output].hand \in Nat
              /\ generation > rt[output].graph
              /\ rt[output].graph # None => rt[output].graph <= generation
          BY <2>1, <2>3 DEF GraphTypes, RtState, Ascending, Graph, None
        <4>5. rt[output].pc = "swap" =>
                /\ rt[output].hand > rt[output].graph
                /\ generation > rt[output].hand
                /\ \A i \in 1..Len(q) : q[i] > rt[output].hand
          BY <2>1, <2>3, <4>1, <4>4 DEF Ascending
        <4>6. \A i, j \in DOMAIN ring'[output] : i < j => ring'[output][i] < ring'[output][j]
          <5> SUFFICES ASSUME NEW i \in 1..(Len(q) + 1), NEW j \in 1..(Len(q) + 1), i < j
                       PROVE  ring'[output][i] < ring'[output][j]
            BY <4>1
          <5>1. i \in 1..Len(q) /\ ring'[output][i] = q[i] BY <4>1
          <5>2. CASE j \in 1..Len(q)
            <6>1. ring'[output][j] = q[j] BY <4>1, <5>2
            <6>2. q[i] < q[j] BY <4>2, <5>1, <5>2
            <6> QED BY <5>1, <6>1, <6>2
          <5>3. CASE j = Len(q) + 1
            <6>1. ring'[output][j] = generation BY <4>1, <5>3
            <6>2. q[i] < generation BY <4>2, <5>1
            <6> QED BY <5>1, <6>1, <6>2
          <5> QED BY <4>1, <5>2, <5>3
        <4>7. \A i \in DOMAIN ring'[output] :
                ring'[output][i] <= generation /\ ring'[output][i] > rt[output].graph
          <5> SUFFICES ASSUME NEW i \in 1..(Len(q) + 1)
                       PROVE  ring'[output][i] <= generation /\ ring'[output][i] > rt[output].graph
            BY <4>1
          <5>1. CASE i \in 1..Len(q)
            <6>1. ring'[output][i] = q[i] /\ q[i] \in Nat BY <4>1, <5>1 DEF Graph
            <6>2. q[i] < generation /\ q[i] > rt[output].graph BY <4>2, <5>1
            <6> QED BY <2>1, <6>1, <6>2 DEF Graph
          <5>2. CASE i = Len(q) + 1
            <6>1. ring'[output][i] = generation BY <4>1, <5>2
            <6> QED BY <2>1, <4>4, <6>1 DEF Graph
          <5> QED BY <4>1, <5>1, <5>2
        <4>8. rt[output].pc = "swap" => \A i \in DOMAIN ring'[output] : ring'[output][i] > rt[output].hand
          BY <4>1, <4>5
        <4>9. /\ (rt[output].graph # None => Issued(rt[output].graph)) '
              /\ (rt[output].pc = "swap" => Issued(rt[output].hand)) '
          <5>1. rt'[output'].graph = rt[output].graph /\ rt'[output'].hand = rt[output].hand /\ rt'[output'].pc = rt[output].pc
            BY <2>1
          <5>2. rt[output].pc = "swap" => rt[output].hand <= generation
            BY <2>1, <4>4, <4>5 DEF Graph
          <5> QED BY <2>1, <4>4, <5>1, <5>2 DEF Issued
        <4>10. (\A i \in DOMAIN ring[output] : Issued(ring[output][i])) '
          <5>1. \A i \in DOMAIN ring'[output'] : ring'[output'][i] <= generation'
            BY <2>1, <4>7
          <5> QED BY <2>1, <5>1 DEF Issued
        <4> HIDE DEF q
        <4> QED BY <2>1, <4>4, <4>5, <4>6, <4>7, <4>8, <4>9, <4>10 DEF Ascending
      <3>7. \A s \in Streams : Ascending(s)'
        <4> SUFFICES ASSUME NEW s \in Streams PROVE Ascending(s)' OBVIOUS
        <4>1. CASE s = output
          <5>1. output' = s BY <2>1, <4>1
          <5> QED BY <3>6, <4>1, <5>1 DEF Ascending, Issued
        <4>2. CASE s # output BY <3>5, <4>2
        <4> QED BY <4>1, <4>2
      <3> QED BY <2>2, <3>4, <3>7
    <2> QED BY <1>5, <2>4, <2>5 DEF PushGraph
  <1>6. CASE InstallOutput
    <2> USE <1>6 DEF InstallOutput
    <2>1. CASE output = NoStream
      BY <2>1 DEF GraphTypes, RetireHasRoom, NoFreeOnAudioThread, Ascending, Issued
    <2>2. CASE output # NoStream
      <3>1. output \in Streams BY <2>2 DEF GraphTypes
      <3>2. /\ ring' = [ring EXCEPT ![output] = <<>>]
            /\ retire' = [retire EXCEPT ![output] = <<>>]
            /\ rt' = [rt EXCEPT ![output].graph = None]
            /\ rt[output].pc = "idle"
        BY <2>2
      <3>3. GraphTypes'
        <4>1. /\ generation' \in Nat /\ cpc' = "publish"
              /\ {output, opening}' \subseteq Streams \cup {NoStream}
          BY DEF GraphTypes
        <4>2. ring' \in [Streams -> Seq(Graph)] /\ retire' \in [Streams -> Seq(Graph)]
          <5>1. <<>> \in Seq(Graph) OBVIOUS
          <5>2. ring' = [ring EXCEPT ![output] = <<>>] /\ retire' = [retire EXCEPT ![output] = <<>>]
            BY <3>2
          <5>3. ring \in [Streams -> Seq(Graph)] /\ retire \in [Streams -> Seq(Graph)]
            BY DEF GraphTypes
          <5>4. ring' \in [Streams -> Seq(Graph)] BY ONLY <5>1, <5>2, <5>3
          <5>5. retire' \in [Streams -> Seq(Graph)] BY ONLY <5>1, <5>2, <5>3
          <5> QED BY <5>4, <5>5
        <4>3. rt' \in [Streams -> RtState]
          BY <3>2 DEF GraphTypes, RtState, None
        <4> QED BY <4>1, <4>2, <4>3 DEF GraphTypes
      <3>4. ASSUME NEW s \in Streams
            PROVE  /\ rt'[s].pc = rt[s].pc /\ rt'[s].hand = rt[s].hand
                   /\ s # output => /\ ring'[s] = ring[s] /\ retire'[s] = retire[s]
                                    /\ rt'[s].graph = rt[s].graph
                   /\ s = output => ring'[s] = <<>> /\ rt'[s].graph = None
        BY <3>1, <3>2 DEF GraphTypes, RtState
      <3>5. RetireHasRoom' /\ NoFreeOnAudioThread'
        BY <3>2, <3>4 DEF RetireHasRoom, NoFreeOnAudioThread
      <3>6. \A g : Issued(g) => Issued(g)' BY DEF Issued
      <3>7. \A s \in Streams : Ascending(s)'
        BY <3>2, <3>4, <3>6 DEF Ascending
      <3> QED BY <3>3, <3>5, <3>7
    <2> QED BY <2>1, <2>2
  <1> QED BY <1>1, <1>2, <1>3, <1>4, <1>5, <1>6 DEF Control

(* Steps of a callback: the other streams are left alone. *)
LEMMA CallbackGraphInv == ASSUME GraphInv, NEW s \in Streams, Callback(s) PROVE GraphInv'
  <1> USE DEF GraphInv, control, streams, queues, graphs
  <1>1. CASE BeginBlock(s)
    <2> USE <1>1 DEF BeginBlock
    <2>1. \A t \in Streams \ {s} : rt'[t] = rt[t] BY DEF GraphTypes
    <2>2. /\ rt'[s].graph = rt[s].graph
          /\ rt'[s].pc = IF Len(retire[s]) < RetireSlots THEN "pop" ELSE "render"
      BY DEF GraphTypes, RtState
    <2>3. GraphTypes' BY DEF GraphTypes, RtState
    <2>4. RetireHasRoom' /\ NoFreeOnAudioThread'
      BY <2>1, <2>2 DEF RetireHasRoom, NoFreeOnAudioThread
    <2>5. \A t \in Streams : Ascending(t)' BY <2>1, <2>2 DEF Ascending, Issued
    <2> QED BY <2>3, <2>4, <2>5
  <1>2. CASE PopGraph(s)
    <2> USE <1>2 DEF PopGraph
    <2>1. \A t \in Streams \ {s} : rt'[t] = rt[t] /\ ring'[t] = ring[t] BY DEF GraphTypes
    <2>2. CASE ring[s] = <<>>
      <3>1. ring' = ring /\ rt'[s].pc = "render" /\ rt'[s].graph = rt[s].graph
        BY <2>2 DEF GraphTypes, RtState
      <3>2. GraphTypes' BY <2>2 DEF GraphTypes, RtState
      <3>3. RetireHasRoom' /\ NoFreeOnAudioThread'
        BY <2>1, <3>1 DEF RetireHasRoom, NoFreeOnAudioThread
      <3>4. \A t \in Streams : Ascending(t)' BY <2>1, <3>1 DEF Ascending, Issued
      <3> QED BY <3>2, <3>3, <3>4
    <2>3. CASE ring[s] # <<>>
      <3>1. /\ ring[s] \in Seq(Graph)
            /\ ring'[s] = Tail(ring[s])
            /\ rt'[s].pc = "swap" /\ rt'[s].graph = rt[s].graph /\ rt'[s].hand = Head(ring[s])
        BY <2>3 DEF GraphTypes, RtState
      <3>2. /\ Len(ring[s]) \in Nat \ {0}
            /\ DOMAIN ring[s] = 1..Len(ring[s])
            /\ DOMAIN ring'[s] = 1..(Len(ring[s]) - 1)
            /\ Head(ring[s]) = ring[s][1] /\ ring[s][1] \in Graph
            /\ \A i \in DOMAIN ring'[s] : ring'[s][i] = ring[s][i + 1]
        BY <2>3, <3>1
      <3>3. GraphTypes'
        <4>1. Tail(ring[s]) \in Seq(Graph) BY <2>3, <3>1, TailEntries
        <4>2. ring' = [ring EXCEPT ![s] = Tail(@)] BY <2>3
        <4>3. ring' \in [Streams -> Seq(Graph)] BY <4>1, <4>2 DEF GraphTypes
        <4>4. rt' = [rt EXCEPT ![s].pc = "swap", ![s].hand = Head(ring[s])] BY <2>3
        <4>5. Head(ring[s]) \in Nat BY <3>2 DEF Graph
        <4>6. rt' \in [Streams -> RtState] BY <4>4, <4>5 DEF GraphTypes, RtState
        <4> QED BY <4>3, <4>6 DEF GraphTypes
      <3>4. RetireHasRoom' /\ NoFreeOnAudioThread'
        BY <2>1, <3>1 DEF RetireHasRoom, NoFreeOnAudioThread
      <3>5. Ascending(s)'
        BY <3>1, <3>2 DEF Ascending, Issued
      <3>6. \A t \in Streams \ {s} : Ascending(t)' BY <2>1 DEF Ascending, Issued
      <3> QED BY <3>3, <3>4, <3>5, <3>6
    <2> QED BY <2>2, <2>3
  <1>3. CASE SwapGraph(s)
    <2> USE <1>3 DEF SwapGraph
    <2>1. \A t \in Streams \ {s} : rt'[t] = rt[t] BY DEF GraphTypes
    <2>2. rt'[s].pc = "push" /\ rt'[s].graph = rt[s].hand BY DEF GraphTypes, RtState
    <2>3. GraphTypes' BY DEF GraphTypes, RtState
    <2>4. RetireHasRoom' /\ NoFreeOnAudioThread'
      BY <2>1, <2>2 DEF RetireHasRoom, NoFreeOnAudioThread
    <2>5. Ascending(s)' BY <2>2 DEF Ascending, Issued
    <2>6. \A t \in Streams \ {s} : Ascending(t)' BY <2>1 DEF Ascending, Issued
    <2> QED BY <2>3, <2>4, <2>5, <2>6
  <1>4. CASE PushRetired(s)
    <2>1. /\ rt[s].pc = "push" /\ Len(retire[s]) < RetireSlots
          /\ UNCHANGED <<control, ring>>
      BY <1>4 DEF PushRetired, RetireHasRoom
    <2>2. /\ retire' = IF rt[s].hand # None THEN [retire EXCEPT ![s] = Append(@, rt[s].hand)] ELSE retire
          /\ rtFreed' = rtFreed
          /\ rt' = [rt EXCEPT ![s].hand = None,
                              ![s].pc = IF Len(retire'[s]) < RetireSlots THEN "pop" ELSE "render"]
      BY <1>4, <2>1 DEF PushRetired, None
    <2>3. \A t \in Streams \ {s} : rt'[t] = rt[t] /\ retire'[t] = retire[t]
      BY <2>2 DEF GraphTypes
    <2>4. /\ rt'[s].pc = IF Len(retire'[s]) < RetireSlots THEN "pop" ELSE "render"
          /\ rt'[s].graph = rt[s].graph
      BY <2>2 DEF GraphTypes, RtState
    <2>5. GraphTypes'
      <3>1. rt[s].hand # None => rt[s].hand \in Graph BY DEF GraphTypes, RtState, Graph, None
      <3>2. retire' \in [Streams -> Seq(Graph)]
        BY <2>2, <3>1, AppendEntries DEF GraphTypes
      <3>3. rt' \in [Streams -> RtState] BY <2>2 DEF GraphTypes, RtState, None
      <3> QED BY <2>1, <3>2, <3>3 DEF GraphTypes
    <2>6. RetireHasRoom' /\ NoFreeOnAudioThread'
      <3>1. ASSUME NEW t \in Streams, rt'[t].pc \in {"pop", "swap", "push"}
            PROVE  Len(retire'[t]) < RetireSlots
        <4>1. CASE t = s BY <2>4, <3>1, <4>1
        <4>2. CASE t # s BY <2>3, <3>1, <4>2 DEF RetireHasRoom
        <4> QED BY <4>1, <4>2
      <3> QED BY <2>2, <3>1 DEF RetireHasRoom, NoFreeOnAudioThread
    <2>7. \A t \in Streams : Ascending(t)'
      <3>1. Ascending(s)' BY <2>1, <2>4 DEF Ascending, Issued
      <3>2. \A t \in Streams \ {s} : Ascending(t)' BY <2>1, <2>3 DEF Ascending, Issued
      <3> QED BY <3>1, <3>2
    <2> QED BY <2>5, <2>6, <2>7
  <1>5. CASE EndBlock(s)
    <2> USE <1>5 DEF EndBlock
    <2>1. \A t \in Streams \ {s} : rt'[t] = rt[t] BY DEF GraphTypes
    <2>2. rt'[s].pc = "idle" /\ rt'[s].graph = rt[s].graph BY DEF GraphTypes, RtState
    <2>3. GraphTypes' BY DEF GraphTypes, RtState
    <2>4. RetireHasRoom' /\ NoFreeOnAudioThread'
      BY <2>1, <2>2 DEF RetireHasRoom, NoFreeOnAudioThread
    <2>5. \A t \in Streams : Ascending(t)' BY <2>1, <2>2 DEF Ascending, Issued
    <2> QED BY <2>3, <2>4, <2>5
  <1> QED BY <1>1, <1>2, <1>3, <1>4, <1>5 DEF Callback

LEMMA StepGraphInv == GraphInv /\ [Next]_vars => GraphInv'
  <1>1. GraphInv /\ UNCHANGED vars => GraphInv'
    BY DEF GraphInv, vars, control, streams, queues, graphs, GraphTypes, RetireHasRoom, NoFreeOnAudioThread, Ascending, Issued
  <1> QED BY <1>1, ControlGraphInv, CallbackGraphInv DEF Next

LEMMA GraphInvHolds == Spec => []GraphInv
  BY InitGraphInv, StepGraphInv, PTL DEF Spec

(* The audio callback never runs a graph's destructor: it pops a graph     *)
(* only with a free retire slot in hand, and that slot stays free until    *)
(* its own push (engine.rs:566-596).                                       *)
THEOREM AudioThreadNeverFrees == Spec => []NoFreeOnAudioThread
  BY GraphInvHolds, PTL DEF GraphInv

(* A callback plays graphs in the order they were built, whatever the full *)
(* rings, the retries and the device switches.                             *)
THEOREM CallbackAdoptsForward == Spec => AdoptsForward
  <1>1. GraphInv /\ [Next]_vars =>
          \A s \in Streams :
            rt'[s].graph # rt[s].graph /\ rt'[s].graph # None => rt'[s].graph > rt[s].graph
    <2> SUFFICES ASSUME GraphInv, [Next]_vars, NEW t \in Streams,
                        rt'[t].graph # rt[t].graph, rt'[t].graph # None
                 PROVE  rt'[t].graph > rt[t].graph
      OBVIOUS
    <2> USE DEF GraphInv, GraphTypes, RtState, control, streams, queues, graphs
    <2>1. CASE UNCHANGED rt BY <2>1
    <2>2. CASE InstallOutput BY <2>2 DEF InstallOutput
    <2>3. ASSUME NEW s \in Streams, SwapGraph(s) PROVE rt'[t].graph > rt[t].graph
      BY <2>3 DEF SwapGraph, Ascending
    <2>4. ASSUME NEW s \in Streams, BeginBlock(s) \/ PopGraph(s) \/ PushRetired(s) \/ EndBlock(s)
          PROVE  rt'[t].graph = rt[t].graph
      <3>1. CASE BeginBlock(s) BY <3>1 DEF BeginBlock
      <3>2. CASE PopGraph(s)
        <4>1. \/ rt' = [rt EXCEPT ![s].pc = "render"]
              \/ rt' = [rt EXCEPT ![s].pc = "swap", ![s].hand = Head(ring[s])]
          BY <3>2 DEF PopGraph
        <4> DEFINE h == Head(ring[s])
        <4>2. CASE rt' = [rt EXCEPT ![s].pc = "render"] BY <4>2
        <4>3. CASE rt' = [rt EXCEPT ![s].pc = "swap", ![s].hand = h]
          <5> HIDE DEF h
          <5> QED BY <4>3
        <4> QED BY <4>1, <4>2, <4>3
      <3>3. CASE PushRetired(s)
        <4>1. rt' = [rt EXCEPT ![s].hand = None,
                              ![s].pc = IF Len(retire'[s]) < RetireSlots THEN "pop" ELSE "render"]
          BY <3>3 DEF PushRetired
        <4> DEFINE x == IF Len(retire'[s]) < RetireSlots THEN "pop" ELSE "render"
        <4>2. rt' = [rt EXCEPT ![s].hand = None, ![s].pc = x] BY <4>1
        <4> HIDE DEF x
        <4> QED BY <4>2
      <3>4. CASE EndBlock(s) BY <3>4 DEF EndBlock
      <3> QED BY <2>4, <3>1, <3>2, <3>3, <3>4
    <2> QED BY <2>1, <2>2, <2>3, <2>4
      DEF Next, Control, Callback, vars, AskRebuild, RetryRebuild, PublishTables, DropRetired,
          DrainDone, PushGraph, PlayStream, StopPrevious
  <1> QED BY <1>1, GraphInvHolds, PTL DEF Spec, AdoptsForward
----------------------------------------------------------------------------
(* OneOwner.  Graphs move between four kinds of places of each stream; the *)
(* invariant says that no graph is at two of them, that those at one are   *)
(* the ones built and not dropped, that no place of a ring repeats         *)
(* another, and that a stream that is gone, or not opened yet, has none.   *)
Kinds == {"ring", "retire", "graph", "hand"}

Holds(k, s, g) ==
  \/ k = "ring" /\ g \in Contents(ring[s])
  \/ k = "retire" /\ g \in Contents(retire[s])
  \/ k = "graph" /\ g = rt[s].graph /\ g # None
  \/ k = "hand" /\ g = rt[s].hand /\ g # None

Apart ==
  \A k, l \in Kinds, s, t \in Streams, g \in Graph :
    Holds(k, s, g) /\ Holds(l, t, g) => k = l /\ s = t

Accounted ==
  \A g \in Graph : (\E k \in Kinds, s \in Streams : Holds(k, s, g)) <=> g \in built \ freed

Straight(q) == \A i, j \in DOMAIN q : q[i] = q[j] => i = j

Known == freed \subseteq built /\ \A g \in built : g \in Graph /\ Issued(g)

Resting(s) == rt[s].pc \in {"idle", "pop", "render"} => rt[s].hand = None

Gone(s) == s \notin Alive => rt[s].pc = "idle" /\ \A k \in Kinds, g \in Graph : ~Holds(k, s, g)

(* The streams that play: the output, and while it is replaced its heir.   *)
Switching ==
  /\ running \subseteq Streams /\ running \subseteq {output, opening}
  /\ cpc \in {"install", "join"} => opening \in Streams
  /\ cpc \notin {"install", "join"} => opening = NoStream
  /\ cpc = "join" => running = {opening}

Own ==
  /\ Apart /\ Accounted /\ Known /\ Switching
  /\ \A s \in Streams : Straight(ring[s]) /\ Straight(retire[s]) /\ Resting(s) /\ Gone(s)

----------------------------------------------------------------------------
(* What a push and a pop do to what a queue holds. *)
LEMMA AppendContents ==
  ASSUME NEW q \in Seq(Graph), NEW g \in Graph, Straight(q), g \notin Contents(q)
  PROVE  Contents(Append(q, g)) = Contents(q) \cup {g} /\ Straight(Append(q, g))
<1>1. /\ DOMAIN q = 1..Len(q) /\ Len(q) \in Nat
      /\ DOMAIN Append(q, g) = 1..(Len(q) + 1)
      /\ Append(q, g)[Len(q) + 1] = g
      /\ \A i \in 1..Len(q) : Append(q, g)[i] = q[i]
  BY AppendEntries
<1>2. Contents(Append(q, g)) = Contents(q) \cup {g}
  <2> DEFINE a == Append(q, g)
  <2>1. \A x : x \in Contents(a) => x \in Contents(q) \cup {g}
    <3> SUFFICES ASSUME NEW i \in 1..(Len(q) + 1) PROVE a[i] \in Contents(q) \cup {g}
      BY <1>1 DEF Contents
    <3>1. CASE i = Len(q) + 1
      BY <1>1, <3>1
    <3>2. CASE i \in 1..Len(q)
      BY <1>1, <3>2 DEF Contents
    <3> QED
      BY <1>1, <3>1, <3>2
  <2>2. \A i \in 1..Len(q) : q[i] = a[i] /\ i \in DOMAIN a
    BY <1>1
  <2>3. Len(q) + 1 \in DOMAIN a
    BY <1>1
  <2> HIDE DEF a
  <2>4. \A x : x \in Contents(q) => x \in Contents(a)
    BY <1>1, <2>2 DEF Contents
  <2>5. g \in Contents(a)
    BY <1>1, <2>3 DEF Contents, a
  <2> QED
    BY <2>1, <2>4, <2>5 DEF a
<1>3. Straight(Append(q, g))
  <2> SUFFICES ASSUME NEW i \in 1..(Len(q) + 1), NEW j \in 1..(Len(q) + 1),
                      Append(q, g)[i] = Append(q, g)[j]
               PROVE  i = j
    BY <1>1 DEF Straight
  <2>1. \A n \in 1..Len(q) : q[n] # g
    BY <1>1 DEF Contents
  <2>2. CASE i \in 1..Len(q) /\ j \in 1..Len(q)
    BY <1>1, <2>2 DEF Straight
  <2>3. CASE i = Len(q) + 1
    BY <1>1, <2>1, <2>3
  <2>4. CASE j = Len(q) + 1
    BY <1>1, <2>1, <2>4
  <2> QED
    BY <1>1, <2>2, <2>3, <2>4
<1> QED
  BY <1>2, <1>3

LEMMA TailContents ==
  ASSUME NEW q \in Seq(Graph), q # <<>>, Straight(q)
  PROVE  /\ Head(q) \in Contents(q) /\ Head(q) \in Graph
         /\ Contents(Tail(q)) = Contents(q) \ {Head(q)} /\ Straight(Tail(q))
<1>1. /\ DOMAIN q = 1..Len(q) /\ Len(q) \in Nat \ {0}
      /\ Head(q) = q[1] /\ q[1] \in Graph
      /\ DOMAIN Tail(q) = 1..(Len(q) - 1)
      /\ \A i \in 1..(Len(q) - 1) : Tail(q)[i] = q[i + 1]
  BY TailEntries
<1>2. \A i \in 1..(Len(q) - 1) : Tail(q)[i] \in Contents(q) \ {Head(q)}
  <2> SUFFICES ASSUME NEW i \in 1..(Len(q) - 1) PROVE q[i + 1] \in Contents(q) /\ q[i + 1] # q[1]
    BY <1>1
  <2>1. i + 1 \in DOMAIN q /\ 1 \in DOMAIN q /\ i + 1 # 1
    BY <1>1
  <2> QED
    BY <2>1 DEF Straight, Contents
<1>3. \A n \in 1..Len(q) : n # 1 => q[n] \in Contents(Tail(q))
  <2> SUFFICES ASSUME NEW n \in 1..Len(q), n # 1 PROVE q[n] \in Contents(Tail(q))
    OBVIOUS
  <2>1. n - 1 \in 1..(Len(q) - 1) /\ (n - 1) + 1 = n
    BY <1>1
  <2>2. Tail(q)[n - 1] = q[n]
    BY <1>1, <2>1
  <2> QED
    BY <1>1, <2>1, <2>2 DEF Contents
<1>4. Contents(Tail(q)) = Contents(q) \ {Head(q)}
  <2>1. Contents(Tail(q)) \subseteq Contents(q) \ {Head(q)}
    BY <1>1, <1>2 DEF Contents
  <2>2. Contents(q) \ {Head(q)} \subseteq Contents(Tail(q))
    BY <1>1, <1>3 DEF Contents
  <2> QED
    BY <2>1, <2>2
<1>5. Straight(Tail(q))
  <2> SUFFICES ASSUME NEW i \in 1..(Len(q) - 1), NEW j \in 1..(Len(q) - 1), Tail(q)[i] = Tail(q)[j]
               PROVE  i = j
    BY <1>1 DEF Straight
  <2>1. i + 1 \in DOMAIN q /\ j + 1 \in DOMAIN q /\ q[i + 1] = q[j + 1]
    BY <1>1
  <2> QED
    BY <2>1 DEF Straight
<1>6. Head(q) \in Contents(q)
  BY <1>1 DEF Contents
<1> QED
  BY <1>1, <1>4, <1>5, <1>6

LEMMA NothingQueued == Contents(<<>>) = {} /\ Straight(<<>>)
BY DEF Contents, Straight

----------------------------------------------------------------------------
(* What the ways a graph moves do to Apart and Accounted. *)
LEMMA NothingMoved ==
  ASSUME Apart, Accounted, UNCHANGED <<built, freed>>,
         \A k \in Kinds, s \in Streams, g \in Graph : Holds(k, s, g)' <=> Holds(k, s, g)
  PROVE  Apart' /\ Accounted'
BY DEF Apart, Accounted

LEMMA OneMoved ==
  ASSUME Apart, Accounted, UNCHANGED <<built, freed>>,
         NEW from \in Kinds, NEW to \in Kinds, NEW s \in Streams, NEW h \in Graph,
         Holds(from, s, h),
         \A k \in Kinds, t \in Streams, g \in Graph :
           Holds(k, t, g)' <=> \/ Holds(k, t, g) /\ ~(k = from /\ t = s /\ g = h)
                               \/ k = to /\ t = s /\ g = h
  PROVE  Apart' /\ Accounted'
<1>1. Apart'
  <2> SUFFICES ASSUME NEW k \in Kinds, NEW l \in Kinds, NEW t \in Streams, NEW u \in Streams,
                      NEW g \in Graph, Holds(k, t, g)', Holds(l, u, g)'
               PROVE  k = l /\ t = u
    BY DEF Apart
  <2>1. CASE g = h
    BY <2>1 DEF Apart
  <2>2. CASE g # h
    BY <2>2 DEF Apart
  <2> QED
    BY <2>1, <2>2
<1>2. Accounted'
  <2> SUFFICES ASSUME NEW g \in Graph
               PROVE  (\E k \in Kinds, t \in Streams : Holds(k, t, g)') <=> g \in built \ freed
    BY DEF Accounted
  <2>1. CASE g = h
    BY <2>1 DEF Accounted
  <2>2. CASE g # h
    BY <2>2 DEF Accounted
  <2> QED
    BY <2>1, <2>2
<1> QED
  BY <1>1, <1>2

LEMMA SomeDropped ==
  ASSUME Apart, Accounted, UNCHANGED built, NEW D, freed' = freed \cup D,
         \A k \in Kinds, s \in Streams, g \in Graph :
           Holds(k, s, g)' <=> Holds(k, s, g) /\ g \notin D
  PROVE  Apart' /\ Accounted'
BY DEF Apart, Accounted

LEMMA OnePushed ==
  ASSUME Apart, Accounted, UNCHANGED freed, NEW h \in Graph, built' = built \cup {h},
         h \notin built, freed \subseteq built, NEW to \in Kinds, NEW s \in Streams,
         \A k \in Kinds, t \in Streams, g \in Graph :
           Holds(k, t, g)' <=> Holds(k, t, g) \/ (k = to /\ t = s /\ g = h)
  PROVE  Apart' /\ Accounted'
<1>1. \A k \in Kinds, t \in Streams : ~Holds(k, t, h)
  BY DEF Accounted
<1> QED
  BY <1>1 DEF Apart, Accounted

LEMMA InitOwn == Init => Own
<1> SUFFICES ASSUME Init PROVE Own
  OBVIOUS
<1> USE DEF Init, Kinds
<1>1. \A k \in Kinds, s \in Streams, g \in Graph : ~Holds(k, s, g)
  BY NothingQueued DEF Holds
<1>2. Apart /\ Accounted
  BY <1>1 DEF Apart, Accounted
<1>3. Known /\ Switching
  BY DEF Known, Switching
<1>4. ASSUME NEW s \in Streams
      PROVE  Straight(ring[s]) /\ Straight(retire[s]) /\ Resting(s) /\ Gone(s)
  BY <1>1, NothingQueued DEF Resting, Gone
<1> QED
  BY <1>2, <1>3, <1>4 DEF Own

(* Steps of the callback of stream s. *)
LEMMA CallbackOwn == ASSUME GraphInv, Own, NEW s \in Streams, Callback(s) PROVE Own'
<1> USE DEF control, streams, graphs, queues
<1>1. /\ UNCHANGED <<control, graphs>>
      /\ rt \in [Streams -> RtState] /\ rt' \in [Streams -> RtState]
      /\ ring \in [Streams -> Seq(Graph)] /\ retire \in [Streams -> Seq(Graph)]
      /\ \A t \in Streams \ {s} : ring'[t] = ring[t] /\ retire'[t] = retire[t] /\ rt'[t] = rt[t]
      /\ Apart /\ Accounted /\ Known /\ Switching
      /\ \A t \in Streams : Straight(ring[t]) /\ Straight(retire[t]) /\ Resting(t) /\ Gone(t)
  <2>1. GraphInv'
    BY CallbackGraphInv
  <2> QED
    BY <2>1 DEF GraphInv, Own, GraphTypes, Callback, BeginBlock, PopGraph, SwapGraph, PushRetired, EndBlock
<1>2. Known' /\ Switching'
  BY <1>1 DEF Known, Switching, Issued
<1>3. s \in Alive /\ UNCHANGED Alive
  <2>1. s \in Alive
    BY <1>1 DEF Gone, Callback, BeginBlock, PopGraph, SwapGraph, PushRetired, EndBlock, Alive
  <2> QED
    BY <1>1, <2>1 DEF Alive
<1>4. \A k \in Kinds, t \in Streams \ {s}, g \in Graph : Holds(k, t, g)' <=> Holds(k, t, g)
  BY <1>1 DEF Holds
<1>5. SUFFICES Apart' /\ Accounted' /\ Straight(ring[s])' /\ Straight(retire[s])' /\ Resting(s)'
  <2>1. ASSUME NEW t \in Streams \ {s}
        PROVE  (Straight(ring[t]) /\ Straight(retire[t]) /\ Resting(t) /\ Gone(t))'
    BY <1>1, <1>3, <1>4 DEF Resting, Gone, Straight
  <2>2. Gone(s)'
    BY <1>3 DEF Gone
  <2> QED
    BY <1>2, <1>5, <2>1, <2>2 DEF Own
<1>6. CASE UNCHANGED queues /\ rt'[s].graph = rt[s].graph /\ rt'[s].hand = rt[s].hand
           /\ Resting(s)'
  <2>1. \A k \in Kinds, t \in Streams, g \in Graph : Holds(k, t, g)' <=> Holds(k, t, g)
    BY <1>4, <1>6 DEF Holds
  <2> QED
    BY <1>1, <1>6, <2>1, NothingMoved DEF Straight
<1>7. CASE BeginBlock(s) \/ EndBlock(s)
  BY <1>1, <1>6, <1>7 DEF BeginBlock, EndBlock, Resting, RtState
<1>8. CASE PopGraph(s)
  <2>1. CASE ring[s] = <<>>
    BY <1>1, <1>6, <1>8, <2>1 DEF PopGraph, Resting, RtState
  <2>2. CASE ring[s] # <<>>
    <3> DEFINE h == Head(ring[s])
    <3>1. /\ rt[s].pc = "pop" /\ rt'[s].pc = "swap" /\ rt'[s].hand = h /\ rt'[s].graph = rt[s].graph
          /\ ring'[s] = Tail(ring[s]) /\ UNCHANGED retire
      BY <1>1, <1>8, <2>2 DEF PopGraph, RtState
    <3>2. /\ h \in Contents(ring[s]) /\ h \in Graph
          /\ Contents(Tail(ring[s])) = Contents(ring[s]) \ {h} /\ Straight(Tail(ring[s]))
      BY <1>1, <2>2, TailContents
    <3>3. rt[s].hand = None /\ h # None
      BY <1>1, <3>1, <3>2 DEF Resting, Graph, None
    <3> HIDE DEF h
    <3>4. Holds("ring", s, h)
      BY <3>2 DEF Holds
    <3>5. ASSUME NEW k \in Kinds, NEW g \in Graph
          PROVE  Holds(k, s, g)' <=> \/ Holds(k, s, g) /\ ~(k = "ring" /\ g = h)
                                     \/ k = "hand" /\ g = h
      BY <3>1, <3>2, <3>3 DEF Holds, Kinds
    <3>6. \A k \in Kinds, t \in Streams, g \in Graph :
            Holds(k, t, g)' <=> \/ Holds(k, t, g) /\ ~(k = "ring" /\ t = s /\ g = h)
                                \/ k = "hand" /\ t = s /\ g = h
      BY <1>4, <3>5
    <3>7. Apart' /\ Accounted'
      BY <1>1, <3>2, <3>4, <3>6, OneMoved DEF Kinds
    <3> QED
      BY <1>1, <3>1, <3>2, <3>7 DEF Resting, Straight
  <2> QED
    BY <2>1, <2>2
<1>9. CASE SwapGraph(s)
  <2>1. /\ rt'[s].pc = "push" /\ rt'[s].hand = rt[s].graph /\ rt'[s].graph = rt[s].hand
        /\ UNCHANGED queues
    BY <1>1, <1>9 DEF SwapGraph, RtState
  <2> DEFINE before(k) == IF k = "graph" THEN "hand" ELSE IF k = "hand" THEN "graph" ELSE k
  <2>2. \A k, l \in Kinds : before(k) \in Kinds /\ (before(k) = before(l) => k = l)
                            /\ before(before(k)) = k
    BY DEF Kinds
  <2>3. \A k \in Kinds, g \in Graph : Holds(k, s, g)' <=> Holds(before(k), s, g)
    BY <1>1, <2>1 DEF Holds, Kinds
  <2> HIDE DEF before
  <2>4. Apart'
    <3> SUFFICES ASSUME NEW k \in Kinds, NEW l \in Kinds, NEW t \in Streams, NEW u \in Streams,
                        NEW g \in Graph, Holds(k, t, g)', Holds(l, u, g)'
                 PROVE  k = l /\ t = u
      BY DEF Apart
    <3>1. CASE t = s /\ u = s
      BY <1>1, <2>2, <2>3, <3>1 DEF Apart
    <3>2. CASE t # s \/ u # s
      <4>1. t = s => Holds(before(k), t, g)
        BY <2>3
      <4>2. u = s => Holds(before(l), u, g)
        BY <2>3
      <4>3. (t # s => Holds(k, t, g)) /\ (u # s => Holds(l, u, g))
        BY <1>4
      <4> QED
        BY <1>1, <2>2, <3>2, <4>1, <4>2, <4>3 DEF Apart
    <3> QED
      BY <3>1, <3>2
  <2>5. Accounted'
    <3> SUFFICES ASSUME NEW g \in Graph
                 PROVE  (\E k \in Kinds, t \in Streams : Holds(k, t, g)')
                          <=> \E k \in Kinds, t \in Streams : Holds(k, t, g)
      BY <1>1 DEF Accounted
    <3>1. ASSUME NEW k \in Kinds, NEW t \in Streams, Holds(k, t, g)'
          PROVE  \E l \in Kinds, u \in Streams : Holds(l, u, g)
      BY <1>4, <2>2, <2>3, <3>1
    <3>2. ASSUME NEW k \in Kinds, NEW t \in Streams, Holds(k, t, g)
          PROVE  \E l \in Kinds, u \in Streams : Holds(l, u, g)'
      <4>1. CASE t = s
        <5>1. Holds(before(k), s, g)' <=> Holds(before(before(k)), s, g)
          BY <2>2, <2>3
        <5> QED
          BY <2>2, <3>2, <4>1, <5>1
      <4>2. CASE t # s
        BY <1>4, <3>2, <4>2
      <4> QED
        BY <4>1, <4>2
    <3> QED
      BY <3>1, <3>2
  <2> QED
    BY <1>1, <2>1, <2>4, <2>5 DEF Resting, Straight
<1>10. CASE PushRetired(s)
  <2>1. rt[s].pc = "push" /\ Len(retire[s]) < RetireSlots /\ UNCHANGED ring
        /\ rt'[s].pc \in {"pop", "render"} /\ rt'[s].hand = None /\ rt'[s].graph = rt[s].graph
    <3> DEFINE x == IF Len(retire'[s]) < RetireSlots THEN "pop" ELSE "render"
    <3>1. rt' = [rt EXCEPT ![s].hand = None, ![s].pc = x] /\ x \in {"pop", "render"}
      BY <1>10 DEF PushRetired
    <3> HIDE DEF x
    <3> QED
      BY <1>1, <1>10, <3>1 DEF GraphInv, RetireHasRoom, PushRetired, RtState
  <2> DEFINE h == rt[s].hand
  <2>2. CASE h = None
    BY <1>1, <1>6, <1>10, <2>1, <2>2 DEF PushRetired, Resting
  <2>3. CASE h # None
    <3>1. h \in Graph /\ retire'[s] = Append(retire[s], h)
      BY <1>1, <1>10, <2>1, <2>3 DEF PushRetired, RtState, Graph, None
    <3>2. Holds("hand", s, h)
      BY <2>3 DEF Holds
    <3>3. h \notin Contents(retire[s])
      <4>1. ~Holds("retire", s, h)
        BY <1>1, <3>1, <3>2 DEF Apart, Kinds
      <4> QED
        BY <4>1 DEF Holds
    <3>4. /\ Contents(retire'[s]) = Contents(retire[s]) \cup {h}
          /\ Straight(retire'[s])
      BY <1>1, <3>1, <3>3, AppendContents
    <3>5. ASSUME NEW k \in Kinds, NEW g \in Graph
          PROVE  Holds(k, s, g)' <=> \/ Holds(k, s, g) /\ ~(k = "hand" /\ g = h)
                                     \/ k = "retire" /\ g = h
      BY <2>1, <2>3, <3>4 DEF Holds, Kinds
    <3> HIDE DEF h
    <3>6. \A k \in Kinds, t \in Streams, g \in Graph :
            Holds(k, t, g)' <=> \/ Holds(k, t, g) /\ ~(k = "hand" /\ t = s /\ g = h)
                                \/ k = "retire" /\ t = s /\ g = h
      BY <1>4, <3>5
    <3>7. Apart' /\ Accounted'
      BY <1>1, <3>1, <3>2, <3>6, OneMoved DEF Kinds
    <3> QED
      BY <1>1, <2>1, <3>4, <3>7 DEF Resting, Straight
  <2> QED
    BY <2>2, <2>3
<1> QED
  BY <1>7, <1>8, <1>9, <1>10 DEF Callback

(* Steps of the control thread. *)
LEMMA ControlOwn == ASSUME GraphInv, Own, Control PROVE Own'
<1> USE DEF control, streams, graphs, queues
<1>1. /\ generation \in Nat
      /\ output \in Streams \cup {NoStream} /\ NoStream \notin Streams
      /\ cpc \in {"drain", "push"} => output \in Streams /\ generation # 0
      /\ ring \in [Streams -> Seq(Graph)] /\ retire \in [Streams -> Seq(Graph)]
      /\ rt \in [Streams -> RtState]
      /\ Apart /\ Accounted /\ Known /\ Switching
      /\ \A t \in Streams : Straight(ring[t]) /\ Straight(retire[t]) /\ Resting(t) /\ Gone(t)
  BY StreamsAssumption DEF GraphInv, Own, GraphTypes
<1>2. ASSUME UNCHANGED <<queues, rt, graphs>>, Alive \subseteq Alive'
      PROVE  /\ Apart' /\ Accounted'
             /\ \A t \in Streams : (Straight(ring[t]) /\ Straight(retire[t]) /\ Resting(t) /\ Gone(t))'
  <2>1. \A k \in Kinds, t \in Streams, g \in Graph : Holds(k, t, g)' <=> Holds(k, t, g)
    BY <1>2 DEF Holds
  <2>2. Apart' /\ Accounted'
    BY <1>1, <1>2, <2>1, NothingMoved
  <2> QED
    BY <1>1, <1>2, <2>1, <2>2 DEF Resting, Gone, Straight
<1>3. CASE AskRebuild \/ RetryRebuild \/ PublishTables \/ DrainDone
  <2>1. /\ UNCHANGED <<queues, rt, graphs, opening, output, running>>
        /\ cpc \in {"idle", "publish", "drain"} /\ cpc' \in {"publish", "idle", "drain", "push"}
        /\ generation' \in {generation, generation + 1}
        /\ cpc' \in {"drain", "push"} => generation' = generation + 1 \/ cpc = "drain"
        /\ cpc = "drain" => generation' = generation
    BY <1>3 DEF AskRebuild, RetryRebuild, PublishTables, DrainDone
  <2>2. Known'
    BY <1>1, <2>1 DEF Known, Issued, Graph
  <2>3. Switching'
    BY <1>1, <2>1 DEF Switching
  <2> QED
    BY <1>2, <2>1, <2>2, <2>3 DEF Own, Alive
<1>4. CASE (\E s \in Streams : PlayStream(s)) \/ StopPrevious
  <2>1. /\ UNCHANGED <<queues, rt, graphs, generation, output>>
        /\ cpc \in {"idle", "install"} /\ cpc' \in {"install", "join"}
    BY <1>4 DEF PlayStream, StopPrevious
  <2>2. Known'
    BY <1>1, <2>1 DEF Known, Issued
  <2>3. Switching' /\ Alive \subseteq Alive'
    BY <1>1, <1>4 DEF Switching, PlayStream, StopPrevious, Alive
  <2> QED
    BY <1>2, <2>1, <2>2, <2>3 DEF Own
<1>5. CASE DropRetired
  <2> DEFINE h == Head(retire[output])
  <2>1. /\ output \in Streams /\ retire[output] # <<>>
        /\ retire' = [retire EXCEPT ![output] = Tail(@)] /\ freed' = freed \cup {h}
        /\ UNCHANGED <<control, ring, rt, built>>
    BY <1>1, <1>5 DEF DropRetired
  <2>2. /\ h \in Contents(retire[output]) /\ h \in Graph
        /\ Contents(Tail(retire[output])) = Contents(retire[output]) \ {h}
        /\ Straight(Tail(retire[output]))
    BY <1>1, <2>1, TailContents
  <2>3. /\ retire'[output] = Tail(retire[output])
        /\ \A t \in Streams \ {output} : retire'[t] = retire[t]
    BY <1>1, <2>1
  <2> HIDE DEF h
  <2>4. Holds("retire", output, h)
    BY <2>2 DEF Holds
  <2>5. \A k \in Kinds, t \in Streams : Holds(k, t, h) => k = "retire" /\ t = output
    BY <1>1, <2>1, <2>2, <2>4 DEF Apart, Kinds
  <2>6. ASSUME NEW k \in Kinds, NEW t \in Streams, NEW g \in Graph
        PROVE  Holds(k, t, g)' <=> Holds(k, t, g) /\ g \notin {h}
    <3>1. CASE t = output
      BY <2>1, <2>2, <2>3, <2>5, <3>1 DEF Holds, Kinds
    <3>2. CASE t # output
      BY <2>1, <2>3, <2>5, <3>2 DEF Holds, Kinds
    <3> QED
      BY <3>1, <3>2
  <2>7. Apart' /\ Accounted'
    BY <1>1, <2>1, <2>6, SomeDropped
  <2>8. h \in built
    BY <1>1, <2>1, <2>2, <2>4 DEF Accounted, Kinds
  <2>9. Known' /\ Switching'
    BY <1>1, <2>1, <2>8 DEF Known, Switching, Issued
  <2>10. ASSUME NEW t \in Streams
         PROVE  (Straight(ring[t]) /\ Straight(retire[t]) /\ Resting(t) /\ Gone(t))'
    BY <1>1, <2>1, <2>2, <2>3, <2>6 DEF Resting, Gone, Alive, Straight
  <2> QED
    BY <2>7, <2>9, <2>10 DEF Own
<1>6. CASE PushGraph
  <2>1. /\ cpc = "push" /\ cpc' = "idle" /\ output \in Streams
        /\ generation \in Graph /\ built' = built \cup {generation}
        /\ UNCHANGED <<generation, streams, retire, rt>>
    BY <1>1, <1>6 DEF PushGraph, Graph
  <2>2. generation \notin built
    BY <1>1, <2>1 DEF Known, Issued
  <2>3. Known' /\ Switching'
    BY <1>1, <1>6, <2>1 DEF Known, Switching, Issued, Graph, PushGraph
  <2>4. \A k \in Kinds, t \in Streams : ~Holds(k, t, generation)
    BY <1>1, <2>1, <2>2 DEF Accounted
  <2>5. CASE UNCHANGED ring /\ freed' = freed \cup {generation}
    <3>1. \A k \in Kinds, t \in Streams, g \in Graph : Holds(k, t, g)' <=> Holds(k, t, g)
      BY <2>1, <2>5 DEF Holds
    <3>2. Apart' /\ Accounted'
      BY <1>1, <2>1, <2>4, <2>5, <3>1 DEF Apart, Accounted
    <3> QED
      BY <1>1, <2>1, <2>3, <2>5, <3>1, <3>2 DEF Own, Resting, Gone, Alive, Straight
  <2>6. CASE UNCHANGED freed /\ ring' = [ring EXCEPT ![output] = Append(@, generation)]
    <3>1. /\ ring'[output] = Append(ring[output], generation)
          /\ \A t \in Streams \ {output} : ring'[t] = ring[t]
      BY <1>1, <2>1, <2>6
    <3>2. generation \notin Contents(ring[output])
      <4>1. ~Holds("ring", output, generation)
        BY <2>1, <2>4 DEF Kinds
      <4> QED
        BY <4>1 DEF Holds
    <3>3. /\ Contents(ring'[output]) = Contents(ring[output]) \cup {generation}
          /\ Straight(ring'[output])
      BY <1>1, <2>1, <3>1, <3>2, AppendContents
    <3>4. ASSUME NEW k \in Kinds, NEW t \in Streams, NEW g \in Graph
          PROVE  Holds(k, t, g)' <=> Holds(k, t, g) \/ (k = "ring" /\ t = output /\ g = generation)
      <4>1. CASE t = output
        BY <2>1, <3>3, <4>1 DEF Holds, Kinds
      <4>2. CASE t # output
        BY <2>1, <3>1, <4>2 DEF Holds, Kinds
      <4> QED
        BY <4>1, <4>2
    <3>5. Apart' /\ Accounted'
      BY <1>1, <2>1, <2>2, <2>6, <3>4, OnePushed DEF Known, Kinds
    <3>6. ASSUME NEW t \in Streams
          PROVE  (Straight(ring[t]) /\ Straight(retire[t]) /\ Resting(t) /\ Gone(t))'
      <4>1. Straight(ring[t])' /\ Straight(retire[t])' /\ Resting(t)'
        BY <1>1, <2>1, <3>1, <3>3 DEF Resting, Straight
      <4>2. t # output => \A k \in Kinds, g \in Graph : Holds(k, t, g)' <=> Holds(k, t, g)
        BY <3>4
      <4>3. Gone(t)'
        BY <1>1, <2>1, <4>2 DEF Gone, Alive
      <4> QED
        BY <4>1, <4>3
    <3> QED
      BY <2>3, <3>5, <3>6 DEF Own
  <2> QED
    BY <1>6, <2>5, <2>6 DEF PushGraph
<1>7. CASE InstallOutput
  <2>1. /\ cpc = "join" /\ cpc' = "publish" /\ running = {opening} /\ opening \in Streams
        /\ output' = opening /\ opening' = NoStream
        /\ UNCHANGED <<generation, running, built>>
    BY <1>1, <1>7 DEF InstallOutput, Switching
  <2>2. Switching'
    BY <1>1, <2>1 DEF Switching
  <2>3. CASE output = NoStream
    <3>1. UNCHANGED <<queues, rt, freed>>
      BY <1>7, <2>3 DEF InstallOutput
    <3>2. Known' /\ Alive \subseteq Alive'
      BY <1>1, <2>1, <2>3, <3>1 DEF Known, Issued, Alive
    <3> QED
      BY <1>2, <2>1, <2>2, <3>1, <3>2 DEF Own
  <2>4. CASE output # NoStream
    <3>0. PICK o \in Streams : o = output
      BY <1>1, <2>4
    <3> DEFINE D == Contents(ring[o]) \cup Contents(retire[o])
                      \cup ({rt[o].graph} \ {None})
    <3>1. /\ rt[o].pc = "idle" /\ freed' = freed \cup D
          /\ ring' = [ring EXCEPT ![o] = <<>>]
          /\ retire' = [retire EXCEPT ![o] = <<>>]
          /\ rt' = [rt EXCEPT ![o].graph = None]
      BY <1>1, <1>7, <2>4, <3>0 DEF InstallOutput
    <3>2. /\ ring'[o] = <<>> /\ retire'[o] = <<>>
          /\ rt'[o].graph = None /\ rt'[o].hand = rt[o].hand
          /\ rt'[o].pc = "idle"
          /\ rt[o].hand = None
          /\ \A t \in Streams \ {o} :
               ring'[t] = ring[t] /\ retire'[t] = retire[t] /\ rt'[t] = rt[t]
      BY <1>1, <3>1 DEF Resting, RtState
    <3>3. \A g \in Graph : g \in D <=> \E k \in Kinds : Holds(k, o, g)
      BY <3>2 DEF Holds, Kinds, Graph, None
    <3> HIDE DEF D
    <3>4. \A k \in Kinds, g \in Graph : ~Holds(k, o, g)'
      BY <3>2, NothingQueued DEF Holds
    <3>5. \A k \in Kinds, t \in Streams \ {o}, g \in Graph : Holds(k, t, g)' <=> Holds(k, t, g)
      BY <3>2 DEF Holds
    <3>6. ASSUME NEW k \in Kinds, NEW t \in Streams, NEW g \in Graph
          PROVE  Holds(k, t, g)' <=> Holds(k, t, g) /\ g \notin D
      <4>1. CASE t = o
        BY <3>3, <3>4, <4>1
      <4>2. CASE t # o
        <5>1. Holds(k, t, g) => ~\E l \in Kinds : Holds(l, o, g)
          BY <1>1, <3>1, <4>2 DEF Apart
        <5> QED
          BY <3>3, <3>5, <4>2, <5>1
      <4> QED
        BY <4>1, <4>2
    <3>7. Apart' /\ Accounted'
      BY <1>1, <2>1, <3>1, <3>6, SomeDropped
    <3>8. D \subseteq built
      <4>1. D \subseteq Graph
        BY <1>1, <3>1 DEF D, Contents, RtState, Graph, None
      <4> QED
        BY <1>1, <3>1, <3>3, <4>1 DEF Accounted
    <3>9. Known'
      BY <1>1, <2>1, <3>1, <3>8 DEF Known, Issued
    <3>10. ASSUME NEW t \in Streams
           PROVE  (Straight(ring[t]) /\ Straight(retire[t]) /\ Resting(t) /\ Gone(t))'
      <4>1. CASE t = o
        BY <3>2, <3>4, <4>1, NothingQueued DEF Resting, Gone
      <4>2. CASE t # o
        <5>1. t \notin Alive' => t \notin Alive
          BY <2>1, <3>0, <4>2 DEF Alive
        <5> QED
          BY <1>1, <3>2, <3>5, <4>2, <5>1 DEF Resting, Gone, Straight
      <4> QED
        BY <4>1, <4>2
    <3> QED
      BY <2>2, <3>7, <3>9, <3>10 DEF Own
  <2> QED
    BY <2>3, <2>4
<1> QED
  BY <1>3, <1>4, <1>5, <1>6, <1>7 DEF Control

LEMMA StepKeepsOwners == GraphInv /\ Own /\ [Next]_vars => Own'
<1> SUFFICES ASSUME GraphInv, Own, [Next]_vars PROVE Own'
  OBVIOUS
<1>1. CASE Next
  BY <1>1, ControlOwn, CallbackOwn DEF Next
<1>2. CASE UNCHANGED vars
  <2>1. UNCHANGED <<control, queues, rt, graphs>>
    BY <1>2 DEF vars
  <2>2. \A k \in Kinds, t \in Streams, g \in Graph : Holds(k, t, g)' <=> Holds(k, t, g)
    BY <2>1 DEF Holds, queues
  <2>3. Apart' /\ Accounted'
    BY <2>1, <2>2, NothingMoved DEF Own, graphs
  <2> QED
    BY <2>1, <2>2, <2>3
      DEF Own, control, streams, graphs, queues, Known, Issued, Switching, Straight, Resting, Gone, Alive
<1> QED
  BY <1>1, <1>2

(* In a state of the invariant, the places of a graph are none or one. *)
LEMMA OwnedOnce == GraphInv /\ Own => OneOwner
<1> SUFFICES ASSUME GraphInv, Own, NEW g \in built
             PROVE  Cardinality(Places(g)) = IF g \in freed THEN 0 ELSE 1
  BY DEF OneOwner
<1> DEFINE Of(s) ==
      {<<"ring", s, i>> : i \in {j \in DOMAIN ring[s] : ring[s][j] = g}}
      \cup {<<"retire", s, i>> : i \in {j \in DOMAIN retire[s] : retire[s][j] = g}}
      \cup (IF rt[s].graph = g THEN {<<"graph", s, 0>>} ELSE {})
      \cup (IF rt[s].hand = g THEN {<<"hand", s, 0>>} ELSE {})
<1>1. g \in Graph /\ g # None /\ Alive \subseteq Streams
      /\ Apart /\ Accounted
      /\ \A s \in Streams : Straight(ring[s]) /\ Straight(retire[s]) /\ Gone(s)
  BY DEF GraphInv, Own, GraphTypes, Known, Switching, Graph, None, Alive
<1>2. Places(g) = UNION {Of(s) : s \in Alive}
  BY DEF Places
<1>3. ASSUME NEW s \in Streams, NEW p \in Of(s)
      PROVE  /\ p = <<p[1], s, p[3]>> /\ p[1] \in Kinds /\ Holds(p[1], s, g)
             /\ p[1] = "ring" => p[3] \in DOMAIN ring[s] /\ ring[s][p[3]] = g
             /\ p[1] = "retire" => p[3] \in DOMAIN retire[s] /\ retire[s][p[3]] = g
             /\ p[1] \in {"graph", "hand"} => p[3] = 0
  <2>1. CASE p \in {<<"ring", s, i>> : i \in {j \in DOMAIN ring[s] : ring[s][j] = g}}
    BY <2>1 DEF Kinds, Holds, Contents
  <2>2. CASE p \in {<<"retire", s, i>> : i \in {j \in DOMAIN retire[s] : retire[s][j] = g}}
    BY <2>2 DEF Kinds, Holds, Contents
  <2>3. CASE rt[s].graph = g /\ p = <<"graph", s, 0>>
    BY <1>1, <2>3 DEF Kinds, Holds
  <2>4. CASE rt[s].hand = g /\ p = <<"hand", s, 0>>
    BY <1>1, <2>4 DEF Kinds, Holds
  <2> QED
    BY <1>3, <2>1, <2>2, <2>3, <2>4
<1>4. ASSUME NEW s \in Streams, NEW k \in Kinds, Holds(k, s, g)
      PROVE  Of(s) # {}
  BY <1>4 DEF Kinds, Holds, Contents
<1> HIDE DEF Of
<1>5. ASSUME NEW p \in Places(g), NEW q \in Places(g)
      PROVE  p = q
  <2>1. PICK s \in Alive, t \in Alive : p \in Of(s) /\ q \in Of(t)
    BY <1>2
  <2>2. /\ p = <<p[1], s, p[3]>> /\ Holds(p[1], s, g) /\ p[1] \in Kinds
        /\ q = <<q[1], t, q[3]>> /\ Holds(q[1], t, g) /\ q[1] \in Kinds
    BY <1>1, <1>3, <2>1
  <2>3. p[1] = q[1] /\ s = t
    BY <1>1, <2>2 DEF Apart
  <2>4. p[3] = q[3]
    BY <1>1, <1>3, <2>1, <2>2, <2>3 DEF Kinds, Straight
  <2> QED
    BY <2>2, <2>3, <2>4
<1>6. CASE g \in freed
  <2>1. Places(g) = {}
    BY <1>1, <1>2, <1>3, <1>6 DEF Accounted
  <2> QED
    BY <1>6, <2>1, FS_EmptySet
<1>7. CASE g \notin freed
  <2>1. PICK k \in Kinds, s \in Streams : Holds(k, s, g)
    BY <1>1, <1>7 DEF Accounted
  <2>2. s \in Alive
    BY <1>1, <2>1 DEF Gone
  <2>3. PICK p : p \in Places(g)
    BY <1>2, <1>4, <2>1, <2>2
  <2>4. Places(g) = {p}
    BY <1>5, <2>3
  <2> QED
    BY <1>7, <2>4, FS_Singleton
<1> QED
  BY <1>6, <1>7

(* Every graph that was queued and is not dropped yet has one owner, and a *)
(* dropped one none: whichever streams are opened, replaced and joined,    *)
(* and however the callbacks run against the control thread.               *)
THEOREM GraphsHaveOneOwner == Spec => []OneOwner
<1>1. Spec => []Own
  BY InitOwn, StepKeepsOwners, GraphInvHolds, PTL DEF Spec
<1> QED
  BY <1>1, GraphInvHolds, OwnedOnce, PTL
=============================================================================
