-------------------------- MODULE TransportProofs --------------------------
(***************************************************************************)
(* The transport.  The block arithmetic of transport.rs agrees with a      *)
(* playhead that moves frame by frame, for every loop, position and block  *)
(* size (TransportWalk); takes are kept and their state is told, whoever   *)
(* commands (RecordTransport); auto-stops and seeks put the playhead where *)
(* they say, whatever is in flight (Playhead).                             *)
(***************************************************************************)
EXTENDS TransportWalk, RecordTransport, Playhead, SequenceTheorems, FiniteSetTheorems, TLAPS

----------------------------------------------------------------------------
(* Remainders.                                                             *)

LEMMA Division ==
  ASSUME NEW x \in Nat, NEW s \in Nat \ {0}
  PROVE  /\ x \div s \in Nat /\ x % s \in Nat /\ x % s < s
         /\ x = s * (x \div s) + (x % s)
BY SMT

LEMMA Remainder ==
  ASSUME NEW s \in Nat \ {0}, NEW q \in Nat, NEW n \in Nat, n < s
  PROVE  (s * q + n) % s = n
BY SMT

LEMMA NextRemainder ==
  ASSUME NEW x \in Nat, NEW s \in Nat \ {0}
  PROVE  (x + 1) % s = IF (x % s) + 1 = s THEN 0 ELSE (x % s) + 1
<1> DEFINE q == x \div s
           n == x % s
<1>1. q \in Nat /\ n \in Nat /\ n < s /\ x = s * q + n
  BY Division
<1> HIDE DEF q, n
<1>2. CASE n + 1 = s
  <2>1. x + 1 = s * (q + 1) + 0
    BY <1>1, <1>2
  <2>2. (s * (q + 1) + 0) % s = 0
    BY <1>1, Remainder
  <2> QED
    BY <1>2, <2>1, <2>2 DEF n
<1>3. CASE n + 1 # s
  <2>1. x + 1 = s * q + (n + 1) /\ n + 1 \in Nat /\ n + 1 < s
    BY <1>1, <1>3
  <2>2. (s * q + (n + 1)) % s = n + 1
    BY <1>1, <2>1, Remainder
  <2> QED
    BY <1>3, <2>1, <2>2 DEF n
<1> QED
  BY <1>2, <1>3

----------------------------------------------------------------------------
(* Advance, one frame more.                                                *)

(* Where one frame takes a playhead at p. *)
Frame(p, loop) == IF Active(loop) /\ p + 1 = loop.end THEN loop.start ELSE p + 1

(* No frames, no move. *)
LEMMA AdvanceZero ==
  ASSUME NEW pos \in Samples, NEW loop \in LoopSpecs
  PROVE  Advance(pos, 0, loop) = pos
<1>1. pos \in Nat /\ loop.end \in Nat /\ SaturatingAdd(pos, 0) = pos
  BY MaxSampleAssumption DEF SaturatingAdd, Samples, LoopSpecs
<1> QED
  BY <1>1 DEF Advance

LEMMA AdvanceOneMore ==
  ASSUME NEW pos \in Samples, NEW n \in Nat, pos + n < MaxSample, NEW loop \in LoopSpecs
  PROVE  /\ Advance(pos, n + 1, loop) = Frame(Advance(pos, n, loop), loop)
         /\ Advance(pos, n, loop) \in Nat
         /\ Active(loop) /\ pos < loop.end => Advance(pos, n, loop) < loop.end
<1>1. /\ SaturatingAdd(pos, n) = pos + n /\ SaturatingAdd(pos, n + 1) = pos + n + 1
      /\ pos \in Nat /\ loop.start \in Nat /\ loop.end \in Nat /\ pos + n \in Nat
  BY MaxSampleAssumption DEF SaturatingAdd, Samples, LoopSpecs
<1>2. CASE ~(Active(loop) /\ pos < loop.end)
  <2>1. Advance(pos, n, loop) = pos + n /\ Advance(pos, n + 1, loop) = pos + n + 1
    BY <1>1, <1>2 DEF Advance
  <2>2. Active(loop) => pos + n + 1 # loop.end
    BY <1>1, <1>2
  <2> QED
    BY <1>1, <1>2, <2>1, <2>2 DEF Frame
<1>3. CASE Active(loop) /\ pos < loop.end /\ pos + n + 1 < loop.end
  <2>1. Advance(pos, n, loop) = pos + n /\ Advance(pos, n + 1, loop) = pos + n + 1
    BY <1>1, <1>3 DEF Advance
  <2> QED
    BY <1>1, <1>3, <2>1 DEF Frame
<1>4. CASE Active(loop) /\ pos < loop.end /\ pos + n + 1 >= loop.end
  <2> DEFINE span == loop.end - loop.start
             x == pos + n - loop.start
  <2>1. /\ span \in Nat \ {0} /\ x \in Nat /\ loop.start + span = loop.end
        /\ pos + n + 1 - loop.start = x + 1 /\ x + 1 >= span
    BY <1>1, <1>4 DEF Active
  <2>2. Advance(pos, n + 1, loop) = loop.start + ((x + 1) % span)
    BY <1>1, <1>4, <2>1 DEF Advance
  <2>3. Advance(pos, n, loop) = loop.start + (x % span)
    <3>1. CASE pos + n >= loop.end
      BY <1>1, <1>4, <3>1 DEF Advance
    <3>2. CASE pos + n + 1 = loop.end
      <4>1. x < span /\ Advance(pos, n, loop) = pos + n
        BY <1>1, <1>4, <3>2 DEF Advance
      <4>2. x = span * 0 + x
        BY <2>1
      <4>3. x % span = x
        BY <2>1, <4>1, <4>2, Remainder
      <4> QED
        BY <1>1, <2>1, <4>1, <4>3
    <3> QED
      BY <1>1, <1>4, <3>1, <3>2
  <2>4. x % span \in Nat /\ x % span < span
    BY <2>1, Division
  <2>5. (x + 1) % span = IF (x % span) + 1 = span THEN 0 ELSE (x % span) + 1
    BY <2>1, NextRemainder
  <2> HIDE DEF span, x
  <2> QED
    BY <1>1, <1>4, <2>1, <2>2, <2>3, <2>4, <2>5 DEF Frame
<1> QED
  BY <1>1, <1>2, <1>3, <1>4

----------------------------------------------------------------------------
(* The walk.                                                               *)

Inv ==
  /\ base \in Samples /\ lp \in LoopSpecs /\ frames \in Nat
  /\ base + frames <= MaxSample
  /\ walk = Advance(base, frames, lp)
  /\ walk \in Samples

LEMMA InitWalk == WalkInit => Inv
BY MaxSampleAssumption, AdvanceZero DEF WalkInit, Inv, Samples

LEMMA StepWalk == Inv /\ [WalkNext]_walkVars => Inv'
<1> SUFFICES ASSUME Inv, [WalkNext]_walkVars PROVE Inv'
  OBVIOUS
<1> USE MaxSampleAssumption
<1>1. CASE WalkFrame
  <2>1. /\ base' = base /\ lp' = lp /\ frames' = frames + 1 /\ base + frames < MaxSample
        /\ walk' = Frame(walk, lp)
    BY <1>1 DEF WalkFrame, Frame
  <2>2. walk' = Advance(base, frames + 1, lp)
    BY <2>1, AdvanceOneMore DEF Inv
  <2>3. walk' \in Samples
    <3>1. walk \in Nat /\ (walk <= base + frames \/ walk < lp.end)
      <4>1. SaturatingAdd(base, frames) = base + frames
        BY <2>1 DEF SaturatingAdd, Inv, Samples
      <4>2. ~(Active(lp) /\ base < lp.end) => walk = base + frames
        BY <4>1 DEF Advance, Inv
      <4> QED
        BY <2>1, <4>2, AdvanceOneMore DEF Inv, Samples
    <3> QED
      BY <2>1, <3>1 DEF Inv, Samples, Frame, LoopSpecs
  <2>4. walk' = Advance(base', frames', lp')
    BY <2>1, <2>2
  <2>5. base' \in Samples /\ frames' \in Nat /\ base' + frames' <= MaxSample
    BY <2>1 DEF Inv, Samples
  <2> QED
    BY <2>1, <2>3, <2>4, <2>5 DEF Inv
<1>2. CASE EndBlock
  <2>1. /\ base' = walk /\ lp' = lp /\ frames' = 0 /\ walk' = walk
    BY <1>2 DEF EndBlock, Inv
  <2>2. walk = Advance(walk, 0, lp)
    BY AdvanceZero DEF Inv
  <2>3. walk' = Advance(base', frames', lp')
    BY <2>1, <2>2
  <2>4. base' \in Samples /\ frames' \in Nat /\ base' + frames' <= MaxSample
    BY <2>1 DEF Inv, Samples
  <2> QED
    BY <2>1, <2>3, <2>4 DEF Inv
<1>3. CASE UNCHANGED walkVars
  BY <1>3 DEF walkVars, Inv
<1> QED
  BY <1>1, <1>2, <1>3 DEF WalkNext

(* One step over a block is its frames one by one, for every loop and      *)
(* block size: the playhead does not depend on the device's buffer.        *)
THEOREM BlocksAreTheirFrames == WalkSpec => []BlockIsItsFrames
<1>1. Inv => BlockIsItsFrames
  BY AdvanceZero DEF Inv, BlockIsItsFrames
<1> QED
  BY <1>1, InitWalk, StepWalk, PTL DEF WalkSpec

(* A playhead that is before the end of an active loop stays before it.    *)
THEOREM LoopsHold == WalkSpec => NeverPastTheLoop
<1>1. Inv /\ [WalkNext]_walkVars => [Active(lp) /\ base < lp.end => base' < lp.end]_walkVars
  <2> SUFFICES ASSUME Inv, [WalkNext]_walkVars, Active(lp), base < lp.end
               PROVE  base' < lp.end
    OBVIOUS
  <2>1. CASE EndBlock
    <3>1. base' = walk
      BY <2>1 DEF EndBlock, Inv
    <3>2. CASE base + frames < MaxSample
      BY <3>1, <3>2, AdvanceOneMore DEF Inv
    <3>3. CASE base + frames = MaxSample
      <4>1. frames \in Nat /\ frames > 0 /\ frames - 1 \in Nat /\ base + (frames - 1) < MaxSample
        BY <2>1, <3>3, MaxSampleAssumption DEF EndBlock, Inv, Samples
      <4>2. walk = Frame(Advance(base, frames - 1, lp), lp)
        BY <4>1, AdvanceOneMore DEF Inv
      <4>3. Advance(base, frames - 1, lp) \in Nat /\ Advance(base, frames - 1, lp) < lp.end
        BY <4>1, AdvanceOneMore DEF Inv
      <4>4. lp.end \in Nat /\ lp.start \in Nat /\ lp.start < lp.end
        BY MaxSampleAssumption DEF Inv, LoopSpecs, Samples, Active
      <4> QED
        BY <3>1, <4>2, <4>3, <4>4 DEF Frame
    <3> QED
      BY <3>2, <3>3, MaxSampleAssumption DEF Inv, Samples
  <2>2. CASE WalkFrame \/ UNCHANGED walkVars
    BY <2>2 DEF WalkFrame, walkVars
  <2> QED
    BY <2>1, <2>2 DEF WalkNext
<1> QED
  BY <1>1, InitWalk, StepWalk, PTL DEF WalkSpec, NeverPastTheLoop

----------------------------------------------------------------------------
(* The song's end.                                                         *)

(* Until the walk turns back it has been everywhere between the block's    *)
(* begin and itself; once it has, everywhere up to the end of the loop.    *)
Trail ==
  /\ songEnd \in Samples /\ met \in BOOLEAN /\ turned \in BOOLEAN
  /\ ~turned => walk = base + frames
  /\ turned => Active(lp) /\ base < lp.end
  /\ base < songEnd /\ (IF turned THEN songEnd < lp.end ELSE songEnd <= walk) => met
  /\ met /\ ~turned => base < songEnd /\ songEnd <= walk

LEMMA InitTrail == WalkInit => Trail
<1> SUFFICES ASSUME WalkInit PROVE Trail
  OBVIOUS
<1>1. /\ songEnd \in Samples /\ met = FALSE /\ turned = FALSE
      /\ walk = base /\ frames = 0
  BY DEF WalkInit
<1>2. base \in Nat /\ songEnd \in Nat
  BY MaxSampleAssumption DEF WalkInit, Samples
<1>3. walk = base + frames /\ ~(base < songEnd /\ songEnd <= walk)
  BY <1>1, <1>2
<1> QED
  BY <1>1, <1>3 DEF Trail

LEMMA StepTrail == Inv /\ Trail /\ [WalkNext]_walkVars => Trail'
<1> SUFFICES ASSUME Inv, Trail, [WalkNext]_walkVars PROVE Trail'
  OBVIOUS
<1>0. /\ base \in Nat /\ songEnd \in Nat /\ walk \in Nat /\ frames \in Nat
      /\ lp.start \in Nat /\ lp.end \in Nat
  BY MaxSampleAssumption DEF Inv, Trail, LoopSpecs, Samples
<1>1. CASE WalkFrame
  <2> DEFINE turn == Active(lp) /\ walk + 1 = lp.end
  <2>1. /\ base' = base /\ lp' = lp /\ frames' = frames + 1 /\ songEnd' = songEnd
        /\ walk' = IF turn THEN lp.start ELSE walk + 1
        /\ turned' = (turned \/ turn) /\ met' = (met \/ walk' = songEnd)
    BY <1>1 DEF WalkFrame
  <2>2. CASE turned
    BY <1>0, <2>1, <2>2 DEF Trail, Active
  <2>3. CASE ~turned /\ turn
    <3>1. /\ turned' = TRUE /\ walk = base + frames /\ Active(lp) /\ walk + 1 = lp.end
          /\ base < songEnd /\ songEnd <= walk => met
      BY <2>1, <2>3 DEF Trail
    <3>2. base < lp.end /\ (songEnd < lp.end => songEnd <= walk)
      BY <1>0, <3>1
    <3>3. base < songEnd /\ songEnd < lp.end => met'
      BY <2>1, <3>1, <3>2
    <3>4. met' \in BOOLEAN
      BY <2>1 DEF Trail
    <3> QED
      BY <2>1, <3>1, <3>2, <3>3, <3>4 DEF Trail, Active
  <2>4. CASE ~turned /\ ~turn
    <3>1. turned' = FALSE /\ walk' = walk + 1 /\ walk = base + frames
      BY <2>1, <2>4 DEF Trail
    <3>2. walk' = base' + frames'
      BY <1>0, <2>1, <3>1
    <3>3. songEnd <= walk' => songEnd <= walk \/ songEnd = walk'
      BY <1>0, <3>1
    <3>4. base < songEnd /\ songEnd <= walk' => met'
      BY <2>1, <2>4, <3>3 DEF Trail
    <3>5. met => base < songEnd /\ songEnd <= walk
      BY <2>4 DEF Trail
    <3>6. songEnd = walk' => base < songEnd /\ songEnd <= walk'
      BY <1>0, <3>1
    <3>7. songEnd <= walk => songEnd <= walk'
      BY <1>0, <3>1
    <3>8. met' => base < songEnd /\ songEnd <= walk'
      BY <2>1, <3>5, <3>6, <3>7
    <3>9. met' \in BOOLEAN
      BY <2>1 DEF Trail
    <3> QED
      BY <2>1, <3>1, <3>2, <3>4, <3>8, <3>9 DEF Trail
  <2> QED
    BY <2>2, <2>3, <2>4 DEF Trail
<1>2. CASE EndBlock
  <2>1. /\ base' = walk /\ walk' = walk /\ frames' = 0 /\ songEnd' = songEnd
        /\ met' = FALSE /\ turned' = FALSE
    BY <1>2 DEF EndBlock, Inv
  <2>2. walk' = base' + frames' /\ ~(base' < songEnd' /\ songEnd' <= walk')
    BY <1>0, <2>1
  <2> QED
    BY <2>1, <2>2 DEF Trail
<1>3. CASE UNCHANGED walkVars
  BY <1>3 DEF walkVars, Trail, Active
<1> QED
  BY <1>1, <1>2, <1>3 DEF WalkNext

(* A block that does not turn back reports the song's end exactly when one *)
(* of its frames lands there, and one that does reports nothing untrue:    *)
(* for every loop, song and block size.                                    *)
THEOREM CrossingsAreTrue == WalkSpec => CrossingFollowsTheWalk
<1>1. Inv /\ Trail /\ [WalkNext]_walkVars =>
      [BlockEnds => /\ reported' \subseteq IF met THEN {songEnd} ELSE {}
                    /\ met /\ ~turned => reported' = {songEnd}]_walkVars
  <2> SUFFICES ASSUME Inv, Trail, EndBlock
               PROVE  /\ reported' \subseteq IF met THEN {songEnd} ELSE {}
                      /\ met /\ ~turned => reported' = {songEnd}
    BY DEF WalkNext, WalkFrame, BlockEnds, Inv, walkVars
  <2>0. /\ base \in Nat /\ songEnd \in Nat /\ walk \in Nat /\ frames \in Nat /\ frames > 0
        /\ lp.start \in Nat /\ lp.end \in Nat
    BY MaxSampleAssumption DEF Inv, Trail, LoopSpecs, Samples, EndBlock
  <2>1. reported' = IF songEnd = 0 \/ base >= songEnd
                       \/ (Active(lp) /\ base < lp.end /\ walk < base) \/ walk < songEnd
                    THEN {} ELSE {songEnd}
    BY <2>0 DEF EndBlock, Inv, Crossing, Nowhere
  <2>2. turned => walk < lp.end
    <3>1. CASE base + frames < MaxSample
      BY <3>1, AdvanceOneMore DEF Inv, Trail
    <3>2. CASE base + frames = MaxSample
      <4>1. frames - 1 \in Nat /\ base + (frames - 1) < MaxSample /\ frames = (frames - 1) + 1
        BY <2>0, <3>2, MaxSampleAssumption
      <4>2. walk = Frame(Advance(base, frames - 1, lp), lp)
        BY <4>1, AdvanceOneMore DEF Inv
      <4>3. /\ Advance(base, frames - 1, lp) \in Nat
            /\ turned => Advance(base, frames - 1, lp) < lp.end
        BY <4>1, AdvanceOneMore DEF Inv, Trail
      <4> QED
        BY <2>0, <4>2, <4>3 DEF Frame, Trail, Active
    <3> QED
      BY <2>0, <3>1, <3>2, MaxSampleAssumption DEF Inv
  <2>3. CASE met
    BY <2>0, <2>1, <2>3 DEF Trail
  <2>4. CASE ~met
    <3>1. ~(base < songEnd /\ songEnd <= walk)
      BY <2>0, <2>2, <2>4 DEF Trail
    <3> QED
      BY <2>0, <2>1, <2>4, <3>1
  <2> QED
    BY <2>3, <2>4 DEF Trail
<1> QED
  BY <1>1, InitWalk, StepWalk, InitTrail, StepTrail, PTL DEF WalkSpec, CrossingFollowsTheWalk

----------------------------------------------------------------------------
(* Takes and the transport's state.                                        *)

LEMMA InitTypes == ASSUME OtherAssumption PROVE Init => TypeOK
<1> SUFFICES ASSUME Init PROVE TypeOK
  OBVIOUS
<1>1. eng \in EngState /\ door \in [Doors -> DoorState]
  BY DEF Init, EngState, DoorState, IdleEng, IdleDoor
<1>2. queue \in Seq(Message)
  BY DEF Init
<1>3. countin \in 0..CountIn /\ cb \in 0..CountIn /\ commands \in 0..MaxCommands
  BY DEF Init, OtherAssumption
<1> QED
  BY <1>1, <1>2, <1>3 DEF Init, TypeOK

(* A request is answered. *)
LEMMA Answering ==
  ASSUME TypeOK, NEW r \in {"ok", "err"}, Answer(r)
  PROVE  /\ eng' = IdleEng /\ eng' \in EngState
         /\ door' \in [Doors -> DoorState]
         /\ \A d \in Doors : /\ door'[d].pc = door[d].pc
                             /\ door'[d].cmd = door[d].cmd
                             /\ door'[d].routed = door[d].routed
BY DEF TypeOK, Answer, IdleEng, EngState, DoorState

(* The engine goes on. *)
LEMMA GoingOn ==
  ASSUME TypeOK,
         NEW pc \in {"idle", "start", "preroll", "roll", "label", "unarm", "stop", "cancel",
                     "quiet", "finish", "halt", "register", "unlabel", "autohalt"},
         At(pc)
  PROVE  /\ eng' \in EngState /\ eng' = [eng EXCEPT !.pc = pc]
         /\ eng'.pc = pc /\ eng'.had = eng.had /\ eng'.for = eng.for
         /\ eng'.arming = eng.arming
         /\ door' = door
BY DEF TypeOK, At, EngState

(* A door goes on. *)
LEMMA DoorGoesOn ==
  ASSUME TypeOK, NEW d \in Doors, NEW w \in DoorState, door' = [door EXCEPT ![d] = w]
  PROVE  /\ door' \in [Doors -> DoorState] /\ door'[d] = w
         /\ \A e \in Doors \ {d} : door'[e] = door[e]
BY DEF TypeOK

LEMMA EndPolicyTyped == EndPolicy \in EngState
BY DEF EndPolicy, IdleEng, EngState

LEMMA Sending ==
  ASSUME TypeOK, NEW d \in Doors, NEW k \in {"start", "stop"}, Send(d, k)
  PROVE  queue' \in Seq(Message)
<1>1. [kind |-> k, for |-> d] \in Message
  BY DEF Message
<1> QED
  BY <1>1, AppendProperties DEF Send, TypeOK

LEMMA Receiving ==
  ASSUME TypeOK, Handle
  PROVE  /\ Head(queue) \in Message /\ Head(queue).kind \in {"start", "stop"}
         /\ queue' = Tail(queue) /\ queue' \in Seq(Message)
<1>1. queue \in Seq(Message) /\ queue # <<>> /\ queue' = Tail(queue)
  BY DEF Handle, TypeOK
<1>2. Head(queue) \in Message /\ Tail(queue) \in Seq(Message)
  BY <1>1, HeadTailProperties
<1> QED
  BY <1>1, <1>2 DEF Message

LEMMA StepTypes ==
  ASSUME OtherAssumption, TypeOK, [Next]_vars
  PROVE  TypeOK'
<1> USE DEF OtherAssumption
<1>BeginBlock. CASE BeginBlock
  BY <1>BeginBlock DEF BeginBlock, TypeOK, EngState, IdleEng, atomics, takes, callback, requests, history, Answer, At, EndPolicy, Busy, CountsIn, CountingIn
<1>CountDown. CASE CountDown
  BY <1>CountDown DEF CountDown, TypeOK, EngState, IdleEng, atomics, takes, callback, requests, history, Answer, At, EndPolicy, Busy, CountsIn, CountingIn
<1>ReachEnd. CASE ReachEnd
  BY <1>ReachEnd DEF ReachEnd, TypeOK, EngState, IdleEng, atomics, takes, callback, requests, history, Answer, At, EndPolicy, Busy, CountsIn, CountingIn
<1>AutoHalt. CASE AutoHalt
  BY <1>AutoHalt DEF AutoHalt, TypeOK, EngState, IdleEng, atomics, takes, callback, requests, history, Answer, At, EndPolicy, Busy, CountsIn, CountingIn
<1>ArmPending. CASE ArmPending
  BY <1>ArmPending DEF ArmPending, TypeOK, EngState, IdleEng, atomics, takes, callback, requests, history, Answer, At, EndPolicy, Busy, CountsIn, CountingIn
<1>Unarm. CASE Unarm
  <2>1. eng' \in EngState /\ door' \in [Doors -> DoorState]
    BY <1>Unarm, Answering DEF Unarm
  <2> QED
    BY <1>Unarm, <2>1 DEF Unarm, TypeOK, atomics, takes, callback, requests, history
<1>StartCountIn. CASE StartCountIn
  BY <1>StartCountIn DEF StartCountIn, TypeOK, EngState, IdleEng, atomics, takes, callback, requests, history, Answer, At, EndPolicy, Busy, CountsIn, CountingIn
<1>Preroll. CASE Preroll
  <2>1. eng' \in EngState /\ door' \in [Doors -> DoorState]
    BY <1>Preroll, Answering DEF Preroll
  <2> QED
    BY <1>Preroll, <2>1 DEF Preroll, TypeOK, atomics, takes, callback, requests, history
<1>StartTake. CASE StartTake
  BY <1>StartTake DEF StartTake, TypeOK, EngState, IdleEng, atomics, takes, callback, requests, history, Answer, At, EndPolicy, Busy, CountsIn, CountingIn
<1>Roll. CASE Roll
  BY <1>Roll DEF Roll, TypeOK, EngState, IdleEng, atomics, takes, callback, requests, history, Answer, At, EndPolicy, Busy, CountsIn, CountingIn
<1>LabelRecording. CASE LabelRecording
  <2>1. eng' \in EngState /\ door' \in [Doors -> DoorState]
    BY <1>LabelRecording, Answering DEF LabelRecording
  <2> QED
    BY <1>LabelRecording, <2>1 DEF LabelRecording, TypeOK, atomics, takes, callback, requests, history
<1>StopRefused. CASE StopRefused
  <2>1. eng' \in EngState /\ door' \in [Doors -> DoorState]
    BY <1>StopRefused, Answering DEF StopRefused
  <2> QED
    BY <1>StopRefused, <2>1 DEF StopRefused, TypeOK, atomics, takes, callback, requests, history
<1>EndTake. CASE EndTake
  BY <1>EndTake DEF EndTake, TypeOK, EngState, IdleEng, atomics, takes, callback, requests, history, Answer, At, EndPolicy, Busy, CountsIn, CountingIn
<1>CancelCountIn. CASE CancelCountIn
  BY <1>CancelCountIn DEF CancelCountIn, TypeOK, EngState, IdleEng, atomics, takes, callback, requests, history, Answer, At, EndPolicy, Busy, CountsIn, CountingIn
<1>Halt. CASE Halt
  BY <1>Halt DEF Halt, TypeOK, EngState, IdleEng, atomics, takes, callback, requests, history, Answer, At, EndPolicy, Busy, CountsIn, CountingIn
<1>Register. CASE Register
  BY <1>Register DEF Register, TypeOK, EngState, IdleEng, atomics, takes, callback, requests, history, Answer, At, EndPolicy, Busy, CountsIn, CountingIn
<1>LabelStopped. CASE LabelStopped
  <2>1. eng' \in EngState /\ door' \in [Doors -> DoorState]
    BY <1>LabelStopped, Answering DEF LabelStopped
  <2> QED
    BY <1>LabelStopped, <2>1 DEF LabelStopped, TypeOK, atomics, takes, callback, requests, history
<1>Handle. CASE Handle
  <2>1. Head(queue) \in Message /\ Tail(queue) \in Seq(Message)
    BY <1>Handle, Receiving
  <2>2. eng' \in EngState
    BY <1>Handle, <2>1 DEF Handle, EngState, IdleEng, Message
  <2> QED
    BY <1>Handle, <2>1, <2>2 DEF Handle, TypeOK, atomics, takes, callback, requests, history
<1>Headless. CASE Headless
  <2>1. eng' \in EngState
    BY <1>Headless, EndPolicyTyped DEF Headless, TypeOK
  <2>2. countin' \in 0..CountIn
    BY <1>Headless DEF Headless, TypeOK
  <2> QED
    BY <1>Headless, <2>1, <2>2 DEF Headless, TypeOK, atomics, takes, callback, requests, history
<1>StartFails. CASE StartFails
  <2>1. eng' \in EngState /\ door' \in [Doors -> DoorState]
    <3>1. At("unarm") \/ Answer("err")
      BY <1>StartFails DEF StartFails
    <3>2. CASE At("unarm")
      BY <3>2, GoingOn DEF TypeOK
    <3>3. CASE Answer("err")
      BY <3>3, Answering
    <3> QED
      BY <3>1, <3>2, <3>3
  <2> QED
    BY <1>StartFails, <2>1 DEF StartFails, TypeOK, atomics, takes, callback, requests, history
<1>Quiet. CASE Quiet
  <2>1. eng' \in EngState /\ door' \in [Doors -> DoorState]
    <3>1. At("finish") \/ Answer("ok")
      BY <1>Quiet DEF Quiet
    <3>2. CASE At("finish")
      BY <3>2, GoingOn DEF TypeOK
    <3>3. CASE Answer("ok")
      BY <3>3, Answering
    <3> QED
      BY <3>1, <3>2, <3>3
  <2> QED
    BY <1>Quiet, <2>1 DEF Quiet, TypeOK, atomics, takes, callback, requests, history
<1>FinishWriters. CASE FinishWriters
  <2>1. eng' \in EngState
    BY <1>FinishWriters DEF FinishWriters, TypeOK, EngState
  <2> QED
    BY <1>FinishWriters, <2>1 DEF FinishWriters, TypeOK, atomics, takes, callback, requests, history
<1>Command. ASSUME NEW d \in Doors, Command(d) PROVE TypeOK'
  <2>1. ASSUME NEW c \in {"play", "stop", "record", "keep"}, NEW pc \in {"play", "stop", "wait"},
               Begin(d, c, pc)
        PROVE  door' \in [Doors -> DoorState]
    <3>1. [IdleDoor EXCEPT !.cmd = c, !.pc = pc] \in DoorState
      BY <2>1 DEF IdleDoor, DoorState
    <3> QED
      BY <2>1, <3>1, DoorGoesOn DEF Begin
  <2>2. door' \in [Doors -> DoorState]
    <3>1. door \in [Doors -> DoorState]
      BY DEF TypeOK
    <3>2. \/ Begin(d, "play", "play") \/ Begin(d, "stop", "stop")
          \/ Begin(d, "record", "wait") \/ Begin(d, "keep", "wait")
          \/ door' = door
      BY <1>Command DEF Command, requests
    <3> QED
      BY <2>1, <3>1, <3>2
  <2>3. queue' \in Seq(Message)
    <3>1. Send(d, "start") \/ Send(d, "stop") \/ queue' = queue
      BY <1>Command DEF Command, requests
    <3> QED
      BY <3>1, Sending DEF TypeOK
  <2>4. commands' \in 0..MaxCommands
    BY <1>Command DEF Command, NewCommand, TypeOK
  <2>5. launched' \in BOOLEAN
    BY <1>Command DEF Command, TypeOK
  <2> QED
    BY <1>Command, <2>2, <2>3, <2>4, <2>5 DEF Command, NewCommand, TypeOK, atomics, takes, callback, requests, history
<1>Play. ASSUME NEW d \in Doors, Play(d) PROVE TypeOK'
  <2>1. IdleDoor \in DoorState /\ [door[d] EXCEPT !.pc = "roll"] \in DoorState
    BY DEF IdleDoor, DoorState, TypeOK
  <2>2. door' = [door EXCEPT ![d] = IdleDoor] \/ door' = [door EXCEPT ![d] = [door[d] EXCEPT !.pc = "roll"]]
    BY <1>Play DEF Play, Return
  <2>3. door' \in [Doors -> DoorState]
    BY <2>1, <2>2, DoorGoesOn
  <2> QED
    BY <1>Play, <2>3 DEF Play, TypeOK, atomics, takes, callback, requests, history
<1>ArmPlaying. ASSUME NEW d \in Doors, ArmPlaying(d) PROVE TypeOK'
  BY <1>ArmPlaying DEF ArmPlaying, Return, TypeOK, IdleDoor, DoorState, atomics, takes, callback, requests, history
<1>StopReads. ASSUME NEW d \in Doors, StopReadsRecording(d) \/ StopReadsCountIn(d) PROVE TypeOK'
  <2>1. /\ [door[d] EXCEPT !.pc = "wait", !.routed = TRUE] \in DoorState
        /\ [door[d] EXCEPT !.pc = "count"] \in DoorState
        /\ [door[d] EXCEPT !.pc = "halt"] \in DoorState
    BY DEF DoorState, TypeOK
  <2>2. \/ /\ door' = [door EXCEPT ![d] = [door[d] EXCEPT !.pc = "wait", !.routed = TRUE]]
           /\ Send(d, "stop")
        \/ door' = [door EXCEPT ![d] = [door[d] EXCEPT !.pc = "count"]] /\ queue' = queue
        \/ door' = [door EXCEPT ![d] = [door[d] EXCEPT !.pc = "halt"]] /\ queue' = queue
    BY <1>StopReads DEF StopReadsRecording, StopReadsCountIn, TypeOK, DoorState
  <2>3. door' \in [Doors -> DoorState] /\ queue' \in Seq(Message)
    BY <2>1, <2>2, DoorGoesOn, Sending DEF TypeOK
  <2> QED
    BY <1>StopReads, <2>3 DEF StopReadsRecording, StopReadsCountIn, TypeOK, atomics, takes, callback, requests, history
<1>Answered. ASSUME NEW d \in Doors, Answered(d) PROVE TypeOK'
  <2>1. IdleDoor \in DoorState /\ [door[d] EXCEPT !.pc = "halt", !.reply = "none"] \in DoorState
    BY DEF IdleDoor, DoorState, TypeOK
  <2>2. \/ door' = [door EXCEPT ![d] = IdleDoor]
        \/ door' = [door EXCEPT ![d] = [door[d] EXCEPT !.pc = "halt", !.reply = "none"]]
    BY <1>Answered DEF Answered, Fail, Return, TypeOK, DoorState
  <2>3. door' \in [Doors -> DoorState]
    BY <2>1, <2>2, DoorGoesOn
  <2>4. last' \in {"none", "routed", "direct", "failed"}
    BY <1>Answered DEF Answered, Fail, TypeOK
  <2> QED
    BY <1>Answered, <2>3, <2>4 DEF Answered, TypeOK, atomics, takes, callback, requests, history
<1>GiveUp. ASSUME NEW d \in Doors, GiveUp(d) PROVE TypeOK'
  <2>1. IdleDoor \in DoorState /\ door' = [door EXCEPT ![d] = IdleDoor]
    BY <1>GiveUp DEF GiveUp, Fail, Return, IdleDoor, DoorState
  <2>2. door' \in [Doors -> DoorState]
    BY <2>1, DoorGoesOn
  <2>3. eng' \in EngState
    BY <1>GiveUp DEF GiveUp, Orphan, TypeOK, EngState
  <2>4. queue' \in Seq(Message)
    <3>1. \A m \in Message : Orphan(m, d) \in Message
      BY DEF Orphan, Message
    <3>2. Len(queue) \in Nat /\ DOMAIN queue = 1..Len(queue) /\ \A i \in 1..Len(queue) : queue[i] \in Message
      BY LenProperties, ElementOfSeq DEF TypeOK
    <3>3. queue' = [i \in 1..Len(queue) |-> Orphan(queue[i], d)]
      BY <1>GiveUp, <3>2 DEF GiveUp
    <3> QED
      BY <3>1, <3>2, <3>3, IsASeq
  <2>5. last' \in {"none", "failed"}
    BY <1>GiveUp DEF GiveUp, Fail
  <2> QED
    BY <1>GiveUp, <2>2, <2>3, <2>4, <2>5 DEF GiveUp, TypeOK, atomics, takes, callback, requests, history
<1>StopPlaying. ASSUME NEW d \in Doors, StopPlaying(d) PROVE TypeOK'
  <2>1. [door[d] EXCEPT !.pc = "label"] \in DoorState
    BY DEF DoorState, TypeOK
  <2>2. door' = [door EXCEPT ![d] = [door[d] EXCEPT !.pc = "label"]]
    BY <1>StopPlaying DEF StopPlaying
  <2>3. door' \in [Doors -> DoorState]
    BY <2>1, <2>2, DoorGoesOn
  <2> QED
    BY <1>StopPlaying, <2>3 DEF StopPlaying, TypeOK, atomics, takes, callback, requests, history
<1>StopLabels. ASSUME NEW d \in Doors, StopLabels(d) PROVE TypeOK'
  BY <1>StopLabels DEF StopLabels, TypeOK, DoorState, atomics, takes, callback, requests, history
<1>StopCutsScenes. ASSUME NEW d \in Doors, StopCutsScenes(d) PROVE TypeOK'
  <2>1. IdleDoor \in DoorState /\ door' = [door EXCEPT ![d] = IdleDoor]
    BY <1>StopCutsScenes DEF StopCutsScenes, Return, IdleDoor, DoorState
  <2>2. door' \in [Doors -> DoorState]
    BY <2>1, DoorGoesOn
  <2>3. last' \in {"routed", "direct"}
    BY <1>StopCutsScenes DEF StopCutsScenes
  <2> QED
    BY <1>StopCutsScenes, <2>2, <2>3 DEF StopCutsScenes, TypeOK, atomics, takes, callback, requests, history
<1>rest. CASE UNCHANGED vars
  BY <1>rest DEF vars, TypeOK, atomics, takes, callback, requests, history
<1> QED
  BY <1>BeginBlock, <1>CountDown, <1>ReachEnd, <1>AutoHalt, <1>ArmPending, <1>Unarm, <1>StartCountIn, <1>Preroll, <1>StartTake, <1>Roll, <1>LabelRecording, <1>StopRefused, <1>EndTake, <1>CancelCountIn, <1>Halt, <1>Register, <1>LabelStopped, <1>Handle, <1>Headless, <1>StartFails, <1>Quiet, <1>FinishWriters, <1>Command, <1>Play, <1>ArmPlaying, <1>StopReads, <1>Answered, <1>GiveUp, <1>StopPlaying, <1>StopLabels, <1>StopCutsScenes, <1>rest
     DEF Next, Callback, Engine, Start, Stop, Tick, Execute

(* Until the take is registered the engine knows that there was one, and   *)
(* the flag and the label say "recording" only of a take.                  *)
Truthful ==
  /\ eng.pc \in {"finish", "halt", "register"} => eng.had
  /\ eng.pc \in {"roll", "label"} => take
  /\ take => eng.pc \in {"idle", "start", "roll", "label", "stop"}
  /\ take /\ eng.pc # "roll" => recording
  /\ recording => take \/ (eng.had /\ eng.pc \in {"cancel", "quiet", "finish", "halt"})
  /\ label = "recording" => take \/ Finishing \/ eng.pc = "unlabel"

Takes == TypeOK /\ TakesAreKept /\ Truthful

LEMMA InitTakes == Init => TakesAreKept /\ Truthful
BY DEF Init, TakesAreKept, Truthful, One, Finishing, IdleEng

LEMMA StepTakes == ASSUME Takes, [Next]_vars PROVE TakesAreKept' /\ Truthful'
<1> USE DEF Takes, TakesAreKept, Truthful, One, Finishing
<1>0. begun \in Nat /\ kept \in Nat /\ take \in BOOLEAN /\ eng \in EngState
  BY DEF TypeOK
<1>Handle. CASE Handle
  <2>1. Head(queue).kind \in {"start", "stop"}
    BY <1>Handle, Receiving
  <2>2. /\ eng.pc = "idle" /\ eng'.pc = Head(queue).kind /\ eng'.had = FALSE
        /\ UNCHANGED <<take, recording, label, begun, kept>>
    BY <1>Handle DEF Handle, IdleEng, atomics, takes
  <2> QED
    BY <1>0, <2>1, <2>2
<1>ReachEnd. CASE ReachEnd
  BY <1>0, <1>ReachEnd DEF ReachEnd, atomics, takes, callback, requests, history, EngState, IdleEng, Answer, At, EndPolicy, Busy
<1>Headless. CASE Headless
  BY <1>0, <1>Headless DEF Headless, atomics, takes, callback, requests, history, EngState, IdleEng, Answer, At, EndPolicy, Busy
<1>AutoHalt. CASE AutoHalt
  BY <1>0, <1>AutoHalt DEF AutoHalt, atomics, takes, callback, requests, history, EngState, IdleEng, Answer, At, EndPolicy, Busy
<1>ArmPending. CASE ArmPending
  BY <1>0, <1>ArmPending DEF ArmPending, atomics, takes, callback, requests, history, EngState, IdleEng, Answer, At, EndPolicy, Busy
<1>StartFails. CASE StartFails
  BY <1>0, <1>StartFails DEF StartFails, atomics, takes, callback, requests, history, EngState, IdleEng, Answer, At, EndPolicy, Busy
<1>Unarm. CASE Unarm
  BY <1>0, <1>Unarm DEF Unarm, atomics, takes, callback, requests, history, EngState, IdleEng, Answer, At, EndPolicy, Busy
<1>StartCountIn. CASE StartCountIn
  BY <1>0, <1>StartCountIn DEF StartCountIn, atomics, takes, callback, requests, history, EngState, IdleEng, Answer, At, EndPolicy, Busy
<1>Preroll. CASE Preroll
  BY <1>0, <1>Preroll DEF Preroll, atomics, takes, callback, requests, history, EngState, IdleEng, Answer, At, EndPolicy, Busy
<1>StartTake. CASE StartTake
  BY <1>0, <1>StartTake DEF StartTake, atomics, takes, callback, requests, history, EngState, IdleEng, Answer, At, EndPolicy, Busy
<1>Roll. CASE Roll
  BY <1>0, <1>Roll DEF Roll, atomics, takes, callback, requests, history, EngState, IdleEng, Answer, At, EndPolicy, Busy
<1>LabelRecording. CASE LabelRecording
  BY <1>0, <1>LabelRecording DEF LabelRecording, atomics, takes, callback, requests, history, EngState, IdleEng, Answer, At, EndPolicy, Busy
<1>StopRefused. CASE StopRefused
  BY <1>0, <1>StopRefused DEF StopRefused, atomics, takes, callback, requests, history, EngState, IdleEng, Answer, At, EndPolicy, Busy
<1>EndTake. CASE EndTake
  BY <1>0, <1>EndTake DEF EndTake, atomics, takes, callback, requests, history, EngState, IdleEng, Answer, At, EndPolicy, Busy
<1>CancelCountIn. CASE CancelCountIn
  BY <1>0, <1>CancelCountIn DEF CancelCountIn, atomics, takes, callback, requests, history, EngState, IdleEng, Answer, At, EndPolicy, Busy
<1>Quiet. CASE Quiet
  BY <1>0, <1>Quiet DEF Quiet, atomics, takes, callback, requests, history, EngState, IdleEng, Answer, At, EndPolicy, Busy
<1>FinishWriters. CASE FinishWriters
  BY <1>0, <1>FinishWriters DEF FinishWriters, atomics, takes, callback, requests, history, EngState, IdleEng, Answer, At, EndPolicy, Busy
<1>Halt. CASE Halt
  BY <1>0, <1>Halt DEF Halt, atomics, takes, callback, requests, history, EngState, IdleEng, Answer, At, EndPolicy, Busy
<1>Register. CASE Register
  BY <1>0, <1>Register DEF Register, atomics, takes, callback, requests, history, EngState, IdleEng, Answer, At, EndPolicy, Busy
<1>LabelStopped. CASE LabelStopped
  BY <1>0, <1>LabelStopped DEF LabelStopped, atomics, takes, callback, requests, history, EngState, IdleEng, Answer, At, EndPolicy, Busy
<1>Play. ASSUME NEW d \in Doors, Play(d) PROVE TakesAreKept' /\ Truthful'
  BY <1>0, <1>Play DEF Play, atomics, takes, callback, requests, history, EngState, Orphan
<1>GiveUp. ASSUME NEW d \in Doors, GiveUp(d) PROVE TakesAreKept' /\ Truthful'
  BY <1>0, <1>GiveUp DEF GiveUp, atomics, takes, callback, requests, history, EngState, Orphan
<1>StopLabels. ASSUME NEW d \in Doors, StopLabels(d) PROVE TakesAreKept' /\ Truthful'
  BY <1>0, <1>StopLabels DEF StopLabels, atomics, takes, callback, requests, history, EngState, Orphan
<1>Stays. ASSUME UNCHANGED <<take, recording, label, eng, begun, kept>> PROVE TakesAreKept' /\ Truthful'
  BY <1>Stays
<1>others. ASSUME NEW d \in Doors,
                  \/ Command(d) \/ ArmPlaying(d) \/ StopReadsRecording(d) \/ StopReadsCountIn(d)
                  \/ Answered(d) \/ StopPlaying(d) \/ StopCutsScenes(d)
           PROVE  UNCHANGED <<take, recording, label, eng, begun, kept>>
  BY <1>others DEF Command, NewCommand, ArmPlaying, StopReadsRecording, StopReadsCountIn, Answered,
       StopPlaying, StopCutsScenes, atomics, takes, callback, requests, history
<1>rest. Callback \/ UNCHANGED vars => UNCHANGED <<take, recording, label, eng, begun, kept>>
  BY DEF Callback, BeginBlock, CountDown, vars, atomics, takes, callback, requests, history
<1> QED
  BY <1>Handle, <1>ReachEnd, <1>Headless, <1>AutoHalt, <1>ArmPending, <1>StartFails, <1>Unarm, <1>StartCountIn, <1>Preroll, <1>StartTake, <1>Roll, <1>LabelRecording, <1>StopRefused, <1>EndTake, <1>CancelCountIn, <1>Quiet, <1>FinishWriters, <1>Halt, <1>Register, <1>LabelStopped, <1>Play, <1>GiveUp, <1>StopLabels, <1>Stays, <1>others, <1>rest
     DEF Next, Engine, Start, Stop, Tick, Execute

(* A take is kept exactly once. *)
THEOREM TakesStayKept == ASSUME OtherAssumption PROVE Spec => []TakesAreKept
<1>1. Init => Takes
  BY InitTypes, InitTakes DEF Takes
<1>2. Takes /\ [Next]_vars => Takes'
  BY StepTypes, StepTakes DEF Takes
<1>3. Takes => TakesAreKept
  BY DEF Takes
<1> QED
  BY <1>1, <1>2, <1>3, PTL DEF Spec

----------------------------------------------------------------------------
(* What the clients see.                                                   *)

LEMMA RecordingIsTold == Takes => RecordingIsReported
BY DEF Takes, Truthful, Finishing, RecordingIsReported, Resting, Snapshot

(* Without a count-in the transport only stops where a label follows, and  *)
(* only a Play that has yet to start it has labelled it before.            *)
NoCountIn ==
  /\ countin = 0 /\ ~pending /\ ~eng.arming
  /\ eng.pc \notin {"preroll", "unarm", "cancel", "quiet"}
Labelled ==
  label = "playing" /\ ~playing =>
    eng.pc \in {"register", "unlabel"} \/ \E d \in Doors : door[d].pc \in {"roll", "label"}

LEMMA InitLabelled == Init => NoCountIn /\ Labelled
BY DEF Init, NoCountIn, Labelled, IdleEng

LEMMA StepNoCountIn == ASSUME CountIn = 0, TypeOK, NoCountIn, [Next]_vars PROVE NoCountIn'
<1> USE DEF NoCountIn
<1>0. eng \in EngState
  BY DEF TypeOK
<1>1. CASE Callback
  BY <1>1 DEF Callback, BeginBlock, CountDown, TypeOK, atomics, takes
<1>Handle. CASE Handle
  <2>1. Head(queue).kind \in {"start", "stop"}
    BY <1>Handle, Receiving
  <2>2. eng'.pc = Head(queue).kind /\ eng'.arming = FALSE /\ UNCHANGED <<countin, pending>>
    BY <1>Handle DEF Handle, IdleEng, atomics, takes
  <2> QED
    BY <2>1, <2>2
<1>ReachEnd. CASE ReachEnd
  BY <1>0, <1>ReachEnd DEF ReachEnd, atomics, takes, callback, requests, history, EngState, IdleEng, Answer, At, EndPolicy, Busy, CountsIn, CountingIn, TypeOK
<1>Headless. CASE Headless
  BY <1>0, <1>Headless DEF Headless, atomics, takes, callback, requests, history, EngState, IdleEng, Answer, At, EndPolicy, Busy, CountsIn, CountingIn, TypeOK
<1>AutoHalt. CASE AutoHalt
  BY <1>0, <1>AutoHalt DEF AutoHalt, atomics, takes, callback, requests, history, EngState, IdleEng, Answer, At, EndPolicy, Busy, CountsIn, CountingIn, TypeOK
<1>ArmPending. CASE ArmPending
  BY <1>0, <1>ArmPending DEF ArmPending, atomics, takes, callback, requests, history, EngState, IdleEng, Answer, At, EndPolicy, Busy, CountsIn, CountingIn, TypeOK
<1>StartFails. CASE StartFails
  BY <1>0, <1>StartFails DEF StartFails, atomics, takes, callback, requests, history, EngState, IdleEng, Answer, At, EndPolicy, Busy, CountsIn, CountingIn, TypeOK
<1>Unarm. CASE Unarm
  BY <1>0, <1>Unarm DEF Unarm, atomics, takes, callback, requests, history, EngState, IdleEng, Answer, At, EndPolicy, Busy, CountsIn, CountingIn, TypeOK
<1>StartCountIn. CASE StartCountIn
  BY <1>0, <1>StartCountIn DEF StartCountIn, atomics, takes, callback, requests, history, EngState, IdleEng, Answer, At, EndPolicy, Busy, CountsIn, CountingIn, TypeOK
<1>Preroll. CASE Preroll
  BY <1>0, <1>Preroll DEF Preroll, atomics, takes, callback, requests, history, EngState, IdleEng, Answer, At, EndPolicy, Busy, CountsIn, CountingIn, TypeOK
<1>StartTake. CASE StartTake
  BY <1>0, <1>StartTake DEF StartTake, atomics, takes, callback, requests, history, EngState, IdleEng, Answer, At, EndPolicy, Busy, CountsIn, CountingIn, TypeOK
<1>Roll. CASE Roll
  BY <1>0, <1>Roll DEF Roll, atomics, takes, callback, requests, history, EngState, IdleEng, Answer, At, EndPolicy, Busy, CountsIn, CountingIn, TypeOK
<1>LabelRecording. CASE LabelRecording
  BY <1>0, <1>LabelRecording DEF LabelRecording, atomics, takes, callback, requests, history, EngState, IdleEng, Answer, At, EndPolicy, Busy, CountsIn, CountingIn, TypeOK
<1>StopRefused. CASE StopRefused
  BY <1>0, <1>StopRefused DEF StopRefused, atomics, takes, callback, requests, history, EngState, IdleEng, Answer, At, EndPolicy, Busy, CountsIn, CountingIn, TypeOK
<1>EndTake. CASE EndTake
  BY <1>0, <1>EndTake DEF EndTake, atomics, takes, callback, requests, history, EngState, IdleEng, Answer, At, EndPolicy, Busy, CountsIn, CountingIn, TypeOK
<1>CancelCountIn. CASE CancelCountIn
  BY <1>0, <1>CancelCountIn DEF CancelCountIn, atomics, takes, callback, requests, history, EngState, IdleEng, Answer, At, EndPolicy, Busy, CountsIn, CountingIn, TypeOK
<1>Quiet. CASE Quiet
  BY <1>0, <1>Quiet DEF Quiet, atomics, takes, callback, requests, history, EngState, IdleEng, Answer, At, EndPolicy, Busy, CountsIn, CountingIn, TypeOK
<1>FinishWriters. CASE FinishWriters
  BY <1>0, <1>FinishWriters DEF FinishWriters, atomics, takes, callback, requests, history, EngState, IdleEng, Answer, At, EndPolicy, Busy, CountsIn, CountingIn, TypeOK
<1>Halt. CASE Halt
  BY <1>0, <1>Halt DEF Halt, atomics, takes, callback, requests, history, EngState, IdleEng, Answer, At, EndPolicy, Busy, CountsIn, CountingIn, TypeOK
<1>Register. CASE Register
  BY <1>0, <1>Register DEF Register, atomics, takes, callback, requests, history, EngState, IdleEng, Answer, At, EndPolicy, Busy, CountsIn, CountingIn, TypeOK
<1>LabelStopped. CASE LabelStopped
  BY <1>0, <1>LabelStopped DEF LabelStopped, atomics, takes, callback, requests, history, EngState, IdleEng, Answer, At, EndPolicy, Busy, CountsIn, CountingIn, TypeOK
<1>doors. ASSUME NEW d \in Doors, Command(d) \/ Execute(d) \/ GiveUp(d)
         PROVE  eng'.pc = eng.pc /\ eng'.arming = eng.arming /\ UNCHANGED <<countin, pending>>
  BY <1>0, <1>doors DEF Command, NewCommand, Execute, Play, ArmPlaying, StopReadsRecording, StopReadsCountIn,
       Answered, GiveUp, StopPlaying, StopLabels, StopCutsScenes, Orphan, EngState, atomics, takes, callback, requests, history
<1>rest. CASE UNCHANGED vars
  BY <1>rest DEF vars, atomics, takes, callback, requests, history
<1> QED
  BY <1>1, <1>Handle, <1>ReachEnd, <1>Headless, <1>AutoHalt, <1>ArmPending, <1>StartFails, <1>Unarm, <1>StartCountIn, <1>Preroll, <1>StartTake, <1>Roll, <1>LabelRecording, <1>StopRefused, <1>EndTake, <1>CancelCountIn, <1>Quiet, <1>FinishWriters, <1>Halt, <1>Register, <1>LabelStopped, <1>doors, <1>rest
     DEF Next, Engine, Start, Stop, Tick

LEMMA StepLabelled == ASSUME TypeOK, NoCountIn, Labelled, [Next]_vars PROVE Labelled'
<1>0. eng \in EngState /\ door \in [Doors -> DoorState] /\ playing \in BOOLEAN
  BY DEF TypeOK
(* The engine moves, and stops nothing. *)
<1>1. ASSUME UNCHANGED <<label, playing>> \/ label' = "recording" \/ label' = "stopped" \/ playing',
             eng.pc \in {"register", "unlabel"} /\ label' # "stopped" => eng'.pc \in {"register", "unlabel"},
             \A d \in Doors : door'[d].pc = door[d].pc
      PROVE  Labelled'
  BY <1>1 DEF Labelled
(* The engine stops the transport: a label is to follow. *)
<1>2. ASSUME eng'.pc \in {"register", "unlabel"} PROVE Labelled'
  BY <1>2 DEF Labelled
(* An answer leaves every door where it is. *)
<1>3. \A r \in {"ok", "err"} : Answer(r) => \A d \in Doors : door'[d].pc = door[d].pc
  BY Answering
<1>4. \A pc : At(pc) => eng'.pc = pc /\ door' = door
  BY <1>0 DEF At, EngState
<1>Handle. CASE Handle
  <2>1. \A d \in Doors : door'[d].pc = door[d].pc
    BY <1>Handle, <1>3, <1>4 DEF Handle, requests
  <2>2. /\ UNCHANGED <<label, playing>> \/ label' = "recording" \/ label' = "stopped" \/ playing'
        /\ eng.pc \in {"register", "unlabel"} /\ label' # "stopped" => eng'.pc \in {"register", "unlabel"}
    BY <1>0, <1>4, <1>Handle DEF Handle, atomics
  <2> QED
    BY <1>1, <2>1, <2>2
<1>ReachEnd. CASE ReachEnd
  <2>1. \A d \in Doors : door'[d].pc = door[d].pc
    BY <1>ReachEnd, <1>3, <1>4 DEF ReachEnd, requests
  <2>2. /\ UNCHANGED <<label, playing>> \/ label' = "recording" \/ label' = "stopped" \/ playing'
        /\ eng.pc \in {"register", "unlabel"} /\ label' # "stopped" => eng'.pc \in {"register", "unlabel"}
    BY <1>0, <1>4, <1>ReachEnd DEF ReachEnd, atomics
  <2> QED
    BY <1>1, <2>1, <2>2
<1>Headless. CASE Headless
  <2>1. \A d \in Doors : door'[d].pc = door[d].pc
    BY <1>Headless, <1>3, <1>4 DEF Headless, requests
  <2>2. /\ UNCHANGED <<label, playing>> \/ label' = "recording" \/ label' = "stopped" \/ playing'
        /\ eng.pc \in {"register", "unlabel"} /\ label' # "stopped" => eng'.pc \in {"register", "unlabel"}
    BY <1>0, <1>4, <1>Headless DEF Headless, atomics
  <2> QED
    BY <1>1, <2>1, <2>2
<1>ArmPending. CASE ArmPending
  <2>1. \A d \in Doors : door'[d].pc = door[d].pc
    BY <1>ArmPending, <1>3, <1>4 DEF ArmPending, requests
  <2>2. /\ UNCHANGED <<label, playing>> \/ label' = "recording" \/ label' = "stopped" \/ playing'
        /\ eng.pc \in {"register", "unlabel"} /\ label' # "stopped" => eng'.pc \in {"register", "unlabel"}
    BY <1>0, <1>4, <1>ArmPending DEF ArmPending, atomics
  <2> QED
    BY <1>1, <2>1, <2>2
<1>StartFails. CASE StartFails
  <2>1. \A d \in Doors : door'[d].pc = door[d].pc
    BY <1>StartFails, <1>3, <1>4 DEF StartFails, requests
  <2>2. /\ UNCHANGED <<label, playing>> \/ label' = "recording" \/ label' = "stopped" \/ playing'
        /\ eng.pc \in {"register", "unlabel"} /\ label' # "stopped" => eng'.pc \in {"register", "unlabel"}
    BY <1>0, <1>4, <1>StartFails DEF StartFails, atomics
  <2> QED
    BY <1>1, <2>1, <2>2
<1>StartCountIn. CASE StartCountIn
  <2>1. \A d \in Doors : door'[d].pc = door[d].pc
    BY <1>StartCountIn, <1>3, <1>4 DEF StartCountIn, requests
  <2>2. /\ UNCHANGED <<label, playing>> \/ label' = "recording" \/ label' = "stopped" \/ playing'
        /\ eng.pc \in {"register", "unlabel"} /\ label' # "stopped" => eng'.pc \in {"register", "unlabel"}
    BY <1>0, <1>4, <1>StartCountIn DEF StartCountIn, atomics
  <2> QED
    BY <1>1, <2>1, <2>2
<1>Preroll. CASE Preroll
  <2>1. \A d \in Doors : door'[d].pc = door[d].pc
    BY <1>Preroll, <1>3, <1>4 DEF Preroll, requests
  <2>2. /\ UNCHANGED <<label, playing>> \/ label' = "recording" \/ label' = "stopped" \/ playing'
        /\ eng.pc \in {"register", "unlabel"} /\ label' # "stopped" => eng'.pc \in {"register", "unlabel"}
    BY <1>0, <1>4, <1>Preroll DEF Preroll, atomics
  <2> QED
    BY <1>1, <2>1, <2>2
<1>StartTake. CASE StartTake
  <2>1. \A d \in Doors : door'[d].pc = door[d].pc
    BY <1>StartTake, <1>3, <1>4 DEF StartTake, requests
  <2>2. /\ UNCHANGED <<label, playing>> \/ label' = "recording" \/ label' = "stopped" \/ playing'
        /\ eng.pc \in {"register", "unlabel"} /\ label' # "stopped" => eng'.pc \in {"register", "unlabel"}
    BY <1>0, <1>4, <1>StartTake DEF StartTake, atomics
  <2> QED
    BY <1>1, <2>1, <2>2
<1>Roll. CASE Roll
  <2>1. \A d \in Doors : door'[d].pc = door[d].pc
    BY <1>Roll, <1>3, <1>4 DEF Roll, requests
  <2>2. /\ UNCHANGED <<label, playing>> \/ label' = "recording" \/ label' = "stopped" \/ playing'
        /\ eng.pc \in {"register", "unlabel"} /\ label' # "stopped" => eng'.pc \in {"register", "unlabel"}
    BY <1>0, <1>4, <1>Roll DEF Roll, atomics
  <2> QED
    BY <1>1, <2>1, <2>2
<1>LabelRecording. CASE LabelRecording
  <2>1. \A d \in Doors : door'[d].pc = door[d].pc
    BY <1>LabelRecording, <1>3, <1>4 DEF LabelRecording, requests
  <2>2. /\ UNCHANGED <<label, playing>> \/ label' = "recording" \/ label' = "stopped" \/ playing'
        /\ eng.pc \in {"register", "unlabel"} /\ label' # "stopped" => eng'.pc \in {"register", "unlabel"}
    BY <1>0, <1>4, <1>LabelRecording DEF LabelRecording, atomics
  <2> QED
    BY <1>1, <2>1, <2>2
<1>StopRefused. CASE StopRefused
  <2>1. \A d \in Doors : door'[d].pc = door[d].pc
    BY <1>StopRefused, <1>3, <1>4 DEF StopRefused, requests
  <2>2. /\ UNCHANGED <<label, playing>> \/ label' = "recording" \/ label' = "stopped" \/ playing'
        /\ eng.pc \in {"register", "unlabel"} /\ label' # "stopped" => eng'.pc \in {"register", "unlabel"}
    BY <1>0, <1>4, <1>StopRefused DEF StopRefused, atomics
  <2> QED
    BY <1>1, <2>1, <2>2
<1>EndTake. CASE EndTake
  <2>1. \A d \in Doors : door'[d].pc = door[d].pc
    BY <1>EndTake, <1>3, <1>4 DEF EndTake, requests
  <2>2. /\ UNCHANGED <<label, playing>> \/ label' = "recording" \/ label' = "stopped" \/ playing'
        /\ eng.pc \in {"register", "unlabel"} /\ label' # "stopped" => eng'.pc \in {"register", "unlabel"}
    BY <1>0, <1>4, <1>EndTake DEF EndTake, atomics
  <2> QED
    BY <1>1, <2>1, <2>2
<1>CancelCountIn. CASE CancelCountIn
  <2>1. \A d \in Doors : door'[d].pc = door[d].pc
    BY <1>CancelCountIn, <1>3, <1>4 DEF CancelCountIn, requests
  <2>2. /\ UNCHANGED <<label, playing>> \/ label' = "recording" \/ label' = "stopped" \/ playing'
        /\ eng.pc \in {"register", "unlabel"} /\ label' # "stopped" => eng'.pc \in {"register", "unlabel"}
    BY <1>0, <1>4, <1>CancelCountIn DEF CancelCountIn, atomics
  <2> QED
    BY <1>1, <2>1, <2>2
<1>FinishWriters. CASE FinishWriters
  <2>1. \A d \in Doors : door'[d].pc = door[d].pc
    BY <1>FinishWriters, <1>3, <1>4 DEF FinishWriters, requests
  <2>2. /\ UNCHANGED <<label, playing>> \/ label' = "recording" \/ label' = "stopped" \/ playing'
        /\ eng.pc \in {"register", "unlabel"} /\ label' # "stopped" => eng'.pc \in {"register", "unlabel"}
    BY <1>0, <1>4, <1>FinishWriters DEF FinishWriters, atomics
  <2> QED
    BY <1>1, <2>1, <2>2
<1>Register. CASE Register
  <2>1. \A d \in Doors : door'[d].pc = door[d].pc
    BY <1>Register, <1>3, <1>4 DEF Register, requests
  <2>2. /\ UNCHANGED <<label, playing>> \/ label' = "recording" \/ label' = "stopped" \/ playing'
        /\ eng.pc \in {"register", "unlabel"} /\ label' # "stopped" => eng'.pc \in {"register", "unlabel"}
    BY <1>0, <1>4, <1>Register DEF Register, atomics
  <2> QED
    BY <1>1, <2>1, <2>2
<1>LabelStopped. CASE LabelStopped
  <2>1. \A d \in Doors : door'[d].pc = door[d].pc
    BY <1>LabelStopped, <1>3, <1>4 DEF LabelStopped, requests
  <2>2. /\ UNCHANGED <<label, playing>> \/ label' = "recording" \/ label' = "stopped" \/ playing'
        /\ eng.pc \in {"register", "unlabel"} /\ label' # "stopped" => eng'.pc \in {"register", "unlabel"}
    BY <1>0, <1>4, <1>LabelStopped DEF LabelStopped, atomics
  <2> QED
    BY <1>1, <2>1, <2>2
<1>5. Unarm \/ Quiet => FALSE
  BY DEF Unarm, Quiet, NoCountIn
<1>6. CASE AutoHalt \/ Halt
  BY <1>2, <1>4, <1>6 DEF AutoHalt, Halt
<1>7. CASE Callback \/ UNCHANGED vars
  BY <1>1, <1>7 DEF Callback, BeginBlock, CountDown, vars, atomics, takes, callback, requests, history
(* A door moves, and no other; the engine is where it was. *)
<1>8. ASSUME NEW d \in Doors, Command(d) \/ Execute(d) \/ GiveUp(d)
      PROVE  eng'.pc = eng.pc /\ \A e \in Doors \ {d} : door'[e] = door[e]
  BY <1>0, <1>8 DEF Command, NewCommand, Begin, Return, Fail, Execute, Play, ArmPlaying, StopReadsRecording,
       StopReadsCountIn, Answered, GiveUp, StopPlaying, StopLabels, StopCutsScenes, Orphan, EngState, atomics, takes, callback, requests, history
<1>9. ASSUME NEW d \in Doors, Play(d) \/ StopPlaying(d)
      PROVE  Labelled'
  <2>1. CASE Play(d) /\ label # "recording"
    <3>1. door'[d].pc = "roll"
      BY <1>0, <2>1 DEF Play, DoorState
    <3> QED
      BY <3>1 DEF Labelled
  <2>2. CASE Play(d) /\ label = "recording"
    BY <2>2 DEF Play, Labelled
  <2>3. CASE StopPlaying(d)
    <3>1. door'[d].pc = "label"
      BY <1>0, <2>3 DEF StopPlaying, DoorState
    <3> QED
      BY <3>1 DEF Labelled
  <2> QED
    BY <1>9, <2>1, <2>2, <2>3
<1>10. ASSUME NEW d \in Doors, ArmPlaying(d) \/ StopLabels(d)
       PROVE  Labelled'
  BY <1>10 DEF ArmPlaying, StopLabels, Labelled
<1>11. ASSUME NEW d \in Doors,
              \/ Command(d) \/ StopReadsRecording(d) \/ StopReadsCountIn(d) \/ Answered(d)
              \/ GiveUp(d) \/ StopCutsScenes(d)
       PROVE  Labelled'
  <2>1. UNCHANGED <<label, playing>> /\ door[d].pc \notin {"roll", "label"}
    BY <1>11 DEF Command, NewCommand, StopReadsRecording, StopReadsCountIn, Answered, GiveUp,
         StopCutsScenes, atomics, takes, callback, requests, history
  <2>2. eng'.pc = eng.pc /\ \A e \in Doors \ {d} : door'[e] = door[e]
    BY <1>8, <1>11 DEF Execute
  <2> QED
    BY <2>1, <2>2 DEF Labelled
<1> QED
  BY <1>Handle, <1>ReachEnd, <1>Headless, <1>ArmPending, <1>StartFails, <1>StartCountIn, <1>Preroll, <1>StartTake, <1>Roll, <1>LabelRecording, <1>StopRefused, <1>EndTake, <1>CancelCountIn, <1>FinishWriters, <1>Register, <1>LabelStopped, <1>5, <1>6, <1>7, <1>9, <1>10, <1>11
     DEF Next, Engine, Start, Stop, Tick, Execute


----------------------------------------------------------------------------
(* A Stop that found a take, of the only thread that sends commands.       *)

Waits(d) == door[d].pc = "wait" /\ door[d].reply = "none"

Stopping == {"cancel", "quiet", "finish", "halt", "register", "unlabel"}

(* The engine has ended the take for the Stop of d. *)
Ended(d) ==
  \/ door[d].pc = "wait" /\ door[d].reply = "ok" /\ door[d].cmd = "stop"
  \/ door[d].pc \in {"halt", "label", "cut"} /\ door[d].routed
  \/ last = "routed"

(* The request of d is the last one sent, and d waits for it ... *)
Sent(d) ==
  \A i \in 1..Len(queue) : queue[i].for = d =>
    /\ i = Len(queue) /\ eng.for # d /\ Waits(d)
    /\ door[d].cmd = "stop" => queue[i].kind = "stop"

(* ... or what the engine is at. *)
Handled(d) ==
  /\ eng.for = d => queue = <<>> /\ Waits(d)
  /\ eng.for = d /\ door[d].cmd = "stop" => eng.pc \in {"stop"} \cup Stopping
  /\ eng.for = d /\ eng.pc \in Stopping => ~take /\ ~pending
  /\ eng.for = d /\ eng.pc \in {"register", "unlabel"} => ~playing
  /\ eng.pc \in {"idle", "autohalt"} => eng.for = Nobody
  /\ door[d].pc \in {"stop", "count"} =>
       door[d].cmd = "stop" /\ door[d].reply = "none" /\ ~door[d].routed

(* Then nothing starts until d sends its next command. *)
Stopped(d) ==
  /\ Ended(d) => queue = <<>> /\ eng.pc = "idle" /\ ~take /\ ~pending /\ ~playing
  /\ (door[d].pc = "cut" /\ door[d].routed) \/ last = "routed" => label = "stopped"
  /\ last = "routed" => ~launched /\ door[d].pc = "idle"

LEMMA InitRouted ==
  ASSUME DoorsAssumption, NEW d \in Doors
  PROVE  Init => Sent(d) /\ Handled(d) /\ Stopped(d)
BY DEF DoorsAssumption, Init, Sent, Handled, Stopped, Ended, IdleEng, IdleDoor

LEMMA StepRouted ==
  ASSUME DoorsAssumption, Takes, NEW d, Doors = {d}, Sent(d), Handled(d), Stopped(d), [Next]_vars
  PROVE  Sent(d)' /\ Handled(d)' /\ Stopped(d)'
<1> DEFINE Goal == Sent(d)' /\ Handled(d)' /\ Stopped(d)'
<1>0. /\ eng \in EngState /\ door \in [Doors -> DoorState] /\ door[d] \in DoorState
      /\ d \in Doors /\ d # Nobody /\ eng.for \in {d, Nobody} /\ queue \in Seq(Message)
      /\ take \in BOOLEAN /\ pending \in BOOLEAN /\ playing \in BOOLEAN
  BY DEF Takes, TypeOK, EngState, DoorsAssumption
(* The engine goes on, for the one it works for. *)
<1>1. ASSUME eng'.for = eng.for, door' = door, eng.pc # "idle", UNCHANGED <<queue, last>>,
             eng'.pc \notin {"idle", "autohalt"},
             eng.for = d => /\ eng.pc \in {"stop"} \cup Stopping => eng'.pc \in Stopping
                            /\ eng'.pc \in Stopping => ~take' /\ ~pending'
                            /\ eng'.pc \in {"register", "unlabel"} => ~playing'
      PROVE  Goal
  <2>1. Sent(d)'
    BY <1>1 DEF Sent, Waits
  <2>2. ~Ended(d) /\ ~Ended(d)'
    BY <1>1 DEF Stopped, Ended
  <2>3. Stopped(d)'
    BY <1>1, <2>2 DEF Stopped, Ended
  <2>4. Handled(d)'
    BY <1>1 DEF Handled, Waits
  <2> QED
    BY <2>1, <2>3, <2>4
(* A request is refused, or was no Stop. *)
<1>2. ASSUME NEW r \in {"ok", "err"}, Answer(r), eng.pc # "idle", UNCHANGED <<queue, last>>,
             r = "ok" /\ eng.for = d /\ door[d].cmd = "stop" => ~take' /\ ~pending' /\ ~playing'
      PROVE  Goal
  <2>1. /\ eng'.pc = "idle" /\ eng'.for = Nobody
        /\ door'[d].pc = door[d].pc /\ door'[d].cmd = door[d].cmd /\ door'[d].routed = door[d].routed
        /\ door'[d].reply = IF eng.for = d THEN r ELSE door[d].reply
    BY <1>0, <1>2 DEF Answer, IdleEng, DoorState
  <2>2. Sent(d)'
    <3>1. CASE eng.for = d
      BY <1>2, <3>1 DEF Handled, Sent
    <3>2. CASE eng.for # d
      BY <1>0, <1>2, <2>1, <3>2 DEF Sent, Waits
    <3> QED
      BY <3>1, <3>2
  <2>3. ~Ended(d)
    BY <1>2 DEF Stopped
  <2>4. Ended(d)' => eng.for = d /\ r = "ok" /\ door[d].cmd = "stop"
    BY <1>2, <2>1, <2>3 DEF Ended
  <2>5. Stopped(d)'
    BY <1>2, <2>1, <2>3, <2>4 DEF Stopped, Ended, Handled
  <2>6. Handled(d)'
    BY <1>0, <1>2, <2>1 DEF Handled, Stopping, Waits
  <2> QED
    BY <2>2, <2>5, <2>6

<1>3. \A pc : At(pc) => eng'.pc = pc /\ eng'.for = eng.for /\ door' = door
  BY <1>0 DEF At, EngState
(* The engine is where it was, or has taken up something of its own. *)
<1>4. ASSUME UNCHANGED <<door, queue, last, take, playing, label, launched>>,
             ~pending => ~pending',
             eng.pc = "idle", eng'.for = Nobody, eng'.pc = "idle" \/ playing \/ pending
      PROVE  Goal
  <2>1. Sent(d)'
    BY <1>0, <1>4 DEF Sent, Waits
  <2>2. Handled(d)'
    BY <1>0, <1>4 DEF Handled
  <2>3. Stopped(d)'
    BY <1>4 DEF Stopped, Ended
  <2> QED
    BY <2>1, <2>2, <2>3
<1>Handle. CASE Handle
  <2> DEFINE m == Head(queue)
  <2>1. /\ eng.pc = "idle" /\ queue # <<>> /\ queue' = Tail(queue) /\ eng'.pc = m.kind /\ eng'.for = m.for
        /\ UNCHANGED <<door, last, take, pending, playing, label, launched>>
    BY <1>Handle DEF Handle, IdleEng, atomics, takes, history
  <2>2. /\ Len(queue) \in Nat /\ Len(queue) > 0 /\ Len(queue') = Len(queue) - 1 /\ m = queue[1]
        /\ \A i \in 1..Len(queue') : queue'[i] = queue[i + 1]
    BY <1>0, <2>1, HeadTailProperties, EmptySeq, LenProperties
  <2>3. m.kind \in {"start", "stop"} /\ m.for \in {d, Nobody}
    BY <1>Handle, Receiving DEF Message, Takes
  <2>4. ~Ended(d) /\ ~Ended(d)'
    BY <2>1 DEF Stopped, Ended
  <2>5. m.for = d => /\ Waits(d) /\ Len(queue) = 1
                     /\ door[d].cmd = "stop" => m.kind = "stop"
    BY <2>2 DEF Sent
  <2>6. m.for = d => queue' = <<>>
    BY <1>Handle, <2>2, <2>5, EmptySeq, Receiving DEF Takes
  <2>7. Handled(d)'
    BY <1>0, <2>1, <2>3, <2>5, <2>6 DEF Handled, Waits, Stopping
  <2>8. Sent(d)'
    <3>1. CASE m.for = d
      BY <2>2, <2>5, <3>1 DEF Sent
    <3>2. CASE m.for # d
      <4>1. ASSUME NEW i \in 1..Len(queue'), queue'[i].for = d
            PROVE  /\ i = Len(queue') /\ Waits(d)
                   /\ door[d].cmd = "stop" => queue'[i].kind = "stop"
        <5>1. i + 1 \in 1..Len(queue) /\ queue'[i] = queue[i + 1]
          BY <2>2
        <5>2. i + 1 = Len(queue)
          BY <4>1, <5>1 DEF Sent
        <5> QED
          BY <2>2, <4>1, <5>1, <5>2 DEF Sent
      <4> QED
        BY <2>1, <3>2, <4>1 DEF Sent, Waits
    <3> QED
      BY <3>1, <3>2
  <2> QED
    BY <2>1, <2>4, <2>7, <2>8 DEF Stopped, Ended
<1>ReachEnd. CASE ReachEnd
  BY <1>4, <1>ReachEnd DEF ReachEnd, EndPolicy, IdleEng, atomics, takes, requests, history
<1>Headless. CASE Headless
  BY <1>0, <1>4, <1>Headless DEF Headless, EndPolicy, IdleEng, takes, requests, history, Handled
<1>ArmPending. CASE ArmPending
  BY <1>4, <1>ArmPending DEF ArmPending, IdleEng, atomics, requests, history
<1>AutoHalt. CASE AutoHalt
  BY <1>0, <1>1, <1>3, <1>AutoHalt DEF AutoHalt, Handled, Stopping, atomics, takes, history
<1>StartCountIn. CASE StartCountIn
  BY <1>0, <1>1, <1>3, <1>StartCountIn DEF StartCountIn, Handled, Stopping, atomics, takes, history
<1>StartTake. CASE StartTake
  BY <1>0, <1>1, <1>3, <1>StartTake DEF StartTake, Handled, Stopping, atomics, takes, history
<1>Roll. CASE Roll
  BY <1>0, <1>1, <1>3, <1>Roll DEF Roll, Handled, Stopping, atomics, takes, history
<1>CancelCountIn. CASE CancelCountIn
  BY <1>0, <1>1, <1>3, <1>CancelCountIn DEF CancelCountIn, Handled, Stopping, atomics, takes, history
<1>Halt. CASE Halt
  BY <1>0, <1>1, <1>3, <1>Halt DEF Halt, Handled, Stopping, atomics, takes, history
<1>Register. CASE Register
  BY <1>0, <1>1, <1>3, <1>Register DEF Register, Handled, Stopping, atomics, takes, history
<1>EndTake. CASE EndTake
  <2>1. /\ eng'.pc \in {"cancel", "finish"} /\ eng'.for = eng.for /\ door' = door
        /\ ~take' /\ ~pending' /\ UNCHANGED <<queue, last>> /\ eng.pc = "stop"
    BY <1>0, <1>EndTake DEF EndTake, EngState, requests, history
  <2> QED
    BY <1>1, <2>1 DEF Stopping
<1>FinishWriters. CASE FinishWriters
  <2>1. /\ eng'.pc = "halt" /\ eng'.for = eng.for /\ eng.pc = "finish"
        /\ UNCHANGED <<door, queue, last, take, pending>>
    BY <1>0, <1>FinishWriters DEF FinishWriters, EngState, requests, takes, history
  <2> QED
    BY <1>1, <2>1 DEF Stopping, Handled
<1>StartFails. CASE StartFails
  <2>1. CASE At("unarm")
    BY <1>1, <1>3, <1>StartFails, <2>1 DEF StartFails, Stopping, takes, history
  <2>2. CASE Answer("err")
    BY <1>2, <1>StartFails, <2>2 DEF StartFails, history
  <2> QED
    BY <1>StartFails, <2>1, <2>2 DEF StartFails
<1>Quiet. CASE Quiet
  <2>1. eng.for = d => ~take' /\ ~pending'
    BY <1>Quiet DEF Quiet, Handled, Stopping, takes
  <2>2. CASE At("finish")
    BY <1>1, <1>3, <1>Quiet, <2>1, <2>2 DEF Quiet, Stopping, history
  <2>3. CASE Answer("ok")
    BY <1>2, <1>Quiet, <2>1, <2>3 DEF Quiet, history
  <2> QED
    BY <1>Quiet, <2>2, <2>3 DEF Quiet
<1>LabelStopped. CASE LabelStopped
  <2>1. eng.for = d => ~take' /\ ~pending' /\ ~playing'
    BY <1>LabelStopped DEF LabelStopped, Handled, Stopping, takes, atomics
  <2>2. Answer("ok") \/ Answer("err")
    BY <1>LabelStopped DEF LabelStopped
  <2> QED
    BY <1>2, <1>LabelStopped, <2>1, <2>2 DEF LabelStopped, history
<1>StopRefused. CASE StopRefused
  BY <1>2, <1>StopRefused DEF StopRefused, history
<1>Unarm. CASE Unarm
  BY <1>2, <1>Unarm DEF Unarm, history
<1>Preroll. CASE Preroll
  BY <1>2, <1>Preroll DEF Preroll, history, Handled, Stopping
<1>LabelRecording. CASE LabelRecording
  BY <1>2, <1>LabelRecording DEF LabelRecording, history, Handled, Stopping
<1>rest. CASE Callback \/ UNCHANGED vars
  BY <1>rest DEF Callback, BeginBlock, CountDown, vars, Sent, Handled, Stopped, Ended, Waits, atomics, takes, callback, requests, history
(* The door goes on while nothing of its is under way. *)
<1>5. ASSUME ~Waits(d), eng' = eng, queue' = queue,
             door'[d].pc \in {"stop", "count"} =>
               door'[d].cmd = "stop" /\ door'[d].reply = "none" /\ ~door'[d].routed
      PROVE  Sent(d)' /\ Handled(d)'
  BY <1>0, <1>5 DEF Sent, Handled
(* It sends a request. *)
<1>6. ASSUME ~Waits(d), eng' = eng, NEW k \in {"start", "stop"}, Send(d, k), Waits(d)',
             door'[d].cmd = "stop" => k = "stop"
      PROVE  Sent(d)' /\ Handled(d)'
  <2> DEFINE m == [kind |-> k, for |-> d]
  <2>1. m \in Message /\ queue' = Append(queue, m)
    BY <1>0, <1>6 DEF Send, Message
  <2>2. /\ Len(queue) \in Nat /\ Len(queue') = Len(queue) + 1 /\ queue'[Len(queue) + 1] = m
        /\ \A i \in 1..Len(queue) : queue'[i] = queue[i]
    BY <1>0, <2>1, AppendProperties, LenProperties
  <2>3. \A i \in 1..Len(queue) : queue[i].for # d
    BY <1>6 DEF Sent
  <2>4. eng.for # d
    BY <1>6 DEF Handled
  <2>5. ASSUME NEW i \in 1..Len(queue'), queue'[i].for = d
        PROVE  i = Len(queue') /\ queue'[i].kind = k
    BY <2>2, <2>3, <2>5
  <2>6. Sent(d)'
    BY <1>6, <2>4, <2>5 DEF Sent
  <2>7. Handled(d)'
    BY <1>0, <1>6, <2>4 DEF Handled, Waits
  <2> QED
    BY <2>6, <2>7
<1>Command. CASE Command(d)
  <2>1. /\ door[d].pc = "idle" /\ ~Waits(d) /\ eng' = eng /\ last' = "none"
    BY <1>Command DEF Command, NewCommand, Waits
  <2>2. CASE queue' = queue /\ (Begin(d, "play", "play") \/ Begin(d, "stop", "stop"))
    <3>1. /\ door'[d].pc \in {"play", "stop"} /\ door'[d].reply = "none" /\ ~door'[d].routed
          /\ door'[d].pc = "stop" => door'[d].cmd = "stop"
      BY <1>0, <2>2 DEF Begin, IdleDoor
    <3> QED
      BY <1>5, <2>1, <2>2, <3>1 DEF Stopped, Ended
  <2>3. ASSUME NEW k \in {"start", "stop"}, Send(d, k), NEW c \in {"record", "keep"}, Begin(d, c, "wait")
        PROVE  Goal
    <3>1. door'[d].pc = "wait" /\ door'[d].reply = "none" /\ ~door'[d].routed /\ door'[d].cmd = c
      BY <1>0, <2>3 DEF Begin, IdleDoor
    <3> QED
      BY <1>6, <2>1, <2>3, <3>1 DEF Waits, Stopped, Ended
  <2>4. CASE UNCHANGED requests
    <3>1. queue' = queue /\ door' = door
      BY <2>4 DEF requests
    <3> QED
      BY <1>5, <2>1, <3>1 DEF Stopped, Ended
  <2> QED
    BY <1>Command, <2>2, <2>3, <2>4 DEF Command
<1>Play. CASE Play(d)
  <2>1. /\ door[d].pc = "play" /\ ~Waits(d) /\ eng' = eng /\ queue' = queue /\ last' = last
        /\ door'[d].pc \in {"idle", "roll"}
    BY <1>0, <1>Play DEF Play, Waits, Return, IdleDoor, DoorState, history
  <2>2. last # "routed"
    BY <2>1 DEF Stopped
  <2> QED
    BY <1>5, <2>1, <2>2 DEF Stopped, Ended
<1>ArmPlaying. CASE ArmPlaying(d)
  <2>1. /\ door[d].pc = "roll" /\ ~Waits(d) /\ eng' = eng /\ queue' = queue /\ last' = last
        /\ door'[d].pc = "idle"
    BY <1>0, <1>ArmPlaying DEF ArmPlaying, Waits, Return, IdleDoor, history
  <2>2. last # "routed"
    BY <2>1 DEF Stopped
  <2> QED
    BY <1>5, <2>1, <2>2 DEF Stopped, Ended
<1>StopReads. CASE StopReadsRecording(d) \/ StopReadsCountIn(d)
  <2>1. /\ door[d].pc \in {"stop", "count"} /\ ~Waits(d) /\ eng' = eng /\ last' = last
    BY <1>StopReads DEF StopReadsRecording, StopReadsCountIn, Waits, history
  <2>2. door[d].cmd = "stop" /\ door[d].reply = "none" /\ ~door[d].routed /\ last # "routed"
    BY <2>1 DEF Handled, Stopped
  <2>3. CASE Send(d, "stop") /\ door' = [door EXCEPT ![d].pc = "wait", ![d].routed = TRUE]
    <3>1. door'[d].pc = "wait" /\ door'[d].reply = "none" /\ door'[d].cmd = "stop"
      BY <1>0, <2>2, <2>3 DEF DoorState
    <3> QED
      BY <1>6, <2>1, <2>2, <2>3, <3>1 DEF Waits, Stopped, Ended
  <2>4. CASE queue' = queue /\ \E pc \in {"count", "halt"} : door' = [door EXCEPT ![d].pc = pc]
    <3>1. /\ door'[d].pc \in {"count", "halt"} /\ ~door'[d].routed
          /\ door'[d].reply = "none" /\ door'[d].cmd = "stop"
      BY <1>0, <2>2, <2>4 DEF DoorState
    <3> QED
      BY <1>5, <2>1, <2>2, <2>4, <3>1 DEF Stopped, Ended
  <2> QED
    BY <1>StopReads, <2>3, <2>4 DEF StopReadsRecording, StopReadsCountIn
<1>Answered. CASE Answered(d)
  <2>1. /\ door[d].pc = "wait" /\ door[d].reply # "none" /\ ~Waits(d) /\ eng' = eng /\ queue' = queue
        /\ UNCHANGED <<take, pending, playing>>
    BY <1>Answered DEF Answered, Waits, atomics, takes
  <2>2. last # "routed"
    BY <2>1 DEF Stopped
  <2>3. CASE door[d].reply = "ok" /\ door[d].cmd = "stop"
    <3>1. door'[d].pc = "halt" /\ last' = last
      BY <1>0, <1>Answered, <2>3 DEF Answered, DoorState
    <3>2. Ended(d)
      BY <2>1, <2>3 DEF Ended
    <3> QED
      BY <1>5, <2>1, <2>2, <3>1, <3>2 DEF Stopped, Ended
  <2>4. CASE ~(door[d].reply = "ok" /\ door[d].cmd = "stop")
    <3>1. door'[d].pc = "idle" /\ last' # "routed"
      BY <1>0, <1>Answered, <2>2, <2>4 DEF Answered, Fail, Return, IdleDoor
    <3> QED
      BY <1>5, <2>1, <3>1 DEF Stopped, Ended
  <2> QED
    BY <2>3, <2>4
<1>GiveUp. CASE GiveUp(d)
  <2>1. /\ eng' = Orphan(eng, d) /\ eng.pc = "finish" /\ door'[d].pc = "idle" /\ last' # "routed"
        /\ queue' = [i \in DOMAIN queue |-> Orphan(queue[i], d)]
    BY <1>0, <1>GiveUp DEF GiveUp, Fail, Return, IdleDoor
  <2>2. eng'.pc = eng.pc /\ eng'.for = Nobody
    BY <1>0, <2>1 DEF Orphan, EngState
  <2>3. \A m \in Message : Orphan(m, d).for # d
    BY <1>0 DEF Orphan, Message
  <2>4. Sent(d)'
    <3>1. Len(queue) \in Nat /\ DOMAIN queue = 1..Len(queue) /\ \A i \in 1..Len(queue) : queue[i] \in Message
      BY <1>0, LenProperties, ElementOfSeq
    <3>2. Len(queue') = Len(queue) /\ \A i \in 1..Len(queue) : queue'[i].for # d
      BY <2>1, <2>3, <3>1
    <3> QED
      BY <3>1, <3>2 DEF Sent
  <2>5. Handled(d)'
    BY <1>0, <2>1, <2>2 DEF Handled
  <2> QED
    BY <2>1, <2>4, <2>5 DEF Stopped, Ended
<1>StopPlaying. CASE StopPlaying(d)
  <2>1. /\ door[d].pc = "halt" /\ ~Waits(d) /\ eng' = eng /\ queue' = queue /\ last' = last
        /\ door'[d].pc = "label" /\ door'[d].routed = door[d].routed /\ ~playing'
        /\ UNCHANGED <<take, pending>>
    BY <1>0, <1>StopPlaying DEF StopPlaying, Waits, DoorState, history, takes
  <2>2. last # "routed"
    BY <2>1 DEF Stopped
  <2> QED
    BY <1>5, <2>1, <2>2 DEF Stopped, Ended
<1>StopLabels. CASE StopLabels(d)
  <2>1. /\ door[d].pc = "label" /\ ~Waits(d) /\ eng' = eng /\ queue' = queue /\ last' = last
        /\ door'[d].pc = "cut" /\ door'[d].routed = door[d].routed /\ label' = "stopped"
        /\ UNCHANGED <<take, pending, playing>>
    BY <1>0, <1>StopLabels DEF StopLabels, Waits, DoorState, history, takes, atomics
  <2>2. last # "routed"
    BY <2>1 DEF Stopped
  <2> QED
    BY <1>5, <2>1, <2>2 DEF Stopped, Ended
<1>StopCutsScenes. CASE StopCutsScenes(d)
  <2>1. /\ door[d].pc = "cut" /\ ~Waits(d) /\ eng' = eng /\ queue' = queue
        /\ last' = (IF door[d].routed THEN "routed" ELSE "direct")
        /\ door'[d].pc = "idle" /\ ~launched'
        /\ UNCHANGED <<take, pending, playing, label>>
    BY <1>0, <1>StopCutsScenes DEF StopCutsScenes, Waits, Return, IdleDoor, takes, atomics
  <2> QED
    BY <1>5, <2>1 DEF Stopped, Ended
<1> QED
  BY <1>Handle, <1>ReachEnd, <1>Headless, <1>ArmPending, <1>AutoHalt, <1>StartCountIn, <1>StartTake, <1>Roll, <1>CancelCountIn, <1>Halt, <1>Register, <1>EndTake, <1>FinishWriters, <1>StartFails, <1>Quiet, <1>LabelStopped, <1>StopRefused, <1>Unarm, <1>Preroll, <1>LabelRecording, <1>rest, <1>Command, <1>Play, <1>ArmPlaying, <1>StopReads, <1>Answered, <1>GiveUp, <1>StopPlaying, <1>StopLabels, <1>StopCutsScenes
     DEF Next, Engine, Start, Stop, Tick, Execute

LEMMA RoutedEnds ==
  ASSUME Takes, NEW d, Doors = {d}, Sent(d), Handled(d), Stopped(d)
  PROVE  RoutedStopEndsTheTake
<1>1. last = "routed" => /\ ~take /\ ~pending /\ ~playing /\ label = "stopped" /\ ~launched
                         /\ eng.pc = "idle"
  BY DEF Stopped, Ended
<1>2. eng.pc = "idle" /\ ~take => ~recording
  BY DEF Takes, Truthful
<1> QED
  BY <1>1, <1>2 DEF RoutedStopEndsTheTake, Silent

(* What the clients see at rest is so, whoever raced whom. *)
THEOREM StateIsTold ==
  ASSUME DoorsAssumption, OtherAssumption
  PROVE  Spec => []StateIsReported
<1> DEFINE Quietly == NoCountIn /\ Labelled
           Routes(d) == Sent(d) /\ Handled(d) /\ Stopped(d)
           Told == /\ Takes
                   /\ CountIn = 0 => Quietly
                   /\ \A d : Doors = {d} => Routes(d)
<1>1. Init => Told
  <2> SUFFICES ASSUME Init PROVE Told
    OBVIOUS
  <2>1. Takes
    BY InitTypes, InitTakes DEF Takes
  <2>2. Quietly
    BY InitLabelled
  <2>3. \A d \in Doors : Routes(d)
    BY InitRouted
  <2> QED
    BY <2>1, <2>2, <2>3
<1>2. Told /\ [Next]_vars => Told'
  <2> SUFFICES ASSUME Told, [Next]_vars PROVE Told'
    OBVIOUS
  <2>1. Takes'
    BY StepTypes, StepTakes DEF Takes
  <2>2. CountIn = 0 => Quietly'
    BY StepNoCountIn, StepLabelled DEF Takes
  <2>3. ASSUME NEW d, Doors = {d} PROVE Routes(d)'
    BY <2>3, StepRouted
  <2> QED
    BY <2>1, <2>2, <2>3
<1>3. Told => StateIsReported
  <2> SUFFICES ASSUME Told PROVE StateIsReported
    OBVIOUS
  <2>1. RecordingIsReported
    BY RecordingIsTold
  <2>2. CountIn = 0 => StoppedIsReported
    BY DEF Labelled, StoppedIsReported, Resting, Snapshot, NoCountIn
  <2>3. Cardinality(Doors) = 1 => RoutedStopEndsTheTake
    <3> SUFFICES ASSUME Cardinality(Doors) = 1 PROVE RoutedStopEndsTheTake
      OBVIOUS
    <3>1. \E d : Doors = {d}
      BY FS_Singleton DEF DoorsAssumption
    <3> QED
      BY <3>1, RoutedEnds
  <2> QED
    BY <2>1, <2>2, <2>3 DEF StateIsReported
<1> QED
  BY <1>1, <1>2, <1>3, PTL DEF Spec

----------------------------------------------------------------------------
(* Where the playhead ends.                                                *)

LEMMA Advanced ==
  ASSUME NEW pos \in Samples, NEW n \in Nat
  PROVE  Advance(pos, n, Off) \in Samples
BY MaxSampleAssumption DEF Advance, Off, Active, SaturatingAdd, Samples

LEMMA BlockSizes ==
  ASSUME BlocksAssumption, NEW n \in {0} \cup Blocks
  PROVE  n \in Nat
<1>1. CASE n = 0
  BY <1>1
<1>2. CASE n \in Blocks
  BY <1>2 DEF BlocksAssumption
<1> QED
  BY <1>1, <1>2

(* A thread's locals, as its program counter has them. *)
Hands ==
  /\ block.pc \in {"swap", "place"} => ~block.playing
  /\ block.pc \in {"report", "store"} => block.playing
  /\ block.pc = "place" => block.hand # NoPark
  /\ ~device => block.pc = "idle"
  /\ device => tick.pc \notin {"load", "advance"}

LEMMA InitHead ==
  ASSUME SamplesAssumption, RingAssumption, HeadInit
  PROVE  HeadTypeOK /\ Hands
<1>1. block \in CbState /\ tick \in TickState /\ sender \in [Senders -> SenderState]
  BY MaxSampleAssumption DEF HeadInit, CbState, TickState, SenderState, IdleCb, IdleTick, IdleSender, Samples
<1>2. position \in Samples /\ events \in 0..EventSlots /\ sends \in 0..MaxSends
  BY MaxSampleAssumption DEF HeadInit, Samples, RingAssumption
<1> QED
  BY <1>1, <1>2 DEF HeadInit, HeadTypeOK, Hands, IdleCb, IdleTick, NoSeek

LEMMA StepHead ==
  ASSUME SamplesAssumption, BlocksAssumption, RingAssumption, HeadTypeOK, Hands,
         [HeadNext]_headVars
  PROVE  HeadTypeOK' /\ Hands'
<1> USE DEF shared, headHistory, NoSeek
<1>CbBegin. CASE CbBegin
  BY <1>CbBegin DEF CbBegin, HeadTypeOK, Hands, CbState
<1>CbSwapPark. CASE CbSwapPark
  BY <1>CbSwapPark DEF CbSwapPark, HeadTypeOK, Hands, CbState
<1>CbPlace. CASE CbPlace
  <2>1. block.hand \in Samples
    BY <1>CbPlace DEF CbPlace, HeadTypeOK, Hands, CbState
  <2> QED
    BY <1>CbPlace, <2>1 DEF CbPlace, HeadTypeOK, Hands, CbState
<1>CbLoad. CASE CbLoad
  <2>1. PICK n \in Blocks :
          block' = IF block.playing THEN [block EXCEPT !.pc = "report", !.base = position, !.frames = n]
                   ELSE IdleCb
    BY <1>CbLoad DEF CbLoad
  <2>2. IdleCb \in CbState
    BY MaxSampleAssumption DEF IdleCb, CbState, Samples
  <2>3. block' \in CbState
    BY <2>1, <2>2 DEF HeadTypeOK, CbState
  <2>4. block'.pc = "idle" \/ (block'.pc = "report" /\ block'.playing)
    BY <2>1 DEF HeadTypeOK, CbState, IdleCb
  <2>5. block'.pc = "report" => device
    BY <1>CbLoad, <2>1 DEF CbLoad, Hands
  <2>6. unfinished' \subseteq {"callback", "engine"}
    BY <1>CbLoad DEF CbLoad, HeadTypeOK, Finish
  <2> QED
    BY <1>CbLoad, <2>3, <2>4, <2>5, <2>6 DEF CbLoad, HeadTypeOK, Hands
<1>CbReport. CASE CbReport
  <2>1. block' \in CbState /\ Hands'
    BY <1>CbReport DEF CbReport, HeadTypeOK, Hands, CbState
  <2>2. events' \in 0..EventSlots
    BY <1>CbReport DEF CbReport, HeadTypeOK, Push, RingAssumption
  <2> QED
    BY <1>CbReport, <2>1, <2>2 DEF CbReport, HeadTypeOK
<1>CbStore. CASE CbStore
  <2>0. block.base \in Samples /\ block.frames \in {0} \cup Blocks
    BY DEF HeadTypeOK, CbState
  <2>1. block.base \in Samples /\ block.frames \in Nat
    BY <2>0, BlockSizes
  <2>2. position' \in Samples
    BY <1>CbStore, <2>1, Advanced DEF CbStore
  <2>3. IdleCb \in CbState
    BY MaxSampleAssumption DEF IdleCb, CbState, Samples
  <2> QED
    BY <1>CbStore, <2>2, <2>3 DEF CbStore, HeadTypeOK, Hands, IdleCb, Finish
<1>DrainEvents. CASE DrainEvents
  BY <1>DrainEvents DEF DrainEvents, HeadTypeOK, Hands, TickState, RingAssumption
<1>HeadlessBegin. CASE HeadlessBegin
  BY <1>HeadlessBegin DEF HeadlessBegin, HeadTypeOK, Hands, TickState
<1>HeadlessLoad. CASE HeadlessLoad
  BY <1>HeadlessLoad DEF HeadlessLoad, HeadTypeOK, Hands, TickState
<1>HeadlessStore. CASE HeadlessStore
  <2>0. tick.base \in Samples /\ tick.frames \in {0} \cup Blocks
    BY DEF HeadTypeOK, TickState
  <2>1. tick.base \in Samples /\ tick.frames \in Nat
    BY <2>0, BlockSizes
  <2>2. position' \in Samples
    BY <1>HeadlessStore, <2>1, Advanced DEF HeadlessStore
  <2>3. IdleTick \in TickState
    BY MaxSampleAssumption DEF IdleTick, TickState, Samples
  <2>4. [IdleTick EXCEPT !.pc = "policy"] \in TickState
    BY <2>3 DEF TickState
  <2>5. tick' \in {IdleTick, [IdleTick EXCEPT !.pc = "policy"]} /\ unfinished' \subseteq {"callback", "engine"}
    BY <1>HeadlessStore DEF HeadlessStore, HeadTypeOK, Finish
  <2>6. tick'.pc \in {"idle", "policy"}
    BY <2>5 DEF IdleTick
  <2> QED
    BY <1>HeadlessStore, <2>2, <2>3, <2>4, <2>5, <2>6 DEF HeadlessStore, HeadTypeOK, Hands
<1>ReadPolicy. CASE ReadPolicy
  <2>1. IdleTick \in TickState
    BY MaxSampleAssumption DEF IdleTick, TickState, Samples
  <2>2. tick' \in TickState /\ tick'.pc \in {"idle", "playing"}
    BY <1>ReadPolicy, <2>1 DEF ReadPolicy, HeadTypeOK, TickState, IdleTick
  <2> QED
    BY <1>ReadPolicy, <2>2 DEF ReadPolicy, HeadTypeOK, Hands, Finish
<1>ReadPlaying. CASE ReadPlaying
  <2>1. IdleTick \in TickState
    BY MaxSampleAssumption DEF IdleTick, TickState, Samples
  <2>2. tick' \in TickState /\ tick'.pc \in {"idle", "park"}
    BY <1>ReadPlaying, <2>1 DEF ReadPlaying, HeadTypeOK, TickState, IdleTick
  <2> QED
    BY <1>ReadPlaying, <2>2 DEF ReadPlaying, HeadTypeOK, Hands, Finish
<1>StorePark. CASE StorePark
  BY <1>StorePark DEF StorePark, HandOverPark, HeadTypeOK, Hands, TickState, SamplesAssumption
<1>StopTransport. CASE StopTransport
  BY <1>StopTransport DEF StopTransport, HeadTypeOK, Hands, TickState
<1>StorePosition. CASE StorePosition
  <2>1. IdleTick \in TickState /\ IdleTick.pc = "idle"
    BY MaxSampleAssumption DEF IdleTick, TickState, Samples
  <2> QED
    BY <1>StorePosition, <2>1 DEF StorePosition, HeadTypeOK, Hands, Finish, SamplesAssumption
<1>Command. ASSUME NEW d \in Senders, HeadCommand(d) PROVE HeadTypeOK' /\ Hands'
  <2>1. ASSUME NEW w \in {"play", "stop", "seek"}, NEW t \in Samples, BeginCommand(d, w, t)
        PROVE  HeadTypeOK' /\ Hands'
    <3>1. [pc |-> w, target |-> t, quiet |-> AtRest] \in SenderState
      BY DEF SenderState, AtRest
    <3>2. \A e \in Senders : [sender[e] EXCEPT !.quiet = FALSE] \in SenderState
      BY DEF HeadTypeOK, SenderState
    <3>3. sender' \in [Senders -> SenderState]
      BY <2>1, <3>1, <3>2 DEF BeginCommand
    <3>4. sends' \in 0..MaxSends
      BY <2>1 DEF BeginCommand, HeadTypeOK, RingAssumption
    <3> QED
      BY <2>1, <3>3, <3>4 DEF BeginCommand, SupersedePark, HeadTypeOK, Hands
  <2>2. CASE SetMayStop(d)
    <3>1. sends' \in 0..MaxSends
      BY <2>2 DEF SetMayStop, HeadTypeOK, RingAssumption
    <3> QED
      BY <2>2, <3>1 DEF SetMayStop, HeadTypeOK, Hands
  <2>3. 0 \in Samples /\ Targets \subseteq Samples
    BY MaxSampleAssumption DEF Samples, SamplesAssumption
  <2> QED
    BY <1>Command, <2>1, <2>2, <2>3 DEF HeadCommand
<1>Execute. ASSUME NEW d \in Senders, HeadExecute(d) PROVE HeadTypeOK' /\ Hands'
  <2>1. IdleSender \in SenderState
    BY MaxSampleAssumption DEF IdleSender, SenderState, Samples
  <2>2. sender' = [sender EXCEPT ![d] = IdleSender]
    BY <1>Execute DEF HeadExecute, Plays, Stops, Seeks
  <2>3. sender' \in [Senders -> SenderState]
    BY <2>1, <2>2 DEF HeadTypeOK
  <2>4. sender[d].target \in Samples
    BY DEF HeadTypeOK, SenderState
  <2>5. CASE Plays(d)
    BY <2>3, <2>5 DEF Plays, HeadTypeOK, Hands
  <2>6. CASE Stops(d)
    BY <2>3, <2>6 DEF Stops, HeadTypeOK, Hands
  <2>7. CASE Seeks(d)
    BY <2>3, <2>4, <2>7 DEF Seeks, HeadTypeOK, Hands
  <2> QED
    BY <1>Execute, <2>5, <2>6, <2>7 DEF HeadExecute
<1>same. CASE UNCHANGED headVars
  BY <1>same DEF headVars, HeadTypeOK, Hands
<1> QED
  BY <1>CbBegin, <1>CbSwapPark, <1>CbPlace, <1>CbLoad, <1>CbReport, <1>CbStore, <1>DrainEvents,
     <1>HeadlessBegin, <1>HeadlessLoad, <1>HeadlessStore, <1>ReadPolicy, <1>ReadPlaying, <1>StorePark,
     <1>StopTransport, <1>StorePosition, <1>Command, <1>Execute, <1>same
  DEF HeadNext, HeadCallback, HeadEngine

(* An auto-stop that no command interfered with: until the transport is    *)
(* stopped it plays, and the park is in place; from then on the song's end *)
(* is owed to the callback, in its hand, or where the playhead is.         *)
InHand == park = NoPark /\ block.pc = "place" /\ block.hand = SongEnd
ThereToStay ==
  /\ park = NoPark /\ position = SongEnd
  /\ block.pc \in {"idle", "swap"} \/ (block.pc = "load" /\ ~block.playing)
Halting ==
  /\ rolling /\ block.pc \notin {"swap", "place"}
  /\ tick.pc = "stop" /\ device => park = SongEnd
Halted ==
  /\ ~rolling /\ tick.pc \notin {"load", "advance"}
  /\ IF device THEN park = SongEnd \/ InHand \/ ThereToStay
     ELSE tick.pc = "position" \/ position = SongEnd
Parking ==
  autoStop = "clear" => IF tick.pc \in {"park", "stop"} THEN Halting ELSE Halted

(* A seek that is made at rest: no park is owed, no auto-stop under way,   *)
(* and no other command.  Once it is made, what the callback still carries *)
(* is from before.                                                         *)
Calm == park = NoPark /\ ~rolling /\ tick.pc \in {"idle", "policy", "playing"}
MadeAtRest(d) ==
  sender[d].pc = "seek" /\ sender[d].quiet =>
    Calm /\ \A e \in Senders : e # d => sender[e].pc = "idle"
Carries == block.pc \in {"place", "report", "store"} \/ (block.pc = "load" /\ block.playing)
Settled ==
  sought # NoSeek =>
    /\ Calm /\ \A d \in Senders : sender[d].pc = "idle"
    /\ Carries => "callback" \in unfinished

HeadInv ==
  HeadTypeOK /\ Hands /\ Parking /\ (\A d \in Senders : MadeAtRest(d)) /\ Settled

LEMMA StepParking ==
  ASSUME SamplesAssumption, HeadInv, [HeadNext]_headVars
  PROVE  Parking'
<1> USE DEF shared, headHistory
<1>0. SongEnd # NoPark
  BY DEF SamplesAssumption
<1>1. CASE autoStop' # "clear"
  BY <1>1 DEF Parking
<1>2. ASSUME ~HeadCallback, ~HeadEngine, autoStop' = "clear" PROVE Parking'
  <2>1. CASE UNCHANGED headVars
    BY <2>1 DEF headVars, HeadInv, Parking, Halting, Halted, InHand, ThereToStay
  <2>2. ASSUME NEW d \in Senders, HeadCommand(d) PROVE Parking'
    <3>1. SetMayStop(d)
      BY <1>2, <2>2 DEF HeadCommand, BeginCommand
    <3> QED
      BY <3>1 DEF SetMayStop, HeadInv, Parking, Halting, Halted, InHand, ThereToStay
  <2>3. ASSUME NEW d \in Senders, HeadExecute(d) PROVE FALSE
    BY <1>2, <2>3 DEF HeadExecute, Plays, Stops, Seeks
  <2> QED
    BY <1>2, <2>1, <2>2, <2>3 DEF HeadNext
<1>3. ASSUME HeadCallback, autoStop' = "clear" PROVE Parking'
  <2>1. /\ autoStop = "clear" /\ tick' = tick /\ rolling' = rolling /\ device' = device
    BY <1>3 DEF HeadCallback, CbBegin, CbSwapPark, CbPlace, CbLoad, CbReport, CbStore
  <2>2. device
    BY <1>3 DEF HeadCallback, HeadInv, Hands, CbBegin, CbSwapPark, CbPlace, CbLoad, CbReport, CbStore
  <2>3. CASE tick.pc \in {"park", "stop"}
    <3>1. Halting
      BY <2>1, <2>3 DEF HeadInv, Parking
    <3>2. ~CbSwapPark /\ ~CbPlace
      BY <3>1 DEF Halting, CbSwapPark, CbPlace
    <3>3. park' = park
      BY <1>3, <3>2 DEF HeadCallback, CbBegin, CbLoad, CbReport, CbStore
    <3>4. block'.pc \notin {"swap", "place"}
      <4>1. block \in CbState /\ rolling
        BY <3>1 DEF HeadInv, HeadTypeOK, Halting
      <4>2. CASE CbBegin
        BY <4>1, <4>2 DEF CbBegin, CbState
      <4>3. CASE CbLoad
        BY <4>1, <4>3 DEF CbLoad, CbState, IdleCb
      <4>4. CASE CbReport
        BY <4>1, <4>4 DEF CbReport, CbState
      <4>5. CASE CbStore
        BY <4>5 DEF CbStore, IdleCb
      <4> QED
        BY <1>3, <3>2, <4>2, <4>3, <4>4, <4>5 DEF HeadCallback
    <3> QED
      BY <2>1, <2>3, <3>1, <3>3, <3>4 DEF Parking, Halting
  <2>4. CASE tick.pc \notin {"park", "stop"}
    <3>1. ~rolling /\ tick.pc \notin {"load", "advance"} /\ (park = SongEnd \/ InHand \/ ThereToStay)
      BY <2>1, <2>2, <2>4 DEF HeadInv, Parking, Halted
    <3>2. park' = SongEnd \/ InHand' \/ ThereToStay'
      <4>1. CASE CbBegin
        BY <3>1, <4>1 DEF CbBegin, InHand, ThereToStay, HeadInv, HeadTypeOK, CbState
      <4>2. CASE CbSwapPark
        BY <1>0, <3>1, <4>2 DEF CbSwapPark, InHand, ThereToStay, HeadInv, HeadTypeOK, Hands, CbState
      <4>3. CASE CbPlace
        BY <3>1, <4>3 DEF CbPlace, InHand, ThereToStay, HeadInv, HeadTypeOK, Hands, CbState
      <4>4. CASE CbLoad
        BY <3>1, <4>4 DEF CbLoad, InHand, ThereToStay, IdleCb
      <4>5. CASE CbReport
        BY <3>1, <4>5 DEF CbReport, InHand, ThereToStay
      <4>6. CASE CbStore
        BY <3>1, <4>6 DEF CbStore, InHand, ThereToStay
      <4> QED
        BY <1>3, <4>1, <4>2, <4>3, <4>4, <4>5, <4>6 DEF HeadCallback
    <3> QED
      BY <2>1, <2>2, <2>4, <3>1, <3>2 DEF Parking, Halted
  <2> QED
    BY <2>3, <2>4
<1>4. ASSUME HeadEngine, autoStop' = "clear" PROVE Parking'
  <2>1. CASE ReadPlaying
    <3>1. rolling /\ block.pc \notin {"swap", "place"}
      BY <1>4, <2>1 DEF ReadPlaying
    <3>2. tick'.pc = "park"
      BY <2>1, <3>1 DEF ReadPlaying, HeadInv, HeadTypeOK, TickState
    <3> QED
      BY <2>1, <3>1, <3>2 DEF ReadPlaying, Parking, Halting
  <2>2. CASE StorePark
    <3>1. Halting
      BY <1>4, <2>2 DEF StorePark, HeadInv, Parking
    <3>2. tick'.pc = "stop"
      BY <2>2 DEF StorePark, HeadInv, HeadTypeOK, TickState
    <3> QED
      BY <2>2, <3>1, <3>2 DEF StorePark, HandOverPark, Parking, Halting
  <2>3. CASE StopTransport
    <3>1. Halting
      BY <1>4, <2>3 DEF StopTransport, HeadInv, Parking
    <3>2. tick'.pc = "position"
      BY <2>3 DEF StopTransport, HeadInv, HeadTypeOK, TickState
    <3> QED
      BY <2>3, <3>1, <3>2 DEF StopTransport, Parking, Halting, Halted
  <2>4. CASE StorePosition
    <3>1. Halted
      BY <1>4, <2>4 DEF StorePosition, HeadInv, Parking
    <3> QED
      BY <2>4, <3>1 DEF StorePosition, Parking, Halted, InHand, ThereToStay, IdleTick
  <2>5. CASE DrainEvents \/ ReadPolicy
    <3>1. Halted
      BY <1>4, <2>5 DEF DrainEvents, ReadPolicy, HeadInv, Parking
    <3>2. tick.pc # "position" /\ tick'.pc \in {"policy", "playing", "idle"}
      BY <2>5 DEF DrainEvents, ReadPolicy, IdleTick, HeadInv, HeadTypeOK, TickState
    <3>3. UNCHANGED <<position, rolling, park, device, block>>
      BY <2>5 DEF DrainEvents, ReadPolicy
    <3> QED
      BY <3>1, <3>2, <3>3 DEF Parking, Halted, InHand, ThereToStay
  <2>6. CASE HeadlessBegin \/ HeadlessLoad \/ HeadlessStore
    <3>1. Halted
      BY <1>4, <2>6 DEF HeadlessBegin, HeadlessLoad, HeadlessStore, HeadInv, Parking
    <3> QED
      BY <2>6, <3>1 DEF Halted, HeadlessBegin, HeadlessLoad, HeadlessStore
  <2> QED
    BY <1>4, <2>1, <2>2, <2>3, <2>4, <2>5, <2>6 DEF HeadEngine
<1> QED
  BY <1>1, <1>2, <1>3, <1>4

LEMMA StepRest ==
  ASSUME HeadInv, [HeadNext]_headVars
  PROVE  (\A d \in Senders : MadeAtRest(d)') /\ Settled'
<1> USE DEF shared, headHistory, NoSeek
<1>1. ASSUME Calm, HeadCallback \/ HeadEngine PROVE Calm'
  <2>1. CASE HeadCallback
    <3>1. rolling' = rolling /\ tick' = tick /\ park' \in {park, NoPark}
      BY <2>1 DEF HeadCallback, CbBegin, CbSwapPark, CbPlace, CbLoad, CbReport, CbStore
    <3> QED
      BY <1>1, <3>1 DEF Calm
  <2>2. CASE HeadEngine
    <3>1. DrainEvents \/ ReadPolicy \/ ReadPlaying
      BY <1>1, <2>2 DEF Calm, HeadEngine, HeadlessBegin, HeadlessLoad, HeadlessStore,
         StorePark, StopTransport, StorePosition
    <3>2. park' = park /\ rolling' = rolling
      BY <3>1 DEF DrainEvents, ReadPolicy, ReadPlaying
    <3>3. tick'.pc \in {"idle", "policy", "playing"}
      BY <1>1, <3>1 DEF Calm, DrainEvents, ReadPolicy, ReadPlaying, IdleTick, HeadInv, HeadTypeOK, TickState
    <3> QED
      BY <1>1, <3>2, <3>3 DEF Calm
  <2> QED
    BY <1>1, <2>1, <2>2
<1>2. CASE HeadCallback \/ HeadEngine
  <2>1. sender' = sender /\ sought' = sought
    BY <1>2 DEF HeadCallback, CbBegin, CbSwapPark, CbPlace, CbLoad, CbReport, CbStore,
       HeadEngine, DrainEvents, HeadlessBegin, HeadlessLoad, HeadlessStore,
       ReadPolicy, ReadPlaying, StorePark, StopTransport, StorePosition
  <2>2. \A d \in Senders : MadeAtRest(d)'
    BY <1>1, <1>2, <2>1 DEF HeadInv, MadeAtRest
  <2>3. ASSUME sought # NoSeek, Carries' PROVE "callback" \in unfinished'
    <3>1. Calm /\ (Carries => "callback" \in unfinished)
      BY <2>3 DEF HeadInv, Settled
    <3>2. CASE HeadEngine
      BY <2>3, <3>1, <3>2 DEF Carries, Finish, HeadEngine, DrainEvents, HeadlessBegin, HeadlessLoad,
         HeadlessStore, ReadPolicy, ReadPlaying, StorePark, StopTransport, StorePosition
    <3>3. CASE HeadCallback
      <4>1. CASE CbBegin
        BY <2>3, <3>1, <4>1 DEF CbBegin, Calm, Carries, HeadInv, HeadTypeOK, CbState
      <4>2. CASE CbSwapPark
        BY <2>3, <3>1, <4>2 DEF CbSwapPark, Calm, Carries, HeadInv, HeadTypeOK, Hands, CbState
      <4>3. CASE CbPlace
        BY <3>1, <4>3 DEF CbPlace, Carries
      <4>4. CASE CbLoad
        BY <2>3, <3>1, <4>4 DEF CbLoad, Carries, IdleCb
      <4>5. CASE CbReport
        BY <3>1, <4>5 DEF CbReport, Carries
      <4>6. CASE CbStore
        BY <2>3, <4>6 DEF CbStore, Carries, IdleCb
      <4> QED
        BY <3>3, <4>1, <4>2, <4>3, <4>4, <4>5, <4>6 DEF HeadCallback
    <3> QED
      BY <1>2, <3>2, <3>3
  <2>4. Settled'
    BY <1>1, <1>2, <2>1, <2>3 DEF HeadInv, Settled
  <2> QED
    BY <2>2, <2>4
<1>3. ASSUME NEW c \in Senders, HeadCommand(c)
      PROVE  (\A d \in Senders : MadeAtRest(d)') /\ Settled'
  <2>1. CASE SetMayStop(c)
    BY <2>1 DEF SetMayStop, HeadInv, MadeAtRest, Settled, Calm, Carries
  <2>2. ASSUME NEW w, NEW t, BeginCommand(c, w, t) PROVE (\A d \in Senders : MadeAtRest(d)') /\ Settled'
    <3>1. sender'[c] = [pc |-> w, target |-> t, quiet |-> AtRest]
      BY <2>2 DEF BeginCommand
    <3>2. \A d \in Senders : d # c => sender'[d].pc = sender[d].pc /\ sender'[d].quiet = FALSE
      BY <2>2 DEF BeginCommand, HeadInv, HeadTypeOK, SenderState
    <3>3. park' = NoPark /\ rolling' = rolling /\ tick' = tick /\ sought' = NoPark
      BY <2>2 DEF BeginCommand, SupersedePark
    <3>4. MadeAtRest(c)'
      <4>1. SUFFICES ASSUME sender'[c].quiet PROVE Calm' /\ \A e \in Senders : e # c => sender'[e].pc = "idle"
        BY DEF MadeAtRest
      <4>2. AtRest
        BY <3>1, <4>1
      <4> QED
        BY <3>2, <3>3, <4>2 DEF AtRest, Calm
    <3> QED
      BY <3>2, <3>3, <3>4 DEF MadeAtRest, Settled
  <2> QED
    BY <1>3, <2>1, <2>2 DEF HeadCommand
<1>4. ASSUME NEW c \in Senders, HeadExecute(c)
      PROVE  (\A d \in Senders : MadeAtRest(d)') /\ Settled'
  <2>1. sender'[c].pc = "idle" /\ \A d \in Senders : d # c => sender'[d] = sender[d]
    BY <1>4 DEF HeadExecute, Plays, Stops, Seeks, HeadInv, HeadTypeOK, IdleSender
  <2>2. sender[c].pc # "idle"
    BY <1>4 DEF HeadExecute, Plays, Stops, Seeks
  <2>3. \A d \in Senders : MadeAtRest(d)'
    BY <2>1, <2>2 DEF HeadInv, MadeAtRest
  <2>4. Settled'
    <3>1. CASE Plays(c) \/ Stops(c)
      BY <3>1 DEF Plays, Stops, Settled
    <3>2. CASE Seeks(c)
      <4>1. SUFFICES ASSUME sought' # NoPark PROVE Settled'
        BY DEF Settled
      <4>2. sender[c].quiet /\ sender[c].pc = "seek"
        BY <3>2, <4>1 DEF Seeks
      <4>3. Calm /\ \A e \in Senders : e # c => sender[e].pc = "idle"
        BY <4>2 DEF HeadInv, MadeAtRest
      <4>4. Calm'
        BY <3>2, <4>3 DEF Seeks, Calm
      <4>5. \A d \in Senders : sender'[d].pc = "idle"
        BY <2>1, <4>3
      <4>6. Carries' => "callback" \in unfinished'
        BY <3>2 DEF Seeks, Carries
      <4> QED
        BY <4>4, <4>5, <4>6 DEF Settled
    <3> QED
      BY <1>4, <3>1, <3>2 DEF HeadExecute
  <2> QED
    BY <2>3, <2>4
<1>5. CASE UNCHANGED headVars
  BY <1>5 DEF headVars, HeadInv, MadeAtRest, Settled, Calm, Carries
<1> QED
  BY <1>2, <1>3, <1>4, <1>5 DEF HeadNext

LEMMA HeadIsSound ==
  ASSUME SamplesAssumption, BlocksAssumption, RingAssumption
  PROVE  HeadSpec => []HeadInv
<1>1. HeadInit => HeadInv
  <2> SUFFICES ASSUME HeadInit PROVE HeadInv
    OBVIOUS
  <2>1. HeadTypeOK /\ Hands
    BY InitHead
  <2>2. \A d \in Senders : sender[d].pc = "idle"
    BY DEF HeadInit, IdleSender
  <2> QED
    BY <2>1, <2>2 DEF HeadInit, HeadInv, Parking, MadeAtRest, Settled
<1>2. HeadInv /\ [HeadNext]_headVars => HeadInv'
  <2> SUFFICES ASSUME HeadInv, [HeadNext]_headVars PROVE HeadInv'
    OBVIOUS
  <2>1. HeadTypeOK' /\ Hands'
    BY StepHead DEF HeadInv
  <2>2. Parking'
    BY StepParking
  <2>3. (\A d \in Senders : MadeAtRest(d)') /\ Settled'
    BY StepRest
  <2> QED
    BY <2>1, <2>2, <2>3 DEF HeadInv
<1> QED
  BY <1>1, <1>2, PTL DEF HeadSpec

(* At rest after an auto-stop that no command interfered with, the         *)
(* playhead is on the end of the song, whatever block was in flight, for   *)
(* any number of senders, any song and any block sizes.                    *)
THEOREM AutoStopsPark ==
  ASSUME SamplesAssumption, BlocksAssumption, RingAssumption
  PROVE  HeadSpec => []AutoStopParks
<1>1. HeadInv => AutoStopParks
  <2> SUFFICES ASSUME HeadInv, autoStop = "clear", Parked PROVE AtEnd
    BY DEF AutoStopParks
  <2>1. Halted /\ tick.pc = "idle" /\ block.pc = "idle" /\ park # SongEnd
    BY DEF HeadInv, Parking, Parked, HeadRests, SamplesAssumption
  <2> QED
    BY <2>1 DEF Halted, InHand, ThereToStay, AtEnd
<1> QED
  BY <1>1, HeadIsSound, PTL

(* A seek made at rest stays where it went once the block in flight when   *)
(* it returned is over, until the next command.                            *)
THEOREM SeeksStay ==
  ASSUME SamplesAssumption, BlocksAssumption, RingAssumption
  PROVE  HeadSpec => SettledSeekStays
<1>1. HeadInv /\ [HeadNext]_headVars
      => [sought # NoSeek /\ unfinished = {} /\ sought' = sought => position' = position]_headVars
  <2> SUFFICES ASSUME HeadInv, HeadNext, sought # NoSeek, unfinished = {}, sought' = sought
               PROVE  position' = position
    OBVIOUS
  <2> USE DEF shared, headHistory
  <2>1. Calm /\ ~Carries /\ \A d \in Senders : sender[d].pc = "idle"
    BY DEF HeadInv, Settled
  <2>2. CASE HeadCallback
    BY <2>1, <2>2 DEF Carries, HeadInv, Hands, HeadCallback, CbBegin, CbSwapPark, CbPlace, CbLoad, CbReport, CbStore
  <2>3. CASE HeadEngine
    BY <2>1, <2>3 DEF Calm, HeadEngine, DrainEvents, HeadlessBegin, HeadlessLoad, HeadlessStore,
       ReadPolicy, ReadPlaying, StorePark, StopTransport, StorePosition
  <2>4. ASSUME NEW d \in Senders, HeadCommand(d) \/ HeadExecute(d) PROVE position' = position
    BY <2>1, <2>4 DEF HeadCommand, BeginCommand, SetMayStop, HeadExecute, Plays, Stops, Seeks
  <2> QED
    BY <2>2, <2>3, <2>4 DEF HeadNext
<1> QED
  BY <1>1, HeadIsSound, PTL DEF HeadSpec, SettledSeekStays
=============================================================================
