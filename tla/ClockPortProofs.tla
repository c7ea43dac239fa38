-------------------------- MODULE ClockPortProofs --------------------------
(***************************************************************************)
(* Theorems about ClockCarry, for any number of clocks and choke group,    *)
(* any clips, any ring and any number of presses and rebuilds: what was    *)
(* pressed stands and what plays goes on, through every graph published,   *)
(* dropped and adopted.  Behind them those about MidiOutPort, for any      *)
(* number of routes, any songs sorted by sample, any tempi, and any steps  *)
(* of the estimate.                                                        *)
(***************************************************************************)
EXTENDS ClockCarry, MidiOutPort, SequenceTheorems, FiniteSetTheorems, TLAPS

----------------------------------------------------------------------------
(* ClockCarry: types, and what the operators give.                         *)

(* The graph that is taken over is there. *)
TakesOver == rt.pc \in {"copy", "swap"} => ring # <<>>

ClockTypes == ClockTypeOK /\ TakesOver

LEMMA ChokesAreClocks ==
  ASSUME ClocksAssumption, NEW c \in Clocks
  PROVE  /\ Chokes(c) \subseteq Clocks /\ IsFiniteSet(Chokes(c))
         /\ SetToSeq(Chokes(c)) \in Seq(Clocks)
         /\ \A d \in Chokes(c) : \E i \in 1..Len(SetToSeq(Chokes(c))) : SetToSeq(Chokes(c))[i] = d
<1> DEFINE S == Chokes(c)
           m == Cardinality(S)
<1>1. S \subseteq Clocks
  BY DEF ClocksAssumption, Chokes, Clocks
<1>2. IsFiniteSet(Clocks)
  BY FS_Interval DEF ClocksAssumption, Clocks
<1>3. IsFiniteSet(S)
  BY <1>1, <1>2, FS_Subset
<1>4. m \in Nat /\ ExistsBijection(1..m, S)
  BY <1>3, FS_CardinalityType
<1> HIDE DEF S
<1>5. PICK f \in [1..m -> S] : IsInjective(f) /\ \A d \in S : \E i \in 1..m : f[i] = d
  BY <1>4 DEF ExistsBijection, Bijection, Injection, Surjection, IsInjective
<1>6. SetToSeq(S) \in [1..m -> S] /\ IsInjective(SetToSeq(S))
  BY <1>5 DEF SetToSeq
<1> DEFINE q == SetToSeq(S)
           T == {q[i] : i \in 1..m}
<1>7. q \in Seq(S) /\ Len(q) = m
  BY <1>4, <1>6
<1>8. T = S
  <2>1. T \subseteq S
    BY <1>6
  <2>2. IsFiniteSet(T)
    BY <2>1, <1>3, FS_Subset
  <2>3. ExistsBijection(1..m, T)
    <3>1. q \in [1..m -> T]
      BY <1>6
    <3>2. q \in Bijection(1..m, T)
      BY <3>1, <1>6 DEF Bijection, Injection, Surjection, IsInjective
    <3> QED
      BY <3>2 DEF ExistsBijection
  <2>4. IsFiniteSet(1..m) /\ Cardinality(1..m) = m
    BY <1>4, FS_Interval
  <2>5. Cardinality(T) = m
    BY <2>2, <2>3, <2>4, FS_Bijection
  <2> QED
    BY <2>1, <2>5, <1>3, FS_Subset
<1>9. \A d \in S : \E i \in 1..m : q[i] = d
  BY <1>8
<1>10. Seq(S) \subseteq Seq(Clocks)
  BY <1>1 DEF S
<1> QED
  BY <1>1, <1>3, <1>7, <1>9, <1>10 DEF S, q

(* What a press has to do: the press first, and the chokes of a fire. *)
PlanIs(steps) ==
  /\ \A i \in DOMAIN steps : i > 1 => steps[i].kind = "choke" /\ ~steps[i].counted
  /\ steps # <<>> /\ steps[1].kind = "fire" =>
       \A d \in Chokes(steps[1].clock) :
         \E i \in DOMAIN steps : i > 1 /\ steps[i].clock = d

LEMMA PlansAreSteps ==
  ASSUME ClocksAssumption, NEW c \in Clocks, NEW k \in {"fire", "wait", "stop"}
  PROVE  Plan(c, k) \in Seq(Steps) /\ PlanIs(Plan(c, k)) /\ Plan(c, k)[1] = Due(c, k)
<1> DEFINE ds == SetToSeq(Chokes(c))
           rest == IF k = "fire" THEN ChokeSteps(c) ELSE <<>>
<1>1. ds \in Seq(Clocks) /\ \A d \in Chokes(c) : \E i \in 1..Len(ds) : ds[i] = d
  BY ChokesAreClocks
<1>2. ChokeSteps(c) = [i \in 1..Len(ds) |-> Due(ds[i], "choke")]
  BY DEF ChokeSteps
<1> HIDE DEF ds
<1>3. \A d \in Clocks, j \in {"fire", "wait", "stop", "choke"} :
        /\ Due(d, j) \in Steps /\ Due(d, j).clock = d /\ Due(d, j).kind = j /\ ~Due(d, j).counted
  BY DEF Due, Steps
<1>4. /\ ChokeSteps(c) \in Seq(Steps) /\ Len(ChokeSteps(c)) = Len(ds)
      /\ \A i \in 1..Len(ds) : ChokeSteps(c)[i] = Due(ds[i], "choke")
  BY <1>1, <1>2, <1>3
<1>5. rest \in Seq(Steps) /\ \A i \in 1..Len(rest) : rest[i].kind = "choke" /\ ~rest[i].counted
  BY <1>1, <1>3, <1>4
<1>6. k = "fire" => \A d \in Chokes(c) : \E i \in 1..Len(rest) : rest[i].clock = d
  BY <1>1, <1>3, <1>4
<1>7. Plan(c, k) = <<Due(c, k)>> \o rest
  BY DEF Plan
<1> HIDE DEF rest
<1> DEFINE p == Plan(c, k)
<1>8. Due(c, k) \in Steps /\ Due(c, k).kind = k /\ Due(c, k).clock = c
  BY <1>3
<1>9. /\ p \in Seq(Steps) /\ Len(p) = 1 + Len(rest) /\ p[1] = Due(c, k) /\ p # <<>>
      /\ \A i \in 1..Len(rest) : p[i + 1] = rest[i]
      /\ \A i \in 1..Len(p) : i > 1 => i - 1 \in 1..Len(rest) /\ p[i] = rest[i - 1]
  BY <1>5, <1>7, <1>8
<1> HIDE DEF p
<1>10. \A i \in DOMAIN p : i > 1 => p[i].kind = "choke" /\ ~p[i].counted
  BY <1>5, <1>9
<1>11. k = "fire" => \A d \in Chokes(c) : \E i \in DOMAIN p : i > 1 /\ p[i].clock = d
  <2> SUFFICES ASSUME k = "fire", NEW d \in Chokes(c)
               PROVE  \E i \in DOMAIN p : i > 1 /\ p[i].clock = d
    OBVIOUS
  <2>1. PICK i \in 1..Len(rest) : rest[i].clock = d
    BY <1>6
  <2>2. i + 1 \in DOMAIN p /\ i + 1 > 1 /\ p[i + 1].clock = d
    BY <2>1, <1>9, <1>5
  <2> QED
    BY <2>2
<1>12. PlanIs(p)
  BY <1>8, <1>9, <1>10, <1>11 DEF PlanIs
<1> QED
  BY <1>9, <1>12 DEF p

----------------------------------------------------------------------------
(* Types.                                                                  *)

LEMMA Cells ==
  ASSUME NEW f \in [Gens -> [Clocks -> Clock]], NEW g \in Gens, NEW c \in Clocks, NEW v \in Clock
  PROVE  [f EXCEPT ![g] = [f[g] EXCEPT ![c] = v]] \in [Gens -> [Clocks -> Clock]]
OBVIOUS

LEMMA Rows ==
  ASSUME NEW f \in [Gens -> [Clocks -> Clock]], NEW g \in Gens, NEW r \in [Clocks -> Clock]
  PROVE  [f EXCEPT ![g] = r] \in [Gens -> [Clocks -> Clock]]
OBVIOUS

LEMMA ClockFields ==
  ASSUME NEW k \in Clock
  PROVE  /\ k.on \in BOOLEAN /\ k.pos \in 0..End /\ k.pending \in BOOLEAN /\ k.discont \in BOOLEAN
         /\ k.seq \in Nat /\ k.writes \in Nat /\ k.carried \in Nat
BY DEF Clock

LEMMA ClockUpdates ==
  ASSUME NEW k \in Clock, End \in Nat
  PROVE  /\ [k EXCEPT !.writes = @ + 1] \in Clock
         /\ [k EXCEPT !.pending = FALSE] \in Clock
         /\ [k EXCEPT !.discont = FALSE] \in Clock
         /\ [k EXCEPT !.pos = 0, !.discont = TRUE] \in Clock
         /\ [k EXCEPT !.pos = End, !.discont = TRUE, !.on = FALSE] \in Clock
         /\ [k EXCEPT !.pending = FALSE, !.pos = 0, !.discont = TRUE, !.on = TRUE] \in Clock
         /\ k.pos + 1 < End => [k EXCEPT !.pos = @ + 1] \in Clock
         /\ Carry(k) \in Clock
         /\ Stopped(k) \in Clock
         /\ Choked(k) \in Clock
<1>0. 0 \in 0..End /\ End \in 0..End
  OBVIOUS
<1>1. \A m \in Clock : [m EXCEPT !.writes = @ + 1] \in Clock
  BY DEF Clock
<1>2. [k EXCEPT !.pending = FALSE] \in Clock
  BY DEF Clock
<1>3. [k EXCEPT !.discont = FALSE] \in Clock
  BY DEF Clock
<1>4. [k EXCEPT !.pos = 0, !.discont = TRUE] \in Clock
  BY <1>0 DEF Clock
<1>5. [k EXCEPT !.pos = End, !.discont = TRUE, !.on = FALSE] \in Clock
  BY <1>0 DEF Clock
<1>6. [k EXCEPT !.pending = FALSE, !.pos = 0, !.discont = TRUE, !.on = TRUE] \in Clock
  BY <1>0 DEF Clock
<1>7. k.pos + 1 < End => [k EXCEPT !.pos = @ + 1] \in Clock
  BY DEF Clock
<1>8. Carry(k) \in Clock
  BY DEF Clock, Carry
<1>9. (k.discont \/ k.on) \in BOOLEAN
  BY ClockFields, Zenon
<1>10. Stopped(k) \in Clock
  BY <1>9 DEF Clock, Stopped
<1>11. Choked(k) \in Clock
  BY <1>1, <1>10 DEF Choked
<1> QED
  BY <1>1, <1>2, <1>3, <1>4, <1>5, <1>6, <1>7, <1>8, <1>10, <1>11

LEMMA ClockPresses ==
  ASSUME NEW k \in Clock, End \in Nat, presses \in Nat
  PROVE  Fired(k) \in Clock /\ Armed(k) \in Clock
<1>0. 0 \in 0..End
  OBVIOUS
<1>1. Fired(k) \in Clock
  BY <1>0 DEF Clock, Fired
<1>2. Armed(k) \in Clock
  BY DEF Clock, Armed
<1> QED
  BY <1>1, <1>2

LEMMA ClockTakes ==
  ASSUME NEW k \in Clock, NEW s \in Clock
  PROVE  Taken(k, s) \in Clock
BY DEF Clock, Taken

LEMMA ClockTypesHold ==
  ASSUME ClocksAssumption, BoundsAssumption
  PROVE  ClockSpec => []ClockTypes
<1>n. N \in Nat \ {0} /\ End \in Nat \ {0} /\ MaxGen \in Nat /\ MaxPress \in Nat
  BY DEF ClocksAssumption, BoundsAssumption
<1>0. 1 \in Clocks /\ 0 \in Gens /\ IdleClock \in Clock
  BY <1>n DEF Clocks, Gens, IdleClock, Clock
<1>1. ClockInit => ClockTypes
  <2> SUFFICES ASSUME ClockInit PROVE ClockTypes
    OBVIOUS
  <2>1. Go("adopt") \in RtState /\ NoPress \in Intents /\ 0 \in 0..MaxPress
    BY <1>n, <1>0 DEF Go, RtState, NoPress, Intents
  <2>2. rt = Go("adopt") /\ Go("adopt").pc = "adopt"
    BY DEF ClockInit, Go
  <2>3. /\ tab \in [Gens -> [Clocks -> Clock]] /\ source \in [Gens -> Gens]
        /\ intent \in [Clocks -> Intents]
    BY <1>0, <2>1 DEF ClockInit
  <2>4. rt \in RtState /\ TakesOver /\ <<>> \in Seq(Gens) /\ <<>> \in Seq(Steps)
    BY <2>1, <2>2 DEF TakesOver
  <2> QED
    BY <1>0, <2>1, <2>3, <2>4 DEF ClockInit, ClockTypes, ClockTypeOK
<1>2. ASSUME ClockTypes, [ClockNext]_clockVars
      PROVE  ClockTypes'
  <2> DEFINE Kinds == {"fire", "wait", "stop", "choke"}
  <2>t. /\ tab \in [Gens -> [Clocks -> Clock]] /\ source \in [Gens -> Gens]
        /\ published \in Gens /\ adopted \in Gens /\ ring \in Seq(Gens)
        /\ pushing \in BOOLEAN /\ raced \in BOOLEAN /\ midway \in BOOLEAN /\ lost \in BOOLEAN
        /\ rt \in RtState /\ todo \in Seq(Steps)
        /\ presses \in 0..MaxPress /\ owed \subseteq Clocks /\ intent \in [Clocks -> Intents]
        /\ rt.pc \in {"copy", "swap"} => ring # <<>>
    BY <1>2 DEF ClockTypes, ClockTypeOK, TakesOver
  <2> USE DEF ClockTypes, ClockTypeOK, TakesOver
  <2>p. presses \in Nat /\ End \in Nat
    BY <2>t, <1>n
  <2>s. todo # <<>> => /\ Write \in Steps /\ Tail(todo) \in Seq(Steps) /\ Write = todo[1]
                       /\ Write.clock \in Clocks /\ Write.kind \in Kinds
    <3> SUFFICES ASSUME todo # <<>> PROVE Write \in Steps /\ Tail(todo) \in Seq(Steps) /\ Write = todo[1]
      BY DEF Steps
    <3> QED
      BY <2>t DEF Write
  <2>r. ring # <<>> => Fresh \in Gens /\ Tail(ring) \in Seq(Gens)
    BY <2>t DEF Fresh
  <2>c. \A g \in Gens, c \in Clocks : tab[g] \in [Clocks -> Clock] /\ tab[g][c] \in Clock
    BY <2>t
  <2>g. /\ \A p \in {"adopt", "copy", "swap", "arm", "begin", "advance"} :
             /\ Go(p) \in RtState /\ Go(p).pc = p
             /\ NextClock(p) \in RtState /\ NextClock(p).pc \in {p, rt.pc}
        /\ Loaded \in RtState /\ Loaded.pc = rt.pc
    <3>1. rt.clock \in 1..N /\ (rt.clock < N => rt.clock + 1 \in 1..N) /\ 1 \in 1..N
      BY <2>t, <1>n DEF RtState, Clocks
    <3>2. \A p \in {"adopt", "copy", "swap", "arm", "begin", "advance"} : Go(p) \in RtState /\ Go(p).pc = p
      BY <3>1 DEF Go, RtState, Clocks
    <3>3. Loaded \in RtState /\ Loaded.pc = rt.pc
      BY <2>t DEF Loaded, RtState
    <3>4. rt.clock < N => [rt EXCEPT !.clock = @ + 1, !.load = FALSE] \in RtState /\ [rt EXCEPT !.clock = @ + 1, !.load = FALSE].pc = rt.pc
      BY <2>t, <3>1 DEF RtState, Clocks
    <3> QED
      BY <3>2, <3>3, <3>4 DEF NextClock
  <2>m. Mine \in Clock /\ rt.clock \in Clocks
    BY <2>t, <2>c DEF Mine, RtState
  <2>1. CASE Press
    <3>1. PICK c \in Clocks, k \in {"fire", "wait", "stop"} : todo' = Plan(c, k)
      BY <2>1 DEF Press
    <3>2. todo' \in Seq(Steps)
      BY <3>1, PlansAreSteps
    <3>3. presses' \in 0..MaxPress
      BY <2>t, <1>n, <2>1 DEF Press
    <3> QED
      BY <2>t, <2>1, <3>2, <3>3 DEF Press, tables, clockHistory, Steps
  <2>2. CASE Count
    <3>1. tab[published][Write.clock] \in Clock /\ todo # <<>>
      BY <2>t, <2>2, <2>s, <2>c DEF Count
    <3>2. tab' \in [Gens -> [Clocks -> Clock]]
      BY <2>t, <2>2, <2>p, <3>1, <2>s, ClockUpdates, Cells DEF Count
    <3>3. todo' \in Seq(Steps)
      <4>1. todo[1] \in Steps /\ [todo[1] EXCEPT !.counted = TRUE] \in Steps
        BY <3>1, <2>s DEF Steps
      <4> QED
        BY <2>t, <2>2, <3>1, <4>1 DEF Count
    <3>4. raced' \in BOOLEAN /\ midway' \in BOOLEAN
      BY <2>t, <2>2, <2>s, <2>c DEF Count, InWindow, Copying, Midway, Clock
    <3> QED
      BY <2>t, <2>2, <3>2, <3>3, <3>4 DEF Count, tables, Steps
  <2>3. CASE Store
    <3> DEFINE k == tab[published][Write.clock]
    <3>1. k \in Clock /\ todo # <<>>
      BY <2>t, <2>3, <2>s, <2>c DEF Store
    <3>2. Fired(k) \in Clock /\ Armed(k) \in Clock /\ Stopped(k) \in Clock
      BY <2>p, <3>1, ClockPresses, ClockUpdates
    <3>3. tab' \in [Gens -> [Clocks -> Clock]]
      BY <2>t, <2>3, <3>1, <3>2, <2>s, Cells DEF Store
    <3>4. raced' \in BOOLEAN /\ midway' \in BOOLEAN
      BY <2>t, <2>3, <2>s, <2>c, <3>1 DEF Store, InWindow, Copying, Midway, Clock
    <3>5. owed' \subseteq Clocks
      BY <2>t, <2>3, <2>s, <3>1 DEF Store
    <3>6. intent' \in [Clocks -> Intents]
      BY <2>t, <2>p, <2>3, <2>s, <3>1 DEF Store, Intents
    <3> QED
      BY <2>t, <2>3, <2>s, <3>3, <3>4, <3>5, <3>6 DEF Store, tables, Steps
  <2>4. CASE Cancel
    <3>1. tab' \in [Gens -> [Clocks -> Clock]]
      <4>1. [c \in Clocks |-> [tab[published][c] EXCEPT !.pending = FALSE]] \in [Clocks -> Clock]
        BY <2>t, <2>c, <2>p, ClockUpdates
      <4> QED
        BY <2>t, <2>4, <4>1, Rows DEF Cancel
    <3>2. intent' \in [Clocks -> Intents]
      BY <2>t, <2>4 DEF Cancel, Intents
    <3>3. raced' \in BOOLEAN /\ presses' \in 0..MaxPress
      BY <2>t, <1>n, <2>4 DEF Cancel, InWindow, Copying
    <3> QED
      BY <2>t, <2>4, <3>1, <3>2, <3>3 DEF Cancel, tables
  <2>5. CASE Publish
    <3>1. published + 1 \in Gens
      BY <2>t, <1>n, <2>5 DEF Publish, Gens
    <3>2. tab' \in [Gens -> [Clocks -> Clock]]
      <4>1. [c \in Clocks |-> Carry(tab[published][c])] \in [Clocks -> Clock]
        BY <2>t, <2>c, <2>p, ClockUpdates
      <4> QED
        BY <2>t, <2>5, <3>1, <4>1, Rows DEF Publish
    <3> QED
      BY <2>t, <2>5, <3>1, <3>2 DEF Publish, clockHistory
  <2>6. CASE PushGraph
    <3>1. ring' \in Seq(Gens) /\ lost' \in BOOLEAN /\ (ring # <<>> => ring' # <<>>)
      <4>1. ring' = Append(ring, published) \/ ring' = ring
        BY <2>6 DEF PushGraph
      <4>2. Append(ring, published) \in Seq(Gens) /\ Append(ring, published) # <<>>
        <5> DEFINE r == ring
        <5>1. r \in Seq(Gens) /\ published \in Gens
          BY <2>t
        <5> HIDE DEF r
        <5>2. Append(r, published) \in Seq(Gens) /\ Append(r, published) # <<>>
          BY <5>1, AppendProperties
        <5> QED
          BY <5>2 DEF r
      <4>3. lost' = lost \/ lost' = TRUE
        BY <2>6 DEF PushGraph
      <4> QED
        BY <2>t, <4>1, <4>2, <4>3
    <3> QED
      BY <2>t, <2>6, <3>1 DEF PushGraph
  <2>7. CASE Adopt
    BY <2>t, <2>7, <2>g DEF Adopt, tables, clockHistory
  <2>8. CASE TestWrites
    BY <2>t, <2>8, <2>g DEF TestWrites, tables, clockHistory
  <2>9. CASE TakeState
    <3>1. ring # <<>>
      BY <2>t, <2>9 DEF TakeState
    <3>3. Taken(tab[Fresh][rt.clock], Mine) \in Clock
      BY <2>m, <2>r, <2>c, <3>1, ClockTakes
    <3>4. tab' \in [Gens -> [Clocks -> Clock]]
      BY <2>t, <2>9, <2>r, <2>m, <3>1, <3>3, Cells DEF TakeState
    <3> QED
      BY <2>t, <2>9, <2>g, <3>4 DEF TakeState, tables, clockHistory
  <2>10. CASE SwapGraph
    BY <2>t, <2>10, <2>g, <2>r DEF SwapGraph, clockHistory
  <2>11. CASE ArmLoad
    BY <2>t, <2>11, <2>g DEF ArmLoad, tables, clockHistory
  <2>12. CASE ArmStore
    <3> DEFINE new == [c \in Clocks |->
               IF c = rt.clock
               THEN [tab[adopted][c] EXCEPT !.pending = FALSE, !.pos = 0, !.discont = TRUE, !.on = TRUE]
               ELSE IF c \in Chokes(rt.clock) THEN Choked(tab[adopted][c]) ELSE tab[adopted][c]]
    <3>1. \A c \in Clocks :
            /\ Choked(tab[adopted][c]) \in Clock
            /\ [tab[adopted][c] EXCEPT !.pending = FALSE, !.pos = 0, !.discont = TRUE, !.on = TRUE] \in Clock
      BY <2>t, <2>p, <2>c, ClockUpdates
    <3>2. new \in [Clocks -> Clock]
      BY <2>t, <2>c, <3>1
    <3>3. tab' \in [Gens -> [Clocks -> Clock]]
      BY <2>t, <2>12, <3>2, Rows DEF ArmStore
    <3>4. owed' \subseteq Clocks
      BY <2>t, <2>12, <2>m, ChokesAreClocks DEF ArmStore
    <3> QED
      BY <2>t, <2>12, <2>g, <3>3, <3>4 DEF ArmStore, tables
  <2>13. CASE BeginClocks
    <3>1. tab' \in [Gens -> [Clocks -> Clock]]
      <4>1. [c \in Clocks |-> [tab[adopted][c] EXCEPT !.discont = FALSE]] \in [Clocks -> Clock]
        BY <2>t, <2>c, <2>p, ClockUpdates
      <4> QED
        BY <2>t, <2>13, <4>1, Rows DEF BeginClocks
    <3> QED
      BY <2>t, <2>13, <2>g, <3>1 DEF BeginClocks, tables
  <2>14. CASE AdvanceLoad
    BY <2>t, <2>14, <2>g DEF AdvanceLoad, tables, clockHistory
  <2>15. CASE AdvanceStore
    <3>1. Advanced(rt.clock, Mine) \in Clock
      BY <2>p, <2>m, ClockUpdates DEF Advanced
    <3>2. tab' \in [Gens -> [Clocks -> Clock]]
      BY <2>t, <2>15, <2>m, <3>1, Cells DEF AdvanceStore, Mine
    <3>3. owed' \subseteq Clocks
      BY <2>t, <2>15, <2>m DEF AdvanceStore
    <3> QED
      BY <2>t, <2>15, <2>g, <3>2, <3>3 DEF AdvanceStore, tables
  <2>16. CASE UNCHANGED clockVars
    BY <2>t, <2>16 DEF clockVars
  <2> QED
    BY <1>2, <2>1, <2>2, <2>3, <2>4, <2>5, <2>6, <2>7, <2>8, <2>9, <2>10, <2>11, <2>12, <2>13,
       <2>14, <2>15, <2>16 DEF ClockNext, Control, Render
<1> QED
  BY <1>1, <1>2, PTL DEF ClockSpec

----------------------------------------------------------------------------
(* The invariant.  Of a table only what the counter says matters: a clock  *)
(* is touched when it was pressed on since the table was carried.          *)

Touched(g, c) == tab[g][c].writes # tab[g][c].carried

(* Graphs are adopted in the order of their tables, ... *)
InOrder ==
  /\ adopted <= published /\ (pushing => adopted < published)
  /\ \A g \in Gens : 0 < g /\ g <= published => source[g] = g - 1
  /\ \A i \in DOMAIN ring :
       adopted < ring[i] /\ ring[i] <= published /\ (pushing => ring[i] < published)
  /\ \A i, j \in DOMAIN ring : i < j => ring[i] < ring[j]

(* ... and until one is dropped, one after the other. *)
NoneMissing ==
  ~lost => /\ \A i \in DOMAIN ring : ring[i] = adopted + i
           /\ published = adopted + Len(ring) + (IF pushing THEN 1 ELSE 0)

(* What the callback has loaded is still so. *)
LoadsStand ==
  /\ rt.pc = "copy" => Fresh = adopted + 1
  /\ rt.pc = "copy" /\ rt.load => ~Touched(Fresh, rt.clock)
  /\ rt.pc = "arm" /\ rt.load => Mine.pending

(* A count is never below what it was carried at, and a press that has     *)
(* counted has touched its clock.                                          *)
CountsStand ==
  /\ \A g \in Gens, c \in Clocks : tab[g][c].carried <= tab[g][c].writes
  /\ todo # <<>> /\ Write.counted /\ adopted < published => Touched(published, Write.clock)

(* The clocks that play, and those of every table on its way that nobody   *)
(* touched later, are as they were last pressed.                           *)
Latest(g, c) == \A h \in Gens : g < h /\ h <= published => ~Touched(h, c)
Stands(g, c) ==
  /\ tab[g][c].seq = intent[c].seq
  /\ intent[c].kind \in {"stop", "choke"} => ~tab[g][c].pending /\ ~tab[g][c].on
PressesStand ==
  \A g \in Gens, c \in Clocks : adopted <= g /\ g <= published /\ Latest(g, c) => Stands(g, c)

(* The clocks copied so far are those of the table that retires. *)
Same(c) == /\ tab[Fresh][c].on = tab[adopted][c].on /\ tab[Fresh][c].pos = tab[adopted][c].pos
           /\ tab[Fresh][c].seq = tab[adopted][c].seq
CopiesAgree ==
  \A c \in Clocks :
    /\ rt.pc = "copy" \/ (rt.pc = "swap" /\ Fresh = adopted + 1)
    /\ rt.pc = "copy" => c < rt.clock
    /\ ~Touched(Fresh, c)
    => Same(c)

(* Two pads of the group sound only while a press that will end one of     *)
(* them goes on; and in a table on its way, whose untouched clocks will    *)
(* yet be copied, a touched pad that sounds has seen the others off.       *)
Ending(c, d) == \E i \in DOMAIN todo : todo[i].kind \in {"stop", "choke"} /\ todo[i].clock \in {c, d}
PlayAlone ==
  \A c, d \in Group :
    c # d /\ tab[adopted][c].on /\ tab[adopted][d].on => adopted = published /\ Ending(c, d)
WillPlayAlone ==
  \A g \in Gens, c, d \in Group :
    adopted < g /\ g <= published /\ c # d /\ Touched(g, c) /\ tab[g][c].on =>
      (Touched(g, d) /\ ~tab[g][d].on) \/ (g = published /\ Ending(c, d))
OneAlone == ~midway /\ ~lost => PlayAlone /\ WillPlayAlone

ClockCore ==
  /\ InOrder /\ NoneMissing /\ LoadsStand /\ CountsStand /\ PlanIs(todo)
  /\ PressesStand /\ CopiesAgree /\ OneAlone
ClockInv == raced \/ ClockCore

----------------------------------------------------------------------------
(* Each action keeps it.                                                   *)

LEMMA ClockFacts ==
  ASSUME ClocksAssumption, BoundsAssumption, ClockTypes
  PROVE  /\ N \in Nat \ {0} /\ MaxGen \in Nat /\ Gens \subseteq Nat /\ Clocks \subseteq Nat
         /\ Group \subseteq Clocks
         /\ published \in Gens /\ adopted \in Gens /\ rt.clock \in Clocks
         /\ tab \in [Gens -> [Clocks -> Clock]] /\ ring \in Seq(Gens)
         /\ \A g \in Gens, c \in Clocks : tab[g][c] \in Clock
         /\ ring # <<>> => Fresh = ring[1] /\ Fresh \in Gens /\ 1 \in DOMAIN ring
         /\ todo # <<>> => /\ Write = todo[1] /\ Write \in Steps /\ Write.clock \in Clocks
                            /\ 1 \in DOMAIN todo
         /\ rt.pc \in {"copy", "swap"} => ring # <<>>
<1>1. /\ N \in Nat \ {0} /\ MaxGen \in Nat /\ Gens \subseteq Nat /\ Clocks \subseteq Nat
      /\ Group \subseteq Clocks
  BY DEF ClocksAssumption, BoundsAssumption, Gens, Clocks
<1>2. /\ published \in Gens /\ adopted \in Gens /\ rt \in RtState
      /\ tab \in [Gens -> [Clocks -> Clock]] /\ ring \in Seq(Gens) /\ todo \in Seq(Steps)
      /\ rt.pc \in {"copy", "swap"} => ring # <<>>
  BY DEF ClockTypes, ClockTypeOK, TakesOver
<1>3. rt.clock \in Clocks
  BY <1>2 DEF RtState
<1>4. ring # <<>> => Fresh = ring[1] /\ Fresh \in Gens /\ 1 \in DOMAIN ring
  BY <1>2 DEF Fresh
<1>5. todo # <<>> => Write = todo[1] /\ Write \in Steps /\ 1 \in DOMAIN todo
  BY <1>2 DEF Write
<1>6. todo # <<>> => Write.clock \in Clocks
  BY <1>5 DEF Steps
<1> QED
  BY <1>1, <1>2, <1>3, <1>4, <1>5, <1>6

LEMMA PressKeeps ==
  ASSUME ClocksAssumption, BoundsAssumption, ClockTypes, ClockCore, Press
  PROVE  ClockCore'
<1>1. PICK c \in Clocks, k \in {"fire", "wait", "stop"} : todo' = Plan(c, k)
  BY DEF Press
<1>2. PlanIs(todo') /\ todo'[1] = Due(c, k) /\ todo' \in Seq(Steps)
  BY <1>1, PlansAreSteps
<1>3. todo' # <<>> => ~Write'.counted
  BY <1>2 DEF Due, Write
<1>4. UNCHANGED <<tab, source, published, pushing, ring, adopted, rt, intent, midway, lost>> /\ todo = <<>>
  BY DEF Press, tables, clockHistory
<1>5. CountsStand'
  BY <1>3, <1>4 DEF ClockCore, CountsStand
<1>6. PlanIs(todo)'
  BY <1>2 DEF PlanIs, Chokes
<1>7. InOrder' /\ NoneMissing' /\ LoadsStand'
  BY <1>4 DEF ClockCore, InOrder, NoneMissing, LoadsStand, Fresh, Touched, Mine
<1>8. PressesStand' /\ CopiesAgree'
  BY <1>4 DEF ClockCore, PressesStand, Latest, Stands, CopiesAgree, Same, Fresh, Touched
<1>9. OneAlone'
  <2>1. \A d, e \in Group : ~Ending(d, e)
    BY <1>4 DEF Ending
  <2> QED
    BY <1>4, <2>1 DEF ClockCore, OneAlone, PlayAlone, WillPlayAlone, Touched
<1> QED
  BY <1>5, <1>6, <1>7, <1>8, <1>9 DEF ClockCore

(* What counting changes. *)
LEMMA CountEffect ==
  ASSUME ClocksAssumption, BoundsAssumption, ClockTypes, Count
  PROVE  \A g \in Gens, c \in Clocks :
           /\ tab'[g][c].on = tab[g][c].on /\ tab'[g][c].pos = tab[g][c].pos
           /\ tab'[g][c].pending = tab[g][c].pending /\ tab'[g][c].seq = tab[g][c].seq
           /\ tab'[g][c].carried = tab[g][c].carried
           /\ tab'[g][c].writes = IF g = published /\ c = Write.clock
                                  THEN tab[g][c].writes + 1 ELSE tab[g][c].writes
<1>1. \A g \in Gens, c \in Clocks :
        tab'[g][c] = IF g = published /\ c = Write.clock
                     THEN [tab[g][c] EXCEPT !.writes = @ + 1] ELSE tab[g][c]
  BY ClockFacts DEF Count
<1>2. \A k \in Clock : LET m == [k EXCEPT !.writes = @ + 1] IN
        /\ m.on = k.on /\ m.pos = k.pos /\ m.pending = k.pending /\ m.seq = k.seq
        /\ m.carried = k.carried /\ m.writes = k.writes + 1
  BY DEF Clock
<1> SUFFICES ASSUME NEW g \in Gens, NEW c \in Clocks
             PROVE  /\ tab'[g][c].on = tab[g][c].on /\ tab'[g][c].pos = tab[g][c].pos
                    /\ tab'[g][c].pending = tab[g][c].pending /\ tab'[g][c].seq = tab[g][c].seq
                    /\ tab'[g][c].carried = tab[g][c].carried
                    /\ tab'[g][c].writes = IF g = published /\ c = Write.clock
                                           THEN tab[g][c].writes + 1 ELSE tab[g][c].writes
  OBVIOUS
<1>3. tab[g][c] \in Clock
  BY ClockFacts
<1> QED
  BY <1>1, <1>2, <1>3

LEMMA CountKeeps ==
  ASSUME ClocksAssumption, BoundsAssumption, ClockTypes, ClockCore, Count, ~raced'
  PROVE  ClockCore'
<1> DEFINE w == Write.clock
<1>0. /\ todo # <<>> /\ ~Write.counted /\ todo' = [todo EXCEPT ![1].counted = TRUE]
      /\ UNCHANGED <<source, published, pushing, ring, adopted, rt, intent, lost>>
      /\ ~InWindow(w) /\ ~Copying(w)
      /\ (~midway' => ~midway /\ ~Midway(w))
  BY DEF Count, tables
<1>1. /\ N \in Nat \ {0} /\ MaxGen \in Nat /\ Gens \subseteq Nat /\ Clocks \subseteq Nat
      /\ Group \subseteq Clocks
      /\ published \in Gens /\ adopted \in Gens /\ rt.clock \in Clocks
      /\ ring # <<>> => Fresh = ring[1] /\ Fresh \in Gens /\ 1 \in DOMAIN ring
      /\ Write = todo[1] /\ Write \in Steps /\ w \in Clocks /\ todo \in Seq(Steps)
      /\ rt.pc \in {"copy", "swap"} => ring # <<>>
  BY <1>0, ClockFacts DEF ClockTypes, ClockTypeOK
<1>2. /\ todo' # <<>> /\ DOMAIN todo' = DOMAIN todo
      /\ \A i \in DOMAIN todo : /\ todo'[i].clock = todo[i].clock /\ todo'[i].kind = todo[i].kind
                                /\ i > 1 => todo'[i] = todo[i]
      /\ Write' = todo'[1] /\ Write'.clock = w
  BY <1>0, <1>1 DEF Write, Steps
<1>3. InOrder' /\ NoneMissing'
  BY <1>0 DEF ClockCore, InOrder, NoneMissing
<1>4. \A g \in Gens, c \in Clocks :
        /\ Touched(g, c)' = (Touched(g, c) \/ (g = published /\ c = w))
        /\ tab'[g][c].carried <= tab'[g][c].writes
  BY <1>1, CountEffect, ClockFacts, ClockFields DEF ClockCore, CountsStand, Touched
<1>5. CountsStand'
  BY <1>0, <1>1, <1>2, <1>4 DEF CountsStand
<1>6. PlanIs(todo)'
  BY <1>0, <1>1, <1>2 DEF ClockCore, PlanIs, Chokes
<1>7. LoadsStand'
  <2>1. rt.pc = "copy" /\ rt.load => ~(Fresh = published /\ rt.clock = w)
    BY <1>0, <1>1 DEF Copying, Fresh
  <2> QED
    BY <1>0, <1>1, <1>4, <2>1, CountEffect DEF ClockCore, LoadsStand, Fresh, Mine
<1>8. PressesStand'
  <2> SUFFICES ASSUME NEW g \in Gens, NEW c \in Clocks, adopted <= g, g <= published, Latest(g, c)'
               PROVE  Stands(g, c)'
    BY <1>0 DEF PressesStand
  <2>1. Latest(g, c)
    BY <1>0, <1>4 DEF Latest
  <2>2. Stands(g, c)
    BY <2>1 DEF ClockCore, PressesStand
  <2> QED
    BY <1>0, <2>2, CountEffect DEF Stands
<1>9. CopiesAgree'
  <2> SUFFICES ASSUME NEW c \in Clocks, rt.pc = "copy" \/ (rt.pc = "swap" /\ Fresh = adopted + 1),
                      rt.pc = "copy" => c < rt.clock, ~Touched(Fresh, c)'
               PROVE  Same(c)'
    BY <1>0 DEF CopiesAgree, Fresh, Touched
  <2>1. Fresh \in Gens /\ Fresh' = Fresh
    BY <1>0, <1>1 DEF Fresh
  <2>2. Touched(Fresh, c)' = Touched(Fresh, c)'
    OBVIOUS
  <2>3. ~Touched(Fresh, c)
    BY <1>0, <1>4, <2>1 DEF Touched
  <2>4. Same(c)
    BY <2>3 DEF ClockCore, CopiesAgree
  <2> QED
    BY <1>0, <1>1, <2>1, <2>4, CountEffect DEF Same
<1>10. OneAlone'
  <2> SUFFICES ASSUME ~midway', ~lost' PROVE PlayAlone' /\ WillPlayAlone'
    BY DEF OneAlone
  <2>1. \A c, d \in Group : Ending(c, d)' = Ending(c, d)
    BY <1>2 DEF Ending
  <2>2. PlayAlone /\ WillPlayAlone
    BY <1>0 DEF ClockCore, OneAlone
  <2>3. PlayAlone'
    BY <1>0, <1>1, <2>1, <2>2, CountEffect DEF PlayAlone
  <2>4. adopted < published => \A d \in Group : w \in Group /\ w # d => Ending(w, d)
    <3> SUFFICES ASSUME adopted < published, NEW d \in Group, w \in Group, w # d PROVE Ending(w, d)
      OBVIOUS
    <3>1. Write.kind # "wait"
      BY <1>0, <1>1 DEF Midway
    <3>2. CASE Write.kind = "fire"
      BY <1>0, <1>1, <3>2 DEF ClockCore, PlanIs, Ending, Chokes
    <3>3. CASE Write.kind \in {"stop", "choke"}
      BY <1>0, <1>1, <3>3, ClockFacts DEF Ending
    <3> QED
      BY <3>1, <3>2, <3>3, <1>1 DEF Steps
  <2>5. WillPlayAlone'
    <3> SUFFICES ASSUME NEW g \in Gens, NEW c \in Group, NEW d \in Group,
                        adopted < g, g <= published, c # d, Touched(g, c)', tab[g][c].on
                 PROVE  (Touched(g, d)' /\ ~tab[g][d].on) \/ (g = published /\ Ending(c, d))
      BY <1>0, <1>1, <2>1, CountEffect DEF WillPlayAlone
    <3>1. CASE Touched(g, c)
      BY <1>1, <1>4, <2>2, <3>1 DEF WillPlayAlone
    <3>2. CASE g = published /\ c = w
      BY <1>1, <2>4, <3>2
    <3> QED
      BY <1>1, <1>4, <3>1, <3>2
  <2> QED
    BY <2>3, <2>5
<1> QED
  BY <1>3, <1>5, <1>6, <1>7, <1>8, <1>9, <1>10 DEF ClockCore

(* What storing changes. *)
LEMMA StoreEffect ==
  ASSUME ClocksAssumption, BoundsAssumption, ClockTypes, Store
  PROVE  /\ \A g \in Gens, c \in Clocks :
              /\ tab'[g][c].writes = tab[g][c].writes /\ tab'[g][c].carried = tab[g][c].carried
              /\ ~(g = published /\ c = Write.clock) => tab'[g][c] = tab[g][c]
         /\ LET k == tab[published][Write.clock]
                m == tab'[published][Write.clock]
            IN  /\ m.seq = IF Write.kind \in {"fire", "wait"} THEN presses ELSE k.seq
                /\ Write.kind \in {"stop", "choke"} => ~m.on /\ ~m.pending
                /\ Write.kind = "wait" => m.on = k.on
<1> DEFINE w == Write.clock
           n(k) == CASE Write.kind = "fire" -> Fired(k)
                     [] Write.kind = "wait" -> Armed(k)
                     [] OTHER -> Stopped(k)
<1>0. published \in Gens /\ w \in Clocks /\ tab \in [Gens -> [Clocks -> Clock]] /\ tab[published][w] \in Clock
  BY ClockFacts DEF Store
<1>1. tab' = [tab EXCEPT ![published] = [tab[published] EXCEPT ![w] = n(tab[published][w])]]
  BY DEF Store
<1>2. \A k \in Clock : /\ Fired(k).writes = k.writes /\ Fired(k).carried = k.carried /\ Fired(k).seq = presses
                       /\ Armed(k).writes = k.writes /\ Armed(k).carried = k.carried /\ Armed(k).seq = presses
                       /\ Armed(k).on = k.on
                       /\ Stopped(k).writes = k.writes /\ Stopped(k).carried = k.carried
                       /\ Stopped(k).seq = k.seq /\ ~Stopped(k).on /\ ~Stopped(k).pending
  BY DEF Clock, Fired, Armed, Stopped
<1>3. Write.kind \in {"fire", "wait", "stop", "choke"}
  BY ClockFacts DEF Store, Steps
<1>4. \A k \in Clock : /\ n(k).writes = k.writes /\ n(k).carried = k.carried
                       /\ n(k).seq = IF Write.kind \in {"fire", "wait"} THEN presses ELSE k.seq
                       /\ Write.kind \in {"stop", "choke"} => ~n(k).on /\ ~n(k).pending
                       /\ Write.kind = "wait" => n(k).on = k.on
  BY <1>2, <1>3
<1> HIDE DEF n, w
<1>5. tab'[published][w] = n(tab[published][w])
  BY <1>0, <1>1
<1>6. \A g \in Gens, c \in Clocks : ~(g = published /\ c = w) => tab'[g][c] = tab[g][c]
  BY <1>0, <1>1
<1>7. \A g \in Gens, c \in Clocks : tab'[g][c].writes = tab[g][c].writes /\ tab'[g][c].carried = tab[g][c].carried
  BY <1>0, <1>4, <1>5, <1>6
<1> QED
  BY <1>0, <1>4, <1>5, <1>6, <1>7 DEF w

LEMMA StoreKeeps ==
  ASSUME ClocksAssumption, BoundsAssumption, ClockTypes, ClockCore, Store, ~raced'
  PROVE  ClockCore'
<1> DEFINE w == Write.clock
           sets == Write.kind \in {"stop", "choke"}
<1>0. /\ todo # <<>> /\ Write.counted /\ todo' = Tail(todo)
      /\ UNCHANGED <<source, published, pushing, ring, adopted, rt, lost>>
      /\ intent' = [intent EXCEPT ![w] =
                      [kind |-> Write.kind,
                       seq |-> IF Write.kind \in {"fire", "wait"} THEN presses ELSE @.seq]]
      /\ ~InWindow(w)
      /\ (~midway' => ~midway /\ ~Midway(w))
  BY DEF Store, tables
<1>1. /\ N \in Nat \ {0} /\ MaxGen \in Nat /\ Gens \subseteq Nat /\ Clocks \subseteq Nat
      /\ Group \subseteq Clocks
      /\ published \in Gens /\ adopted \in Gens /\ rt.clock \in Clocks
      /\ ring # <<>> => Fresh = ring[1] /\ Fresh \in Gens /\ 1 \in DOMAIN ring
      /\ Write = todo[1] /\ w \in Clocks /\ todo \in Seq(Steps)
      /\ rt.pc \in {"copy", "swap"} => ring # <<>>
      /\ intent \in [Clocks -> Intents]
      /\ Write.kind \in {"fire", "wait", "stop", "choke"}
  BY <1>0, ClockFacts DEF ClockTypes, ClockTypeOK, Steps
<1>2. /\ todo' \in Seq(Steps) /\ Len(todo') = Len(todo) - 1
      /\ \A i \in DOMAIN todo' : i + 1 \in DOMAIN todo /\ i + 1 > 1 /\ todo'[i] = todo[i + 1]
      /\ \A i \in DOMAIN todo : i > 1 => i - 1 \in DOMAIN todo' /\ todo'[i - 1] = todo[i]
      /\ todo' # <<>> => Write' = todo'[1] /\ 1 \in DOMAIN todo'
  BY <1>0, <1>1 DEF Write
<1> HIDE DEF w
<1>3. InOrder' /\ NoneMissing'
  BY <1>0 DEF ClockCore, InOrder, NoneMissing
<1>4. adopted < published => Touched(published, w)
  BY <1>0 DEF ClockCore, CountsStand, w
<1>5. \A g \in Gens, c \in Clocks : /\ tab'[g][c].writes = tab[g][c].writes
                                    /\ tab'[g][c].carried = tab[g][c].carried
                                    /\ ~(g = published /\ c = w) => tab'[g][c] = tab[g][c]
  BY StoreEffect DEF w
<1>p. \A i \in DOMAIN todo' : todo'[i].kind = "choke" /\ ~todo'[i].counted
  <2> SUFFICES ASSUME NEW i \in DOMAIN todo' PROVE todo'[i].kind = "choke" /\ ~todo'[i].counted
    OBVIOUS
  <2>1. PICK j \in DOMAIN todo : j > 1 /\ todo'[i] = todo[j]
    BY <1>2
  <2> QED
    BY <2>1 DEF ClockCore, PlanIs
<1>6. CountsStand'
  <2>1. todo' # <<>> => ~Write'.counted
    BY <1>2, <1>p
  <2> QED
    BY <1>5, <2>1 DEF ClockCore, CountsStand
<1>7. PlanIs(todo)'
  BY <1>2, <1>p DEF PlanIs
<1>8. LoadsStand'
  <2>1. rt.pc = "arm" /\ rt.load => ~(adopted = published /\ rt.clock = w)
    BY <1>0 DEF InWindow
  <2> QED
    BY <1>0, <1>1, <1>5, <2>1 DEF ClockCore, LoadsStand, Fresh, Mine, Touched
<1>9. PressesStand'
  <2> SUFFICES ASSUME NEW g \in Gens, NEW c \in Clocks, adopted <= g, g <= published, Latest(g, c)'
               PROVE  Stands(g, c)'
    BY <1>0 DEF PressesStand
  <2>1. Latest(g, c)
    BY <1>0, <1>5 DEF Latest, Touched
  <2>2. Stands(g, c)
    BY <2>1 DEF ClockCore, PressesStand
  <2>3. CASE c # w
    BY <1>0, <1>5, <2>2, <2>3 DEF Stands
  <2>4. CASE c = w
    <3>1. g = published
      <4>1. g < published => Touched(published, w)
        BY <1>1, <1>4
      <4> QED
        BY <1>1, <2>1, <2>4, <4>1 DEF Latest
    <3>2. intent'[c].kind = Write.kind
          /\ intent'[c].seq = IF Write.kind \in {"fire", "wait"} THEN presses ELSE intent[c].seq
      BY <1>0, <1>1, <2>4
    <3> QED
      BY <1>1, <2>2, <2>4, <3>1, <3>2, StoreEffect DEF Stands, w
  <2> QED
    BY <2>3, <2>4
<1>10. CopiesAgree'
  <2> SUFFICES ASSUME NEW c \in Clocks, rt.pc = "copy" \/ (rt.pc = "swap" /\ Fresh = adopted + 1),
                      rt.pc = "copy" => c < rt.clock, ~Touched(Fresh, c)'
               PROVE  Same(c)'
    BY <1>0 DEF CopiesAgree, Fresh, Touched
  <2>1. /\ Fresh \in Gens /\ Fresh' = Fresh /\ adopted < Fresh /\ Fresh <= published
    BY <1>0, <1>1 DEF Fresh, ClockCore, InOrder
  <2>2. ~Touched(Fresh, c)
    BY <1>0, <1>5, <2>1 DEF Touched
  <2>3. Same(c)
    BY <2>2 DEF ClockCore, CopiesAgree
  <2>4. ~(Fresh = published /\ c = w) /\ adopted # published
    BY <1>1, <1>4, <2>1, <2>2
  <2>5. tab'[Fresh][c] = tab[Fresh][c] /\ tab'[adopted][c] = tab[adopted][c]
    BY <1>1, <1>5, <2>1, <2>4
  <2> QED
    BY <1>0, <2>1, <2>3, <2>5 DEF Same
<1>11. OneAlone'
  <2> SUFFICES ASSUME ~midway', ~lost' PROVE PlayAlone' /\ WillPlayAlone'
    BY DEF OneAlone
  <2>1. PlayAlone /\ WillPlayAlone
    BY <1>0 DEF ClockCore, OneAlone
  <2>2. \A c, d \in Group : Ending(c, d) /\ ~(sets /\ w \in {c, d}) => Ending(c, d)'
    <3> SUFFICES ASSUME NEW c \in Group, NEW d \in Group, Ending(c, d), ~(sets /\ w \in {c, d})
                 PROVE  Ending(c, d)'
      OBVIOUS
    <3>1. PICK i \in DOMAIN todo : todo[i].kind \in {"stop", "choke"} /\ todo[i].clock \in {c, d}
      BY DEF Ending
    <3>2. i \in Nat /\ i # 1 /\ i > 1
      BY <1>1, <3>1 DEF w
    <3>3. i - 1 \in DOMAIN todo' /\ todo'[i - 1] = todo[i]
      BY <1>2, <3>2
    <3> QED
      BY <3>1, <3>3 DEF Ending
  <2>3. Write.kind = "fire" => \A c, d \in Group : c # d /\ w \in {c, d} => Ending(c, d)'
    <3> SUFFICES ASSUME Write.kind = "fire", NEW c \in Group, NEW d \in Group, c # d, w \in {c, d}
                 PROVE  Ending(c, d)'
      OBVIOUS
    <3>1. PICK e \in {c, d} : e \in Chokes(w)
      BY DEF Chokes
    <3>2. PICK i \in DOMAIN todo : i > 1 /\ todo[i].clock = e
      BY <1>0, <1>1, <3>1 DEF ClockCore, PlanIs, w
    <3>3. todo[i].kind = "choke"
      BY <3>2 DEF ClockCore, PlanIs
    <3>4. i - 1 \in DOMAIN todo' /\ todo'[i - 1] = todo[i]
      BY <1>2, <3>2
    <3> QED
      BY <3>1, <3>2, <3>3, <3>4 DEF Ending
  <2>4. Write.kind = "wait" => adopted = published
    BY <1>0, <1>1 DEF Midway
  <2>5. sets => ~tab'[published][w].on
    BY StoreEffect DEF w
  <2>6. Write.kind = "wait" => tab'[published][w].on = tab[published][w].on
    BY StoreEffect DEF w
  <2>7. PlayAlone'
    <3> SUFFICES ASSUME NEW c \in Group, NEW d \in Group, c # d, tab'[adopted][c].on, tab'[adopted][d].on
                 PROVE  adopted = published /\ Ending(c, d)'
      BY <1>0 DEF PlayAlone
    <3>1. CASE Write.kind = "fire" /\ adopted = published /\ w \in {c, d}
      BY <2>3, <3>1
    <3>2. CASE ~(Write.kind = "fire" /\ adopted = published /\ w \in {c, d})
      <4>1. tab[adopted][c].on /\ tab[adopted][d].on
        BY <1>1, <1>5, <2>5, <2>6, <3>2
      <4>2. adopted = published /\ Ending(c, d)
        BY <2>1, <4>1 DEF PlayAlone
      <4>3. ~(sets /\ w \in {c, d})
        BY <2>5, <4>2
      <4> QED
        BY <2>2, <4>2, <4>3
    <3> QED
      BY <3>1, <3>2
  <2>8. WillPlayAlone'
    <3> SUFFICES ASSUME NEW g \in Gens, NEW c \in Group, NEW d \in Group,
                        adopted < g, g <= published, c # d, Touched(g, c), tab'[g][c].on
                 PROVE  (Touched(g, d) /\ ~tab'[g][d].on) \/ (g = published /\ Ending(c, d)')
      BY <1>0, <1>1, <1>5 DEF WillPlayAlone, Touched
    <3>1. CASE g = published /\ w \in {c, d} /\ Write.kind = "fire"
      BY <2>3, <3>1
    <3>2. CASE g = published /\ w = d /\ sets
      BY <1>1, <1>4, <2>5, <3>2
    <3>3. CASE ~(g = published /\ w \in {c, d})
      <4>1. tab'[g][c] = tab[g][c] /\ tab'[g][d] = tab[g][d]
        BY <1>1, <1>5, <3>3
      <4> QED
        BY <2>1, <2>2, <3>3, <4>1 DEF WillPlayAlone
    <3>4. ~(g = published /\ w = c /\ sets)
      BY <2>5
    <3>5. ~(g = published /\ Write.kind = "wait")
      BY <1>1, <2>4
    <3> QED
      BY <1>1, <3>1, <3>2, <3>3, <3>4, <3>5
  <2> QED
    BY <2>7, <2>8
<1> QED
  BY <1>3, <1>6, <1>7, <1>8, <1>9, <1>10, <1>11 DEF ClockCore

LEMMA CancelKeeps ==
  ASSUME ClocksAssumption, BoundsAssumption, ClockTypes, ClockCore, Cancel, ~raced'
  PROVE  ClockCore'
<1>0. /\ todo = <<>> /\ UNCHANGED <<source, published, pushing, ring, adopted, rt, todo, midway, lost>>
      /\ intent' = [c \in Clocks |-> IF intent[c].kind = "wait" THEN [intent[c] EXCEPT !.kind = "cancel"]
                                    ELSE intent[c]]
      /\ \A c \in Clocks : ~InWindow(c)
  BY DEF Cancel, tables
<1>1. /\ N \in Nat \ {0} /\ MaxGen \in Nat /\ Gens \subseteq Nat /\ Clocks \subseteq Nat
      /\ Group \subseteq Clocks
      /\ published \in Gens /\ adopted \in Gens /\ rt.clock \in Clocks
      /\ ring # <<>> => Fresh = ring[1] /\ Fresh \in Gens /\ 1 \in DOMAIN ring
      /\ rt.pc \in {"copy", "swap"} => ring # <<>>
      /\ intent \in [Clocks -> Intents]
  BY ClockFacts DEF ClockTypes, ClockTypeOK
<1>2. \A g \in Gens, c \in Clocks :
        /\ tab'[g][c].on = tab[g][c].on /\ tab'[g][c].pos = tab[g][c].pos /\ tab'[g][c].seq = tab[g][c].seq
        /\ tab'[g][c].carried = tab[g][c].carried /\ tab'[g][c].writes = tab[g][c].writes
        /\ g # published => tab'[g][c].pending = tab[g][c].pending
        /\ tab'[g][c].pending => tab[g][c].pending
  <2>1. \A k \in Clock : LET m == [k EXCEPT !.pending = FALSE] IN
          /\ m.on = k.on /\ m.pos = k.pos /\ m.seq = k.seq /\ m.carried = k.carried
          /\ m.writes = k.writes /\ ~m.pending
    BY DEF Clock
  <2>2. \A g \in Gens, c \in Clocks :
          tab'[g][c] = IF g = published THEN [tab[g][c] EXCEPT !.pending = FALSE] ELSE tab[g][c]
    BY <1>1, ClockFacts DEF Cancel
  <2> SUFFICES ASSUME NEW g \in Gens, NEW c \in Clocks
               PROVE  /\ tab'[g][c].on = tab[g][c].on /\ tab'[g][c].pos = tab[g][c].pos
                      /\ tab'[g][c].seq = tab[g][c].seq
                      /\ tab'[g][c].carried = tab[g][c].carried /\ tab'[g][c].writes = tab[g][c].writes
                      /\ g # published => tab'[g][c].pending = tab[g][c].pending
                      /\ tab'[g][c].pending => tab[g][c].pending
    OBVIOUS
  <2>3. tab[g][c] \in Clock
    BY ClockFacts
  <2> QED
    BY <2>1, <2>2, <2>3
<1>3. InOrder' /\ NoneMissing' /\ PlanIs(todo)'
  BY <1>0 DEF ClockCore, InOrder, NoneMissing, PlanIs, Chokes
<1>4. CountsStand'
  BY <1>0, <1>2 DEF ClockCore, CountsStand
<1>5. LoadsStand'
  <2>1. rt.pc = "arm" /\ rt.load => adopted # published
    BY <1>0, <1>1 DEF InWindow
  <2> QED
    BY <1>0, <1>1, <1>2, <2>1 DEF ClockCore, LoadsStand, Fresh, Mine, Touched
<1>6. PressesStand'
  <2> SUFFICES ASSUME NEW g \in Gens, NEW c \in Clocks, adopted <= g, g <= published, Latest(g, c)'
               PROVE  Stands(g, c)'
    BY <1>0 DEF PressesStand
  <2>1. Latest(g, c)
    BY <1>0, <1>2 DEF Latest, Touched
  <2>2. Stands(g, c)
    BY <2>1 DEF ClockCore, PressesStand
  <2>3. intent'[c].seq = intent[c].seq /\ (intent'[c].kind \in {"stop", "choke"} => intent[c].kind \in {"stop", "choke"})
    BY <1>0, <1>1 DEF Intents
  <2> QED
    BY <1>2, <2>2, <2>3 DEF Stands
<1>7. CopiesAgree'
  BY <1>0, <1>1, <1>2 DEF ClockCore, CopiesAgree, Same, Fresh, Touched
<1>8. OneAlone'
  <2>1. \A c, d \in Group : Ending(c, d)' = Ending(c, d)
    BY <1>0 DEF Ending
  <2>2. PlayAlone => PlayAlone'
    BY <1>0, <1>1, <1>2, <2>1 DEF PlayAlone
  <2>3. WillPlayAlone => WillPlayAlone'
    BY <1>0, <1>1, <1>2, <2>1 DEF WillPlayAlone, Touched
  <2> QED
    BY <1>0, <2>2, <2>3 DEF ClockCore, OneAlone
<1> QED
  BY <1>3, <1>4, <1>5, <1>6, <1>7, <1>8 DEF ClockCore

LEMMA PublishKeeps ==
  ASSUME ClocksAssumption, BoundsAssumption, ClockTypes, ClockCore, Publish
  PROVE  ClockCore'
<1> DEFINE n == published + 1
<1>0. /\ todo = <<>> /\ ~pushing /\ published < MaxGen /\ published' = n /\ pushing' = TRUE
      /\ source' = [source EXCEPT ![n] = published]
      /\ tab' = [tab EXCEPT ![n] = [c \in Clocks |-> Carry(tab[published][c])]]
      /\ UNCHANGED <<ring, adopted, rt, todo, intent, midway, lost>>
  BY DEF Publish, clockHistory
<1>1. /\ MaxGen \in Nat /\ Gens = 0..MaxGen /\ Clocks \subseteq Nat /\ Group \subseteq Clocks
      /\ published \in Gens /\ adopted \in Gens /\ rt.clock \in Clocks
      /\ ring # <<>> => Fresh = ring[1] /\ Fresh \in Gens /\ 1 \in DOMAIN ring
      /\ rt.pc \in {"copy", "swap"} => ring # <<>>
      /\ source \in [Gens -> Gens] /\ ring \in Seq(Gens)
      /\ tab \in [Gens -> [Clocks -> Clock]]
  BY ClockFacts DEF ClockTypes, ClockTypeOK, Gens
<1>2. n \in Gens /\ n \in Nat /\ published \in Nat /\ adopted \in Nat
  BY <1>0, <1>1
<1>3. /\ \A g \in Gens : g # n => tab'[g] = tab[g] /\ source'[g] = source[g]
      /\ source'[n] = published
      /\ \A c \in Clocks : tab'[n][c] = Carry(tab[published][c])
  BY <1>0, <1>1, <1>2
<1>4. \A c \in Clocks :
        /\ tab'[n][c].on = tab[published][c].on /\ tab'[n][c].pending = tab[published][c].pending
        /\ tab'[n][c].seq = tab[published][c].seq
        /\ tab'[n][c].carried = tab'[n][c].writes /\ tab'[n][c].writes \in Nat
  <2>1. \A k \in Clock :
          /\ Carry(k).on = k.on /\ Carry(k).pending = k.pending /\ Carry(k).seq = k.seq
          /\ Carry(k).carried = Carry(k).writes /\ Carry(k).writes \in Nat
    BY DEF Clock, Carry
  <2>2. \A c \in Clocks : tab[published][c] \in Clock
    BY <1>1, ClockFacts
  <2> QED
    BY <1>3, <2>1, <2>2
<1> HIDE DEF n
<1>5. published < n /\ \A g \in Gens : g <= published => g # n /\ g <= n
  BY <1>1, <1>2 DEF n
<1>6. \A g \in Gens : g <= n => g <= published \/ g = n
  BY <1>1, <1>2 DEF n
<1>7. InOrder'
  <2>1. adopted <= published /\ adopted < n
    BY <1>1, <1>2, <1>5 DEF ClockCore, InOrder
  <2>2. \A g \in Gens : 0 < g /\ g <= n => source'[g] = g - 1
    <3>1. source'[n] = n - 1
      BY <1>2, <1>3 DEF n
    <3> QED
      BY <1>3, <1>5, <1>6, <3>1 DEF ClockCore, InOrder
  <2>3. \A i \in DOMAIN ring : ring[i] \in Nat /\ ring[i] <= published /\ ring[i] < n /\ adopted < ring[i]
    <3> SUFFICES ASSUME NEW i \in DOMAIN ring
                 PROVE  ring[i] \in Nat /\ ring[i] <= published /\ ring[i] < n /\ adopted < ring[i]
      OBVIOUS
    <3>1. ring[i] \in Gens
      BY <1>1
    <3>2. ring[i] \in Nat
      BY <1>1, <3>1
    <3>3. ring[i] <= published /\ adopted < ring[i]
      BY DEF ClockCore, InOrder
    <3> QED
      BY <1>2, <1>5, <3>2, <3>3
  <2> QED
    BY <1>0, <1>2, <2>1, <2>2, <2>3 DEF ClockCore, InOrder
<1>8. NoneMissing'
  BY <1>0, <1>1, <1>2 DEF ClockCore, NoneMissing, n
<1>9. adopted # n /\ (ring # <<>> => Fresh # n)
  BY <1>1, <1>2, <1>5 DEF ClockCore, InOrder
<1>10. LoadsStand'
  BY <1>0, <1>1, <1>3, <1>9 DEF ClockCore, LoadsStand, Fresh, Mine, Touched
<1>11. CountsStand'
  BY <1>0, <1>3, <1>4 DEF ClockCore, CountsStand
<1>12. PressesStand'
  <2> SUFFICES ASSUME NEW g \in Gens, NEW c \in Clocks, adopted <= g, g <= n, Latest(g, c)'
               PROVE  Stands(g, c)'
    BY <1>0 DEF PressesStand
  <2>1. CASE g = n
    <3>1. Latest(published, c)
      BY <1>1 DEF Latest
    <3>2. Stands(published, c)
      BY <1>1, <3>1 DEF ClockCore, PressesStand, InOrder
    <3> QED
      BY <1>0, <1>4, <2>1, <3>2 DEF Stands
  <2>2. CASE g <= published
    <3>1. Latest(g, c)
      BY <1>0, <1>3, <1>5 DEF Latest, Touched
    <3>2. Stands(g, c)
      BY <2>2, <3>1 DEF ClockCore, PressesStand
    <3> QED
      BY <1>0, <1>3, <1>5, <2>2, <3>2 DEF Stands
  <2> QED
    BY <1>6, <2>1, <2>2
<1>13. CopiesAgree'
  BY <1>0, <1>1, <1>3, <1>9 DEF ClockCore, CopiesAgree, Same, Fresh, Touched
<1>14. OneAlone'
  <2>1. \A c, d \in Group : ~Ending(c, d)
    BY <1>0 DEF Ending
  <2>3. ~midway /\ ~lost => PlayAlone' /\ WillPlayAlone'
    <3> SUFFICES ASSUME ~midway, ~lost PROVE PlayAlone' /\ WillPlayAlone'
      OBVIOUS
    <3>1. PlayAlone /\ WillPlayAlone
      BY DEF ClockCore, OneAlone
    <3>2. PlayAlone'
      BY <1>0, <1>1, <1>3, <1>9, <2>1, <3>1 DEF PlayAlone
    <3>3. WillPlayAlone'
      <4> SUFFICES ASSUME NEW g \in Gens, NEW c \in Group, NEW d \in Group,
                          adopted < g, g <= n, c # d, Touched(g, c)', tab'[g][c].on
                   PROVE  Touched(g, d)' /\ ~tab'[g][d].on
        BY <1>0 DEF WillPlayAlone
      <4>1. g <= published /\ g # n
        <5>1. g # n
          BY <1>0, <1>1, <1>4 DEF Touched
        <5> QED
          BY <1>6, <5>1
      <4>2. tab'[g] = tab[g] /\ Touched(g, c)
        BY <1>3, <4>1 DEF Touched
      <4>3. Touched(g, d) /\ ~tab[g][d].on
        BY <2>1, <3>1, <4>1, <4>2 DEF WillPlayAlone
      <4> QED
        BY <4>2, <4>3 DEF Touched
    <3> QED
      BY <3>2, <3>3
  <2> QED
    BY <1>0, <2>3 DEF OneAlone
<1>15. PlanIs(todo)'
  BY <1>0 DEF PlanIs
<1> QED
  BY <1>7, <1>8, <1>10, <1>11, <1>12, <1>13, <1>14, <1>15 DEF ClockCore

LEMMA PushKeeps ==
  ASSUME ClocksAssumption, BoundsAssumption, ClockTypes, ClockCore, PushGraph
  PROVE  ClockCore'
<1>0. /\ pushing /\ pushing' = FALSE
      /\ \/ ring' = Append(ring, published) /\ lost' = lost
         \/ lost' = TRUE /\ ring' = ring
      /\ UNCHANGED <<tab, source, published, adopted, rt, todo, intent, midway>>
  BY DEF PushGraph
<1>1. /\ Gens \subseteq Nat /\ published \in Gens /\ adopted \in Gens /\ ring \in Seq(Gens)
      /\ published \in Nat /\ adopted \in Nat
      /\ rt.pc \in {"copy", "swap"} => ring # <<>>
  BY ClockFacts
<1> DEFINE m == Append(ring, published)
<1>2. /\ Len(m) = Len(ring) + 1 /\ m[Len(ring) + 1] = published /\ DOMAIN m = 1..(Len(ring) + 1)
      /\ \A i \in DOMAIN ring : m[i] = ring[i] /\ i \in DOMAIN m
      /\ \A i \in DOMAIN m : i \in DOMAIN ring \/ i = Len(ring) + 1
      /\ DOMAIN ring = 1..Len(ring) /\ Len(ring) \in Nat
  BY <1>1
<1> HIDE DEF m
<1>3. InOrder'
  <2>1. CASE ring' = ring
    BY <1>0, <2>1 DEF ClockCore, InOrder
  <2>2. CASE ring' = m
    <3>1. \A i \in DOMAIN m : adopted < m[i] /\ m[i] <= published
      BY <1>0, <1>1, <1>2 DEF ClockCore, InOrder
    <3>2. \A i, j \in DOMAIN m : i < j => m[i] < m[j]
      <4> SUFFICES ASSUME NEW i \in DOMAIN m, NEW j \in DOMAIN m, i < j PROVE m[i] < m[j]
        OBVIOUS
      <4>1. i \in DOMAIN ring
        BY <1>2
      <4>2. CASE j \in DOMAIN ring
        BY <1>2, <4>1, <4>2 DEF ClockCore, InOrder
      <4>3. CASE j = Len(ring) + 1
        BY <1>0, <1>2, <4>1, <4>3 DEF ClockCore, InOrder
      <4> QED
        BY <1>2, <4>2, <4>3
    <3> QED
      BY <1>0, <2>2, <3>1, <3>2 DEF ClockCore, InOrder
  <2> QED
    BY <1>0, <2>1, <2>2 DEF m
<1>4. NoneMissing'
  <2> SUFFICES ASSUME ~lost' PROVE /\ \A i \in DOMAIN ring' : ring'[i] = adopted + i
                                   /\ published = adopted + Len(ring') + 0
    BY <1>0 DEF NoneMissing
  <2>1. ~lost /\ ring' = m
    BY <1>0 DEF m
  <2>2. (\A i \in DOMAIN ring : ring[i] = adopted + i) /\ published = adopted + Len(ring) + 1
    BY <1>0, <2>1 DEF ClockCore, NoneMissing
  <2> QED
    BY <1>1, <1>2, <2>1, <2>2
<1>5. ring # <<>> => Fresh' = Fresh
  BY <1>0, <1>1 DEF Fresh
<1>6. LoadsStand'
  BY <1>0, <1>1, <1>5 DEF ClockCore, LoadsStand, Mine, Touched
<1>7. CountsStand' /\ PlanIs(todo)' /\ PressesStand'
  BY <1>0 DEF ClockCore, CountsStand, PlanIs, PressesStand, Latest, Stands, Touched, Write, Chokes
<1>8. CopiesAgree'
  BY <1>0, <1>1, <1>5 DEF ClockCore, CopiesAgree, Same, Touched
<1>9. OneAlone'
  <2>1. ~lost' => ~lost
    BY <1>0
  <2> QED
    BY <1>0, <2>1 DEF ClockCore, OneAlone, PlayAlone, WillPlayAlone, Touched, Ending
<1> QED
  BY <1>3, <1>4, <1>6, <1>7, <1>8, <1>9 DEF ClockCore

(* Where the callback goes. *)
LEMMA ClockSteps ==
  ASSUME ClocksAssumption, BoundsAssumption, ClockTypes
  PROVE  /\ \A p \in {"adopt", "copy", "swap", "arm", "begin", "advance"} :
              /\ Go(p).pc = p /\ ~Go(p).load /\ Go(p).clock = 1
              /\ ~NextClock(p).load
              /\ \/ NextClock(p).pc = rt.pc /\ NextClock(p).clock = rt.clock + 1
                 \/ rt.clock = N /\ NextClock(p).pc = p /\ NextClock(p).clock = 1
         /\ Loaded.pc = rt.pc /\ Loaded.load /\ Loaded.clock = rt.clock
         /\ \A c \in Clocks : ~(c < 1) /\ (c < rt.clock + 1 => c < rt.clock \/ c = rt.clock)
                            /\ (rt.clock = N => c < rt.clock \/ c = rt.clock)
<1>0. rt \in RtState
  BY DEF ClockTypes, ClockTypeOK
<1>1. N \in Nat \ {0} /\ rt.clock \in 1..N /\ Clocks = 1..N
  BY ClockFacts DEF Clocks
<1>2. \A p \in {"adopt", "copy", "swap", "arm", "begin", "advance"} : Go(p).pc = p /\ ~Go(p).load /\ Go(p).clock = 1
  BY DEF Go
<1>3. Loaded.pc = rt.pc /\ Loaded.load /\ Loaded.clock = rt.clock
  BY <1>0 DEF Loaded, RtState
<1>4. LET m == [rt EXCEPT !.clock = @ + 1, !.load = FALSE]
      IN  m.pc = rt.pc /\ m.clock = rt.clock + 1 /\ ~m.load
  BY <1>0 DEF RtState
<1>5. ~(rt.clock < N) => rt.clock = N
  BY <1>1
<1>6. \A c \in Clocks : ~(c < 1) /\ (c < rt.clock + 1 => c < rt.clock \/ c = rt.clock)
                      /\ (rt.clock = N => c < rt.clock \/ c = rt.clock)
  BY <1>1
<1>7. \A p \in {"adopt", "copy", "swap", "arm", "begin", "advance"} :
              /\ ~NextClock(p).load
              /\ \/ NextClock(p).pc = rt.pc /\ NextClock(p).clock = rt.clock + 1
                 \/ rt.clock = N /\ NextClock(p).pc = p /\ NextClock(p).clock = 1
  BY <1>2, <1>4, <1>5 DEF NextClock
<1> QED
  BY <1>2, <1>3, <1>6, <1>7

(* Steps that change no clock and no graph. *)
LEMMA SilentKeeps ==
  ASSUME ClocksAssumption, BoundsAssumption, ClockTypes, ClockCore,
         UNCHANGED <<tab, tables, adopted, todo, clockHistory>>, LoadsStand', CopiesAgree'
  PROVE  ClockCore'
<1>1. UNCHANGED <<tab, source, published, pushing, ring, adopted, todo, intent, midway, lost>>
  BY DEF tables, clockHistory
<1>2. InOrder' /\ NoneMissing' /\ CountsStand' /\ PlanIs(todo)'
  BY <1>1 DEF ClockCore, InOrder, NoneMissing, CountsStand, PlanIs, Touched, Write, Chokes
<1>3. PressesStand'
  BY <1>1 DEF ClockCore, PressesStand, Latest, Stands, Touched
<1>4. OneAlone'
  BY <1>1 DEF ClockCore, OneAlone, PlayAlone, WillPlayAlone, Touched, Ending
<1> QED
  BY <1>2, <1>3, <1>4 DEF ClockCore

LEMMA AdoptKeeps ==
  ASSUME ClocksAssumption, BoundsAssumption, ClockTypes, ClockCore, Adopt
  PROVE  ClockCore'
<1>1. UNCHANGED <<tab, tables, adopted, todo, clockHistory>> /\ rt.pc = "adopt"
  BY DEF Adopt
<1>2. UNCHANGED ring
  BY <1>1 DEF tables
<1>3. ring # <<>> => (source[Fresh] = adopted <=> Fresh = adopted + 1)
  <2> SUFFICES ASSUME ring # <<>> PROVE source[Fresh] = adopted <=> Fresh = adopted + 1
    OBVIOUS
  <2>1. Fresh \in Nat /\ Fresh \in Gens /\ adopted \in Nat /\ adopted < Fresh /\ Fresh <= published
    BY ClockFacts DEF ClockCore, InOrder
  <2>2. source[Fresh] = Fresh - 1
    BY <2>1 DEF ClockCore, InOrder
  <2> QED
    BY <2>1, <2>2
<1>4. LoadsStand' /\ CopiesAgree'
  <2>1. CASE ring = <<>>
    <3>1. rt' = Go("arm")
      BY <2>1 DEF Adopt
    <3>2. rt'.pc = "arm" /\ ~rt'.load
      BY <3>1, ClockSteps
    <3> QED
      BY <3>2 DEF LoadsStand, CopiesAgree
  <2>2. CASE ring # <<>> /\ Fresh = adopted + 1
    <3>1. rt' = Go("copy")
      BY <1>3, <2>2 DEF Adopt
    <3>2. rt'.pc = "copy" /\ ~rt'.load /\ rt'.clock = 1
      BY <3>1, ClockSteps
    <3>3. LoadsStand'
      BY <1>1, <1>2, <2>2, <3>2 DEF LoadsStand, Fresh
    <3>4. CopiesAgree'
      BY <3>2, ClockSteps DEF CopiesAgree
    <3> QED
      BY <3>3, <3>4
  <2>3. CASE ring # <<>> /\ Fresh # adopted + 1
    <3>1. rt' = Go("swap")
      BY <1>3, <2>3 DEF Adopt
    <3>2. rt'.pc = "swap" /\ ~rt'.load
      BY <3>1, ClockSteps
    <3>3. Fresh' # adopted' + 1
      BY <1>1, <1>2, <2>3 DEF Fresh
    <3> QED
      BY <3>2, <3>3 DEF LoadsStand, CopiesAgree
  <2> QED
    BY <2>1, <2>2, <2>3
<1> QED
  BY <1>1, <1>4, SilentKeeps

LEMMA TestKeeps ==
  ASSUME ClocksAssumption, BoundsAssumption, ClockTypes, ClockCore, TestWrites
  PROVE  ClockCore'
<1>1. UNCHANGED <<tab, tables, adopted, todo, clockHistory>> /\ rt.pc = "copy" /\ ~rt.load
  BY DEF TestWrites
<1>2. UNCHANGED ring /\ UNCHANGED <<tab, adopted>>
  BY <1>1 DEF tables
<1>3. Fresh = adopted + 1 /\ Fresh' = Fresh
  BY <1>1, <1>2 DEF ClockCore, LoadsStand, Fresh
<1>4. \A c \in Clocks : c < rt.clock /\ ~Touched(Fresh, c) => Same(c)
  BY <1>1 DEF ClockCore, CopiesAgree
<1>5. \A c \in Clocks : Same(c)' = Same(c)
  BY <1>2, <1>3 DEF Same
<1>6. CASE Touched(Fresh, rt.clock)
  <2>1. rt' = NextClock("swap")
    BY <1>6 DEF TestWrites, Touched
  <2>2. /\ ~rt'.load
        /\ \/ rt'.pc = "copy" /\ rt'.clock = rt.clock + 1
           \/ rt.clock = N /\ rt'.pc = "swap" /\ rt'.clock = 1
    BY <1>1, <2>1, ClockSteps
  <2>3. LoadsStand'
    BY <1>2, <1>3, <2>2 DEF LoadsStand
  <2>4. \A c \in Clocks : (rt'.pc = "copy" => c < rt'.clock) => c < rt.clock \/ c = rt.clock
    BY <2>2, ClockSteps
  <2>5. CopiesAgree'
    <3> SUFFICES ASSUME NEW c \in Clocks, rt'.pc = "copy" => c < rt'.clock, ~Touched(Fresh, c)
                 PROVE  Same(c)
      BY <1>2, <1>3, <1>5 DEF CopiesAgree, Touched
    <3> QED
      BY <1>4, <1>6, <2>4
  <2> QED
    BY <1>1, <2>3, <2>5, SilentKeeps
<1>7. CASE ~Touched(Fresh, rt.clock)
  <2>1. rt' = Loaded
    BY <1>7 DEF TestWrites, Touched
  <2>2. rt'.pc = "copy" /\ rt'.load /\ rt'.clock = rt.clock
    BY <1>1, <2>1, ClockSteps
  <2>3. LoadsStand'
    BY <1>2, <1>3, <1>7, <2>2 DEF LoadsStand, Touched
  <2>4. CopiesAgree'
    BY <1>2, <1>3, <1>4, <1>5, <2>2 DEF CopiesAgree, Touched
  <2> QED
    BY <1>1, <2>3, <2>4, SilentKeeps
<1> QED
  BY <1>6, <1>7

LEMMA ArmLoadKeeps ==
  ASSUME ClocksAssumption, BoundsAssumption, ClockTypes, ClockCore, ArmLoad
  PROVE  ClockCore'
<1>1. UNCHANGED <<tab, tables, adopted, todo, clockHistory>> /\ rt.pc = "arm" /\ ~rt.load
  BY DEF ArmLoad
<1>2. UNCHANGED <<tab, adopted>>
  BY <1>1
<1>3. rt'.pc \in {"arm", "begin"} /\ (rt'.load => Mine.pending /\ rt'.clock = rt.clock)
  BY <1>1, ClockSteps DEF ArmLoad
<1>4. LoadsStand' /\ CopiesAgree'
  BY <1>2, <1>3 DEF LoadsStand, CopiesAgree, Mine
<1> QED
  BY <1>1, <1>4, SilentKeeps

LEMMA AdvanceLoadKeeps ==
  ASSUME ClocksAssumption, BoundsAssumption, ClockTypes, ClockCore, AdvanceLoad
  PROVE  ClockCore'
<1>1. UNCHANGED <<tab, tables, adopted, todo, clockHistory>> /\ rt.pc = "advance"
  BY DEF AdvanceLoad
<1>2. rt'.pc \in {"advance", "adopt"}
  BY <1>1, ClockSteps DEF AdvanceLoad
<1>3. LoadsStand' /\ CopiesAgree'
  BY <1>2 DEF LoadsStand, CopiesAgree
<1> QED
  BY <1>1, <1>3, SilentKeeps

(* The callback's stores: to the table that waits, *)
LEMMA TakeStateKeeps ==
  ASSUME ClocksAssumption, BoundsAssumption, ClockTypes, ClockCore, TakeState
  PROVE  ClockCore'
<1> DEFINE f == Fresh
           w == rt.clock
<1>0. /\ rt.pc = "copy" /\ rt.load /\ rt' = NextClock("swap")
      /\ tab' = [tab EXCEPT ![f] = [tab[f] EXCEPT ![w] = Taken(tab[f][w], Mine)]]
      /\ UNCHANGED <<source, published, pushing, ring, adopted, todo, intent, midway, lost>>
  BY DEF TakeState, tables, clockHistory
<1>1. /\ Gens \subseteq Nat /\ Clocks \subseteq Nat /\ Group \subseteq Clocks
      /\ published \in Gens /\ adopted \in Gens /\ w \in Clocks
      /\ f = ring[1] /\ f \in Gens /\ 1 \in DOMAIN ring
      /\ tab \in [Gens -> [Clocks -> Clock]] /\ tab[f][w] \in Clock /\ Mine \in Clock
  BY <1>0, ClockFacts DEF Mine
<1>2. f = adopted + 1 /\ ~Touched(f, w) /\ f <= published /\ f # adopted
  BY <1>0, <1>1 DEF ClockCore, LoadsStand, InOrder
<1>3. \A k, s \in Clock : LET m == Taken(k, s) IN
        /\ m.on = s.on /\ m.pos = s.pos /\ m.pending = s.pending /\ m.seq = s.seq
        /\ m.writes = k.writes /\ m.carried = k.carried
  BY DEF Clock, Taken
<1>4. tab'[f][w] = Taken(tab[f][w], Mine)
  BY <1>0, <1>1
<1>5. /\ tab'[f][w].on = Mine.on /\ tab'[f][w].pos = Mine.pos
      /\ tab'[f][w].pending = Mine.pending /\ tab'[f][w].seq = Mine.seq
      /\ tab'[f][w].writes = tab[f][w].writes /\ tab'[f][w].carried = tab[f][w].carried
  BY <1>1, <1>3, <1>4
<1>6. \A g \in Gens, c \in Clocks : ~(g = f /\ c = w) => tab'[g][c] = tab[g][c]
  BY <1>0, <1>1
<1>7. \A g \in Gens, c \in Clocks :
        tab'[g][c].writes = tab[g][c].writes /\ tab'[g][c].carried = tab[g][c].carried
  BY <1>5, <1>6
<1>8. Fresh' = f
  BY <1>0 DEF Fresh
<1>9. /\ ~rt'.load
      /\ \/ rt'.pc = "copy" /\ rt'.clock = w + 1
         \/ w = N /\ rt'.pc = "swap" /\ rt'.clock = 1
  BY <1>0, ClockSteps
<1>10. \A c \in Clocks : (rt'.pc = "copy" => c < rt'.clock) => c < w \/ c = w
  BY <1>9, ClockSteps
<1> HIDE DEF f, w
<1>11. InOrder' /\ NoneMissing' /\ PlanIs(todo)'
  BY <1>0 DEF ClockCore, InOrder, NoneMissing, PlanIs, Chokes
<1>12. LoadsStand'
  BY <1>0, <1>2, <1>8, <1>9 DEF LoadsStand
<1>13. CountsStand'
  <2>1. todo # <<>> => Write \in Steps /\ Write.clock \in Clocks
    BY ClockFacts
  <2> QED
    BY <1>0, <1>1, <1>7, <2>1 DEF ClockCore, CountsStand, Touched, Write
<1>14. \A g \in Gens, c \in Clocks : Touched(g, c)' = Touched(g, c)
  BY <1>7 DEF Touched
<1>15. PressesStand'
  <2> SUFFICES ASSUME NEW g \in Gens, NEW c \in Clocks, adopted <= g, g <= published, Latest(g, c)'
               PROVE  Stands(g, c)'
    BY <1>0 DEF PressesStand
  <2>1. Latest(g, c)
    BY <1>0, <1>14 DEF Latest
  <2>2. CASE g = f /\ c = w
    <3>1. \A h \in Gens : adopted < h => h = f \/ f < h
      BY <1>1, <1>2
    <3>2. Latest(adopted, c)
      BY <1>2, <2>1, <2>2, <3>1 DEF Latest
    <3>3. Stands(adopted, c)
      BY <1>1, <1>2, <3>2 DEF ClockCore, PressesStand, InOrder
    <3>4. Mine = tab[adopted][c]
      BY <2>2 DEF Mine, w
    <3> QED
      BY <1>0, <1>5, <2>2, <3>3, <3>4 DEF Stands
  <2>3. CASE ~(g = f /\ c = w)
    BY <1>0, <1>6, <2>1, <2>3 DEF ClockCore, PressesStand, Stands
  <2> QED
    BY <2>2, <2>3
<1>16. CopiesAgree'
  <2> SUFFICES ASSUME NEW c \in Clocks, rt'.pc = "copy" => c < rt'.clock, ~Touched(f, c)
               PROVE  Same(c)'
    BY <1>0, <1>1, <1>8, <1>14 DEF CopiesAgree
  <2>0. tab'[adopted][c] = tab[adopted][c]
    BY <1>1, <1>2, <1>6
  <2>1. CASE c = w
    <3>1. Mine = tab[adopted][c]
      BY <2>1 DEF Mine, w
    <3> QED
      BY <1>0, <1>5, <1>8, <2>0, <2>1, <3>1 DEF Same
  <2>2. CASE c < w /\ c # w
    <3>1. Same(c)
      BY <1>0, <2>2 DEF ClockCore, CopiesAgree, f, w
    <3>2. tab'[f][c] = tab[f][c]
      BY <1>1, <1>6, <2>2
    <3> QED
      BY <1>0, <1>8, <2>0, <3>1, <3>2 DEF Same, f
  <2> QED
    BY <1>1, <1>10, <2>1, <2>2
<1>17. OneAlone'
  <2> SUFFICES ASSUME ~midway, ~lost PROVE PlayAlone' /\ WillPlayAlone'
    BY <1>0 DEF OneAlone
  <2>1. PlayAlone /\ WillPlayAlone
    BY DEF ClockCore, OneAlone
  <2>2. \A c, d : Ending(c, d)' = Ending(c, d)
    BY <1>0 DEF Ending
  <2>3. PlayAlone'
    BY <1>0, <1>1, <1>2, <1>6, <2>1, <2>2 DEF PlayAlone
  <2>4. WillPlayAlone'
    <3> SUFFICES ASSUME NEW g \in Gens, NEW c \in Group, NEW d \in Group,
                        adopted < g, g <= published, c # d, Touched(g, c), tab'[g][c].on
                 PROVE  (Touched(g, d) /\ ~tab'[g][d].on) \/ (g = published /\ Ending(c, d))
      BY <1>0, <1>1, <1>14, <2>2 DEF WillPlayAlone
    <3>1. tab'[g][c] = tab[g][c]
      BY <1>1, <1>2, <1>6
    <3>2. (Touched(g, d) /\ ~tab[g][d].on) \/ (g = published /\ Ending(c, d))
      BY <2>1, <3>1 DEF WillPlayAlone
    <3>3. Touched(g, d) => tab'[g][d] = tab[g][d]
      BY <1>1, <1>2, <1>6
    <3> QED
      BY <3>2, <3>3
  <2> QED
    BY <2>3, <2>4
<1> QED
  BY <1>11, <1>12, <1>13, <1>15, <1>16, <1>17 DEF ClockCore

(* ... to the graph that plays; *)
LEMMA SwapKeeps ==
  ASSUME ClocksAssumption, BoundsAssumption, ClockTypes, ClockCore, SwapGraph
  PROVE  ClockCore'
<1> DEFINE f == Fresh
           r == Tail(ring)
<1>0. /\ rt.pc = "swap" /\ rt' = Go("adopt") /\ adopted' = f /\ ring' = r
      /\ UNCHANGED <<tab, source, published, pushing, todo, intent, midway, lost>>
  BY DEF SwapGraph, clockHistory
<1>1. /\ Gens \subseteq Nat /\ Clocks \subseteq Nat /\ Group \subseteq Clocks
      /\ published \in Gens /\ adopted \in Gens
      /\ f = ring[1] /\ f \in Gens /\ 1 \in DOMAIN ring /\ ring \in Seq(Gens) /\ ring # <<>>
  BY <1>0, ClockFacts
<1>2. adopted < f /\ f <= published /\ (pushing => f < published)
  BY <1>1 DEF ClockCore, InOrder
<1>3. /\ Len(r) = Len(ring) - 1 /\ DOMAIN r = 1..Len(r) /\ Len(ring) \in Nat /\ Len(r) \in Nat
      /\ \A i \in DOMAIN r : r[i] = ring[i + 1] /\ i + 1 \in DOMAIN ring /\ 1 < i + 1 /\ i \in Nat
  BY <1>1
<1> HIDE DEF f, r
<1>4. InOrder'
  <2>1. \A i \in DOMAIN r : f < r[i] /\ r[i] <= published /\ (pushing => r[i] < published)
    BY <1>1, <1>3 DEF ClockCore, InOrder
  <2>2. \A i, j \in DOMAIN r : i < j => r[i] < r[j]
    <3> SUFFICES ASSUME NEW i \in DOMAIN r, NEW j \in DOMAIN r, i < j PROVE r[i] < r[j]
      OBVIOUS
    <3>1. i + 1 \in DOMAIN ring /\ j + 1 \in DOMAIN ring /\ i + 1 < j + 1
      BY <1>3
    <3>2. ring[i + 1] < ring[j + 1]
      BY <3>1 DEF ClockCore, InOrder
    <3> QED
      BY <1>3, <3>2
  <2> QED
    BY <1>0, <1>2, <2>1, <2>2 DEF ClockCore, InOrder
<1>5. ~lost => f = adopted + 1
  BY <1>1 DEF ClockCore, NoneMissing
<1>6. NoneMissing'
  <2> SUFFICES ASSUME ~lost PROVE /\ \A i \in DOMAIN r : r[i] = f + i
                                  /\ published = f + Len(r) + (IF pushing THEN 1 ELSE 0)
    BY <1>0 DEF NoneMissing
  <2>1. published = f + Len(r) + (IF pushing THEN 1 ELSE 0)
    BY <1>1, <1>3, <1>5 DEF ClockCore, NoneMissing
  <2>2. \A i \in DOMAIN r : r[i] = f + i
    <3> SUFFICES ASSUME NEW i \in DOMAIN r PROVE r[i] = f + i
      OBVIOUS
    <3>1. ring[i + 1] = adopted + (i + 1) /\ i \in Nat
      BY <1>3 DEF ClockCore, NoneMissing
    <3> QED
      BY <1>1, <1>3, <1>5, <3>1
  <2> QED
    BY <2>1, <2>2
<1>7. rt'.pc = "adopt"
  BY <1>0, ClockSteps
<1>8. LoadsStand' /\ CopiesAgree'
  BY <1>7 DEF LoadsStand, CopiesAgree
<1>9. CountsStand' /\ PlanIs(todo)'
  BY <1>0, <1>1, <1>2 DEF ClockCore, CountsStand, PlanIs, Touched, Write, Chokes
<1>10. \A g \in Gens : f <= g => adopted < g /\ adopted <= g
  BY <1>1, <1>2
<1>11. PressesStand'
  BY <1>0, <1>10 DEF ClockCore, PressesStand, Latest, Stands, Touched
<1>12. OneAlone'
  <2> SUFFICES ASSUME ~midway, ~lost PROVE PlayAlone' /\ WillPlayAlone'
    BY <1>0 DEF OneAlone
  <2>1. PlayAlone /\ WillPlayAlone
    BY DEF ClockCore, OneAlone
  <2>2. \A c, d : Ending(c, d)' = Ending(c, d) /\ Ending(c, d) = Ending(d, c)
    BY <1>0 DEF Ending
  <2>3. PlayAlone'
    <3> SUFFICES ASSUME NEW c \in Group, NEW d \in Group, c # d, tab[f][c].on, tab[f][d].on
                 PROVE  f = published /\ Ending(c, d)
      BY <1>0, <2>2 DEF PlayAlone
    <3>1. CASE Touched(f, c)
      BY <1>1, <1>2, <2>1, <3>1 DEF WillPlayAlone
    <3>2. CASE Touched(f, d)
      BY <1>1, <1>2, <2>1, <2>2, <3>2 DEF WillPlayAlone
    <3>3. CASE ~Touched(f, c) /\ ~Touched(f, d)
      <4>1. Same(c) /\ Same(d)
        BY <1>0, <1>1, <1>5, <3>3 DEF ClockCore, CopiesAgree, f
      <4>2. tab[adopted][c].on /\ tab[adopted][d].on
        BY <4>1 DEF Same, f
      <4>3. adopted = published
        BY <2>1, <4>2 DEF PlayAlone
      <4> QED
        BY <1>1, <1>2, <4>3
    <3> QED
      BY <3>1, <3>2, <3>3
  <2>4. \A g \in Gens : f < g => adopted < g
    BY <1>1, <1>2
  <2>5. WillPlayAlone'
    BY <1>0, <2>1, <2>2, <2>4 DEF WillPlayAlone, Touched
  <2> QED
    BY <2>3, <2>5
<1> QED
  BY <1>4, <1>6, <1>8, <1>9, <1>11, <1>12 DEF ClockCore

(* ... a pad comes in on its beat; *)
LEMMA ArmStoreKeeps ==
  ASSUME ClocksAssumption, BoundsAssumption, ClockTypes, ClockCore, ArmStore
  PROVE  ClockCore'
<1> DEFINE w == rt.clock
           a(k) == [k EXCEPT !.pending = FALSE, !.pos = 0, !.discont = TRUE, !.on = TRUE]
           n(c) == IF c = w THEN a(tab[adopted][c])
                   ELSE IF c \in Chokes(w) THEN Choked(tab[adopted][c]) ELSE tab[adopted][c]
<1>0. /\ rt.pc = "arm" /\ rt.load /\ rt' = NextClock("begin")
      /\ tab' = [tab EXCEPT ![adopted] = [c \in Clocks |-> n(c)]]
      /\ UNCHANGED <<source, published, pushing, ring, adopted, todo, intent, midway, lost>>
  BY DEF ArmStore, tables
<1>1. /\ Gens \subseteq Nat /\ Clocks \subseteq Nat /\ Group \subseteq Clocks
      /\ published \in Gens /\ adopted \in Gens /\ w \in Clocks
      /\ tab \in [Gens -> [Clocks -> Clock]]
      /\ \A g \in Gens, c \in Clocks : tab[g][c] \in Clock
  BY ClockFacts
<1>2. \A k \in Clock :
        /\ a(k).seq = k.seq /\ a(k).writes = k.writes /\ a(k).carried = k.carried
        /\ Choked(k).seq = k.seq /\ Choked(k).writes = k.writes + 1 /\ Choked(k).carried = k.carried
        /\ ~Choked(k).on /\ ~Choked(k).pending
        /\ k.writes \in Nat /\ k.carried \in Nat
  BY DEF Clock, Choked, Stopped
<1>3. \A c \in Clocks : tab'[adopted][c] = n(c)
  BY <1>0, <1>1
<1>4. \A g \in Gens : g # adopted => tab'[g] = tab[g]
  BY <1>0, <1>1
<1>5. \A c \in Clocks :
        /\ tab'[adopted][c].seq = tab[adopted][c].seq
        /\ tab'[adopted][c].carried = tab[adopted][c].carried
        /\ tab'[adopted][c].writes \in {tab[adopted][c].writes, tab[adopted][c].writes + 1}
        /\ c # w /\ c \in Chokes(w) => ~tab'[adopted][c].on /\ ~tab'[adopted][c].pending
        /\ c # w /\ c \notin Chokes(w) => tab'[adopted][c] = tab[adopted][c]
  <2> SUFFICES ASSUME NEW c \in Clocks
        PROVE
        /\ tab'[adopted][c].seq = tab[adopted][c].seq
        /\ tab'[adopted][c].carried = tab[adopted][c].carried
        /\ tab'[adopted][c].writes \in {tab[adopted][c].writes, tab[adopted][c].writes + 1}
        /\ c # w /\ c \in Chokes(w) => ~tab'[adopted][c].on /\ ~tab'[adopted][c].pending
        /\ c # w /\ c \notin Chokes(w) => tab'[adopted][c] = tab[adopted][c]
    OBVIOUS
  <2>1. tab[adopted][c] \in Clock
    BY <1>1
  <2> HIDE DEF a
  <2> QED
    BY <1>2, <1>3, <2>1
<1> HIDE DEF a, n, w
<1>6. Mine = tab[adopted][w] /\ Mine.pending
  BY <1>0 DEF ClockCore, LoadsStand, Mine, w
<1>7. InOrder' /\ NoneMissing' /\ PlanIs(todo)'
  BY <1>0 DEF ClockCore, InOrder, NoneMissing, PlanIs, Chokes
<1>8. ~rt'.load /\ rt'.pc \in {"arm", "begin"}
  BY <1>0, ClockSteps
<1>9. LoadsStand' /\ CopiesAgree'
  BY <1>8 DEF LoadsStand, CopiesAgree
<1>10. CountsStand'
  <2>1. \A g \in Gens, c \in Clocks : tab'[g][c].carried <= tab'[g][c].writes
    <3> SUFFICES ASSUME NEW g \in Gens, NEW c \in Clocks PROVE tab'[g][c].carried <= tab'[g][c].writes
      OBVIOUS
    <3>1. tab[g][c].carried <= tab[g][c].writes
      BY DEF ClockCore, CountsStand
    <3>2. CASE g # adopted
      BY <1>4, <3>1, <3>2
    <3>3. CASE g = adopted
      <4>1. tab[adopted][c].writes \in Nat /\ tab[adopted][c].carried \in Nat
        BY <1>1, <1>2
      <4>2. /\ tab'[adopted][c].carried = tab[adopted][c].carried
            /\ tab'[adopted][c].writes = tab[adopted][c].writes
               \/ tab'[adopted][c].writes = tab[adopted][c].writes + 1
        BY <1>5
      <4> QED
        BY <3>1, <3>3, <4>1, <4>2
    <3> QED
      BY <3>2, <3>3
  <2>2. todo # <<>> /\ Write.counted /\ adopted < published => Touched(published, Write.clock)
    BY DEF ClockCore, CountsStand
  <2>3. adopted < published => tab'[published] = tab[published]
    <3>1. published \in Gens /\ published \in Nat /\ adopted \in Nat
      BY <1>1
    <3>2. adopted < published => published # adopted
      BY <3>1
    <3> QED
      BY <1>4, <3>1, <3>2
  <2> QED
    BY <1>0, <2>1, <2>2, <2>3 DEF CountsStand, Touched, Write
<1>11. \A g \in Gens, c \in Clocks : adopted < g => Touched(g, c)' = Touched(g, c) /\ tab'[g][c] = tab[g][c]
  BY <1>1, <1>4 DEF Touched
<1>12. PressesStand'
  <2> SUFFICES ASSUME NEW g \in Gens, NEW c \in Clocks, adopted <= g, g <= published, Latest(g, c)'
               PROVE  Stands(g, c)'
    BY <1>0 DEF PressesStand
  <2>1. \A h \in Gens : g < h => adopted < h
    BY <1>1
  <2>2. Latest(g, c)
    BY <1>0, <1>11, <2>1 DEF Latest
  <2>3. Stands(g, c)
    BY <2>2 DEF ClockCore, PressesStand
  <2>4. CASE g # adopted
    BY <1>0, <1>4, <2>3, <2>4 DEF Stands
  <2>5. CASE g = adopted /\ c = w
    BY <1>0, <1>5, <1>6, <2>3, <2>5 DEF Stands
  <2>6. CASE g = adopted /\ c # w
    BY <1>0, <1>5, <2>3, <2>6 DEF Stands
  <2> QED
    BY <2>4, <2>5, <2>6
<1>13. OneAlone'
  <2> SUFFICES ASSUME ~midway, ~lost PROVE PlayAlone' /\ WillPlayAlone'
    BY <1>0 DEF OneAlone
  <2>1. PlayAlone /\ WillPlayAlone
    BY DEF ClockCore, OneAlone
  <2>2. \A c, d : Ending(c, d)' = Ending(c, d)
    BY <1>0 DEF Ending
  <2>3. PlayAlone'
    <3> SUFFICES ASSUME NEW c \in Group, NEW d \in Group, c # d, tab'[adopted][c].on, tab'[adopted][d].on
                 PROVE  adopted = published /\ Ending(c, d)
      BY <1>0, <2>2 DEF PlayAlone
    <3>1. w \notin Group
      <4>1. w \in Group => \A e \in Group : e # w => e \in Chokes(w)
        BY DEF Chokes
      <4> QED
        BY <1>1, <1>5, <4>1
    <3>2. c # w /\ d # w /\ c \notin Chokes(w) /\ d \notin Chokes(w)
      BY <3>1 DEF Chokes
    <3>3. tab[adopted][c].on /\ tab[adopted][d].on
      BY <1>1, <1>5, <3>2
    <3> QED
      BY <2>1, <3>3 DEF PlayAlone
  <2>4. WillPlayAlone'
    BY <1>0, <1>1, <1>11, <2>1, <2>2 DEF WillPlayAlone
  <2> QED
    BY <2>3, <2>4
<1> QED
  BY <1>7, <1>9, <1>10, <1>12, <1>13 DEF ClockCore

(* ... and the clips play on, or come to their end. *)
LEMMA PlayingKeeps ==
  ASSUME ClocksAssumption, BoundsAssumption, ClockTypes, ClockCore,
         UNCHANGED <<source, published, pushing, ring, adopted, todo, intent, midway, lost>>,
         ~rt'.load, rt'.pc \notin {"copy", "swap"},
         \A g \in Gens : g # adopted => tab'[g] = tab[g],
         \A c \in Clocks :
           /\ tab'[adopted][c].seq = tab[adopted][c].seq
           /\ tab'[adopted][c].writes = tab[adopted][c].writes
           /\ tab'[adopted][c].carried = tab[adopted][c].carried
           /\ tab'[adopted][c].pending => tab[adopted][c].pending
           /\ tab'[adopted][c].on => tab[adopted][c].on
  PROVE  ClockCore'
<1>1. /\ Gens \subseteq Nat /\ Clocks \subseteq Nat /\ Group \subseteq Clocks
      /\ published \in Gens /\ adopted \in Gens
  BY ClockFacts
<1>2. \A g \in Gens, c \in Clocks :
        /\ tab'[g][c].seq = tab[g][c].seq
        /\ tab'[g][c].writes = tab[g][c].writes /\ tab'[g][c].carried = tab[g][c].carried
        /\ tab'[g][c].pending => tab[g][c].pending
        /\ tab'[g][c].on => tab[g][c].on
  OBVIOUS
<1>3. \A g \in Gens, c \in Clocks : Touched(g, c)' = Touched(g, c)
  BY <1>2 DEF Touched
<1>4. InOrder' /\ NoneMissing' /\ PlanIs(todo)'
  BY DEF ClockCore, InOrder, NoneMissing, PlanIs, Chokes
<1>5. LoadsStand' /\ CopiesAgree'
  BY DEF LoadsStand, CopiesAgree
<1>6. CountsStand'
  <2>1. todo # <<>> => Write.clock \in Clocks
    BY ClockFacts
  <2>2. Write' = Write
    BY DEF Write
  <2>3. \A g \in Gens, c \in Clocks : tab'[g][c].carried <= tab'[g][c].writes
    BY <1>2 DEF ClockCore, CountsStand
  <2>4. todo # <<>> => Touched(published, Write.clock)' = Touched(published, Write.clock)
    BY <1>1, <1>2, <2>1, <2>2 DEF Touched
  <2> QED
    BY <2>2, <2>3, <2>4 DEF ClockCore, CountsStand
<1>7. PressesStand'
  <2> SUFFICES ASSUME NEW g \in Gens, NEW c \in Clocks, adopted <= g, g <= published, Latest(g, c)'
               PROVE  Stands(g, c)'
    BY DEF PressesStand
  <2>1. Latest(g, c)
    BY <1>3 DEF Latest
  <2>2. Stands(g, c)
    BY <2>1 DEF ClockCore, PressesStand
  <2> QED
    BY <1>2, <2>2 DEF Stands
<1>8. OneAlone'
  <2> SUFFICES ASSUME ~midway, ~lost PROVE PlayAlone' /\ WillPlayAlone'
    BY DEF OneAlone
  <2>1. PlayAlone /\ WillPlayAlone
    BY DEF ClockCore, OneAlone
  <2>2. \A c, d : Ending(c, d)' = Ending(c, d)
    BY DEF Ending
  <2>3. PlayAlone'
    <3> SUFFICES ASSUME NEW c \in Group, NEW d \in Group, c # d, tab'[adopted][c].on, tab'[adopted][d].on
                 PROVE  adopted = published /\ Ending(c, d)
      BY <2>2 DEF PlayAlone
    <3>1. tab[adopted][c].on /\ tab[adopted][d].on
      BY <1>1, <1>2
    <3> QED
      BY <2>1, <3>1 DEF PlayAlone
  <2>4. WillPlayAlone'
    <3> SUFFICES ASSUME NEW g \in Gens, NEW c \in Group, NEW d \in Group,
                        adopted < g, g <= published, c # d, Touched(g, c), tab'[g][c].on
                 PROVE  (Touched(g, d) /\ ~tab'[g][d].on) \/ (g = published /\ Ending(c, d))
      BY <1>1, <1>3, <2>2 DEF WillPlayAlone
    <3>1. tab'[g] = tab[g]
      BY <1>1
    <3> QED
      BY <2>1, <3>1 DEF WillPlayAlone
  <2> QED
    BY <2>3, <2>4
<1> QED
  BY <1>4, <1>5, <1>6, <1>7, <1>8 DEF ClockCore

LEMMA BeginKeeps ==
  ASSUME ClocksAssumption, BoundsAssumption, ClockTypes, ClockCore, BeginClocks
  PROVE  ClockCore'
<1>0. /\ rt' = Go("advance")
      /\ tab' = [tab EXCEPT ![adopted] = [c \in Clocks |-> [tab[adopted][c] EXCEPT !.discont = FALSE]]]
      /\ UNCHANGED <<source, published, pushing, ring, adopted, todo, intent, midway, lost>>
  BY DEF BeginClocks, tables
<1>1. /\ adopted \in Gens /\ tab \in [Gens -> [Clocks -> Clock]]
      /\ \A c \in Clocks : tab[adopted][c] \in Clock
  BY ClockFacts
<1>2. \A k \in Clock : LET m == [k EXCEPT !.discont = FALSE] IN
        /\ m.on = k.on /\ m.pending = k.pending /\ m.seq = k.seq
        /\ m.writes = k.writes /\ m.carried = k.carried
  BY DEF Clock
<1>3. \A c \in Clocks : tab'[adopted][c] = [tab[adopted][c] EXCEPT !.discont = FALSE]
  BY <1>0, <1>1
<1>4. \A g \in Gens : g # adopted => tab'[g] = tab[g]
  BY <1>0, <1>1
<1>5. \A c \in Clocks :
        /\ tab'[adopted][c].seq = tab[adopted][c].seq
        /\ tab'[adopted][c].writes = tab[adopted][c].writes
        /\ tab'[adopted][c].carried = tab[adopted][c].carried
        /\ tab'[adopted][c].pending => tab[adopted][c].pending
        /\ tab'[adopted][c].on => tab[adopted][c].on
  BY <1>1, <1>2, <1>3
<1>6. ~rt'.load /\ rt'.pc \notin {"copy", "swap"}
  BY <1>0, ClockSteps
<1> QED
  BY <1>0, <1>4, <1>5, <1>6, PlayingKeeps

LEMMA AdvanceStoreKeeps ==
  ASSUME ClocksAssumption, BoundsAssumption, ClockTypes, ClockCore, AdvanceStore
  PROVE  ClockCore'
<1> DEFINE w == rt.clock
<1>0. /\ rt.pc = "advance" /\ rt' = NextClock("adopt")
      /\ tab' = [tab EXCEPT ![adopted] = [tab[adopted] EXCEPT ![w] = Advanced(w, tab[adopted][w])]]
      /\ UNCHANGED <<source, published, pushing, ring, adopted, todo, intent, midway, lost>>
  BY DEF AdvanceStore, tables
<1>1. /\ adopted \in Gens /\ tab \in [Gens -> [Clocks -> Clock]] /\ w \in Clocks
      /\ tab[adopted][w] \in Clock
  BY ClockFacts
<1>2. \A k \in Clock :
        /\ Advanced(w, k).seq = k.seq /\ Advanced(w, k).pending = k.pending
        /\ Advanced(w, k).writes = k.writes /\ Advanced(w, k).carried = k.carried
        /\ Advanced(w, k).on => k.on
  BY DEF Clock, Advanced
<1>3. tab'[adopted][w] = Advanced(w, tab[adopted][w])
  BY <1>0, <1>1
<1>4. /\ \A g \in Gens : g # adopted => tab'[g] = tab[g]
      /\ \A c \in Clocks : c # w => tab'[adopted][c] = tab[adopted][c]
  BY <1>0, <1>1
<1> HIDE DEF w
<1>5. \A c \in Clocks :
        /\ tab'[adopted][c].seq = tab[adopted][c].seq
        /\ tab'[adopted][c].writes = tab[adopted][c].writes
        /\ tab'[adopted][c].carried = tab[adopted][c].carried
        /\ tab'[adopted][c].pending => tab[adopted][c].pending
        /\ tab'[adopted][c].on => tab[adopted][c].on
  BY <1>1, <1>2, <1>3, <1>4
<1>6. ~rt'.load /\ rt'.pc \notin {"copy", "swap"}
  BY <1>0, ClockSteps
<1> QED
  BY <1>0, <1>4, <1>5, <1>6, PlayingKeeps

----------------------------------------------------------------------------
LEMMA ClocksKeep ==
  ASSUME ClocksAssumption, BoundsAssumption, ClockTypes, ClockInv, [ClockNext]_clockVars
  PROVE  ClockInv'
<1> SUFFICES ASSUME ~raced' PROVE ClockCore'
  BY DEF ClockInv
<1>1. CASE UNCHANGED clockVars
  <2>1. ClockCore
    BY <1>1 DEF ClockInv, clockVars
  <2>2. /\ UNCHANGED <<tab, tables, adopted, todo, clockHistory>> /\ UNCHANGED <<rt, tab, adopted, ring>>
    BY <1>1 DEF clockVars, tables, clockHistory
  <2>3. LoadsStand' /\ CopiesAgree'
    BY <2>1, <2>2 DEF ClockCore, LoadsStand, CopiesAgree, Same, Touched, Fresh, Mine
  <2> QED
    BY <2>1, <2>2, <2>3, SilentKeeps
<1>2. CASE ClockNext
  <2>1. ClockCore
    BY <1>2 DEF ClockInv, ClockNext, Control, Render
  <2>2. CASE Control
    BY <2>1, <2>2, PressKeeps, CountKeeps, StoreKeeps, CancelKeeps, PublishKeeps, PushKeeps DEF Control
  <2>3. CASE Render
    BY <2>1, <2>3, AdoptKeeps, TestKeeps, TakeStateKeeps, SwapKeeps, ArmLoadKeeps, ArmStoreKeeps,
       BeginKeeps, AdvanceLoadKeeps, AdvanceStoreKeeps DEF Render
  <2> QED
    BY <1>2, <2>2, <2>3 DEF ClockNext
<1> QED
  BY <1>1, <1>2

LEMMA ClockInvariant ==
  ASSUME ClocksAssumption, BoundsAssumption
  PROVE  ClockSpec => []ClockInv
<1>1. ClockInit => ClockInv
  <2> SUFFICES ASSUME ClockInit PROVE ClockCore
    BY DEF ClockInv
  <2>0. /\ \A g \in Gens, c \in Clocks : tab[g][c] = IdleClock
        /\ published = 0 /\ adopted = 0 /\ pushing = FALSE /\ ring = <<>> /\ todo = <<>>
        /\ rt = [pc |-> "adopt", clock |-> 1, load |-> FALSE]
        /\ \A c \in Clocks : intent[c] = NoPress
    BY DEF ClockInit
  <2>1. /\ Group \subseteq Clocks /\ Gens \subseteq Nat /\ 0 \in Gens
    BY DEF ClocksAssumption, BoundsAssumption, Clocks, Gens
  <2>2. InOrder /\ NoneMissing
    BY <2>0, <2>1 DEF InOrder, NoneMissing
  <2>3. LoadsStand /\ CopiesAgree
    BY <2>0 DEF LoadsStand, CopiesAgree
  <2>4. CountsStand /\ PlanIs(todo)
    BY <2>0 DEF CountsStand, PlanIs, IdleClock
  <2>5. PressesStand
    BY <2>0 DEF PressesStand, Stands, IdleClock, NoPress
  <2>6. OneAlone
    BY <2>0, <2>1 DEF OneAlone, PlayAlone, WillPlayAlone, IdleClock
  <2> QED
    BY <2>2, <2>3, <2>4, <2>5, <2>6 DEF ClockCore
<1>2. ClockTypes /\ ClockInv /\ [ClockNext]_clockVars => ClockInv'
  BY ClocksKeep
<1> QED
  BY <1>1, <1>2, ClockTypesHold, PTL DEF ClockSpec

(* A press wins over rebuilds (clock.rs, reconcile_adoption): whatever     *)
(* graphs were published, dropped and adopted, a clock carries its newest  *)
(* fire and a stopped or choked one neither sounds nor waits; and of a     *)
(* choke group one pad sounds.                                             *)
THEOREM PressesWin ==
  ASSUME ClocksAssumption, BoundsAssumption
  PROVE  ClockSpec => []PressWins
<1>1. ClockTypes /\ ClockInv => PressWins
  <2> SUFFICES ASSUME ClockTypes, ClockInv, ~raced PROVE PressWins
    BY DEF PressWins, PressStands, OneOfTheGroup
  <2>0. /\ Gens \subseteq Nat /\ published \in Gens /\ adopted \in Gens /\ Group \subseteq Clocks
        /\ ClockCore
    BY ClockFacts DEF ClockInv
  <2>1. PressStands
    <3> SUFFICES ASSUME NEW c \in Clocks PROVE Stands(published, c)
      BY DEF PressStands, Stands, Heard
    <3>1. Latest(published, c)
      BY <2>0 DEF Latest
    <3> QED
      BY <2>0, <3>1 DEF ClockCore, PressesStand, InOrder
  <2>2. OneOfTheGroup
    <3> SUFFICES ASSUME todo = <<>>, ~midway, ~lost, published = adopted,
                        NEW c \in Group, NEW d \in Group, Heard(c).on, Heard(d).on, c # d
                 PROVE  FALSE
      BY DEF OneOfTheGroup
    <3>1. Ending(c, d)
      BY <2>0 DEF ClockCore, OneAlone, PlayAlone, Heard
    <3> QED
      BY <3>1 DEF Ending
  <2> QED
    BY <2>1, <2>2 DEF PressWins
<1> QED
  BY <1>1, ClockTypesHold, ClockInvariant, PTL

(* Adopting a graph takes no sounding clip back: where nothing was         *)
(* pressed, a clock goes on from where the retired graph had come to       *)
(* (carry_over and reconcile_adoption).                                    *)
THEOREM ClipsPlayOn ==
  ASSUME ClocksAssumption, BoundsAssumption
  PROVE  ClockSpec => PlaysOn
<1> DEFINE GoesOn == adopted' # adopted /\ ~raced /\ ~lost =>
                     \A c \in Clocks :
                       LET old == tab[adopted][c]
                           new == tab[adopted'][c]
                       IN  (old.on /\ new.on /\ new.seq = old.seq /\ new.writes = new.carried)
                             => new.pos >= old.pos
<1>1. ClockTypes /\ ClockInv /\ [ClockNext]_clockVars => [GoesOn]_clockVars
  <2> SUFFICES ASSUME ClockTypes, ClockInv, ClockNext, adopted' # adopted, ~raced, ~lost,
                      NEW c \in Clocks, ~Touched(adopted', c)
               PROVE  tab[adopted'][c].pos >= tab[adopted][c].pos
    BY DEF Touched
  <2>1. SwapGraph
    BY DEF ClockNext, Control, Render, Press, Count, Store, Cancel, Publish, PushGraph, Adopt,
           TestWrites, TakeState, ArmLoad, ArmStore, BeginClocks, AdvanceLoad, AdvanceStore
  <2>2. ClockCore
    BY DEF ClockInv
  <2>3. rt.pc = "swap" /\ adopted' = Fresh
    BY <2>1 DEF SwapGraph
  <2>4. ring # <<>> /\ adopted \in Gens /\ Fresh = ring[1] /\ 1 \in DOMAIN ring
    BY <2>3, ClockFacts
  <2>5. Fresh = adopted + 1
    BY <2>2, <2>4 DEF ClockCore, NoneMissing
  <2>6. Same(c)
    BY <2>2, <2>3, <2>5 DEF ClockCore, CopiesAgree
  <2>7. tab[adopted][c].pos \in Nat
    <3>1. tab[adopted][c] \in Clock
      BY ClockFacts
    <3> QED
      BY <3>1 DEF Clock
  <2> QED
    BY <2>3, <2>6, <2>7 DEF Same
<1> QED
  BY <1>1, ClockTypesHold, ClockInvariant, PTL DEF ClockSpec, PlaysOn

----------------------------------------------------------------------------
(* MidiOutPort: cursors.                                                   *)

Played == Contents \cup {NoRoute.events}

LEMMA SongFacts ==
  ASSUME SortedAssumption, NEW e \in Played
  PROVE  /\ e \in Seq(Events) /\ Len(e) \in Nat /\ DOMAIN e = 1..Len(e)
         /\ \A i \in DOMAIN e : e[i].at \in Nat /\ e[i].key \in PortKeys
         /\ \A i, j \in DOMAIN e : i < j => e[i].at <= e[j].at
<1>1. NoRoute.events = <<>>
  BY DEF NoRoute
<1>2. e \in Seq(Events)
  <2>1. CASE e \in Contents
    BY <2>1 DEF SortedAssumption
  <2>2. CASE e = <<>>
    BY <2>2, EmptySeq
  <2> QED
    BY <1>1, <2>1, <2>2 DEF Played
<1>3. \A i \in DOMAIN e : e[i] \in Events
  BY <1>2
<1>4. \A i, j \in DOMAIN e : i < j => e[i].at <= e[j].at
  BY <1>1 DEF Played, SortedAssumption
<1> QED
  BY <1>2, <1>3, <1>4 DEF Events

LEMMA UpTo ==
  ASSUME NEW n \in Nat
  PROVE  IsFiniteSet(1..n) /\ Cardinality(1..n) = n
<1>1. 1 \in Int /\ n \in Int
  OBVIOUS
<1>2. IsFiniteSet(1..n) /\ Cardinality(1..n) = IF 1 > n THEN 0 ELSE n - 1 + 1
  BY <1>1, FS_Interval
<1>3. (IF 1 > n THEN 0 ELSE n - 1 + 1) = n
  OBVIOUS
<1> QED
  BY <1>2, <1>3

(* partition_point: NextAt cuts a song in what lies before and what does not. *)
LEMMA NextAtCuts ==
  ASSUME SortedAssumption, NEW e \in Played, NEW to \in Nat
  PROVE  /\ NextAt(e, to) \in 0..Len(e)
         /\ \A i \in DOMAIN e : e[i].at < to <=> i <= NextAt(e, to)
<1> DEFINE S == {i \in DOMAIN e : e[i].at < to}
           n == Cardinality(S)
<1>1. Len(e) \in Nat /\ DOMAIN e = 1..Len(e)
  BY SongFacts
<1>2. IsFiniteSet(DOMAIN e) /\ Cardinality(DOMAIN e) = Len(e)
  BY <1>1, UpTo
<1>3. IsFiniteSet(S) /\ n \in Nat /\ n <= Len(e)
  BY <1>2, FS_Subset, FS_CardinalityType
<1>4. ASSUME NEW i \in DOMAIN e, e[i].at < to PROVE i <= n
  <2>1. 1..i \subseteq S
    <3> SUFFICES ASSUME NEW j \in 1..i PROVE j \in DOMAIN e /\ e[j].at < to
      OBVIOUS
    <3>1. j \in DOMAIN e /\ (j = i \/ j < i)
      BY <1>1
    <3>2. e[j].at \in Nat /\ e[i].at \in Nat /\ e[j].at <= e[i].at
      BY <3>1, SongFacts
    <3> QED
      BY <1>4, <3>1, <3>2
  <2>2. i \in Nat /\ 1 <= i
    BY <1>1
  <2>3. Cardinality(1..i) = i
    BY <2>2, UpTo
  <2>4. Cardinality(1..i) <= n
    BY <1>3, <2>1, FS_Subset
  <2> QED
    BY <2>3, <2>4
<1>5. ASSUME NEW i \in DOMAIN e, ~(e[i].at < to) PROVE n < i
  <2>1. i \in Nat /\ 1 <= i
    BY <1>1
  <2>2. S \subseteq 1..(i - 1)
    <3> SUFFICES ASSUME NEW j \in DOMAIN e, e[j].at < to PROVE j \in 1..(i - 1)
      OBVIOUS
    <3>1. ~(i < j) /\ i # j
      <4>1. e[i].at \in Nat /\ e[j].at \in Nat /\ (i < j => e[i].at <= e[j].at)
        BY SongFacts
      <4> QED
        BY <1>5, <4>1
    <3> QED
      BY <1>1, <3>1
  <2>3. IsFiniteSet(1..(i - 1)) /\ Cardinality(1..(i - 1)) = i - 1
    <3>1. i - 1 \in Nat
      BY <2>1
    <3> QED
      BY <3>1, UpTo
  <2>4. n <= i - 1
    BY <2>2, <2>3, FS_Subset
  <2> QED
    BY <1>3, <2>1, <2>4
<1>6. NextAt(e, to) = n
  BY DEF NextAt
<1>7. \A i \in DOMAIN e : e[i].at < to <=> i <= n
  <2> SUFFICES ASSUME NEW i \in DOMAIN e PROVE e[i].at < to <=> i <= n
    OBVIOUS
  <2>1. i \in Nat
    BY <1>1
  <2> HIDE DEF n, S
  <2> QED
    BY <1>3, <1>4, <1>5, <2>1
<1> HIDE DEF n, S
<1> QED
  BY <1>1, <1>3, <1>6, <1>7

LEMMA NextAtGrows ==
  ASSUME SortedAssumption, NEW e \in Played, NEW a \in Nat, NEW b \in Nat, a <= b
  PROVE  NextAt(e, a) <= NextAt(e, b)
<1> DEFINE m == NextAt(e, a)
           n == NextAt(e, b)
<1>1. /\ m \in 0..Len(e) /\ n \in 0..Len(e) /\ Len(e) \in Nat /\ DOMAIN e = 1..Len(e)
      /\ \A i \in DOMAIN e : e[i].at \in Nat
      /\ \A i \in DOMAIN e : e[i].at < a <=> i <= m
      /\ \A i \in DOMAIN e : e[i].at < b <=> i <= n
  BY NextAtCuts, SongFacts
<1> HIDE DEF m, n
<1>2. m <= n
  <2>1. CASE m = 0
    BY <1>1, <2>1
  <2>2. CASE m # 0
    <3>1. m \in DOMAIN e /\ m <= m
      BY <1>1, <2>2
    <3>2. e[m].at < a /\ e[m].at \in Nat
      BY <1>1, <3>1
    <3>3. e[m].at < b
      BY <3>2
    <3> QED
      BY <1>1, <3>1, <3>3
  <2> QED
    BY <2>1, <2>2
<1> QED
  BY <1>2 DEF m, n

----------------------------------------------------------------------------
(* What a route's step does, and what the device makes of it.              *)

(* What sounded and was not spoken of, or was left on, the route knows of. *)
Truthful(step, keys) ==
  /\ (keys \ (step.off \cup KeysOf(step.play))) \subseteq step.route.sounding
  /\ Hear({}, step.play) \subseteq step.route.sounding

RouteOK(r) == r \in Route /\ r.cursor <= Len(r.events) /\ (r.on \/ r.events = <<>>)
StepOK(step, r) == RouteOK(step.route) /\ Truthful(step, r.sounding)

LEMMA HearFacts ==
  /\ KeysOf(<<>>) = {} /\ Hear({}, <<>>) = {}
  /\ \A keys, play : /\ keys \ KeysOf(play) \subseteq Hear(keys, play)
                     /\ Hear({}, play) \subseteq Hear(keys, play)
                     /\ Hear(keys, play) \subseteq keys \cup KeysOf(play)
<1>1. DOMAIN <<>> = {}
  OBVIOUS
<1>2. KeysOf(<<>>) = {}
  BY <1>1 DEF KeysOf
<1> QED
  BY <1>2 DEF Hear

LEMMA Resting ==
  ASSUME NEW r, RouteOK(r)
  PROVE  LET t == Rests(r) IN StepOK(t, r) /\ t.route = r /\ t.sent = {}
BY HearFacts DEF Rests, StepOK, Truthful

LEMMA Silencing ==
  ASSUME NEW r, RouteOK(r)
  PROVE  LET t == AllOff(r) IN
         /\ StepOK(t, r) /\ t.sent = {}
         /\ t.route.on = r.on /\ t.route.events = r.events /\ t.route.cursor = r.cursor
         /\ t.route.sounding = {}
<1> DEFINE q == [r EXCEPT !.sounding = {}]
<1>1. /\ q \in Route /\ q.on = r.on /\ q.events = r.events /\ q.cursor = r.cursor
      /\ q.sounding = {}
  BY DEF RouteOK, Route
<1>2. RouteOK(q)
  BY <1>1 DEF RouteOK
<1> HIDE DEF q
<1>3. AllOff(r) = [route |-> q, off |-> r.sounding, play |-> <<>>, sent |-> {}]
  BY DEF AllOff, Released, q
<1> QED
  BY <1>1, <1>2, <1>3, HearFacts DEF StepOK, Truthful

LEMMA Leaving ==
  ASSUME NEW r, RouteOK(r)
  PROVE  LET t == Released(r, NoRoute) IN
         StepOK(t, r) /\ t.sent = {} /\ t.route = NoRoute
<1>1. RouteOK(NoRoute)
  BY DEF RouteOK, Route, NoRoute
<1> QED
  BY <1>1, HearFacts DEF StepOK, Truthful, Released, NoRoute

LEMMA Seeking ==
  ASSUME SortedAssumption, NEW r, RouteOK(r), NEW e \in Played, NEW to \in Nat
  PROVE  LET t == Reseek(r, e, to) IN
         /\ StepOK(t, r) /\ t.sent = {} /\ t.off = r.sounding
         /\ t.route.on /\ t.route.events = e /\ t.route.cursor = NextAt(e, to) /\ t.route.sounding = {}
<1> DEFINE q == Placed(e, to)
<1>1. NextAt(e, to) \in 0..Len(e) /\ Len(e) \in Nat
  BY NextAtCuts, SongFacts
<1>2. q.on /\ q.events = e /\ q.cursor = NextAt(e, to) /\ q.sounding = {} /\ q \in Route
  BY <1>1 DEF Placed, Route, Played
<1>3. RouteOK(q)
  BY <1>1, <1>2 DEF RouteOK
<1> HIDE DEF q
<1>4. Reseek(r, e, to) = [route |-> q, off |-> r.sounding, play |-> <<>>, sent |-> {}]
  BY DEF Reseek, Released, q
<1> QED
  BY <1>2, <1>3, <1>4, HearFacts DEF StepOK, Truthful

(* Advancing plays what lies between the cursor and the bound. *)
LEMMA Advancing ==
  ASSUME SortedAssumption, NEW r, RouteOK(r), NEW to \in Nat
  PROVE  LET t == AdvanceRoute(r, to) IN
         /\ StepOK(t, r) /\ t.off = {} /\ t.sent = (r.cursor + 1)..t.route.cursor
         /\ t.route.on = r.on /\ t.route.events = r.events
         /\ t.route.cursor = IF NextAt(r.events, to) > r.cursor THEN NextAt(r.events, to) ELSE r.cursor
         /\ Hear({}, t.play) \subseteq t.route.sounding
<1> DEFINE hi == IF NextAt(r.events, to) > r.cursor THEN NextAt(r.events, to) ELSE r.cursor
           play == SubSeq(r.events, r.cursor + 1, hi)
           q == [r EXCEPT !.cursor = hi, !.sounding = Hear(r.sounding, play)]
<1>1. /\ r \in Route /\ r.events \in Played /\ r.cursor \in Nat /\ r.cursor <= Len(r.events)
      /\ r.sounding \subseteq PortKeys /\ (r.on \/ r.events = <<>>)
  BY DEF RouteOK, Route, Played
<1>2. /\ NextAt(r.events, to) \in 0..Len(r.events) /\ Len(r.events) \in Nat
      /\ DOMAIN r.events = 1..Len(r.events)
      /\ \A i \in DOMAIN r.events : r.events[i] \in Events
  BY <1>1, NextAtCuts, SongFacts
<1>3. hi \in Nat /\ hi <= Len(r.events) /\ r.cursor <= hi
  BY <1>1, <1>2
<1> HIDE DEF hi
<1>4. \A i \in (r.cursor + 1)..hi : r.events[i] \in Events
  BY <1>1, <1>2, <1>3
<1>5. play \in Seq(Events)
  BY <1>1, <1>3, <1>4, SubSeqProperties
<1> HIDE DEF play
<1>6. KeysOf(play) \subseteq PortKeys
  <2>1. \A i \in DOMAIN play : play[i] \in Events
    BY <1>5
  <2>2. \A i \in DOMAIN play : play[i].key \in PortKeys
    BY <2>1 DEF Events
  <2> QED
    BY <2>2 DEF KeysOf
<1>7. /\ q \in Route /\ q.on = r.on /\ q.events = r.events /\ q.cursor = hi
      /\ q.sounding = Hear(r.sounding, play)
  <2>1. Hear(r.sounding, play) \in SUBSET PortKeys
    BY <1>1, <1>6, HearFacts
  <2> QED
    BY <1>1, <1>3, <2>1 DEF Route
<1> HIDE DEF q
<1>8. RouteOK(q)
  BY <1>1, <1>3, <1>7 DEF RouteOK
<1>9. AdvanceRoute(r, to) = [route |-> q, off |-> {}, play |-> play, sent |-> (r.cursor + 1)..hi]
  BY DEF AdvanceRoute, q, play, hi
<1> QED
  BY <1>7, <1>8, <1>9, HearFacts DEF StepOK, Truthful, hi

LEMMA Landing ==
  ASSUME SortedAssumption, NEW r, RouteOK(r), r.on, NEW to \in Nat
  PROVE  LET t == Land(r, to) IN
         /\ StepOK(t, r) /\ t.route.events = r.events
         /\ t.sent = (NextAt(r.events, to) + 1)..t.route.cursor
         /\ t.route.cursor = NextAt(r.events, to + 1)
<1> DEFINE q == Reseek(r, r.events, to)
           a == AdvanceRoute(q.route, to + 1)
           t == [a EXCEPT !.off = q.off]
<1>1. r.events \in Played
  BY DEF RouteOK, Route, Played
<1>2. /\ StepOK(q, r) /\ q.off = r.sounding /\ q.route.events = r.events
      /\ q.route.cursor = NextAt(r.events, to)
  BY <1>1, Seeking
<1> HIDE DEF q
<1>3. RouteOK(q.route)
  BY <1>2 DEF StepOK
<1>4. /\ StepOK(a, q.route) /\ a.sent = (q.route.cursor + 1)..a.route.cursor
      /\ a.route.events = q.route.events
      /\ a.route.cursor = IF NextAt(q.route.events, to + 1) > q.route.cursor
                          THEN NextAt(q.route.events, to + 1) ELSE q.route.cursor
      /\ Hear({}, a.play) \subseteq a.route.sounding
  BY <1>3, Advancing
<1>5. t.off = r.sounding /\ t.route = a.route /\ t.play = a.play /\ t.sent = a.sent
  BY <1>2 DEF AdvanceRoute
<1> HIDE DEF a
<1>6. NextAt(r.events, to) <= NextAt(r.events, to + 1)
  BY <1>1, NextAtGrows
<1>7. NextAt(r.events, to) \in Nat /\ NextAt(r.events, to + 1) \in Nat
  BY <1>1, NextAtCuts, SongFacts
<1>8. t.route.cursor = NextAt(r.events, to + 1)
  BY <1>2, <1>4, <1>5, <1>6, <1>7
<1>9. StepOK(t, r)
  BY <1>4, <1>5 DEF StepOK, Truthful
<1> HIDE DEF t
<1>10. Land(r, to) = t
  BY DEF Land, t, a, q
<1> QED
  BY <1>2, <1>4, <1>5, <1>8, <1>9, <1>10

----------------------------------------------------------------------------
(* What has been sent.                                                     *)

(* h, sent since a placement at f, is what lies between there and the cursor. *)
Sent(r, h, f) ==
  NextAt(r.events, f) <= r.cursor /\ h = (NextAt(r.events, f) + 1)..r.cursor

LEMMA RouteFacts ==
  ASSUME SortedAssumption, NEW r, RouteOK(r)
  PROVE  /\ r.events \in Played /\ r.cursor \in 0..Len(r.events) /\ Len(r.events) \in Nat
         /\ DOMAIN r.events = 1..Len(r.events)
         /\ \A i \in DOMAIN r.events : r.events[i].at \in Nat
         /\ \A f \in Nat : /\ NextAt(r.events, f) \in 0..Len(r.events)
                          /\ \A i \in DOMAIN r.events : r.events[i].at < f <=> i <= NextAt(r.events, f)
<1>1. r.events \in Played /\ r.cursor \in Nat /\ r.cursor <= Len(r.events)
  BY DEF RouteOK, Route, Played
<1>2. /\ Len(r.events) \in Nat /\ DOMAIN r.events = 1..Len(r.events)
      /\ \A i \in DOMAIN r.events : r.events[i].at \in Nat
  BY <1>1, SongFacts
<1>3. \A f \in Nat : /\ NextAt(r.events, f) \in 0..Len(r.events)
                    /\ \A i \in DOMAIN r.events : r.events[i].at < f <=> i <= NextAt(r.events, f)
  BY <1>1, NextAtCuts
<1>4. r.cursor \in 0..Len(r.events)
  BY <1>1, <1>2
<1> QED
  BY <1>1, <1>2, <1>3, <1>4

LEMMA RouteCuts ==
  ASSUME SortedAssumption, NEW r, RouteOK(r), NEW f \in Nat
  PROVE  /\ NextAt(r.events, f) \in Nat
         /\ \A i \in DOMAIN r.events : r.events[i].at < f <=> i <= NextAt(r.events, f)
<1>1. r.events \in Played /\ Len(r.events) \in Nat
  BY RouteFacts
<1>2. /\ NextAt(r.events, f) \in 0..Len(r.events)
      /\ \A i \in DOMAIN r.events : r.events[i].at < f <=> i <= NextAt(r.events, f)
  BY <1>1, NextAtCuts
<1> QED
  BY <1>1, <1>2

LEMMA SentFacts ==
  ASSUME SortedAssumption, NEW r, RouteOK(r), NEW f \in Nat, NEW h, Sent(r, h, f)
  PROVE  h \subseteq DOMAIN r.events /\ \A i \in h : r.events[i].at \in Nat
<1> DEFINE n == NextAt(r.events, f)
<1>1. n \in Nat /\ Len(r.events) \in Nat /\ r.cursor \in Nat /\ r.cursor <= Len(r.events)
      /\ DOMAIN r.events = 1..Len(r.events) /\ \A i \in DOMAIN r.events : r.events[i].at \in Nat
  BY RouteFacts
<1>2. h = (n + 1)..r.cursor
  BY DEF Sent
<1> HIDE DEF n
<1>3. h \subseteq DOMAIN r.events
  BY <1>1, <1>2
<1> QED
  BY <1>1, <1>3

LEMMA CursorIsBeyond ==
  ASSUME SortedAssumption, NEW r, RouteOK(r), NEW a \in Nat, NEW b \in Nat, a <= b,
         NextAt(r.events, b) <= r.cursor
  PROVE  NextAt(r.events, a) <= r.cursor
<1>1. r.events \in Played /\ r.cursor \in Nat
  BY RouteFacts
<1>2. NextAt(r.events, a) <= NextAt(r.events, b)
  BY <1>1, NextAtGrows
<1>3. NextAt(r.events, a) \in Nat /\ NextAt(r.events, b) \in Nat
  BY <1>1, NextAtCuts, SongFacts
<1> QED
  BY <1>1, <1>2, <1>3

LEMMA AdvancingSends ==
  ASSUME SortedAssumption, NEW r, RouteOK(r), NEW f \in Nat, NEW h, Sent(r, h, f), NEW to \in Nat
  PROVE  LET t == AdvanceRoute(r, to) IN
         /\ Sent(t.route, t.sent \cup h, f)
         /\ NextAt(t.route.events, to) <= t.route.cursor
         /\ \A i \in t.sent : t.route.events[i].at < to
<1> DEFINE t == AdvanceRoute(r, to)
           e == r.events
           c == r.cursor
           n == NextAt(e, to)
           m == NextAt(e, f)
           hi == t.route.cursor
<1>1. /\ t.sent = (c + 1)..hi /\ t.route.events = e /\ hi = IF n > c THEN n ELSE c
  BY Advancing
<1>2. /\ c \in 0..Len(e) /\ Len(e) \in Nat /\ DOMAIN e = 1..Len(e)
      /\ n \in 0..Len(e) /\ m \in 0..Len(e)
      /\ \A i \in DOMAIN e : e[i].at < to <=> i <= n
  BY RouteFacts
<1>3. m <= c /\ h = (m + 1)..c
  BY DEF Sent
<1> HIDE DEF n, m, hi
<1>4. m <= hi /\ (c + 1)..hi \cup (m + 1)..c = (m + 1)..hi /\ n <= hi
  BY <1>1, <1>2, <1>3
<1>5. ASSUME NEW i \in (c + 1)..hi PROVE e[i].at < to
  <2>1. i \in DOMAIN e /\ i <= n
    BY <1>1, <1>2
  <2> QED
    BY <1>2, <2>1
<1>6. Sent(t.route, t.sent \cup h, f)
  BY <1>1, <1>3, <1>4 DEF Sent, m, hi
<1>7. NextAt(t.route.events, to) <= t.route.cursor
  BY <1>1, <1>4 DEF n, hi
<1>8. \A i \in t.sent : t.route.events[i].at < to
  BY <1>1, <1>5
<1> HIDE DEF t
<1> QED
  BY <1>6, <1>7, <1>8 DEF t

LEMMA LandingSends ==
  ASSUME SortedAssumption, NEW r, RouteOK(r), r.on, NEW to \in Nat
  PROVE  LET t == Land(r, to) IN
         /\ Sent(t.route, t.sent, to)
         /\ NextAt(t.route.events, to) <= t.route.cursor
         /\ \A i \in t.sent : t.route.events[i].at <= to
<1> DEFINE t == Land(r, to)
           e == r.events
           m == NextAt(e, to)
           n == NextAt(e, to + 1)
<1>1. t.route.events = e /\ t.sent = (m + 1)..t.route.cursor /\ t.route.cursor = n
  BY Landing
<1>2. to + 1 \in Nat /\ to <= to + 1
  OBVIOUS
<1>3. /\ Len(e) \in Nat /\ DOMAIN e = 1..Len(e) /\ m \in 0..Len(e) /\ n \in 0..Len(e)
      /\ \A i \in DOMAIN e : e[i].at \in Nat
      /\ \A i \in DOMAIN e : e[i].at < to + 1 <=> i <= n
  BY <1>2, RouteFacts
<1>4. e \in Played
  BY RouteFacts
<1>5. m <= n
  BY <1>2, <1>4, NextAtGrows
<1> HIDE DEF n
<1>6. Sent(t.route, t.sent, to) /\ NextAt(t.route.events, to) <= t.route.cursor
  BY <1>1, <1>5 DEF Sent
<1> HIDE DEF m
<1>7. ASSUME NEW i \in (m + 1)..n PROVE e[i].at <= to
  <2>1. i \in DOMAIN e /\ i <= n
    BY <1>3
  <2>2. e[i].at \in Nat /\ e[i].at < to + 1
    BY <1>3, <2>1
  <2> QED
    BY <2>2
<1>8. \A i \in t.sent : t.route.events[i].at <= to
  BY <1>1, <1>7
<1> HIDE DEF t
<1> QED
  BY <1>6, <1>8 DEF t

LEMMA SeekingSends ==
  ASSUME SortedAssumption, NEW r, RouteOK(r), NEW e \in Played, NEW to \in Nat
  PROVE  LET t == Reseek(r, e, to) IN Sent(t.route, {}, to)
<1> DEFINE t == Reseek(r, e, to)
           n == NextAt(e, to)
<1>1. t.route.events = e /\ t.route.cursor = n
  BY Seeking
<1>2. n \in Nat
  BY NextAtCuts, SongFacts
<1> HIDE DEF t
<1>3. NextAt(t.route.events, to) = n
  BY <1>1
<1> HIDE DEF n
<1>4. n <= n /\ (n + 1)..n = {}
  BY <1>2
<1> QED
  BY <1>1, <1>3, <1>4 DEF Sent, t

(* A route that has nothing to play. *)
LEMMA SilentSends ==
  ASSUME SortedAssumption, NEW r, RouteOK(r), r.events = <<>>, NEW to \in Nat
  PROVE  Sent(r, {}, to) /\ NextAt(r.events, to) <= r.cursor
<1>1. r.cursor \in 0..Len(r.events) /\ NextAt(r.events, to) \in 0..Len(r.events)
  BY RouteFacts
<1>2. Len(r.events) = 0
  BY EmptySeq
<1>3. r.cursor = 0 /\ NextAt(r.events, to) = 0
  BY <1>1, <1>2
<1>4. (0 + 1)..0 = {} /\ 0 <= 0
  OBVIOUS
<1> QED
  BY <1>3, <1>4 DEF Sent

----------------------------------------------------------------------------
(* The device.                                                             *)

(* Steps that tell the truth leave nothing sounding that no route knows of. *)
LEMMA EmitIsKnown ==
  ASSUME NEW do, \A s \in Scopes : StepOK(do[s], routes[s]),
         synth.keys \subseteq UNION {routes[s].sounding : s \in Scopes}
  PROVE  /\ Emit(do) \subseteq UNION {do[s].route.sounding : s \in Scopes}
         /\ Emit(do) \subseteq PortKeys
<1>1. ASSUME NEW k \in Emit(do) PROVE \E s \in Scopes : k \in do[s].route.sounding
  <2>1. CASE \E s \in Scopes : k \in Hear({}, do[s].play)
    BY <2>1 DEF StepOK, Truthful
  <2>2. CASE k \in synth.keys /\ \A s \in Scopes : k \notin do[s].off \cup KeysOf(do[s].play)
    <3>1. PICK s \in Scopes : k \in routes[s].sounding
      BY <2>2
    <3> QED
      BY <2>2, <3>1 DEF StepOK, Truthful
  <2> QED
    BY <1>1, <2>1, <2>2 DEF Emit
<1>2. \A s \in Scopes : do[s].route.sounding \subseteq PortKeys
  BY DEF StepOK, RouteOK, Route
<1> QED
  BY <1>1, <1>2

----------------------------------------------------------------------------
(* The invariant.                                                          *)

(* A route of the port: what it has sent, and that nothing of it is ahead  *)
(* of the song; once the song ran, that nothing of it is behind.           *)
RouteInv(s) ==
  /\ RouteOK(routes[s]) /\ Sent(routes[s], heard[s], from[s])
  /\ running => \A i \in heard[s] : routes[s].events[i].at <= est
  /\ live /\ running /\ s \notin placed => NextAt(routes[s].events, est) <= routes[s].cursor
  /\ ~live \/ ~running => routes[s].sounding = {}

Known == synth.keys \subseteq UNION {routes[s].sounding : s \in Scopes}

PortInv == PortTypeOK /\ (\A s \in Scopes : RouteInv(s)) /\ Known /\ DeviceFollows

LEMMA InitIInv ==
  ASSUME SortedAssumption, PulsesAssumption
  PROVE  PortInit => PortInv
<1> SUFFICES ASSUME PortInit PROVE PortInv
  OBVIOUS
<1>1. NoRoute \in Route /\ NoRoute.cursor = 0 /\ NoRoute.events = <<>> /\ NoRoute.sounding = {}
  BY DEF NoRoute, Route
<1>2. Len(<<>>) = 0 /\ 0 \in Nat
  BY EmptySeq
<1>3. RouteOK(NoRoute)
  BY <1>1, <1>2 DEF RouteOK
<1>4. 0 \in Positions
  BY DEF Positions, PulsesAssumption
<1>5. Sent(NoRoute, {}, 0)
  BY <1>1, <1>2, <1>3, SilentSends
<1>6. synth \in Synth /\ synth.keys = {} /\ ~synth.runs
  BY <1>4 DEF PortInit, Mute, Synth
<1>7. \A s \in Scopes : routes[s] = NoRoute /\ heard[s] = {} /\ from[s] = 0
  BY DEF PortInit
<1>8. PortTypeOK
  <2>1. /\ live \in BOOLEAN /\ enabled \in BOOLEAN /\ running \in BOOLEAN /\ slipped \in BOOLEAN
        /\ est \in Positions /\ pulse \in Positions /\ length \in Lengths /\ placed \subseteq Scopes
    BY <1>4 DEF PortInit
  <2>2. routes \in [Scopes -> Route] /\ from \in [Scopes -> Positions]
    BY <1>1, <1>4 DEF PortInit
  <2>3. heard \in [Scopes -> SUBSET Nat]
    BY DEF PortInit
  <2>4. \A s \in Scopes : routes[s].cursor <= Len(routes[s].events)
    BY <1>1, <1>2, <1>7
  <2> QED
    BY <1>6, <2>1, <2>2, <2>3, <2>4 DEF PortTypeOK
<1>9. \A s \in Scopes : RouteInv(s)
  BY <1>1, <1>3, <1>5, <1>7 DEF RouteInv, PortInit
<1>10. Known
  BY <1>6 DEF Known
<1>11. DeviceFollows
  <2>1. ~running /\ synth.runs = FALSE
    BY <1>6 DEF PortInit, Mute
  <2> QED
    BY <2>1 DEF DeviceFollows, PortInit
<1> QED
  BY <1>8, <1>9, <1>10, <1>11 DEF PortInv

----------------------------------------------------------------------------
(* The routes' steps together.                                             *)

Kept(afresh, s) == IF s \in afresh THEN {} ELSE heard[s]
Since(afresh, at, s) == IF s \in afresh THEN at ELSE from[s]

LEMMA Moves ==
  ASSUME SortedAssumption, PulsesAssumption, PortInv, NEW do, NEW afresh, NEW at \in Positions,
         Step(do), Remember(do, afresh, at), synth'.keys = Emit(do),
         \A s \in Scopes : /\ StepOK(do[s], routes[s])
                          /\ Sent(do[s].route, do[s].sent \cup Kept(afresh, s), Since(afresh, at, s))
  PROVE  /\ routes' \in [Scopes -> Route] /\ from' \in [Scopes -> Positions]
         /\ heard' \in [Scopes -> SUBSET Nat] /\ synth'.keys \subseteq PortKeys /\ Known'
         /\ \A s \in Scopes : /\ routes'[s] = do[s].route
                              /\ heard'[s] = do[s].sent \cup Kept(afresh, s)
                              /\ RouteOK(routes'[s]) /\ Sent(routes'[s], heard'[s], from'[s])
                              /\ routes'[s].cursor <= Len(routes'[s].events)
<1>1. /\ routes' = [s \in Scopes |-> do[s].route]
      /\ heard' = [s \in Scopes |-> do[s].sent \cup Kept(afresh, s)]
      /\ from' = [s \in Scopes |-> Since(afresh, at, s)]
  BY DEF Step, Remember, Kept, Since
<1>2. \A s \in Scopes : /\ routes'[s] = do[s].route /\ heard'[s] = do[s].sent \cup Kept(afresh, s)
                       /\ from'[s] = Since(afresh, at, s)
  BY <1>1
<1>3. \A s \in Scopes : RouteOK(routes'[s]) /\ Sent(routes'[s], heard'[s], from'[s])
  BY <1>2 DEF StepOK
<1>4. \A s \in Scopes : from[s] \in Positions
  BY DEF PortInv, PortTypeOK
<1>5. from' \in [Scopes -> Positions]
  BY <1>1, <1>4 DEF Since
<1>6. routes' \in [Scopes -> Route] /\ \A s \in Scopes : routes'[s].cursor <= Len(routes'[s].events)
  BY <1>1, <1>3 DEF RouteOK
<1>7. ASSUME NEW s \in Scopes PROVE heard'[s] \subseteq Nat
  <2>1. from'[s] \in Nat
    BY <1>5 DEF Positions, PulsesAssumption
  <2>2. NextAt(routes'[s].events, from'[s]) \in Nat /\ routes'[s].cursor \in Nat
    BY <1>3, <2>1, RouteFacts
  <2> QED
    BY <1>3, <2>2 DEF Sent
<1>8. heard' \in [Scopes -> SUBSET Nat]
  BY <1>1, <1>7
<1>9. /\ Emit(do) \subseteq UNION {do[s].route.sounding : s \in Scopes}
      /\ Emit(do) \subseteq PortKeys
  BY EmitIsKnown DEF PortInv, Known
<1>10. Known'
  BY <1>2, <1>9 DEF Known
<1> QED
  BY <1>2, <1>3, <1>5, <1>6, <1>8, <1>9, <1>10

LEMMA LandsWell ==
  ASSUME SortedAssumption, PulsesAssumption, PortInv, NEW at \in Positions, NEW s \in Scopes
  PROVE  LET t == Lands(at)[s] IN
         /\ StepOK(t, routes[s]) /\ Sent(t.route, t.sent, at)
         /\ NextAt(t.route.events, at) <= t.route.cursor
         /\ \A i \in t.sent : t.route.events[i].at <= at
<1>1. RouteOK(routes[s]) /\ at \in Nat
  BY DEF PortInv, RouteInv, Positions, PulsesAssumption
<1>2. CASE routes[s].on
  <2>1. Lands(at)[s] = Land(routes[s], at)
    BY <1>2 DEF Lands
  <2> QED
    BY <1>1, <1>2, <2>1, Landing, LandingSends
<1>3. CASE ~routes[s].on
  <2>1. Lands(at)[s] = Rests(routes[s])
    BY <1>3 DEF Lands
  <2>2. routes[s].events = <<>>
    BY <1>1, <1>3 DEF RouteOK
  <2> DEFINE t == Rests(routes[s])
  <2>3. StepOK(t, routes[s]) /\ t.route = routes[s] /\ t.sent = {}
    BY <1>1, Resting
  <2>4. Sent(routes[s], {}, at) /\ NextAt(routes[s].events, at) <= routes[s].cursor
    BY <1>1, <2>2, SilentSends
  <2> HIDE DEF t
  <2>5. /\ Sent(t.route, t.sent, at) /\ NextAt(t.route.events, at) <= t.route.cursor
        /\ \A i \in t.sent : t.route.events[i].at <= at
    BY <2>3, <2>4
  <2> QED
    BY <2>1, <2>3, <2>5 DEF t
<1> QED
  BY <1>2, <1>3

LEMMA AdvancesWell ==
  ASSUME SortedAssumption, PulsesAssumption, PortInv, NEW to \in Nat, NEW s \in Scopes
  PROVE  LET t == Advances(to)[s] IN
         /\ StepOK(t, routes[s]) /\ Sent(t.route, t.sent \cup heard[s], from[s])
         /\ NextAt(t.route.events, to) <= t.route.cursor
         /\ \A i \in t.sent : t.route.events[i].at < to
         /\ t.route.events = routes[s].events
<1>1. RouteOK(routes[s]) /\ Sent(routes[s], heard[s], from[s])
  BY DEF PortInv, RouteInv
<1>2. from[s] \in Nat
  BY DEF PortInv, PortTypeOK, Positions, PulsesAssumption
<1>3. Advances(to)[s] = AdvanceRoute(routes[s], to)
  BY DEF Advances
<1>4. /\ StepOK(AdvanceRoute(routes[s], to), routes[s])
      /\ AdvanceRoute(routes[s], to).route.events = routes[s].events
  BY <1>1, Advancing
<1>5. LET t == AdvanceRoute(routes[s], to) IN
      /\ Sent(t.route, t.sent \cup heard[s], from[s])
      /\ NextAt(t.route.events, to) <= t.route.cursor
      /\ \A i \in t.sent : t.route.events[i].at < to
  BY <1>1, <1>2, AdvancingSends
<1> QED
  BY <1>3, <1>4, <1>5

----------------------------------------------------------------------------
(* The device's clock.                                                     *)

LEMMA Quotient ==
  ASSUME NEW x \in Nat, NEW s \in Nat \ {0}
  PROVE  /\ x \div s \in 0..x /\ s * (x \div s) \in 0..x
         /\ x - s * (x \div s) \in 0..(s - 1)
<1> DEFINE q == x \div s
<1>1. q \in Nat /\ x % s \in Nat /\ x % s < s /\ x = s * q + (x % s)
  BY SMT
<1> HIDE DEF q
<1>2. s * q \in Nat /\ (s - 1) * q \in Nat /\ s * q = (s - 1) * q + q
  BY <1>1
<1>3. s * q \in 0..x /\ x - s * q \in 0..(s - 1) /\ q \in 0..x
  BY <1>1, <1>2
<1> QED
  BY <1>3 DEF q

LEMMA PulseFacts ==
  ASSUME PulsesAssumption, length \in Lengths, NEW at \in Positions
  PROVE  /\ PulseOf(at) \in Positions /\ Cued(PulseOf(at)).runs
         /\ Cued(PulseOf(at)).pulse \in Positions
         /\ Said(PulseOf(at)) => PulseOf(at) - Cued(PulseOf(at)).pulse \in 0..(PerSpp - 1)
<1>1. length \in Nat \ {0} /\ PerSpp \in Nat \ {0} /\ MaxPos \in Nat /\ at \in Nat /\ at <= MaxPos
  BY DEF PulsesAssumption, Positions
<1> DEFINE p == PulseOf(at)
           q == p \div PerSpp
<1>2. p \in 0..at
  BY <1>1, Quotient DEF PulseOf
<1>3. p \in Nat /\ p \in Positions
  BY <1>1, <1>2 DEF Positions
<1> HIDE DEF p
<1>4. q \in Nat /\ PerSpp * q \in 0..p /\ p - PerSpp * q \in 0..(PerSpp - 1)
  <2>1. q \in 0..p /\ PerSpp * q \in 0..p /\ p - PerSpp * q \in 0..(PerSpp - 1)
    BY <1>1, <1>3, Quotient
  <2> HIDE DEF q
  <2> QED
    BY <1>3, <2>1
<1>5. Cued(p).runs /\ Cued(p).pulse = PerSpp * Least(q, MaxSpp) /\ (Said(p) <=> q <= MaxSpp)
  BY DEF Cued, Spp, Said
<1> HIDE DEF q
<1>6. CASE q <= MaxSpp
  BY <1>1, <1>3, <1>4, <1>5, <1>6 DEF Positions, Least, p
<1>7. CASE ~(q <= MaxSpp)
  <2>1. MaxSpp \in Nat /\ q - MaxSpp \in Nat
    BY <1>4, <1>7 DEF PulsesAssumption
  <2>2. PerSpp * MaxSpp \in Nat /\ PerSpp * (q - MaxSpp) \in Nat
    BY <1>1, <2>1
  <2>3. PerSpp * q = PerSpp * MaxSpp + PerSpp * (q - MaxSpp)
    BY <1>1, <1>4, <2>1
  <2>4. PerSpp * MaxSpp \in Positions
    BY <1>1, <1>3, <1>4, <2>2, <2>3 DEF Positions
  <2> QED
    BY <1>3, <1>5, <1>7, <2>4 DEF Least, p
<1> QED
  BY <1>6, <1>7

LEMMA Tells ==
  ASSUME PortTypeOK, NEW do, NEW clock, PortTick(do, clock), clock.runs \in BOOLEAN,
         clock.pulse \in Positions
  PROVE  /\ synth'.keys = Emit(do)
         /\ synth'.keys \subseteq PortKeys => synth' \in Synth
         /\ enabled => synth'.runs = clock.runs /\ synth'.pulse = clock.pulse
         /\ ~enabled => synth'.runs = synth.runs /\ synth'.pulse = synth.pulse
<1>1. synth \in Synth
  BY DEF PortTypeOK
<1>2. CASE enabled
  <2>1. synth' = [keys |-> Emit(do), runs |-> clock.runs, pulse |-> clock.pulse]
    BY <1>2 DEF PortTick
  <2> QED
    BY <1>2, <2>1 DEF Synth
<1>3. CASE ~enabled
  <2>1. synth' = [synth EXCEPT !.keys = Emit(do)]
    BY <1>3 DEF PortTick
  <2> QED
    BY <1>1, <1>3, <2>1 DEF Synth
<1> QED
  BY <1>2, <1>3

----------------------------------------------------------------------------
(* Every action keeps the invariant.                                       *)

LEMMA StepRefresh ==
  ASSUME SortedAssumption, PulsesAssumption, PortInv, Refresh
  PROVE  PortInv'
<1>1. PICK new \in [Scopes -> Contents \cup {NoRoute.events}], at \in Positions, l \in Lengths :
        LET stays == {s \in Scopes : routes[s].events = new[s]}
            gone == {s \in Scopes \ stays : new[s] = NoRoute.events}
            do == [s \in Scopes |->
                     IF s \in stays THEN Rests(routes[s])
                     ELSE IF s \in gone THEN Released(routes[s], NoRoute)
                     ELSE Reseek(routes[s], new[s], at)]
        IN  /\ Step(do) /\ Remember(do, Scopes \ stays, at)
            /\ synth' = [synth EXCEPT !.keys = Emit(do)]
            /\ placed' = placed \cup (Scopes \ stays)
            /\ length' = l /\ slipped' = (slipped \/ l # length)
  BY DEF Refresh
<1> DEFINE stays == {s \in Scopes : routes[s].events = new[s]}
           gone == {s \in Scopes \ stays : new[s] = NoRoute.events}
           do == [s \in Scopes |->
                    IF s \in stays THEN Rests(routes[s])
                    ELSE IF s \in gone THEN Released(routes[s], NoRoute)
                    ELSE Reseek(routes[s], new[s], at)]
           afresh == Scopes \ stays
<1>2. /\ live /\ Step(do) /\ Remember(do, afresh, at) /\ synth' = [synth EXCEPT !.keys = Emit(do)]
      /\ placed' = placed \cup afresh /\ length' \in Lengths /\ slipped' = (slipped \/ length' # length)
      /\ live' = live /\ enabled' = enabled /\ running' = running /\ est' = est /\ pulse' = pulse
  BY <1>1 DEF Refresh
<1>3. PortTypeOK /\ DeviceFollows /\ Known /\ at \in Nat
  BY DEF PortInv, Positions, PulsesAssumption
<1>4. ASSUME NEW s \in Scopes
      PROVE  /\ StepOK(do[s], routes[s]) /\ do[s].sent = {}
             /\ s \in afresh => Sent(do[s].route, {}, at) /\ do[s].route.sounding = {}
             /\ s \notin afresh => do[s].route = routes[s]
  <2>1. RouteOK(routes[s]) /\ new[s] \in Played
    BY DEF PortInv, RouteInv, Played
  <2>2. CASE s \in stays
    <3>1. do[s] = Rests(routes[s])
      BY <2>2
    <3>2. LET t == Rests(routes[s]) IN StepOK(t, routes[s]) /\ t.route = routes[s] /\ t.sent = {}
      BY <2>1, Resting
    <3> HIDE DEF do
    <3> QED
      BY <2>2, <3>1, <3>2
  <2>3. CASE s \in gone
    <3>1. do[s] = Released(routes[s], NoRoute) /\ s \in afresh
      BY <2>3
    <3>2. LET t == Released(routes[s], NoRoute) IN
          StepOK(t, routes[s]) /\ t.sent = {} /\ t.route = NoRoute
      BY <2>1, Leaving
    <3>3. RouteOK(NoRoute) /\ NoRoute.events = <<>> /\ NoRoute.sounding = {}
      BY <3>2 DEF StepOK, NoRoute
    <3>4. Sent(NoRoute, {}, at)
      BY <1>3, <3>3, SilentSends
    <3> HIDE DEF do, afresh
    <3> QED
      BY <3>1, <3>2, <3>3, <3>4
  <2>4. CASE s \notin stays /\ s \notin gone
    <3>1. do[s] = Reseek(routes[s], new[s], at) /\ s \in afresh
      BY <2>4
    <3>2. LET t == Reseek(routes[s], new[s], at) IN
          StepOK(t, routes[s]) /\ t.sent = {} /\ t.route.sounding = {}
      BY <1>3, <2>1, Seeking
    <3>3. Sent(Reseek(routes[s], new[s], at).route, {}, at)
      BY <1>3, <2>1, SeekingSends
    <3> HIDE DEF do, afresh
    <3> QED
      BY <3>1, <3>2, <3>3
  <2> QED
    BY <2>2, <2>3, <2>4
<1> HIDE DEF do, afresh
<1>5. synth \in Synth
  BY <1>3 DEF PortTypeOK
<1>6. synth'.keys = Emit(do) /\ synth'.runs = synth.runs /\ synth'.pulse = synth.pulse
  BY <1>2, <1>5 DEF Synth
<1>7. ASSUME NEW s \in Scopes
      PROVE  Sent(do[s].route, do[s].sent \cup Kept(afresh, s), Since(afresh, at, s))
  <2>1. Sent(routes[s], heard[s], from[s])
    BY DEF PortInv, RouteInv
  <2>2. do[s].sent \cup Kept(afresh, s) = Kept(afresh, s)
    BY <1>4
  <2> QED
    BY <1>4, <2>1, <2>2 DEF Kept, Since
<1>8. /\ routes' \in [Scopes -> Route] /\ from' \in [Scopes -> Positions]
      /\ heard' \in [Scopes -> SUBSET Nat] /\ synth'.keys \subseteq PortKeys /\ Known'
      /\ \A s \in Scopes : /\ routes'[s] = do[s].route
                           /\ heard'[s] = do[s].sent \cup Kept(afresh, s)
                           /\ RouteOK(routes'[s]) /\ Sent(routes'[s], heard'[s], from'[s])
                           /\ routes'[s].cursor <= Len(routes'[s].events)
  BY <1>2, <1>4, <1>6, <1>7, Moves
<1>9. synth' \in Synth
  BY <1>2, <1>5, <1>8 DEF Synth
<1>10. PortTypeOK'
  <2>1. slipped' \in BOOLEAN /\ placed' \subseteq Scopes
    BY <1>2, <1>3 DEF PortTypeOK, afresh
  <2> QED
    BY <1>2, <1>3, <1>8, <1>9, <2>1 DEF PortTypeOK
<1>11. ASSUME NEW s \in Scopes PROVE RouteInv(s)'
  <2>1. RouteInv(s)
    BY DEF PortInv
  <2>2. CASE s \in afresh
    <3>1. heard'[s] = {} /\ s \in placed' /\ routes'[s].sounding = {}
      BY <1>2, <1>4, <1>8, <2>2 DEF Kept
    <3> QED
      BY <1>8, <3>1 DEF RouteInv
  <2>3. CASE s \notin afresh
    <3>1. heard'[s] = heard[s] /\ routes'[s] = routes[s] /\ (s \notin placed' => s \notin placed)
      BY <1>2, <1>4, <1>8, <2>3 DEF Kept
    <3> QED
      BY <1>2, <1>8, <2>1, <3>1 DEF RouteInv
  <2> QED
    BY <2>2, <2>3
<1>12. DeviceFollows'
  BY <1>2, <1>3, <1>6 DEF DeviceFollows
<1> QED
  BY <1>8, <1>10, <1>11, <1>12 DEF PortInv

(* Each route plays up to where the song now is. *)
PlaysUpTo(do, afresh, at) ==
  \A s \in Scopes : /\ StepOK(do[s], routes[s])
                   /\ Sent(do[s].route, do[s].sent \cup Kept(afresh, s), Since(afresh, at, s))
                   /\ NextAt(do[s].route.events, est') <= do[s].route.cursor
                   /\ \A i \in do[s].sent \cup Kept(afresh, s) : do[s].route.events[i].at <= est'

(* A tick while the song runs. *)
LEMMA StepPlaying ==
  ASSUME SortedAssumption, PulsesAssumption, PortInv, NEW do, NEW afresh, NEW at \in Positions,
         NEW clock, clock.runs \in BOOLEAN, clock.pulse \in Positions,
         PortTick(do, clock), Remember(do, afresh, at), running' = TRUE,
         est' \in Positions, pulse' \in Positions, slipped' \in BOOLEAN, DeviceFollows',
         PlaysUpTo(do, afresh, at)
  PROVE  PortInv'
<1>0. \A s \in Scopes : /\ StepOK(do[s], routes[s])
                       /\ Sent(do[s].route, do[s].sent \cup Kept(afresh, s), Since(afresh, at, s))
                       /\ NextAt(do[s].route.events, est') <= do[s].route.cursor
                       /\ \A i \in do[s].sent \cup Kept(afresh, s) : do[s].route.events[i].at <= est'
  BY DEF PlaysUpTo
<1>1. PortTypeOK
  BY DEF PortInv
<1>2. /\ live /\ Step(do) /\ live' = live /\ enabled' = enabled /\ length' = length /\ placed' = {}
  BY DEF PortTick
<1>3. synth'.keys = Emit(do) /\ (synth'.keys \subseteq PortKeys => synth' \in Synth)
  BY <1>1, Tells
<1>4. /\ routes' \in [Scopes -> Route] /\ from' \in [Scopes -> Positions]
      /\ heard' \in [Scopes -> SUBSET Nat] /\ synth'.keys \subseteq PortKeys /\ Known'
      /\ \A s \in Scopes : /\ routes'[s] = do[s].route
                           /\ heard'[s] = do[s].sent \cup Kept(afresh, s)
                           /\ RouteOK(routes'[s]) /\ Sent(routes'[s], heard'[s], from'[s])
                           /\ routes'[s].cursor <= Len(routes'[s].events)
  BY <1>0, <1>2, <1>3, Moves
<1>5. PortTypeOK'
  BY <1>1, <1>2, <1>3, <1>4 DEF PortTypeOK
<1>6. ASSUME NEW s \in Scopes PROVE RouteInv(s)'
  BY <1>0, <1>1, <1>2, <1>4 DEF RouteInv
<1> QED
  BY <1>4, <1>5, <1>6 DEF PortInv

LEMMA StepTickStopped ==
  ASSUME SortedAssumption, PulsesAssumption, PortInv, TickStopped
  PROVE  PortInv'
<1> DEFINE do == [s \in Scopes |-> IF running THEN AllOff(routes[s]) ELSE Rests(routes[s])]
<1>1. /\ PortTick(do, Halted) /\ Remember(do, {}, 0) /\ running' = FALSE
      /\ slipped' = (IF running THEN ~enabled ELSE slipped) /\ est' = est /\ pulse' = pulse
  BY DEF TickStopped
<1>2. ASSUME NEW s \in Scopes
      PROVE  /\ StepOK(do[s], routes[s]) /\ do[s].sent = {}
             /\ do[s].route.events = routes[s].events /\ do[s].route.cursor = routes[s].cursor
             /\ do[s].route.sounding = {}
  <2>1. RouteOK(routes[s]) /\ (~running => routes[s].sounding = {})
    BY DEF PortInv, RouteInv
  <2>2. CASE running
    <3>1. do[s] = AllOff(routes[s])
      BY <2>2
    <3> HIDE DEF do
    <3>2. LET t == AllOff(routes[s]) IN
          /\ StepOK(t, routes[s]) /\ t.sent = {} /\ t.route.events = routes[s].events
          /\ t.route.cursor = routes[s].cursor /\ t.route.sounding = {}
      BY <2>1, Silencing
    <3> QED
      BY <3>1, <3>2
  <2>3. CASE ~running
    <3>1. do[s] = Rests(routes[s])
      BY <2>3
    <3> HIDE DEF do
    <3>2. LET t == Rests(routes[s]) IN StepOK(t, routes[s]) /\ t.sent = {} /\ t.route = routes[s]
      BY <2>1, Resting
    <3> QED
      BY <2>1, <2>3, <3>1, <3>2
  <2> QED
    BY <2>2, <2>3
<1> HIDE DEF do
<1>3. PortTypeOK /\ DeviceFollows /\ synth \in Synth
  BY DEF PortInv, PortTypeOK
<1>4. ASSUME NEW s \in Scopes
      PROVE  Sent(do[s].route, do[s].sent \cup Kept({}, s), Since({}, 0, s))
  BY <1>2 DEF PortInv, RouteInv, Sent, Kept, Since
<1>5. /\ live /\ Step(do) /\ live' = live /\ enabled' = enabled /\ length' = length /\ placed' = {}
  BY <1>1 DEF PortTick
<1>6. Halted.runs = FALSE /\ Halted.pulse = synth.pulse /\ synth.pulse \in Positions
  BY <1>3 DEF Halted, Synth
<1>7. /\ synth'.keys = Emit(do) /\ (synth'.keys \subseteq PortKeys => synth' \in Synth)
      /\ (enabled => synth'.runs = FALSE) /\ (~enabled => synth'.runs = synth.runs)
  BY <1>1, <1>3, <1>6, Tells
<1>8. 0 \in Positions
  BY DEF Positions, PulsesAssumption
<1>9. /\ routes' \in [Scopes -> Route] /\ from' \in [Scopes -> Positions]
      /\ heard' \in [Scopes -> SUBSET Nat] /\ synth'.keys \subseteq PortKeys /\ Known'
      /\ \A s \in Scopes : /\ routes'[s] = do[s].route
                           /\ heard'[s] = do[s].sent \cup Kept({}, s)
                           /\ RouteOK(routes'[s]) /\ Sent(routes'[s], heard'[s], from'[s])
                           /\ routes'[s].cursor <= Len(routes'[s].events)
  BY <1>1, <1>2, <1>4, <1>5, <1>7, <1>8, Moves
<1>10. PortTypeOK'
  <2>1. slipped' \in BOOLEAN
    BY <1>1, <1>3 DEF PortTypeOK
  <2> QED
    BY <1>1, <1>3, <1>5, <1>7, <1>9, <2>1 DEF PortTypeOK
<1>11. ASSUME NEW s \in Scopes PROVE RouteInv(s)'
  BY <1>1, <1>2, <1>9 DEF RouteInv
<1>12. DeviceFollows'
  <2> SUFFICES ASSUME ~slipped' PROVE synth'.runs = FALSE
    BY <1>1 DEF DeviceFollows
  <2>1. CASE enabled
    BY <1>7, <2>1
  <2>2. CASE ~enabled
    <3>1. running \in BOOLEAN /\ slipped \in BOOLEAN
      BY <1>3 DEF PortTypeOK
    <3>2. ~running /\ ~slipped
      BY <1>1, <2>2
    <3>3. synth.runs = running /\ running = FALSE
      BY <1>3, <1>5, <3>1, <3>2 DEF DeviceFollows
    <3> QED
      BY <1>7, <2>2, <3>3
  <2> QED
    BY <2>1, <2>2
<1> QED
  BY <1>9, <1>10, <1>11, <1>12 DEF PortInv

(* Every route lands where the song now is, and the device is cued there. *)
LEMMA StepLanding ==
  ASSUME SortedAssumption, PulsesAssumption, PortInv, NEW at \in Positions,
         PortTick(Lands(at), Cued(PulseOf(at))), Remember(Lands(at), Scopes, at),
         est' = at, pulse' = PulseOf(at), running' = TRUE,
         slipped' = (~enabled \/ ~Said(pulse'))
  PROVE  PortInv'
<1> DEFINE do == Lands(at)
           clock == Cued(PulseOf(at))
<1>1. PortTypeOK /\ length \in Lengths
  BY DEF PortInv, PortTypeOK
<1>2. /\ PulseOf(at) \in Positions /\ clock.runs = TRUE /\ clock.pulse \in Positions
      /\ Said(PulseOf(at)) => PulseOf(at) - clock.pulse \in 0..(PerSpp - 1)
  BY <1>1, PulseFacts DEF Cued
<1>3. PortTick(do, clock) /\ Remember(do, Scopes, at)
  OBVIOUS
<1>4. ASSUME NEW s \in Scopes
      PROVE  /\ StepOK(do[s], routes[s])
             /\ Sent(do[s].route, do[s].sent \cup Kept(Scopes, s), Since(Scopes, at, s))
             /\ NextAt(do[s].route.events, est') <= do[s].route.cursor
             /\ \A i \in do[s].sent \cup Kept(Scopes, s) : do[s].route.events[i].at <= est'
  <2>1. LET t == Lands(at)[s] IN
         /\ StepOK(t, routes[s]) /\ Sent(t.route, t.sent, at)
         /\ NextAt(t.route.events, at) <= t.route.cursor
         /\ \A i \in t.sent : t.route.events[i].at <= at
    BY LandsWell
  <2>2. do[s].sent \cup Kept(Scopes, s) = do[s].sent /\ Since(Scopes, at, s) = at
    BY DEF Kept, Since
  <2> HIDE DEF do
  <2> QED
    BY <2>1, <2>2 DEF do
<1> HIDE DEF do, clock
<1>5. DeviceFollows'
  <2>1. enabled => synth'.runs = TRUE /\ synth'.pulse = clock.pulse
    BY <1>1, <1>2, <1>3, Tells
  <2> QED
    BY <1>2, <2>1 DEF DeviceFollows
<1>6. /\ clock.runs \in BOOLEAN /\ est' \in Positions /\ pulse' \in Positions
      /\ slipped' \in BOOLEAN /\ running' = TRUE
  BY <1>2
<1>7. PlaysUpTo(do, Scopes, at)
  BY <1>4 DEF PlaysUpTo
<1> QED
  BY <1>2, <1>3, <1>5, <1>6, <1>7, StepPlaying

LEMMA StepTickStarts ==
  ASSUME SortedAssumption, PulsesAssumption, PortInv, TickStarts
  PROVE  PortInv'
BY StepLanding DEF TickStarts

LEMMA StepTickJumps ==
  ASSUME SortedAssumption, PulsesAssumption, PortInv, TickJumps
  PROVE  PortInv'
<1>1. PICK d \in 0..MaxStep, at \in Positions :
        /\ LET do == IF PlaysThrough(est, at) THEN Advances(at + 1) ELSE Lands(at)
               far == at < est \/ at - est > 2 * Tolerance
           IN  PortTick(do, Cued(PulseOf(at))) /\ Remember(do, IF far THEN Scopes ELSE {}, at)
        /\ est' = at /\ pulse' = PulseOf(at)
  BY DEF TickJumps
<1>2. PortTypeOK /\ length \in Lengths /\ est \in Nat /\ at \in Nat /\ Tolerance \in Nat
  BY DEF PortInv, PortTypeOK, Positions, PulsesAssumption
<1>3. running /\ running' = TRUE /\ slipped' = (~enabled \/ ~Said(pulse'))
  BY <1>2 DEF TickJumps, PortTypeOK
<1>4. CASE ~PlaysThrough(est, at)
  <2>1. at < est \/ at - est > 2 * Tolerance
    BY <1>2, <1>4 DEF PlaysThrough
  <2>2. PortTick(Lands(at), Cued(PulseOf(at))) /\ Remember(Lands(at), Scopes, at)
    BY <1>1, <1>4, <2>1
  <2> QED
    BY <1>1, <1>3, <2>2, StepLanding
<1>5. CASE PlaysThrough(est, at)
  <2> DEFINE do == Advances(at + 1)
             clock == Cued(PulseOf(at))
  <2>1. ~(at < est \/ at - est > 2 * Tolerance) /\ est <= at
    BY <1>2, <1>5 DEF PlaysThrough
  <2>2. PortTick(do, clock) /\ Remember(do, {}, at)
    BY <1>1, <1>5, <2>1
  <2>3. /\ PulseOf(at) \in Positions /\ clock.runs = TRUE /\ clock.pulse \in Positions
        /\ Said(PulseOf(at)) => PulseOf(at) - clock.pulse \in 0..(PerSpp - 1)
    BY <1>2, PulseFacts DEF Cued
  <2>4. live /\ at + 1 \in Nat /\ at <= at + 1
    BY <1>2, <2>2 DEF PortTick
  <2>5. ASSUME NEW s \in Scopes
        PROVE  /\ StepOK(do[s], routes[s])
               /\ Sent(do[s].route, do[s].sent \cup Kept({}, s), Since({}, at, s))
               /\ NextAt(do[s].route.events, est') <= do[s].route.cursor
               /\ \A i \in do[s].sent \cup Kept({}, s) : do[s].route.events[i].at <= est'
    <3>1. /\ StepOK(do[s], routes[s]) /\ Sent(do[s].route, do[s].sent \cup heard[s], from[s])
          /\ NextAt(do[s].route.events, at + 1) <= do[s].route.cursor
          /\ \A i \in do[s].sent : do[s].route.events[i].at < at + 1
          /\ do[s].route.events = routes[s].events
      BY <2>4, AdvancesWell
    <3> HIDE DEF do
    <3>2. Kept({}, s) = heard[s] /\ Since({}, at, s) = from[s]
      BY DEF Kept, Since
    <3>3. RouteInv(s) /\ RouteOK(do[s].route)
      BY <3>1 DEF PortInv, StepOK
    <3>4. NextAt(do[s].route.events, at) <= do[s].route.cursor
      BY <1>2, <2>4, <3>1, <3>3, CursorIsBeyond
    <3>5. ASSUME NEW i \in do[s].sent \cup heard[s] PROVE do[s].route.events[i].at <= at
      <4>1. from[s] \in Nat
        BY <1>2 DEF PortTypeOK, Positions, PulsesAssumption
      <4>2. do[s].route.events[i].at \in Nat
        BY <3>1, <3>3, <4>1, SentFacts
      <4>3. CASE i \in do[s].sent
        <5>1. do[s].route.events[i].at < at + 1
          BY <3>1, <4>3
        <5> QED
          BY <1>2, <4>2, <5>1
      <4>4. CASE i \in heard[s]
        <5>1. do[s].route.events[i].at <= est
          BY <1>3, <3>1, <3>3, <4>4 DEF RouteInv
        <5> QED
          BY <1>2, <2>1, <4>2, <5>1
      <4> QED
        BY <4>3, <4>4
    <3> QED
      BY <1>1, <3>1, <3>2, <3>4, <3>5
  <2> HIDE DEF do, clock
  <2>6. DeviceFollows'
    <3>1. enabled => synth'.runs = TRUE /\ synth'.pulse = clock.pulse
      BY <1>2, <2>2, <2>3, Tells
    <3> QED
      BY <1>1, <1>3, <2>3, <3>1 DEF DeviceFollows
  <2>7. /\ clock.runs \in BOOLEAN /\ est' \in Positions /\ pulse' \in Positions
        /\ slipped' \in BOOLEAN
    BY <1>1, <1>3, <2>3
  <2>8. PlaysUpTo(do, {}, at)
    BY <2>5 DEF PlaysUpTo
  <2> QED
    BY <1>3, <2>2, <2>3, <2>6, <2>7, <2>8, StepPlaying
<1> QED
  BY <1>4, <1>5

LEMMA Counted ==
  ASSUME NEW p \in Nat, NEW q \in Nat, NEW limit \in Nat
  PROVE  LET n == IF q > p THEN q - p ELSE 0
             burst == IF n > limit THEN 0 ELSE n
         IN  /\ n \in Nat /\ burst \in Nat
             /\ ~(n > limit) /\ ~(q < p) => burst = n /\ q = p + n
<1> DEFINE n == IF q > p THEN q - p ELSE 0
<1>1. n \in Nat /\ (~(q < p) => q = p + n)
  OBVIOUS
<1> HIDE DEF n
<1> QED
  BY <1>1 DEF n

LEMMA StepTickRuns ==
  ASSUME SortedAssumption, PulsesAssumption, PortInv, TickRuns
  PROVE  PortInv'
<1> DEFINE n == IF pulse' > pulse THEN pulse' - pulse ELSE 0
           burst == IF n > MaxBurst THEN 0 ELSE n
           clock == Clocked(burst)
           do == Advances(est')
<1>1. PICK d \in 0..MaxStep : est + d \in Positions /\ est' = est + d /\ pulse' = PulseOf(est + d)
  BY DEF TickRuns
<1>2. /\ running /\ running' = running /\ PortTick(do, clock) /\ Remember(do, {}, 0)
      /\ slipped' = (slipped \/ n > MaxBurst \/ pulse' < pulse \/ (n > 0 /\ ~enabled))
  BY DEF TickRuns
<1>3. /\ PortTypeOK /\ DeviceFollows /\ length \in Lengths /\ synth \in Synth /\ live
      /\ live' = live /\ enabled' = enabled
  BY <1>2 DEF PortInv, PortTypeOK, PortTick
<1>4. /\ MaxPos \in Nat /\ MaxBurst \in Nat /\ pulse \in 0..MaxPos /\ synth.pulse \in 0..MaxPos
      /\ synth.runs \in BOOLEAN /\ 0 \in Positions
  BY <1>3 DEF PulsesAssumption, PortTypeOK, Positions, Synth
<1>5. est \in Nat /\ d \in Nat /\ est' \in Nat /\ est <= est' /\ est' \in Positions
  BY <1>1, <1>3 DEF PulsesAssumption, PortTypeOK, Positions
<1>6. pulse' \in 0..MaxPos
  BY <1>1, <1>3, PulseFacts DEF Positions
<1>7. /\ n \in Nat /\ burst \in Nat
      /\ ~(n > MaxBurst) /\ ~(pulse' < pulse) => burst = n /\ pulse' = pulse + n
  <2>1. pulse \in Nat /\ pulse' \in Nat
    BY <1>4, <1>6
  <2> QED
    BY <1>4, <2>1, Counted
<1>8. /\ clock.runs = synth.runs
      /\ clock.pulse = IF synth.runs THEN Least(synth.pulse + burst, MaxPos) ELSE synth.pulse
  BY DEF Clocked
<1> HIDE DEF n, burst
<1>9. clock.runs \in BOOLEAN /\ clock.pulse \in Positions
  BY <1>4, <1>7, <1>8 DEF Least, Positions
<1>10. ASSUME NEW s \in Scopes
       PROVE  /\ StepOK(do[s], routes[s])
              /\ Sent(do[s].route, do[s].sent \cup Kept({}, s), Since({}, 0, s))
              /\ NextAt(do[s].route.events, est') <= do[s].route.cursor
              /\ \A i \in do[s].sent \cup Kept({}, s) : do[s].route.events[i].at <= est'
  <2>1. /\ StepOK(do[s], routes[s]) /\ Sent(do[s].route, do[s].sent \cup heard[s], from[s])
        /\ NextAt(do[s].route.events, est') <= do[s].route.cursor
        /\ \A i \in do[s].sent : do[s].route.events[i].at < est'
        /\ do[s].route.events = routes[s].events
    BY <1>5, AdvancesWell
  <2> HIDE DEF do
  <2>2. Kept({}, s) = heard[s] /\ Since({}, 0, s) = from[s]
    BY DEF Kept, Since
  <2>3. RouteInv(s) /\ RouteOK(do[s].route)
    BY <2>1 DEF PortInv, StepOK
  <2>4. from[s] \in Nat
    BY <1>3 DEF PortTypeOK, Positions, PulsesAssumption
  <2>5. ASSUME NEW i \in do[s].sent \cup heard[s] PROVE do[s].route.events[i].at <= est'
    <3>1. do[s].route.events[i].at \in Nat
      BY <2>1, <2>3, <2>4, SentFacts
    <3>2. CASE i \in do[s].sent
      <4>1. do[s].route.events[i].at < est'
        BY <2>1, <3>2
      <4> QED
        BY <1>5, <3>1, <4>1
    <3>3. CASE i \in heard[s]
      <4>1. do[s].route.events[i].at <= est
        BY <1>2, <2>1, <2>3, <3>3 DEF RouteInv
      <4> QED
        BY <1>5, <3>1, <4>1
    <3> QED
      BY <3>2, <3>3
  <2> QED
    BY <2>1, <2>2, <2>5
<1> HIDE DEF do, clock
<1>11. PlaysUpTo(do, {}, 0)
  BY <1>10 DEF PlaysUpTo
<1>12. DeviceFollows'
  <2> SUFFICES ASSUME ~slipped'
               PROVE  synth'.runs = TRUE /\ pulse' - synth'.pulse \in 0..(PerSpp - 1)
    BY <1>2, <1>3 DEF DeviceFollows, PortTypeOK
  <2>1. ~slipped /\ ~(n > MaxBurst) /\ ~(pulse' < pulse) /\ ~(n > 0 /\ ~enabled)
    BY <1>2
  <2>2. synth.runs = TRUE /\ pulse - synth.pulse \in 0..(PerSpp - 1)
    BY <1>2, <1>3, <2>1 DEF DeviceFollows, PortTypeOK
  <2>3. PerSpp \in Nat \ {0}
    BY DEF PulsesAssumption
  <2>4. burst = n /\ pulse' = pulse + n
    BY <1>7, <2>1
  <2>5. clock.pulse = synth.pulse + n
    BY <1>4, <1>6, <1>7, <1>8, <2>2, <2>3, <2>4 DEF Least
  <2>6. CASE enabled
    <3>1. synth'.runs = clock.runs /\ synth'.pulse = clock.pulse
      BY <1>2, <1>3, <1>9, <2>6, Tells
    <3>2. pulse' - synth'.pulse = pulse - synth.pulse
      BY <1>4, <1>7, <2>4, <2>5, <3>1
    <3> QED
      BY <1>8, <2>2, <3>1, <3>2
  <2>7. CASE ~enabled
    <3>1. synth'.runs = synth.runs /\ synth'.pulse = synth.pulse
      BY <1>2, <1>3, <1>9, <2>7, Tells
    <3>2. n = 0
      BY <1>7, <2>1, <2>7
    <3>3. pulse' = pulse
      BY <1>4, <2>4, <3>2
    <3> QED
      BY <2>2, <3>1, <3>3
  <2> QED
    BY <2>6, <2>7
<1>13. slipped' \in BOOLEAN
  BY <1>2, <1>3 DEF PortTypeOK
<1>14. running' = TRUE
  BY <1>2, <1>3 DEF PortTypeOK
<1>15. pulse' \in Positions
  BY <1>6 DEF Positions
<1> QED
  BY <1>2, <1>4, <1>5, <1>9, <1>11, <1>12, <1>13, <1>14, <1>15, StepPlaying

LEMMA StepSetClock ==
  ASSUME PortInv, SetClock
  PROVE  PortInv'
<1>1. /\ enabled' \in BOOLEAN /\ live' = live /\ running' = running /\ est' = est /\ pulse' = pulse
      /\ length' = length /\ routes' = routes /\ synth' = synth /\ heard' = heard /\ from' = from
      /\ placed' = placed /\ slipped' = slipped
  BY DEF SetClock, PortInv, PortTypeOK
<1> QED
  BY <1>1 DEF PortInv, PortTypeOK, RouteInv, Known, DeviceFollows

LEMMA StepClose ==
  ASSUME SortedAssumption, PulsesAssumption, PortInv, Close
  PROVE  PortInv'
<1> DEFINE do == [s \in Scopes |-> AllOff(routes[s])]
<1>1. /\ live' = FALSE /\ Step(do) /\ Remember(do, {}, 0)
      /\ synth' = [synth EXCEPT !.keys = Emit(do), !.runs = FALSE]
      /\ enabled' = enabled /\ running' = running /\ est' = est /\ pulse' = pulse
      /\ length' = length /\ placed' = placed /\ slipped' = slipped
  BY DEF Close
<1>2. ASSUME NEW s \in Scopes
      PROVE  /\ StepOK(do[s], routes[s]) /\ do[s].sent = {}
             /\ do[s].route.events = routes[s].events /\ do[s].route.cursor = routes[s].cursor
             /\ do[s].route.sounding = {}
  <2>1. RouteOK(routes[s]) /\ do[s] = AllOff(routes[s])
    BY DEF PortInv, RouteInv
  <2> HIDE DEF do
  <2>2. LET t == AllOff(routes[s]) IN
        /\ StepOK(t, routes[s]) /\ t.sent = {} /\ t.route.events = routes[s].events
        /\ t.route.cursor = routes[s].cursor /\ t.route.sounding = {}
    BY <2>1, Silencing
  <2> QED
    BY <2>1, <2>2
<1> HIDE DEF do
<1>3. PortTypeOK /\ synth \in Synth
  BY DEF PortInv, PortTypeOK
<1>4. ASSUME NEW s \in Scopes
      PROVE  Sent(do[s].route, do[s].sent \cup Kept({}, s), Since({}, 0, s))
  BY <1>2 DEF PortInv, RouteInv, Sent, Kept, Since
<1>5. synth'.keys = Emit(do) /\ (synth'.keys \subseteq PortKeys => synth' \in Synth)
  BY <1>1, <1>3 DEF Synth
<1>6. 0 \in Positions
  BY DEF Positions, PulsesAssumption
<1>7. /\ routes' \in [Scopes -> Route] /\ from' \in [Scopes -> Positions]
      /\ heard' \in [Scopes -> SUBSET Nat] /\ synth'.keys \subseteq PortKeys /\ Known'
      /\ \A s \in Scopes : /\ routes'[s] = do[s].route
                           /\ heard'[s] = do[s].sent \cup Kept({}, s)
                           /\ RouteOK(routes'[s]) /\ Sent(routes'[s], heard'[s], from'[s])
                           /\ routes'[s].cursor <= Len(routes'[s].events)
  BY <1>1, <1>2, <1>4, <1>5, <1>6, Moves
<1>8. PortTypeOK'
  BY <1>1, <1>3, <1>5, <1>7 DEF PortTypeOK
<1>9. ASSUME NEW s \in Scopes PROVE RouteInv(s)'
  <2>1. RouteInv(s)
    BY DEF PortInv
  <2>2. heard'[s] = heard[s] /\ routes'[s].events = routes[s].events /\ routes'[s].sounding = {}
    BY <1>2, <1>7 DEF Kept
  <2> QED
    BY <1>1, <1>7, <2>1, <2>2 DEF RouteInv
<1>10. DeviceFollows'
  BY <1>1 DEF DeviceFollows
<1> QED
  BY <1>7, <1>8, <1>9, <1>10 DEF PortInv

----------------------------------------------------------------------------
(* What follows.                                                           *)

LEMMA PortInvariant ==
  ASSUME SortedAssumption, PulsesAssumption
  PROVE  PortSpec => []PortInv
<1>1. PortInit => PortInv
  BY InitIInv
<1>2. PortInv /\ [PortNext]_portVars => PortInv'
  <2> SUFFICES ASSUME PortInv, [PortNext]_portVars PROVE PortInv'
    OBVIOUS
  <2>1. CASE Refresh
    BY <2>1, StepRefresh
  <2>2. CASE TickStopped
    BY <2>2, StepTickStopped
  <2>3. CASE TickStarts
    BY <2>3, StepTickStarts
  <2>4. CASE TickJumps
    BY <2>4, StepTickJumps
  <2>5. CASE TickRuns
    BY <2>5, StepTickRuns
  <2>6. CASE SetClock
    BY <2>6, StepSetClock
  <2>7. CASE Close
    BY <2>7, StepClose
  <2>8. CASE UNCHANGED portVars
    BY <2>8 DEF portVars, PortInv, PortTypeOK, RouteInv, Known, DeviceFollows
  <2> QED
    BY <2>1, <2>2, <2>3, <2>4, <2>5, <2>6, <2>7, <2>8 DEF PortNext
<1> QED
  BY <1>1, <1>2, PTL DEF PortSpec

(* A hardware port: no note is left hanging on the device, whatever is     *)
(* edited, un-routed or sought while it sounds (AllOff, Reseek, Refresh);  *)
(* a route swallows no event and plays none early, however the clock is    *)
(* corrected (ClockEngine::step); and the device runs when the song does,  *)
(* less than a sixteenth behind.                                           *)
THEOREM PortTellsTheDevice ==
  ASSUME SortedAssumption, PulsesAssumption
  PROVE  PortSpec => []DeviceIsTold
<1>1. PortInv => DeviceIsTold
  <2> SUFFICES ASSUME PortInv PROVE DeviceIsTold
    OBVIOUS
  <2>1. PortTypeOK /\ Known /\ DeviceFollows /\ \A s \in Scopes : RouteInv(s)
    BY DEF PortInv
  <2>2. NothingHangs
    BY <2>1 DEF NothingHangs, Known, RouteInv
  <2>3. ASSUME live /\ running, NEW s \in Scopes \ placed
        PROVE  /\ {i \in DOMAIN routes[s].events : routes[s].events[i].at \in from[s]..(est - 1)} \subseteq heard[s]
               /\ \A i \in heard[s] : routes[s].events[i].at \in from[s]..est
    <3> DEFINE r == routes[s]
               f == from[s]
               m == NextAt(r.events, f)
               n == NextAt(r.events, est)
    <3>1. RouteOK(r) /\ Sent(r, heard[s], f) /\ RouteInv(s)
      BY <2>1 DEF RouteInv
    <3>2. f \in Nat /\ est \in Nat
      BY <2>1 DEF PortTypeOK, Positions, PulsesAssumption
    <3>3. /\ r.cursor \in Nat /\ r.cursor <= Len(r.events) /\ Len(r.events) \in Nat
          /\ DOMAIN r.events = 1..Len(r.events) /\ m \in Nat /\ n \in Nat
          /\ \A i \in DOMAIN r.events : r.events[i].at \in Nat
          /\ \A i \in DOMAIN r.events : r.events[i].at < f <=> i <= m
          /\ \A i \in DOMAIN r.events : r.events[i].at < est <=> i <= n
      <4>1. /\ r.cursor \in Nat /\ r.cursor <= Len(r.events) /\ Len(r.events) \in Nat
            /\ DOMAIN r.events = 1..Len(r.events)
            /\ \A i \in DOMAIN r.events : r.events[i].at \in Nat
        <5> HIDE DEF r
        <5>1. /\ r.cursor \in 0..Len(r.events) /\ Len(r.events) \in Nat
              /\ DOMAIN r.events = 1..Len(r.events)
              /\ \A i \in DOMAIN r.events : r.events[i].at \in Nat
          BY <3>1, RouteFacts
        <5>2. r.cursor \in Nat /\ r.cursor <= Len(r.events)
          BY <5>1
        <5> QED
          BY <5>1, <5>2
      <4>2. m \in Nat /\ \A i \in DOMAIN r.events : r.events[i].at < f <=> i <= m
        BY <3>1, <3>2, RouteCuts
      <4>3. n \in Nat /\ \A i \in DOMAIN r.events : r.events[i].at < est <=> i <= n
        BY <3>1, <3>2, RouteCuts
      <4> QED
        BY <4>1, <4>2, <4>3
    <3>4. heard[s] = (m + 1)..r.cursor /\ n <= r.cursor /\ \A i \in heard[s] : r.events[i].at <= est
      BY <2>3, <3>1 DEF Sent, RouteInv
    <3> HIDE DEF r, f, m, n
    <3>5. ASSUME NEW i \in DOMAIN r.events, r.events[i].at \in f..(est - 1) PROVE i \in heard[s]
      <4>1. r.events[i].at \in Nat /\ ~(r.events[i].at < f) /\ r.events[i].at < est
        BY <3>2, <3>3, <3>5
      <4>2. ~(i <= m) /\ i <= n /\ i \in Nat
        BY <3>3, <4>1
      <4> QED
        BY <3>3, <3>4, <4>2
    <3>6. ASSUME NEW i \in heard[s] PROVE r.events[i].at \in f..est
      <4>1. i \in DOMAIN r.events /\ ~(i <= m)
        BY <3>3, <3>4
      <4>2. r.events[i].at \in Nat /\ ~(r.events[i].at < f) /\ r.events[i].at <= est
        BY <3>3, <3>4, <4>1
      <4> QED
        BY <3>2, <4>2
    <3> QED
      BY <3>5, <3>6 DEF r, f
  <2> QED
    BY <2>1, <2>2, <2>3 DEF DeviceIsTold, RoutePlaysTheSong
<1> QED
  BY <1>1, PortInvariant, PTL

============================================================================
