----------------------------- MODULE ClockCarry -----------------------------
(***************************************************************************)
(* The clocks of launched scenes and pads (audio/clock.rs).  Every graph   *)
(* has a table of its own; a rebuild copies the published table's clocks   *)
(* into the fresh one and publishes it, and when the callback adopts the   *)
(* fresh graph it takes them once more from the graph it retires, which    *)
(* has played on: all but those a pad was pressed on since, which a        *)
(* counter of writes tells (carry_over, reconcile_adoption).               *)
(*                                                                         *)
(* The control side presses under the tables lock; the callback takes no   *)
(* lock.  A press counts and then stores; a callback's operation on a      *)
(* clock loads and then stores.  The fields stored together are taken as   *)
(* one.  Clocks keep their identity across rebuilds, and the beat a        *)
(* pending press waits for comes at any block.                             *)
(***************************************************************************)
EXTENDS Integers, Sequences, SequencesExt

CONSTANTS
  N,        \* clocks besides the transport's
  Group,    \* those in the one choke group
  Looping,  \* those fired with looping
  End,      \* blocks until a clip ends
  Cap,      \* slots of the graph ring
  MaxPress, MaxGen,  \* bounds: presses, rebuilds
  MaxWork            \* bound: both together

ClocksAssumption ==
  N \in Nat \ {0} /\ Group \subseteq 1..N /\ Looping \subseteq 1..N /\ End \in Nat \ {0}
BoundsAssumption == Cap \in Nat \ {0} /\ {MaxPress, MaxGen, MaxWork} \subseteq Nat

VARIABLES
  tab,        \* tab[g][c]: clock c in the table of generation g
  source,     \* source[g]: carry_generation, the table g was carried from
  published,  \* generation of GraphTables
  pushing,    \* a graph published and not yet pushed
  ring,       \* the graph ring, behind the graph the callback is taking over
  adopted,    \* generation the callback plays
  rt,         \* the callback's block
  todo,       \* control side: what the current press has yet to do
  presses,    \* FIRE_SEQ
  intent,     \* history: the last press of each clock
  owed,       \* history: clocks cut while sounding whose nodes have not heard
  raced,      \* history: a press fell between a callback's load and store
  midway,     \* history: a pad was armed, or an armed one cut, in a table not yet adopted
  lost        \* history: a graph was published and never adopted

clockVars == <<tab, source, published, pushing, ring, adopted, rt, todo, presses,
               intent, owed, raced, midway, lost>>
tables == <<source, published, pushing, ring>>
clockHistory == <<intent, owed, raced, midway, lost>>

Clocks == 1..N
Gens == 0..MaxGen

Clock == [on : BOOLEAN, pos : 0..End, pending : BOOLEAN, discont : BOOLEAN,
          seq : Nat, writes : Nat, carried : Nat]
IdleClock == [on |-> FALSE, pos |-> 0, pending |-> FALSE, discont |-> FALSE,
              seq |-> 0, writes |-> 0, carried |-> 0]

NoPress == [kind |-> "none", seq |-> 0]

ClockInit ==
  /\ tab = [g \in Gens |-> [c \in Clocks |-> IdleClock]]
  /\ source = [g \in Gens |-> g]
  /\ published = 0 /\ pushing = FALSE /\ ring = <<>>
  /\ adopted = 0
  /\ rt = [pc |-> "adopt", clock |-> 1, load |-> FALSE]
  /\ todo = <<>> /\ presses = 0
  /\ intent = [c \in Clocks |-> NoPress] /\ owed = {} /\ raced = FALSE /\ midway = FALSE /\ lost = FALSE

----------------------------------------------------------------------------
(* The control side, in the published table.                               *)

Work == presses + published

Chokes(c) == {d \in Group : c \in Group /\ d # c}
Due(c, k) == [clock |-> c, kind |-> k, counted |-> FALSE]
ChokeSteps(c) == LET ds == SetToSeq(Chokes(c)) IN
                 [i \in 1..Len(ds) |-> Due(ds[i], "choke")]

(* A press is a row of writes, each counted before it is stored. *)
Plan(c, k) == <<Due(c, k)>> \o (IF k = "fire" THEN ChokeSteps(c) ELSE <<>>)

(* fire, fire_at (a second tap on an armed pad is none), stop. *)
Press ==
  /\ todo = <<>> /\ presses < MaxPress /\ Work < MaxWork
  /\ \E c \in Clocks, k \in {"fire", "wait", "stop"} :
       /\ k = "wait" => ~tab[published][c].pending
       /\ todo' = Plan(c, k)
  /\ presses' = presses + 1
  /\ UNCHANGED <<tab, tables, adopted, rt, clockHistory>>

Write == Head(todo)
InWindow(c) == published = adopted /\ rt.load /\ rt.clock = c /\ rt.pc \in {"arm", "advance"}
Midway(c) == published # adopted /\ (Write.kind = "wait" \/ tab[published][c].pending)
Copying(c) == rt.pc = "copy" /\ rt.load /\ rt.clock = c /\ ring # <<>> /\ Head(ring) = published

(* writes.fetch_add, before the stores it stands for. *)
Count ==
  /\ todo # <<>> /\ ~Write.counted
  /\ tab' = [tab EXCEPT ![published][Write.clock].writes = @ + 1]
  /\ todo' = [todo EXCEPT ![1].counted = TRUE]
  /\ raced' = (raced \/ InWindow(Write.clock) \/ Copying(Write.clock))
  /\ midway' = (midway \/ Midway(Write.clock))
  /\ UNCHANGED <<tables, adopted, rt, presses, intent, owed, lost>>

Fired(k) == [k EXCEPT !.on = TRUE, !.pos = 0, !.pending = FALSE,
               !.discont = TRUE, !.seq = presses]
Armed(k) == [k EXCEPT !.pending = TRUE, !.seq = presses]
Stopped(k) == [k EXCEPT !.on = FALSE, !.pending = FALSE, !.discont = @ \/ k.on]

Store ==
  /\ todo # <<>> /\ Write.counted
  /\ LET c == Write.clock
         k == tab[published][c]
     IN /\ tab' = [tab EXCEPT ![published][c] =
                     CASE Write.kind = "fire" -> Fired(k)
                       [] Write.kind = "wait" -> Armed(k)
                       [] OTHER -> Stopped(k)]
        /\ intent' = [intent EXCEPT ![c] =
                        [kind |-> Write.kind,
                         seq |-> IF Write.kind \in {"fire", "wait"} THEN presses ELSE @.seq]]
        /\ owed' = IF Write.kind \in {"stop", "choke"} /\ k.on THEN owed \cup {c} ELSE owed
        /\ raced' = (raced \/ InWindow(c) \/ Copying(c))
        /\ midway' = (midway \/ Midway(c))
  /\ todo' = Tail(todo)
  /\ UNCHANGED <<tables, adopted, rt, presses, lost>>

(* cancel_pending, when the transport stops.  It counts nothing. *)
Cancel ==
  /\ todo = <<>> /\ presses < MaxPress /\ Work < MaxWork
  /\ presses' = presses + 1
  /\ tab' = [tab EXCEPT ![published] = [c \in Clocks |-> [@[c] EXCEPT !.pending = FALSE]]]
  /\ intent' = [c \in Clocks |-> IF intent[c].kind = "wait" THEN [intent[c] EXCEPT !.kind = "cancel"]
                                 ELSE intent[c]]
  /\ raced' = (raced \/ \E c \in Clocks : InWindow(c) \/ Copying(c))
  /\ UNCHANGED <<tables, adopted, rt, todo, owed, midway, lost>>

(* rebuild, under the lock: carry_over for every clock, then publish. *)
Carry(k) == [k EXCEPT !.carried = k.writes]

Publish ==
  /\ todo = <<>> /\ ~pushing /\ published < MaxGen /\ Work < MaxWork
  /\ LET g == published + 1 IN
       /\ tab' = [tab EXCEPT ![g] = [c \in Clocks |-> Carry(tab[published][c])]]
       /\ source' = [source EXCEPT ![g] = published]
       /\ published' = g
  /\ pushing' = TRUE
  /\ UNCHANGED <<ring, adopted, rt, todo, presses, clockHistory>>

(* and the push, without it: a graph the ring has no room for is dropped,  *)
(* and built anew.  The callback takes a graph off the ring, then adopts it. *)
Waiting == IF rt.pc \in {"copy", "swap"} THEN Len(ring) - 1 ELSE Len(ring)

PushGraph ==
  /\ pushing /\ pushing' = FALSE
  /\ IF Waiting < Cap
     THEN ring' = Append(ring, published) /\ UNCHANGED lost
     ELSE lost' = TRUE /\ UNCHANGED ring
  /\ UNCHANGED <<tab, source, published, adopted, rt, todo, presses, intent, owed, raced, midway>>

----------------------------------------------------------------------------
(* The callback's block.                                                   *)

Go(p) == [pc |-> p, clock |-> 1, load |-> FALSE]
Loaded == [rt EXCEPT !.load = TRUE]
NextClock(p) == IF rt.clock < N THEN [rt EXCEPT !.clock = @ + 1, !.load = FALSE] ELSE Go(p)

Fresh == Head(ring)
Mine == tab[adopted][rt.clock]

(* Faulty variant. *)
AdoptAsBuilt ==
  /\ rt.pc = "adopt" /\ rt' = Go(IF ring = <<>> THEN "arm" ELSE "swap")
  /\ UNCHANGED <<tab, tables, adopted, todo, presses, clockHistory>>

(* No graph waits, or the next one is of the table that plays, or of another. *)
Adopt ==
  /\ rt.pc = "adopt"
  /\ IF ring = <<>> THEN rt' = Go("arm")
     ELSE rt' = Go(IF source[Fresh] = adopted THEN "copy" ELSE "swap")
  /\ UNCHANGED <<tab, tables, adopted, todo, presses, clockHistory>>

(* Faulty variant. *)
TestNothing ==
  /\ rt.pc = "copy" /\ ~rt.load /\ rt' = Loaded
  /\ UNCHANGED <<tab, tables, adopted, todo, presses, clockHistory>>

(* reconcile_adoption: the test of the counter, *)
TestWrites ==
  /\ rt.pc = "copy" /\ ~rt.load
  /\ rt' = IF tab[Fresh][rt.clock].writes # tab[Fresh][rt.clock].carried
           THEN NextClock("swap") ELSE Loaded
  /\ UNCHANGED <<tab, tables, adopted, todo, presses, clockHistory>>

(* Faulty variant. *)
TakenSilently(k, s) == [s EXCEPT !.writes = k.writes, !.carried = k.carried, !.discont = k.discont]

(* and take_state_from. *)
Taken(k, s) == [s EXCEPT !.writes = k.writes, !.carried = k.carried]

TakeState ==
  /\ rt.pc = "copy" /\ rt.load
  /\ tab' = [tab EXCEPT ![Fresh][rt.clock] = Taken(@, Mine)]
  /\ rt' = NextClock("swap")
  /\ UNCHANGED <<tables, adopted, todo, presses, clockHistory>>

SwapGraph ==
  /\ rt.pc = "swap"
  /\ adopted' = Fresh /\ ring' = Tail(ring)
  /\ rt' = Go("adopt")
  /\ UNCHANGED <<tab, source, published, pushing, todo, presses, clockHistory>>

(* arm_pending; the beat may have come. *)
ArmLoad ==
  /\ rt.pc = "arm" /\ ~rt.load
  /\ \/ Mine.pending /\ rt' = Loaded
     \/ rt' = NextClock("begin")
  /\ UNCHANGED <<tab, tables, adopted, todo, presses, clockHistory>>

(* Faulty variant. *)
Unchoked(k) == k

Choked(k) == [Stopped(k) EXCEPT !.writes = @ + 1]

ArmStore ==
  /\ rt.pc = "arm" /\ rt.load
  /\ tab' = [tab EXCEPT ![adopted] = [c \in Clocks |->
               IF c = rt.clock
               THEN [@[c] EXCEPT !.pending = FALSE, !.pos = 0, !.discont = TRUE, !.on = TRUE]
               ELSE IF c \in Chokes(rt.clock) THEN Choked(@[c]) ELSE @[c]]]
  /\ owed' = owed \cup {c \in Chokes(rt.clock) : tab[adopted][c].on}
  /\ rt' = NextClock("begin")
  /\ UNCHANGED <<tables, adopted, todo, presses, intent, raced, midway, lost>>

(* begin_block: the nodes of every clock that owes one hear it. *)
BeginClocks ==
  /\ rt.pc = "begin"
  /\ owed' = {c \in owed : ~tab[adopted][c].discont}
  /\ tab' = [tab EXCEPT ![adopted] = [c \in Clocks |-> [@[c] EXCEPT !.discont = FALSE]]]
  /\ rt' = Go("advance")
  /\ UNCHANGED <<tables, adopted, todo, presses, intent, raced, midway, lost>>

AdvanceLoad ==
  /\ rt.pc = "advance" /\ ~rt.load
  /\ rt' = IF Mine.on THEN Loaded ELSE NextClock("adopt")
  /\ UNCHANGED <<tab, tables, adopted, todo, presses, clockHistory>>

Ends == Mine.pos + 1 >= End /\ rt.clock \notin Looping

Advanced(c, k) ==
  IF k.pos + 1 < End THEN [k EXCEPT !.pos = @ + 1]
  ELSE IF c \in Looping THEN [k EXCEPT !.pos = 0, !.discont = TRUE]
  ELSE [k EXCEPT !.pos = End, !.discont = TRUE, !.on = FALSE]

AdvanceStore ==
  /\ rt.pc = "advance" /\ rt.load
  /\ tab' = [tab EXCEPT ![adopted][rt.clock] = Advanced(rt.clock, @)]
  /\ owed' = IF Ends THEN owed \cup {rt.clock} ELSE owed
  /\ rt' = NextClock("adopt")
  /\ UNCHANGED <<tables, adopted, todo, presses, intent, raced, midway, lost>>

----------------------------------------------------------------------------
Control == ~raced /\ (Press \/ Count \/ Store \/ Cancel \/ Publish \/ PushGraph)
Render ==
  /\ ~raced
  /\ \/ Adopt \/ TestWrites \/ TakeState \/ SwapGraph \/ ArmLoad \/ ArmStore
     \/ BeginClocks \/ AdvanceLoad \/ AdvanceStore

ClockNext == Control \/ Render

Finishes == ~raced /\ (Count \/ Store)
Pushes == ~raced /\ PushGraph

(* The device calls back, and what the control side has begun it ends.     *)
ClockSpec == ClockInit /\ [][ClockNext]_clockVars
ClockFairSpec ==
  /\ ClockSpec
  /\ WF_clockVars(Render) /\ WF_clockVars(Finishes) /\ WF_clockVars(Pushes)

----------------------------------------------------------------------------
(* Properties.  What follows a raced press is not followed.                *)

RtState ==
  [pc : {"adopt", "copy", "swap", "arm", "begin", "advance"}, clock : Clocks, load : BOOLEAN]
Steps == [clock : Clocks, kind : {"fire", "wait", "stop", "choke"}, counted : BOOLEAN]
Intents == [kind : {"none", "fire", "wait", "stop", "choke", "cancel"}, seq : Nat]

(* Types. *)
ClockTypeOK ==
  /\ tab \in [Gens -> [Clocks -> Clock]] /\ source \in [Gens -> Gens]
  /\ published \in Gens /\ adopted \in Gens /\ ring \in Seq(Gens)
  /\ pushing \in BOOLEAN /\ raced \in BOOLEAN /\ midway \in BOOLEAN /\ lost \in BOOLEAN
  /\ rt \in RtState /\ todo \in Seq(Steps)
  /\ presses \in 0..MaxPress /\ owed \subseteq Clocks /\ intent \in [Clocks -> Intents]

Heard(c) == tab[published][c]

(* Rebuilds never take a press back: whatever graphs were published and    *)
(* adopted since, a clock carries the newest fire pressed on it, and one   *)
(* whose last press stopped or choked it neither sounds nor waits.  (clock *)
(* .rs: "the press wins"; "a stop the reconciliation failed to notice would*)
(* be UNDONE".)                                                            *)
PressStands ==
  ~raced =>
    \A c \in Clocks :
      /\ Heard(c).seq = intent[c].seq
      /\ intent[c].kind \in {"stop", "choke"} => ~Heard(c).pending /\ ~Heard(c).on

(* Of a choke group one pad sounds at a time, whether a press or a beat    *)
(* started it and through every adoption; until a graph was published that *)
(* never reached the callback.                                             *)
OneOfTheGroup ==
  (todo = <<>> /\ ~raced /\ ~midway /\ ~lost /\ published = adopted) =>
    \A c, d \in Group : Heard(c).on /\ Heard(d).on => c = d

(* A press wins over rebuilds and, in its choke group, over other pads.    *)
PressWins == PressStands /\ OneOfTheGroup

(* What stopping the transport cancelled stays cancelled: "a pad that      *)
(* fires on its own, minutes later" is what cancel_pending is for.         *)
CancelHolds ==
  todo = <<>> => \A c \in Clocks : intent[c].kind = "cancel" => ~Heard(c).pending

(* Adopting a graph never takes a sounding clip back: a clock on which     *)
(* nothing was pressed goes on from where the retired graph has come to,   *)
(* not from where it was when the new one was built.                       *)
PlaysOn ==
  [][adopted' # adopted /\ ~raced /\ ~lost =>
       \A c \in Clocks :
         LET old == tab[adopted][c]
             new == tab[adopted'][c]
         IN  (old.on /\ new.on /\ new.seq = old.seq /\ new.writes = new.carried) => new.pos >= old.pos]_clockVars

(* A clip that was cut while it sounded, or came to its end, is told to    *)
(* its nodes: the all_notes_off is not lost in a rebuild, and no note      *)
(* hangs; but for a press midway, and a graph that was dropped.            *)
CutsAreHeard == \A c \in Clocks : c \in owed ~> (c \notin owed \/ raced \/ midway \/ lost)
=============================================================================
