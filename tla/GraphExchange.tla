--------------------------- MODULE GraphExchange ---------------------------
(***************************************************************************)
(* src-tauri/src/audio/engine.rs: the ownership transfer of render graphs  *)
(* between the engine control thread (`Control::rebuild`, `drain_retired`, *)
(* `open_output`) and the audio callback of an output stream               *)
(* (`OutputCb::render`), over a graph ring and a retire ring per stream.   *)
(*                                                                         *)
(* A graph is known by the generation it was built at.  The control thread *)
(* publishes the knob tables of a generation before it queues the graph.   *)
(* Streams are reopened: a new stream plays before the old one is dropped, *)
(* so that for a moment two callbacks run.                                 *)
(***************************************************************************)
EXTENDS Naturals, Sequences, FiniteSets

CONSTANTS
  Streams,       \* the output streams opened one after another
  NoStream,      \* `Control::output` is None
  RingSlots,     \* capacity of a graph ring (8)
  RetireSlots,   \* capacity of a retire ring (8)
  MaxRebuilds,   \* bound: rebuilds asked for by edits
  MaxFullPushes  \* bound: pushes that find the graph ring full

ASSUME StreamsAssumption == NoStream \notin Streams
ASSUME RingAssumption == RingSlots \in Nat \ {0} /\ RetireSlots \in Nat \ {0}
ASSUME BoundsAssumption == MaxRebuilds \in Nat /\ MaxFullPushes \in Nat

VARIABLES
  generation,  \* Control::generation
  tablesGen,   \* the generation of the published GraphTables
  pending,     \* Control::rebuild_pending
  cpc,         \* the control thread: "idle", "install", "join", "publish", "drain", "push"
  opening,     \* the stream `open_output` has started and not yet installed
  output,      \* Control::output
  fresh,       \* streams not opened yet
  running,     \* streams whose callback the device may call
  ring,        \* ring[s]: graphs queued for the callback of s
  retire,      \* retire[s]: graphs the callback of s has given back
  rt,          \* rt[s]: the callback of s (see RtState)
  built,       \* history: graphs that reached the push
  freed,       \* graphs the control thread has dropped
  rtFreed,     \* graphs dropped inside a callback
  rebuilds,    \* history: rebuilds asked for
  fullPushes   \* history: pushes refused by a full ring

streams == <<opening, output, fresh, running>>
control == <<generation, tablesGen, pending, cpc, streams, rebuilds, fullPushes>>
queues == <<ring, retire>>
graphs == <<built, freed>>
vars == <<control, queues, rt, graphs, rtFreed>>

Graph == Nat \ {0}
None == 0          \* the callback has no graph yet, or nothing in hand

(* A callback: where it is, the graph it renders, and the graph in hand    *)
(* between a pop and the swap, or between the swap and the retire push.    *)
RtState == [pc : {"idle", "pop", "swap", "push", "render"}, graph : Nat, hand : Nat]

Contents(q) == {q[i] : i \in DOMAIN q}

Init ==
  /\ generation = 0 /\ tablesGen = 0
  /\ pending = FALSE
  /\ cpc = "idle"
  /\ opening = NoStream /\ output = NoStream
  /\ fresh = Streams /\ running = {}
  /\ ring = [s \in Streams |-> <<>>]
  /\ retire = [s \in Streams |-> <<>>]
  /\ rt = [s \in Streams |-> [pc |-> "idle", graph |-> None, hand |-> None]]
  /\ built = {} /\ freed = {} /\ rtFreed = {}
  /\ rebuilds = 0 /\ fullPushes = 0

----------------------------------------------------------------------------
(* Faulty variants of actions below: plausible bugs, not code.  Each       *)
(* property is checked to fail when one of them takes its action's place.  *)

(* A full graph ring drops the graph and owes nothing. *)
PushGraphForgets ==
  /\ cpc = "push"
  /\ cpc' = "idle"
  /\ built' = built \cup {generation}
  /\ IF Len(ring[output]) < RingSlots
     THEN /\ ring' = [ring EXCEPT ![output] = Append(@, generation)]
          /\ UNCHANGED <<fullPushes, freed>>
     ELSE /\ fullPushes' = fullPushes + 1
          /\ freed' = freed \cup {generation}
          /\ UNCHANGED ring
  /\ UNCHANGED <<generation, tablesGen, pending, streams, rebuilds, retire, rt, rtFreed>>

(* The bundle's drop leaves the graphs still queued where they are. *)
InstallLeaksRing ==
  /\ cpc = "join"
  /\ IF output = NoStream
     THEN UNCHANGED <<retire, rt, freed>>
     ELSE /\ rt[output].pc = "idle"
          /\ freed' = freed \cup Contents(retire[output]) \cup ({rt[output].graph} \ {None})
          /\ retire' = [retire EXCEPT ![output] = <<>>]
          /\ rt' = [rt EXCEPT ![output].graph = None]
  /\ output' = opening
  /\ opening' = NoStream
  /\ cpc' = "publish"
  /\ UNCHANGED <<generation, tablesGen, pending, fresh, running, rebuilds, fullPushes, ring, built, rtFreed>>

(* The callback takes the newest queued graph first. *)
PopNewest(s) ==
  /\ rt[s].pc = "pop"
  /\ IF ring[s] = <<>>
     THEN /\ rt' = [rt EXCEPT ![s].pc = "render"]
          /\ UNCHANGED ring
     ELSE /\ rt' = [rt EXCEPT ![s].pc = "swap", ![s].hand = ring[s][Len(ring[s])]]
          /\ ring' = [ring EXCEPT ![s] = SubSeq(@, 1, Len(@) - 1)]
  /\ UNCHANGED <<control, graphs, retire, rtFreed>>

(* The retire ring is tested once per block, not once per adoption. *)
PushRetiredUntested(s) ==
  /\ rt[s].pc = "push"
  /\ LET old == rt[s].hand
         kept == old # None /\ Len(retire[s]) < RetireSlots
     IN /\ retire' = IF kept THEN [retire EXCEPT ![s] = Append(@, old)] ELSE retire
        /\ rtFreed' = IF kept THEN rtFreed ELSE rtFreed \cup ({old} \ {None})
        /\ rt' = [rt EXCEPT ![s].hand = None, ![s].pc = "pop"]
  /\ UNCHANGED <<control, graphs, ring>>

----------------------------------------------------------------------------
(* The control thread.                                                     *)

RoomOrBound ==
  (output # NoStream /\ fullPushes = MaxFullPushes) => Len(ring[output]) < RingSlots

(* An edit's Rebuild message reaches the head of the control channel. *)
AskRebuild ==
  /\ cpc = "idle"
  /\ rebuilds < MaxRebuilds
  /\ RoomOrBound
  /\ rebuilds' = rebuilds + 1
  /\ cpc' = "publish"
  /\ UNCHANGED <<generation, tablesGen, pending, streams, fullPushes, queues, rt, graphs, rtFreed>>

(* The tick's retry of a rebuild whose graph found the ring full. *)
RetryRebuild ==
  /\ cpc = "idle"
  /\ pending
  /\ RoomOrBound
  /\ pending' = FALSE
  /\ cpc' = "publish"
  /\ UNCHANGED <<generation, tablesGen, streams, rebuilds, fullPushes, queues, rt, graphs, rtFreed>>

(* rebuild, phase 2: a new generation's tables.  Without an output no      *)
(* graph is assembled and the rebuild ends here.                           *)
PublishTables ==
  /\ cpc = "publish"
  /\ generation' = generation + 1
  /\ tablesGen' = generation + 1
  /\ cpc' = IF output = NoStream THEN "idle" ELSE "drain"
  /\ UNCHANGED <<pending, streams, rebuilds, fullPushes, queues, rt, graphs, rtFreed>>

(* One pop of the retire ring: the drain of `rebuild` and of the tick. *)
DropRetired ==
  /\ cpc \in {"idle", "drain"}
  /\ output # NoStream
  /\ retire[output] # <<>>
  /\ freed' = freed \cup {Head(retire[output])}
  /\ retire' = [retire EXCEPT ![output] = Tail(@)]
  /\ UNCHANGED <<control, ring, rt, built, rtFreed>>

DrainDone ==
  /\ cpc = "drain"
  /\ retire[output] = <<>>
  /\ cpc' = "push"
  /\ UNCHANGED <<generation, tablesGen, pending, streams, rebuilds, fullPushes, queues, rt, graphs, rtFreed>>

(* Queue the graph; a full ring hands it back and it is dropped here, with *)
(* a rebuild owed because the tables already name its generation.          *)
PushGraph ==
  /\ cpc = "push"
  /\ cpc' = "idle"
  /\ built' = built \cup {generation}
  /\ \/ /\ Len(ring[output]) < RingSlots
        /\ ring' = [ring EXCEPT ![output] = Append(@, generation)]
        /\ UNCHANGED <<pending, fullPushes, freed>>
     \/ /\ Len(ring[output]) >= RingSlots
        /\ pending' = TRUE
        /\ fullPushes' = fullPushes + 1
        /\ freed' = freed \cup {generation}
        /\ UNCHANGED ring
  /\ UNCHANGED <<generation, tablesGen, streams, rebuilds, retire, rt, rtFreed>>

(* open_output: build the stream and play it.  A device that fails to open *)
(* changes nothing, so failure has no step.                                *)
PlayStream(s) ==
  /\ cpc = "idle"
  /\ s \in fresh
  /\ fresh' = fresh \ {s}
  /\ opening' = s
  /\ running' = running \cup {s}
  /\ cpc' = "install"
  /\ UNCHANGED <<generation, tablesGen, pending, output, rebuilds, fullPushes, queues, rt, graphs, rtFreed>>

(* Replacing the bundle drops the previous one.  Its stream is told to     *)
(* stop: no further block begins.                                          *)
StopPrevious ==
  /\ cpc = "install"
  /\ running' = {opening}
  /\ cpc' = "join"
  /\ UNCHANGED <<generation, tablesGen, pending, opening, output, fresh, rebuilds, fullPushes, queues, rt, graphs, rtFreed>>

(* The drop of the stream returns once its callback has: the graphs of     *)
(* both rings and of the callback's closure are freed on this thread.      *)
(* Installing the new bundle is followed by a rebuild.                     *)
InstallOutput ==
  /\ cpc = "join"
  /\ IF output = NoStream
     THEN UNCHANGED <<queues, rt, freed>>
     ELSE /\ rt[output].pc = "idle"
          /\ freed' = freed \cup Contents(ring[output]) \cup Contents(retire[output])
                            \cup ({rt[output].graph} \ {None})
          /\ ring' = [ring EXCEPT ![output] = <<>>]
          /\ retire' = [retire EXCEPT ![output] = <<>>]
          /\ rt' = [rt EXCEPT ![output].graph = None]
  /\ output' = opening
  /\ opening' = NoStream
  /\ cpc' = "publish"
  /\ UNCHANGED <<generation, tablesGen, pending, fresh, running, rebuilds, fullPushes, built, rtFreed>>

----------------------------------------------------------------------------
(* The callback of stream s: before each block, adopt queued graphs while  *)
(* the retire ring can take the one they replace.                          *)

(* The device asks for a block. *)
BeginBlock(s) ==
  /\ s \in running
  /\ rt[s].pc = "idle"
  /\ rt' = [rt EXCEPT ![s].pc = IF Len(retire[s]) < RetireSlots THEN "pop" ELSE "render"]
  /\ UNCHANGED <<control, graphs, queues, rtFreed>>

PopGraph(s) ==
  /\ rt[s].pc = "pop"
  /\ IF ring[s] = <<>>
     THEN /\ rt' = [rt EXCEPT ![s].pc = "render"]
          /\ UNCHANGED ring
     ELSE /\ rt' = [rt EXCEPT ![s].pc = "swap", ![s].hand = Head(ring[s])]
          /\ ring' = [ring EXCEPT ![s] = Tail(@)]
  /\ UNCHANGED <<control, graphs, retire, rtFreed>>

(* `self.graph.replace(fresh)`: the old graph is now in hand. *)
SwapGraph(s) ==
  /\ rt[s].pc = "swap"
  /\ rt' = [rt EXCEPT ![s] = [pc |-> "push", graph |-> rt[s].hand, hand |-> rt[s].graph]]
  /\ UNCHANGED <<control, graphs, queues, rtFreed>>

(* `let _ = retire_tx.push(old)`: were the ring full, the graph returned   *)
(* by the failed push would be dropped on the audio thread.                *)
PushRetired(s) ==
  /\ rt[s].pc = "push"
  /\ LET old == rt[s].hand
         kept == old # None /\ Len(retire[s]) < RetireSlots
     IN /\ retire' = IF kept THEN [retire EXCEPT ![s] = Append(@, old)] ELSE retire
        /\ rtFreed' = IF kept THEN rtFreed ELSE rtFreed \cup ({old} \ {None})
        /\ rt' = [rt EXCEPT ![s].hand = None,
                            ![s].pc = IF Len(retire'[s]) < RetireSlots THEN "pop" ELSE "render"]
  /\ UNCHANGED <<control, graphs, ring>>

EndBlock(s) ==
  /\ rt[s].pc = "render"
  /\ rt' = [rt EXCEPT ![s].pc = "idle"]
  /\ UNCHANGED <<control, graphs, queues, rtFreed>>

Control ==
  \/ AskRebuild \/ RetryRebuild \/ PublishTables
  \/ DropRetired \/ DrainDone \/ PushGraph
  \/ (\E s \in Streams : PlayStream(s)) \/ StopPrevious \/ InstallOutput

Callback(s) ==
  BeginBlock(s) \/ PopGraph(s) \/ SwapGraph(s) \/ PushRetired(s) \/ EndBlock(s)

Next == Control \/ \E s \in Streams : Callback(s)

Spec == Init /\ [][Next]_vars

(* The control thread's loop ticks every 2 ms and none of its steps waits  *)
(* for anything but the callback's current block; the device keeps calling *)
(* the callback of a running stream.  Edits and device switches may stop.  *)
FairSpec ==
  /\ Spec
  /\ WF_vars(RetryRebuild) /\ WF_vars(PublishTables) /\ WF_vars(DropRetired)
  /\ WF_vars(DrainDone) /\ WF_vars(PushGraph)
  /\ WF_vars(StopPrevious) /\ WF_vars(InstallOutput)
  /\ \A s \in Streams : WF_vars(Callback(s))

----------------------------------------------------------------------------
(* Properties.                                                             *)

TypeOK ==
  /\ generation \in Nat /\ tablesGen \in Nat
  /\ pending \in BOOLEAN
  /\ cpc \in {"idle", "install", "join", "publish", "drain", "push"}
  /\ opening \in Streams \cup {NoStream} /\ output \in Streams \cup {NoStream}
  /\ fresh \subseteq Streams /\ running \subseteq Streams
  /\ ring \in [Streams -> Seq(Graph)] /\ retire \in [Streams -> Seq(Graph)]
  /\ rt \in [Streams -> RtState]
  /\ built \subseteq Graph /\ freed \subseteq built /\ rtFreed \subseteq Graph
  /\ rebuilds \in 0..MaxRebuilds /\ fullPushes \in 0..MaxFullPushes

(* The audio thread never drops a graph: whatever the control thread does  *)
(* between the test for a free retire slot and the push, the push has one. *)
NoFreeOnAudioThread == rtFreed = {}

(* The places that own graph g: slots of rings and callbacks of streams    *)
(* that are not gone.                                                      *)
Alive == running \cup ({output} \ {NoStream})
Places(g) ==
  UNION {
    {<<"ring", s, i>> : i \in {j \in DOMAIN ring[s] : ring[s][j] = g}}
    \cup {<<"retire", s, i>> : i \in {j \in DOMAIN retire[s] : retire[s][j] = g}}
    \cup (IF rt[s].graph = g THEN {<<"graph", s, 0>>} ELSE {})
    \cup (IF rt[s].hand = g THEN {<<"hand", s, 0>>} ELSE {}) : s \in Alive}

(* A graph has exactly one owner from the moment it is queued until it is  *)
(* dropped and none after, also across a device switch: no double free, no *)
(* use after free, no graph lost with a stream's rings.                    *)
OneOwner ==
  \A g \in built : Cardinality(Places(g)) = IF g \in freed THEN 0 ELSE 1

(* A callback only ever moves to a newer graph. *)
AdoptsForward ==
  [][\A s \in Streams :
       rt'[s].graph # rt[s].graph /\ rt'[s].graph # None => rt'[s].graph > rt[s].graph]_vars

(* The tables the knobs write into are, in the end, the ones the callback  *)
(* plays from: a generation published while there is an output is adopted, *)
(* or a later one is, even when the ring was full.                         *)
Playing(n) == output # NoStream /\ rt[output].graph >= n
TablesReachTheCallback ==
  \A n \in 1..(MaxRebuilds + Cardinality(Streams)) :
    (output # NoStream /\ tablesGen >= n) ~> Playing(n)
=============================================================================
