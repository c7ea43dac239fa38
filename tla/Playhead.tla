------------------------------ MODULE Playhead ------------------------------
(***************************************************************************)
(* Who writes the playhead.  The atomics `position`, `playing` (`rolling`  *)
(* here) and `park` of SharedRt (src-tauri/src/audio/rt.rs) are read and   *)
(* written without a lock by the output callback (audio/engine.rs,         *)
(* `OutputCb::render`), by the engine control thread (auto-stop at the     *)
(* song's end, or the headless advance when there is no device) and by the *)
(* transport commands of the UI and of MCP clients (control/mod.rs,        *)
(* `ControlPlane::transport`).                                             *)
(*                                                                         *)
(* The loop is off here (TransportWalk has it); `mayStop` stands for the   *)
(* end policy's other conditions, stop_at_end and no take running.  Names  *)
(* are distinct from RecordTransport's, which looks at the same threads.   *)
(***************************************************************************)
EXTENDS TransportMath

CONSTANTS
  Senders,      \* threads that send transport commands
  SongEnd,      \* SharedRt::song_end
  Blocks,       \* block sizes the device asks for
  Targets,      \* samples the user seeks to
  NoPark,       \* the sentinel of `park`
  EventSlots,   \* capacity of the engine_evt ring (64)
  MaxSends      \* bound: transport commands

SamplesAssumption ==
  SongEnd \in Samples \ {0} /\ Targets \subseteq Samples /\ NoPark \notin Samples
BlocksAssumption == Blocks \subseteq Nat \ {0}
RingAssumption == EventSlots \in Nat \ {0} /\ MaxSends \in Nat

VARIABLES
  position, rolling, park,  \* SharedRt
  device,      \* a stream is open; else the engine advances the playhead
  mayStop,     \* stop_at_end, and no take is running
  events,      \* ReachedEnd events in the ring
  block,       \* the callback: where it is and its locals
  tick,        \* the engine thread, likewise
  sender,      \* sender[d]: the command d executes
  sends,       \* history: commands begun
  autoStop,    \* history: see ReadPlaying
  sought,      \* history: where the last seek made at rest went
  unfinished   \* history: threads at work since that seek returned

shared == <<position, rolling, park, mayStop, events>>
headHistory == <<sends, autoStop, sought, unfinished>>
headVars == <<shared, device, block, tick, sender, headHistory>>

Off == [enabled |-> FALSE, start |-> 0, end |-> 0]
NoSeek == NoPark

CbState ==
  [pc : {"idle", "swap", "place", "load", "report", "store"}, playing : BOOLEAN,
   hand : Samples \cup {NoPark}, base : Samples, frames : {0} \cup Blocks]
TickState ==
  [pc : {"idle", "load", "advance", "policy", "playing", "park", "stop", "position"},
   base : Samples, frames : {0} \cup Blocks]
SenderState == [pc : {"idle", "play", "stop", "seek"}, target : Samples, quiet : BOOLEAN]

IdleCb == [pc |-> "idle", playing |-> FALSE, hand |-> NoPark, base |-> 0, frames |-> 0]
IdleTick == [pc |-> "idle", base |-> 0, frames |-> 0]
IdleSender == [pc |-> "idle", target |-> 0, quiet |-> FALSE]

HeadInit ==
  /\ position = 0 /\ rolling = FALSE /\ park = NoPark /\ mayStop = TRUE
  /\ device \in BOOLEAN /\ events = 0
  /\ block = IdleCb /\ tick = IdleTick
  /\ sender = [d \in Senders |-> IdleSender]
  /\ sends = 0
  /\ autoStop = "none"
  /\ sought = NoSeek /\ unfinished = {}

(* A thread is done with what it was at when the last seek returned. *)
Finish(thread) == unfinished' = unfinished \ {thread}

----------------------------------------------------------------------------
(* Faulty variants of definitions below: plausible bugs, not code.         *)

(* The park of an earlier stop is left for the callback. *)
SupersedeParkNever == UNCHANGED park

(* The end policy counts on its own store of the position. *)
HandOverParkNever == UNCHANGED park

(* Only a block that ends on the song's end reaches it. *)
CrossedAtEdge(base, frames) == base + frames = SongEnd

----------------------------------------------------------------------------
(* The callback.                                                           *)

(* A block begins: one load of `playing` decides it. *)
CbBegin ==
  /\ device
  /\ block.pc = "idle"
  /\ block' = [block EXCEPT !.pc = IF rolling THEN "load" ELSE "swap", !.playing = rolling]
  /\ UNCHANGED <<shared, device, tick, sender, headHistory>>

(* Stopped: take the parking position, if one is owed ... *)
CbSwapPark ==
  /\ block.pc = "swap"
  /\ park' = NoPark
  /\ block' = [block EXCEPT !.hand = park, !.pc = IF park = NoPark THEN "load" ELSE "place"]
  /\ UNCHANGED <<position, rolling, mayStop, events, device, tick, sender, headHistory>>

(* ... and go there. *)
CbPlace ==
  /\ block.pc = "place"
  /\ position' = block.hand
  /\ block' = [block EXCEPT !.pc = "load", !.hand = NoPark]
  /\ UNCHANGED <<rolling, park, mayStop, events, device, tick, sender, headHistory>>

(* The playhead this block renders from; stopped, the block ends there. *)
CbLoad ==
  /\ block.pc = "load"
  /\ \E n \in Blocks :
       block' = IF block.playing THEN [block EXCEPT !.pc = "report", !.base = position, !.frames = n]
             ELSE IdleCb
  /\ IF block.playing THEN UNCHANGED unfinished ELSE Finish("callback")
  /\ UNCHANGED <<shared, device, tick, sender, sends, autoStop, sought>>

(* Did this block reach the end of the song? *)
Crossed(base, frames) == Crossing(base, frames, Off, SongEnd) # Nowhere

(* A full ring drops the event. *)
Push(n) == IF n < EventSlots THEN n + 1 ELSE n

CbReport ==
  /\ block.pc = "report"
  /\ events' = IF Crossed(block.base, block.frames) THEN Push(events) ELSE events
  /\ block' = [block EXCEPT !.pc = "store"]
  /\ UNCHANGED <<position, rolling, park, mayStop, device, tick, sender, headHistory>>

CbStore ==
  /\ block.pc = "store"
  /\ position' = Advance(block.base, block.frames, Off)
  /\ block' = IdleCb
  /\ Finish("callback")
  /\ UNCHANGED <<rolling, park, mayStop, events, device, tick, sender, sends, autoStop, sought>>

----------------------------------------------------------------------------
(* The engine control thread.                                              *)

(* drain_rt_events: however many, one policy pass. *)
DrainEvents ==
  /\ tick.pc = "idle" /\ events > 0
  /\ events' = 0
  /\ tick' = [tick EXCEPT !.pc = "policy"]
  /\ UNCHANGED <<position, rolling, park, mayStop, device, block, sender, headHistory>>

(* headless_advance: the same step without a device. *)
HeadlessBegin ==
  /\ ~device
  /\ tick.pc = "idle" /\ rolling
  /\ \E n \in Blocks : tick' = [tick EXCEPT !.pc = "load", !.frames = n]
  /\ UNCHANGED <<shared, device, block, sender, headHistory>>

HeadlessLoad ==
  /\ tick.pc = "load"
  /\ tick' = [tick EXCEPT !.pc = "advance", !.base = position]
  /\ UNCHANGED <<shared, device, block, sender, headHistory>>

HeadlessStore ==
  /\ tick.pc = "advance"
  /\ position' = Advance(tick.base, tick.frames, Off)
  /\ LET reached == Crossed(tick.base, tick.frames)
     IN /\ tick' = IF reached THEN [IdleTick EXCEPT !.pc = "policy"] ELSE IdleTick
        /\ IF reached THEN UNCHANGED unfinished ELSE Finish("engine")
  /\ UNCHANGED <<rolling, park, mayStop, events, device, block, sender, sends, autoStop, sought>>

(* apply_end_policy: does the end stop the transport now? *)
ReadPolicy ==
  /\ tick.pc = "policy"
  /\ tick' = IF mayStop THEN [tick EXCEPT !.pc = "playing"] ELSE IdleTick
  /\ IF mayStop THEN UNCHANGED unfinished ELSE Finish("engine")
  /\ UNCHANGED <<shared, device, block, sender, sends, autoStop, sought>>

(* autoStop is "none" once a command moves after the decision to stop; it  *)
(* says whether the callback was in a stopped block's prologue just then.  *)
ReadPlaying ==
  /\ tick.pc = "playing"
  /\ tick' = IF rolling THEN [tick EXCEPT !.pc = "park"] ELSE IdleTick
  /\ autoStop' = IF ~rolling THEN "none"
                  ELSE IF block.pc \in {"swap", "place"} THEN "prologue" ELSE "clear"
  /\ IF rolling THEN UNCHANGED unfinished ELSE Finish("engine")
  /\ UNCHANGED <<shared, device, block, sender, sends, sought>>

(* The callback, if there is one, is told where to park ... *)
HandOverPark == park' = IF device THEN SongEnd ELSE park

StorePark ==
  /\ tick.pc = "park"
  /\ HandOverPark
  /\ tick' = [tick EXCEPT !.pc = "stop"]
  /\ UNCHANGED <<position, rolling, mayStop, events, device, block, sender, headHistory>>

(* ... before the transport stops. *)
StopTransport ==
  /\ tick.pc = "stop"
  /\ rolling' = FALSE
  /\ tick' = [tick EXCEPT !.pc = "position"]
  /\ UNCHANGED <<position, park, mayStop, events, device, block, sender, headHistory>>

StorePosition ==
  /\ tick.pc = "position"
  /\ position' = SongEnd
  /\ tick' = IdleTick
  /\ Finish("engine")
  /\ UNCHANGED <<rolling, park, mayStop, events, device, block, sender, sends, autoStop, sought>>

----------------------------------------------------------------------------
(* Transport commands.  Each begins by dropping a parking position.        *)

SupersedePark == park' = NoPark

(* The transport is stopped, and nobody else is about to change that. *)
AtRest == ~rolling /\ tick.pc = "idle" /\ \A d \in Senders : sender[d].pc = "idle"

(* Another command under way is no longer made at rest. *)
BeginCommand(d, what, target) ==
  /\ sender[d].pc = "idle" /\ sends < MaxSends
  /\ sends' = sends + 1
  /\ SupersedePark
  /\ sender' = [e \in Senders |->
       IF e = d THEN [pc |-> what, target |-> target, quiet |-> AtRest]
       ELSE [sender[e] EXCEPT !.quiet = FALSE]]
  /\ autoStop' = "none" /\ sought' = NoSeek /\ unfinished' = {}
  /\ UNCHANGED <<position, rolling, mayStop, events, device, block, tick>>

Plays(d) ==
  /\ sender[d].pc = "play"
  /\ rolling' = TRUE
  /\ sender' = [sender EXCEPT ![d] = IdleSender]
  /\ autoStop' = "none" /\ sought' = NoSeek /\ unfinished' = {}
  /\ UNCHANGED <<position, park, mayStop, events, device, block, tick, sends>>

Stops(d) ==
  /\ sender[d].pc = "stop"
  /\ rolling' = FALSE
  /\ sender' = [sender EXCEPT ![d] = IdleSender]
  /\ autoStop' = "none" /\ sought' = NoSeek /\ unfinished' = {}
  /\ UNCHANGED <<position, park, mayStop, events, device, block, tick, sends>>

Seeks(d) ==
  /\ sender[d].pc = "seek"
  /\ position' = sender[d].target
  /\ sender' = [sender EXCEPT ![d] = IdleSender]
  /\ autoStop' = "none"
  /\ sought' = IF sender[d].quiet /\ ~rolling THEN sender[d].target ELSE NoSeek
  /\ unfinished' = (IF block.pc # "idle" THEN {"callback"} ELSE {}) \cup (IF tick.pc # "idle" THEN {"engine"} ELSE {})
  /\ UNCHANGED <<rolling, park, mayStop, events, device, block, tick, sends>>

(* SetStopAtEnd, or a take that starts or ends. *)
SetMayStop(d) ==
  /\ sender[d].pc = "idle" /\ sends < MaxSends
  /\ sends' = sends + 1
  /\ mayStop' = ~mayStop
  /\ UNCHANGED <<position, rolling, park, events, device, block, tick, sender, autoStop, sought, unfinished>>

HeadCommand(d) ==
  \/ BeginCommand(d, "play", 0) \/ BeginCommand(d, "stop", 0)
  \/ (\E t \in Targets : BeginCommand(d, "seek", t))
  \/ SetMayStop(d)

HeadExecute(d) == Plays(d) \/ Stops(d) \/ Seeks(d)

HeadCallback == CbBegin \/ CbSwapPark \/ CbPlace \/ CbLoad \/ CbReport \/ CbStore

HeadEngine ==
  \/ DrainEvents \/ HeadlessBegin \/ HeadlessLoad \/ HeadlessStore
  \/ ReadPolicy \/ ReadPlaying \/ StorePark \/ StopTransport \/ StorePosition

HeadNext == HeadCallback \/ HeadEngine \/ \E d \in Senders : HeadCommand(d) \/ HeadExecute(d)

HeadSpec == HeadInit /\ [][HeadNext]_headVars

(* The device keeps calling, the engine's loop ticks every 2 ms, and a     *)
(* command that was begun is carried out.                                  *)
HeadFairSpec ==
  HeadSpec /\ WF_headVars(HeadCallback) /\ WF_headVars(HeadEngine) /\ \A d \in Senders : WF_headVars(HeadExecute(d))

----------------------------------------------------------------------------
(* Properties.                                                             *)

HeadTypeOK ==
  /\ position \in Samples /\ rolling \in BOOLEAN /\ park \in Samples \cup {NoPark}
  /\ mayStop \in BOOLEAN /\ device \in BOOLEAN /\ events \in 0..EventSlots
  /\ block \in CbState /\ tick \in TickState /\ sender \in [Senders -> SenderState]
  /\ sends \in 0..MaxSends /\ autoStop \in {"none", "prologue", "clear"}
  /\ sought \in Samples \cup {NoSeek} /\ unfinished \subseteq {"callback", "engine"}

HeadRests == block.pc = "idle" /\ tick.pc = "idle" /\ \A d \in Senders : sender[d].pc = "idle"

(* An auto-stop no command interfered with leaves the playhead on the end  *)
(* of the song, whatever the callback's block in flight wrote; but for a   *)
(* callback that had seen the transport stopped, has yet to take the park, *)
(* and does not know that it was started since.                            *)
AtEnd == position = SongEnd /\ ~rolling
Parked == HeadRests /\ park = NoPark
AutoStopParks == autoStop = "clear" /\ Parked => AtEnd

(* A seek made while stopped, with no end policy and no other command      *)
(* under way, stays once the block in flight when it returned is over: no  *)
(* parking position owed from earlier moves the playhead.                  *)
SettledSeekStays ==
  [][sought # NoSeek /\ unfinished = {} /\ sought' = sought => position' = position]_headVars

(* The song ends: a playhead running towards the end, that nobody touches  *)
(* again, stops and stops there.                                           *)
RunningIn ==
  HeadRests /\ rolling /\ mayStop /\ events = 0 /\ position < SongEnd /\ sends = MaxSends
StopsAtTheEnd == RunningIn ~> (~rolling /\ position = SongEnd)

(* What the comment on `transport` says of a command and a parking         *)
(* position: a stop that is followed by a seek does not undo the seek.     *)
SeekIsNotUndone == sought # NoSeek => position = sought
=============================================================================
