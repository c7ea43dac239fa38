--------------------------- MODULE RecordTransport ---------------------------
(***************************************************************************)
(* Takes, count-ins and the transport state they share.  A take is begun   *)
(* and ended on the engine control thread (src-tauri/src/audio/engine.rs,  *)
(* `start_recording`, `stop_recording`, `arm_pending_after_countin`,       *)
(* `apply_end_policy`); Play and Stop run on the thread of whoever sends   *)
(* them (control/mod.rs, `ControlPlane::transport`) and ask the engine     *)
(* only when they see a take; the callback counts a count-in down.  They   *)
(* meet in the atomics of SharedRt and in the document's transport label,  *)
(* which only transactions write.                                          *)
(*                                                                         *)
(* Time is in blocks.  Left out: where the playhead is (Playhead), the     *)
(* automation pass a stop ends, the pitch listener, the input streams.     *)
(***************************************************************************)
EXTENDS Naturals, Sequences, FiniteSets

CONSTANTS
  Doors,        \* threads that send commands: the UI's, MCP's
  Nobody,       \* the sender of what the engine does by itself
  CountIn,      \* length of the count-in; 0: count_in_bars is 0
  SlowWriters,  \* the writers may take longer than a request waits (30 s)
  MaxCommands   \* bound: commands sent

DoorsAssumption == IsFiniteSet(Doors) /\ Nobody \notin Doors
OtherAssumption ==
  CountIn \in Nat /\ SlowWriters \in BOOLEAN /\ MaxCommands \in Nat

VARIABLES
  playing, recording, countin,  \* SharedRt
  label,       \* transport.state of the document
  launched,    \* a scene is sounding
  hasOutput,   \* there is a device, and so a callback
  cb,          \* the count-in the callback has loaded and not yet stored back
  ended,       \* a ReachedEnd event is in the ring
  eng,         \* the engine thread: what it is at, and for whom
  take,        \* its writers are running, or its hub captures MIDI
  pending,     \* pending_record: the take the count-in leads to
  begun, kept, \* history: takes begun, takes registered in the document
  queue,       \* ControlMsgs on the way to the engine
  door,        \* door[d]: the command d executes
  commands,    \* history: commands sent
  last         \* history: how the last command, if a Stop, returned

atomics == <<playing, recording, countin>>
callback == <<hasOutput, cb, ended>>
takes == <<take, pending, begun, kept>>
requests == <<queue, door>>
history == <<commands, last>>
vars == <<atomics, label, launched, callback, eng, takes, requests, history>>

Message == [kind : {"start", "stop"}, for : Doors \cup {Nobody}]
EngState ==
  [pc : {"idle", "start", "preroll", "roll", "label", "unarm",
         "stop", "cancel", "quiet", "finish", "halt", "register", "unlabel", "autohalt"},
   for : Doors \cup {Nobody}, arming : BOOLEAN, had : BOOLEAN, failed : BOOLEAN]
DoorState ==
  [pc : {"idle", "play", "roll", "stop", "count", "wait", "halt", "label", "cut"},
   cmd : {"none", "play", "stop", "record", "keep"}, reply : {"none", "ok", "err"},
   routed : BOOLEAN]

IdleEng == [pc |-> "idle", for |-> Nobody, arming |-> FALSE, had |-> FALSE, failed |-> FALSE]
IdleDoor == [pc |-> "idle", cmd |-> "none", reply |-> "none", routed |-> FALSE]

Init ==
  /\ playing = FALSE /\ recording = FALSE /\ countin = 0
  /\ label = "stopped" /\ launched = FALSE
  /\ hasOutput \in BOOLEAN /\ cb = 0 /\ ended = FALSE
  /\ eng = IdleEng
  /\ take = FALSE /\ pending = FALSE /\ begun = 0 /\ kept = 0
  /\ queue = <<>> /\ door = [d \in Doors |-> IdleDoor]
  /\ commands = 0 /\ last = "none"

----------------------------------------------------------------------------
(* Faulty variants of definitions below: plausible bugs, not code.         *)

(* The end of the song stops the transport, but not its label. *)
AutoHaltUnlabelled ==
  /\ eng.pc = "autohalt"
  /\ playing' = FALSE
  /\ eng' = IdleEng /\ UNCHANGED door
  /\ UNCHANGED <<recording, countin, label, launched, callback, takes, queue, history>>

(* The take a count-in led to counts in again. *)
ArmPendingReenters ==
  /\ eng.pc = "idle"
  /\ pending /\ countin = 0
  /\ pending' = FALSE
  /\ eng' = [IdleEng EXCEPT !.pc = "start"]
  /\ UNCHANGED <<atomics, label, launched, callback, take, begun, kept, requests, history>>

(* A count-in is stopped, the take it leads to is not. *)
EndTakeNotPending ==
  /\ eng.pc = "stop" /\ (pending \/ countin > 0 \/ take)
  /\ eng' = [eng EXCEPT !.pc = IF pending \/ countin > 0 THEN "cancel" ELSE "finish", !.had = take]
  /\ take' = FALSE
  /\ UNCHANGED <<atomics, label, launched, callback, pending, begun, kept, requests, history>>

(* A writer that fails ends the request: nothing of the take is salvaged. *)
FinishWritersOrLeave ==
  /\ eng.pc = "finish"
  /\ eng' = [eng EXCEPT !.pc = "halt"] \/ eng' = IdleEng
  /\ UNCHANGED <<atomics, label, launched, callback, takes, requests, history>>

(* The flag outlives the take. *)
HaltKeepsRecording ==
  /\ eng.pc = "halt"
  /\ playing' = FALSE
  /\ eng' = [eng EXCEPT !.pc = "register"]
  /\ UNCHANGED <<recording, countin, label, launched, callback, takes, requests, history>>

----------------------------------------------------------------------------
(* The callback: while a count-in lasts it freezes the playhead and counts *)
(* down, with a load at the block's begin and a store at its end.          *)

BeginBlock ==
  /\ hasOutput /\ cb = 0
  /\ cb' = countin
  /\ ended' \in {ended, ended \/ (playing /\ countin = 0)}
  /\ UNCHANGED <<atomics, label, launched, hasOutput, eng, takes, requests, history>>

CountDown ==
  /\ cb > 0
  /\ countin' = cb - 1
  /\ cb' = 0
  /\ UNCHANGED <<playing, recording, label, launched, hasOutput, ended, eng, takes, requests, history>>

----------------------------------------------------------------------------
(* The engine thread: the next message, or a tick.                         *)

(* A request is answered unless nobody waits for it. *)
Answer(r) ==
  /\ eng' = IdleEng
  /\ door' = IF eng.for = Nobody THEN door ELSE [door EXCEPT ![eng.for].reply = r]

At(pc) == eng' = [eng EXCEPT !.pc = pc] /\ UNCHANGED door

Handle ==
  /\ eng.pc = "idle" /\ queue # <<>>
  /\ eng' = [IdleEng EXCEPT !.pc = Head(queue).kind, !.for = Head(queue).for]
  /\ queue' = Tail(queue)
  /\ UNCHANGED <<atomics, label, launched, callback, takes, door, history>>

(* apply_end_policy: the end of the song stops the transport, not a take. *)
EndPolicy == IF playing /\ ~recording THEN [IdleEng EXCEPT !.pc = "autohalt"] ELSE IdleEng

(* drain_rt_events. *)
ReachEnd ==
  /\ eng.pc = "idle" /\ ended
  /\ ended' = FALSE
  /\ eng' = EndPolicy
  /\ UNCHANGED <<atomics, label, launched, hasOutput, cb, takes, requests, history>>

(* headless_advance: without a device the engine counts by itself, and may *)
(* reach the end by itself.                                                *)
Headless ==
  /\ ~hasOutput /\ eng.pc = "idle" /\ playing
  /\ \/ countin > 0 /\ countin' = countin - 1 /\ UNCHANGED eng
     \/ countin = 0 /\ eng' = EndPolicy /\ UNCHANGED countin
  /\ UNCHANGED <<playing, recording, label, launched, callback, takes, requests, history>>

AutoHalt ==
  /\ eng.pc = "autohalt"
  /\ playing' = FALSE
  /\ At("unlabel")
  /\ UNCHANGED <<recording, countin, label, launched, callback, takes, queue, history>>

(* arm_pending_after_countin. *)
ArmPending ==
  /\ eng.pc = "idle"
  /\ pending /\ countin = 0
  /\ pending' = FALSE
  /\ eng' = [IdleEng EXCEPT !.pc = "start", !.arming = TRUE]
  /\ UNCHANGED <<atomics, label, launched, callback, take, begun, kept, requests, history>>

----------------------------------------------------------------------------
(* start_recording.                                                        *)

Busy == take \/ pending

(* No target to record, no project, or a device that does not open. *)
StartFails ==
  /\ eng.pc = "start"
  /\ IF eng.arming /\ ~Busy THEN At("unarm") ELSE Answer("err")
  /\ UNCHANGED <<atomics, label, launched, callback, takes, queue, history>>

Unarm ==
  /\ eng.pc = "unarm"
  /\ playing' = FALSE
  /\ Answer("err")
  /\ UNCHANGED <<recording, countin, label, launched, callback, takes, queue, history>>

CountsIn == CountIn > 0 /\ ~eng.arming /\ countin = 0

StartCountIn ==
  /\ eng.pc = "start" /\ ~Busy /\ CountsIn
  /\ countin' = CountIn
  /\ At("preroll")
  /\ UNCHANGED <<playing, recording, label, launched, callback, takes, queue, history>>

Preroll ==
  /\ eng.pc = "preroll"
  /\ playing' = TRUE
  /\ pending' = TRUE
  /\ Answer("ok")
  /\ UNCHANGED <<recording, countin, label, launched, callback, take, begun, kept, queue, history>>

StartTake ==
  /\ eng.pc = "start" /\ ~Busy /\ ~CountsIn
  /\ take' = TRUE /\ begun' = begun + 1
  /\ At("roll")
  /\ UNCHANGED <<atomics, label, launched, callback, pending, kept, queue, history>>

(* Two stores: no thread can tell a moment between them. *)
Roll ==
  /\ eng.pc = "roll"
  /\ recording' = TRUE /\ playing' = TRUE
  /\ At("label")
  /\ UNCHANGED <<countin, label, launched, callback, takes, queue, history>>

LabelRecording ==
  /\ eng.pc = "label"
  /\ label' = "recording"
  /\ Answer("ok")
  /\ UNCHANGED <<atomics, launched, callback, takes, queue, history>>

----------------------------------------------------------------------------
(* stop_recording.                                                         *)

CountingIn == pending \/ countin > 0

StopRefused ==
  /\ eng.pc = "stop" /\ ~CountingIn /\ ~take
  /\ Answer("err")
  /\ UNCHANGED <<atomics, label, launched, callback, takes, queue, history>>

(* The capture and the writers are taken from the engine, and the count-in. *)
EndTake ==
  /\ eng.pc = "stop" /\ (CountingIn \/ take)
  /\ eng' = [eng EXCEPT !.pc = IF CountingIn THEN "cancel" ELSE "finish", !.had = take]
  /\ take' = FALSE /\ pending' = FALSE
  /\ UNCHANGED <<atomics, label, launched, callback, begun, kept, requests, history>>

CancelCountIn ==
  /\ eng.pc = "cancel"
  /\ countin' = 0
  /\ At("quiet")
  /\ UNCHANGED <<playing, recording, label, launched, callback, takes, queue, history>>

Quiet ==
  /\ eng.pc = "quiet"
  /\ recording' = FALSE /\ playing' = FALSE
  /\ IF eng.had THEN At("finish") ELSE Answer("ok")
  /\ UNCHANGED <<countin, label, launched, callback, takes, queue, history>>

(* A writer that fails loses its clips; the rest of the take is kept. *)
FinishWriters ==
  /\ eng.pc = "finish"
  /\ \E failed \in BOOLEAN : eng' = [eng EXCEPT !.pc = "halt", !.failed = failed]
  /\ UNCHANGED <<atomics, label, launched, callback, takes, requests, history>>

Halt ==
  /\ eng.pc = "halt"
  /\ recording' = FALSE /\ playing' = FALSE
  /\ At("register")
  /\ UNCHANGED <<countin, label, launched, callback, takes, queue, history>>

(* commit_recording_finalize: the take's clips, one undo entry. *)
Register ==
  /\ eng.pc = "register"
  /\ kept' = kept + 1
  /\ At("unlabel")
  /\ UNCHANGED <<atomics, label, launched, callback, take, pending, begun, queue, history>>

(* commit_recording_stopped_state, and commit_auto_stop. *)
LabelStopped ==
  /\ eng.pc = "unlabel"
  /\ label' = "stopped"
  /\ Answer(IF eng.failed THEN "err" ELSE "ok")
  /\ UNCHANGED <<atomics, launched, callback, takes, queue, history>>

----------------------------------------------------------------------------
(* Commands.                                                               *)

Send(d, kind) == queue' = Append(queue, [kind |-> kind, for |-> d])

NewCommand(d) ==
  /\ door[d].pc = "idle" /\ commands < MaxCommands
  /\ commands' = commands + 1
  /\ last' = "none"
  /\ UNCHANGED <<atomics, label, callback, eng, takes>>

Begin(d, cmd, pc) == door' = [door EXCEPT ![d] = [IdleDoor EXCEPT !.cmd = cmd, !.pc = pc]]

Return(d) == door' = [door EXCEPT ![d] = IdleDoor]

Command(d) ==
  /\ NewCommand(d)
  /\ \/ Begin(d, "play", "play") /\ UNCHANGED <<launched, queue>>
     \/ Begin(d, "stop", "stop") /\ UNCHANGED <<launched, queue>>
     \/ Begin(d, "record", "wait") /\ Send(d, "start") /\ UNCHANGED launched
     \/ Begin(d, "keep", "wait") /\ Send(d, "stop") /\ UNCHANGED launched
     \/ launched' = TRUE /\ UNCHANGED requests   \* fire_scene

(* Play: one transaction checks the label and sets it ... *)
Play(d) ==
  /\ door[d].pc = "play"
  /\ IF label = "recording"
     THEN Return(d) /\ UNCHANGED label
     ELSE label' = "playing" /\ door' = [door EXCEPT ![d].pc = "roll"]
  /\ UNCHANGED <<atomics, launched, callback, eng, takes, queue, history>>

(* ... and the atomic follows its decision. *)
ArmPlaying(d) ==
  /\ door[d].pc = "roll"
  /\ playing' = TRUE
  /\ Return(d)
  /\ UNCHANGED <<recording, countin, label, launched, callback, eng, takes, queue, history>>

(* Stop: a take, or else a count-in, is for the engine to end. *)
StopReadsRecording(d) ==
  /\ door[d].pc = "stop"
  /\ IF recording
     THEN door' = [door EXCEPT ![d].pc = "wait", ![d].routed = TRUE] /\ Send(d, "stop")
     ELSE door' = [door EXCEPT ![d].pc = "count"] /\ UNCHANGED queue
  /\ UNCHANGED <<atomics, label, launched, callback, eng, takes, history>>

StopReadsCountIn(d) ==
  /\ door[d].pc = "count"
  /\ IF countin > 0
     THEN door' = [door EXCEPT ![d].pc = "wait", ![d].routed = TRUE] /\ Send(d, "stop")
     ELSE door' = [door EXCEPT ![d].pc = "halt"] /\ UNCHANGED queue
  /\ UNCHANGED <<atomics, label, launched, callback, eng, takes, history>>

(* The command returns with the engine's error; a Stop does nothing more. *)
Fail(d) == Return(d) /\ last' = IF door[d].cmd = "stop" THEN "failed" ELSE "none"

Answered(d) ==
  /\ door[d].pc = "wait" /\ door[d].reply # "none"
  /\ \/ /\ door[d].reply = "err"
        /\ Fail(d)
     \/ /\ door[d].reply = "ok" /\ door[d].cmd = "stop"
        /\ door' = [door EXCEPT ![d].pc = "halt", ![d].reply = "none"]
        /\ UNCHANGED last
     \/ /\ door[d].reply = "ok" /\ door[d].cmd # "stop"
        /\ Return(d)
        /\ UNCHANGED last
  /\ UNCHANGED <<atomics, label, launched, callback, eng, takes, queue, commands>>

(* A request waits 30 s; the engine still carries it out. *)
Orphan(m, d) == IF m.for = d THEN [m EXCEPT !.for = Nobody] ELSE m

GiveUp(d) ==
  /\ SlowWriters /\ eng.pc = "finish"
  /\ door[d].pc = "wait" /\ door[d].reply = "none"
  /\ eng' = Orphan(eng, d)
  /\ queue' = [i \in DOMAIN queue |-> Orphan(queue[i], d)]
  /\ Fail(d)
  /\ UNCHANGED <<atomics, label, launched, callback, takes, commands>>

StopPlaying(d) ==
  /\ door[d].pc = "halt"
  /\ playing' = FALSE
  /\ door' = [door EXCEPT ![d].pc = "label"]
  /\ UNCHANGED <<recording, countin, label, launched, callback, eng, takes, queue, history>>

StopLabels(d) ==
  /\ door[d].pc = "label"
  /\ label' = "stopped"
  /\ door' = [door EXCEPT ![d].pc = "cut"]
  /\ UNCHANGED <<atomics, launched, callback, eng, takes, queue, history>>

(* clear_launch_audible. *)
StopCutsScenes(d) ==
  /\ door[d].pc = "cut"
  /\ launched' = FALSE
  /\ Return(d)
  /\ last' = IF door[d].routed THEN "routed" ELSE "direct"
  /\ UNCHANGED <<atomics, label, callback, eng, takes, queue, commands>>

----------------------------------------------------------------------------
Callback == BeginBlock \/ CountDown

Start == StartFails \/ Unarm \/ StartCountIn \/ Preroll \/ StartTake \/ Roll \/ LabelRecording
Stop ==
  \/ StopRefused \/ EndTake \/ CancelCountIn \/ Quiet
  \/ FinishWriters \/ Halt \/ Register \/ LabelStopped
Tick == Headless \/ ReachEnd \/ AutoHalt \/ ArmPending
Engine == Handle \/ Start \/ Stop \/ Tick

Execute(d) ==
  \/ Play(d) \/ ArmPlaying(d)
  \/ StopReadsRecording(d) \/ StopReadsCountIn(d)
  \/ Answered(d)
  \/ StopPlaying(d) \/ StopLabels(d) \/ StopCutsScenes(d)

Next == Callback \/ Engine \/ \E d \in Doors : Command(d) \/ Execute(d) \/ GiveUp(d)

Spec == Init /\ [][Next]_vars

(* The device keeps calling; the engine's loop takes its messages, then    *)
(* does each part of its tick; a thread goes on with the command it began. *)
FairSpec ==
  /\ Spec
  /\ WF_vars(Callback)
  /\ WF_vars(Handle) /\ WF_vars(Start) /\ WF_vars(Stop)
  /\ WF_vars(Headless) /\ WF_vars(AutoHalt) /\ SF_vars(ArmPending)
  /\ \A d \in Doors : WF_vars(Execute(d))

----------------------------------------------------------------------------
(* Properties.                                                             *)

TypeOK ==
  /\ playing \in BOOLEAN /\ recording \in BOOLEAN /\ countin \in 0..CountIn
  /\ label \in {"stopped", "playing", "recording"} /\ launched \in BOOLEAN
  /\ hasOutput \in BOOLEAN /\ cb \in 0..CountIn /\ ended \in BOOLEAN
  /\ eng \in EngState /\ queue \in Seq(Message) /\ door \in [Doors -> DoorState]
  /\ take \in BOOLEAN /\ pending \in BOOLEAN /\ begun \in Nat /\ kept \in Nat
  /\ commands \in 0..MaxCommands /\ last \in {"none", "routed", "direct", "failed"}

(* transport_snapshot: the transport state the clients see. *)
Snapshot ==
  IF recording \/ label = "recording" THEN "recording"
  ELSE IF playing \/ countin > 0 THEN "playing" ELSE label

(* Nothing is going on but what the transport itself does. *)
Resting ==
  /\ cb = 0 /\ ~ended /\ eng.pc = "idle" /\ queue = <<>>
  /\ \A d \in Doors : door[d].pc = "idle"

(* A take is kept exactly once: whatever ends it, and also when a writer   *)
(* fails or the command that ended it gave up, it is running, or being     *)
(* finished, or registered in the document, and never registered twice.    *)
Finishing == eng.had /\ eng.pc \in {"cancel", "quiet", "finish", "halt", "register"}
One(p) == IF p THEN 1 ELSE 0
TakesAreKept == begun = kept + One(take) + One(Finishing)

(* At rest the clients see "recording" exactly while a take runs: neither  *)
(* a Play nor a Stop that raced the engine leaves the label behind.        *)
RecordingIsReported == Resting => (Snapshot = "recording" <=> take)

(* At rest a stopped transport is not reported as playing: Play labels     *)
(* before it stores the atomic and Stop after, so the last to label is the *)
(* last to store.                                                          *)
StoppedIsReported == Resting /\ ~playing /\ countin = 0 => Snapshot # "playing"

(* Once a Stop has returned, and no command was sent since, no take runs   *)
(* or is about to, the transport is stopped and no scene sounds.           *)
Silent == ~take /\ ~pending /\ ~playing /\ ~recording /\ ~launched /\ label = "stopped"
StopEndsTheTake == last \in {"routed", "direct"} /\ Resting => Silent

(* The same of the Stops that saw a take, or a count-in, and had the       *)
(* engine end it.                                                          *)
RoutedStopEndsTheTake == last = "routed" /\ Resting => Silent

(* At rest the clients see what is so, whoever raced whom: when there is   *)
(* no count-in also whether the transport plays, and when one thread sends *)
(* the commands also that a Stop which found a take stopped everything.    *)
StateIsReported ==
  /\ RecordingIsReported
  /\ CountIn = 0 => StoppedIsReported
  /\ Cardinality(Doors) = 1 => RoutedStopEndsTheTake

(* A take that waits for its count-in is armed, or it is cancelled: it     *)
(* does not wait, or count in, for ever.                                   *)
CountInEnds == pending ~> (take \/ (~pending /\ ~playing))
=============================================================================
