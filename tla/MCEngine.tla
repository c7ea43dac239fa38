------------------------------ MODULE MCEngine ------------------------------
(***************************************************************************)
(* The audio engine's transport for TLC: in a behaviour one of its parts   *)
(* moves, chosen at the start, and the others rest.  The parts are those   *)
(* of TransportWalk, Playhead, RecordTransport (with two commanding        *)
(* threads, slow writers and no count-in; and on variables of its own with *)
(* one thread and a count-in), ClockCarry and MidiOutPort.                 *)
(***************************************************************************)
EXTENDS TransportWalk, Playhead, RecordTransport, ClockCarry, MidiOutPort

VARIABLES
  part,  \* the part that moves
  recPlaying, recRecording, recCountin, recLabel, recLaunched, recHasOutput,
  recCb, recEnded, recEng, recTake, recPending, recBegun, recKept, recQueue,
  recDoor, recCommands, recLast

recVars ==
  <<recPlaying, recRecording, recCountin, recLabel, recLaunched, recHasOutput,
    recCb, recEnded, recEng, recTake, recPending, recBegun, recKept, recQueue,
    recDoor, recCommands, recLast>>
all == <<part, walkVars, vars, headVars, recVars, clockVars, portVars>>

Counting == INSTANCE RecordTransport WITH
  Doors <- {"ui"}, Nobody <- "nobody", CountIn <- 2, SlowWriters <- FALSE,
  MaxCommands <- 4, playing <- recPlaying, recording <- recRecording,
  countin <- recCountin, label <- recLabel, launched <- recLaunched,
  hasOutput <- recHasOutput, cb <- recCb, ended <- recEnded, eng <- recEng,
  take <- recTake, pending <- recPending, begun <- recBegun, kept <- recKept,
  queue <- recQueue, door <- recDoor, commands <- recCommands, last <- recLast

(* A note; a note that ends and another on the same sample. *)
Note(on, off, k) == <<[at |-> on, key |-> k, on |-> TRUE], [at |-> off, key |-> k, on |-> FALSE]>>
Songs == {Note(1, 3, "a"), Note(0, 2, "b") \o Note(2, 3, "a")}

ASSUME HeadAssumption ==
  SamplesAssumption /\ BlocksAssumption /\ RingAssumption
ASSUME RecordAssumption ==
  /\ DoorsAssumption /\ OtherAssumption
  /\ Counting!DoorsAssumption /\ Counting!OtherAssumption
ASSUME ClockAssumption == ClocksAssumption /\ BoundsAssumption
ASSUME PortAssumption == SortedAssumption /\ PulsesAssumption

----------------------------------------------------------------------------
WalkRests ==
  /\ base = 0 /\ walk = 0 /\ songEnd = 0
  /\ lp = [enabled |-> FALSE, start |-> 0, end |-> 0]
  /\ frames = 0 /\ met = FALSE /\ turned = FALSE /\ reported = Nowhere

MCInit ==
  /\ part \in {"walk", "head", "doors", "countin", "launch", "port"}
  /\ IF part = "walk" THEN WalkInit ELSE WalkRests
  /\ HeadInit /\ (part = "head" \/ device)
  /\ Init /\ (part = "doors" \/ hasOutput)
  /\ Counting!Init /\ (part = "countin" \/ recHasOutput)
  /\ ClockInit
  /\ PortInit /\ (part = "port" \/ (enabled /\ length = 1))

Walks ==
  part = "walk" /\ WalkNext /\ UNCHANGED <<part, vars, headVars, recVars, clockVars, portVars>>
Heads ==
  part = "head" /\ HeadNext
  /\ UNCHANGED <<part, walkVars, vars, recVars, clockVars, portVars>>
Records ==
  part = "doors" /\ Next /\ UNCHANGED <<part, walkVars, headVars, recVars, clockVars, portVars>>
CountsDown ==
  part = "countin" /\ Counting!Next
  /\ UNCHANGED <<part, walkVars, vars, headVars, clockVars, portVars>>
Launches ==
  part = "launch" /\ ClockNext
  /\ UNCHANGED <<part, walkVars, vars, headVars, recVars, portVars>>
Sends ==
  part = "port" /\ PortNext
  /\ UNCHANGED <<part, walkVars, vars, headVars, recVars, clockVars>>

MCNext == Walks \/ Heads \/ Records \/ CountsDown \/ Launches \/ Sends

(* The fairness of each part's own specification. *)
HeadFair ==
  /\ WF_headVars(part = "head" /\ HeadCallback)
  /\ WF_headVars(part = "head" /\ HeadEngine)
  /\ \A d \in Senders : WF_headVars(part = "head" /\ HeadExecute(d))
CountInFair ==
  /\ WF_recVars(part = "countin" /\ Counting!Callback)
  /\ WF_recVars(part = "countin" /\ Counting!Handle)
  /\ WF_recVars(part = "countin" /\ Counting!Start)
  /\ WF_recVars(part = "countin" /\ Counting!Stop)
  /\ WF_recVars(part = "countin" /\ Counting!Headless)
  /\ WF_recVars(part = "countin" /\ Counting!AutoHalt)
  /\ SF_recVars(part = "countin" /\ Counting!ArmPending)
  /\ WF_recVars(part = "countin" /\ Counting!Execute("ui"))
LaunchFair ==
  /\ WF_clockVars(part = "launch" /\ Render)
  /\ WF_clockVars(part = "launch" /\ Finishes)
  /\ WF_clockVars(part = "launch" /\ Pushes)

MCSpec == MCInit /\ [][MCNext]_all /\ HeadFair /\ CountInFair /\ LaunchFair

----------------------------------------------------------------------------
(* Properties: those of the parts, under the names the parts state them.   *)

(* RecordTransport with a count-in: a take is kept exactly once, whatever  *)
(* ends it; what the clients see is true; a Stop the engine was asked to   *)
(* carry out leaves nothing running.  And these parts are well typed.      *)
CountInIsSound ==
  HeadTypeOK /\ TypeOK /\ ClockTypeOK /\ PortTypeOK /\ Counting!TypeOK
  /\ Counting!TakesAreKept /\ Counting!StateIsReported

(* Playhead: a song that plays into its end stops there.  RecordTransport: *)
(* a count-in ends, in a take or cancelled.  ClockCarry: the nodes of a    *)
(* clip that was cut or ended hear of it.                                  *)
EndsAreReached ==
  /\ part = "head" => StopsAtTheEnd
  /\ part = "countin" => Counting!CountInEnds
  /\ part = "launch" => CutsAreHeard
=============================================================================
