----------------------------- MODULE MCCommands -----------------------------
(***************************************************************************)
(* What the user's commands and keys do while the program runs, for TLC:   *)
(* in a behaviour commits, undo and document swaps (CommitHistory) or the  *)
(* MIDI keyboard and the track it plays (LiveMidiIn) move, chosen at the   *)
(* start, and the other part rests.  Properties by their own names.        *)
(***************************************************************************)
EXTENDS MCCommitHistory, LiveMidiIn

VARIABLE part  \* the part that moves

(* A track with clips and one without, in either order.                    *)
Orders == {[scored |-> 1, bare |-> 2], [scored |-> 2, bare |-> 1]}

(* What may happen in one behaviour, and how often.                        *)
Story(presses, picks, holds, switches, moves, rolls) ==
  [presses |-> presses, picks |-> picks, holds |-> holds,
   switches |-> switches, moves |-> moves, rolls |-> rolls]
Stories ==
  {Story(1, 1, 0, 1, 0, 0), Story(1, 1, 0, 0, 1, 1), Story(0, 1, 1, 0, 0, 0), Story(0, 1, 0, 1, 0, 1)}

ASSUME KeyboardAssumption == ConstantsAreSound

----------------------------------------------------------------------------
MCInit ==
  /\ part \in {"history", "keyboard"}
  /\ Init
  /\ LiveInit
  /\ part = "keyboard" \/ (budget = Story(0, 1, 1, 0, 0, 0) /\ song.place["bare"] = 2)

Committing == part = "history" /\ Next /\ UNCHANGED <<part, liveVars>>
Monitoring == part = "keyboard" /\ LiveNext /\ UNCHANGED <<part, vars>>

(* What the keyboard may do ends; commits never do. *)
Rests == part = "keyboard" /\ UNCHANGED <<part, vars, liveVars>>

MCNext == Committing \/ Monitoring \/ Rests

MCSpec == MCInit /\ [][MCNext]_<<part, vars, liveVars>>
=============================================================================
