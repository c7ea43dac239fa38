---------------------------- MODULE CaptureTake ----------------------------
(***************************************************************************)
(* A take on its way from the microphone to disk: the input callback fans  *)
(* a buffer out to one ring per armed track (audio/engine.rs               *)
(* InputCb::capture), the disk writer drains the rings into files          *)
(* (audio/recorder.rs run_writer), and ending the take closes the streams  *)
(* and then stops the writer.                                              *)
(*                                                                         *)
(* Neither thread waits for the other.  What a full ring has no room for   *)
(* becomes a debt of silence, repaid before any newer audio, so that the   *)
(* tracks of a take stay aligned.  Rings, debts and files are counted in   *)
(* frames (a ring's capacity is a multiple of the channels); a frame of    *)
(* audio is its number in the take, a frame of silence is 0.               *)
(***************************************************************************)
EXTENDS Integers, Sequences

CONSTANTS
  ArmedTracks,  \* armed tracks of one capture group
  Cap,          \* frames a ring holds
  Buffers,      \* frames a callback may be given
  MaxFrames     \* bound: frames of the take

ASSUME TakeAssumption ==
  ArmedTracks \in Nat \ {0} /\ Cap \in Nat /\ Buffers \subseteq Nat /\ MaxFrames \in Nat

VARIABLES
  open,      \* the input streams live
  captured,  \* frames the device has delivered
  held,      \* history: those delivered while rehearsing
  missed,    \* history: per track, those its ring had no room for
  cb,        \* the callback: its buffer, and the track it is at
  trackRing, \* per track, producer to consumer
  owed,      \* per track, frames of silence owed
  file,      \* per track, the frames in its WAV
  stop,      \* DiskWriter.stop
  writer,    \* the disk writer
  result     \* what ending the take has returned

takeVars == <<open, captured, held, missed, cb, trackRing, owed, file, stop, writer, result>>

Tracks == 1..ArmedTracks
Silence == 0
Least(a, b) == IF a <= b THEN a ELSE b
Hush(n) == [i \in 1..n |-> Silence]

Quiet == [pc |-> "idle", track |-> 1, size |-> 0, hush |-> FALSE]
Sweep == [pc |-> "sweep", track |-> 1, moved |-> FALSE]

TakeInit ==
  /\ open = TRUE
  /\ captured = 0 /\ held = {} /\ missed = [t \in Tracks |-> {}] /\ cb = Quiet
  /\ trackRing = [t \in Tracks |-> <<>>] /\ owed = [t \in Tracks |-> 0]
  /\ file = [t \in Tracks |-> <<>>]
  /\ stop = FALSE /\ writer = Sweep /\ result = "none"

(* Types; a ring never holds more than it has room for. *)
TakeTypeOK ==
  /\ open \in BOOLEAN /\ stop \in BOOLEAN
  /\ captured \in 0..MaxFrames /\ held \subseteq 1..MaxFrames
  /\ missed \in [Tracks -> SUBSET (1..MaxFrames)]
  /\ cb \in [pc : {"idle", "repay", "record"}, track : Tracks, size : Buffers \cup {0}, hush : BOOLEAN]
  /\ trackRing \in [Tracks -> Seq(0..MaxFrames)] /\ \A t \in Tracks : Len(trackRing[t]) <= Cap
  /\ owed \in [Tracks -> 0..MaxFrames]
  /\ file \in [Tracks -> Seq(0..MaxFrames)]
  /\ writer.pc \in {"sweep", "residue", "finalize", "done", "failed"}
  /\ result \in {"none", "clips", "error"}

----------------------------------------------------------------------------
(* The input callback.                                                     *)

FreeSlots(t) == Cap - Len(trackRing[t])

(* rehearse-hold is read once for the buffer; the user holds and lets go  *)
(* at any time.                                                            *)
Deliver ==
  /\ open /\ cb.pc = "idle"
  /\ \E n \in Buffers, hold \in BOOLEAN :
       /\ captured + n <= MaxFrames
       /\ captured' = captured + n
       /\ held' = IF hold THEN held \cup (captured + 1)..(captured + n) ELSE held
       /\ cb' = [pc |-> "repay", track |-> 1, size |-> n, hush |-> hold]
  /\ UNCHANGED <<open, missed, trackRing, owed, file, stop, writer, result>>

(* Faulty variant. *)
RepayAll ==
  /\ cb.pc = "repay"
  /\ trackRing' = [trackRing EXCEPT ![cb.track] = @ \o Hush(owed[cb.track])]
  /\ owed' = [owed EXCEPT ![cb.track] = 0]
  /\ cb' = [cb EXCEPT !.pc = "record"]
  /\ UNCHANGED <<open, captured, held, missed, file, stop, writer, result>>

Repay ==
  /\ cb.pc = "repay"
  /\ LET n == Least(owed[cb.track], FreeSlots(cb.track)) IN
       /\ trackRing' = [trackRing EXCEPT ![cb.track] = @ \o Hush(n)]
       /\ owed' = [owed EXCEPT ![cb.track] = @ - n]
  /\ cb' = [cb EXCEPT !.pc = "record"]
  /\ UNCHANGED <<open, captured, held, missed, file, stop, writer, result>>

Frames(n) == IF cb.hush THEN Hush(n) ELSE [i \in 1..n |-> captured - cb.size + i]

(* Faulty variant. *)
RoomAnyway == Least(FreeSlots(cb.track), cb.size)

Room == IF owed[cb.track] = 0 THEN Least(FreeSlots(cb.track), cb.size) ELSE 0

Record ==
  /\ cb.pc = "record"
  /\ trackRing' = [trackRing EXCEPT ![cb.track] = @ \o Frames(Room)]
  /\ owed' = [owed EXCEPT ![cb.track] = @ + cb.size - Room]
  /\ missed' = [missed EXCEPT ![cb.track] = @ \cup (captured - cb.size + Room + 1)..captured]
  /\ cb' = IF cb.track < ArmedTracks THEN [cb EXCEPT !.pc = "repay", !.track = @ + 1] ELSE Quiet
  /\ UNCHANGED <<open, captured, held, file, stop, writer, result>>

----------------------------------------------------------------------------
(* The disk writer.                                                        *)

NextTrack(moved) == [writer EXCEPT !.track = @ + 1, !.moved = moved]

(* Of a ring it takes what it held when it was asked. *)
Drain ==
  /\ writer.pc = "sweep" /\ writer.track <= ArmedTracks
  /\ LET t == writer.track IN
       \/ /\ trackRing[t] = <<>>
          /\ writer' = NextTrack(writer.moved)
          /\ UNCHANGED <<trackRing, file>>
       \/ \E k \in 1..Len(trackRing[t]) :
            /\ file' = [file EXCEPT ![t] = @ \o SubSeq(trackRing[t], 1, k)]
            /\ trackRing' = [trackRing EXCEPT ![t] = SubSeq(@, k + 1, Len(@))]
            /\ writer' = NextTrack(TRUE)
  /\ UNCHANGED <<open, captured, held, missed, cb, owed, stop, result>>

(* The disk refuses a sample, or the file will not close. *)
DiskFails ==
  /\ \/ writer.pc = "sweep" /\ writer.track <= ArmedTracks /\ trackRing[writer.track] # <<>>
     \/ writer.pc = "finalize"
  /\ writer' = [writer EXCEPT !.pc = "failed"]
  /\ UNCHANGED <<open, captured, held, missed, cb, trackRing, owed, file, stop, result>>

Abandoned == ~open

EndSweep ==
  /\ writer.pc = "sweep" /\ writer.track = ArmedTracks + 1
  /\ writer' = IF writer.moved \/ ~(stop \/ Abandoned) THEN Sweep
               ELSE [writer EXCEPT !.pc = "residue"]
  /\ UNCHANGED <<open, captured, held, missed, cb, trackRing, owed, file, stop, result>>

(* Faulty variants. *)
ResidueForgotten ==
  /\ writer.pc = "residue"
  /\ writer' = [writer EXCEPT !.pc = "finalize"]
  /\ UNCHANGED <<open, captured, held, missed, cb, trackRing, owed, file, stop, result>>
ResidueAwaited ==
  /\ writer.pc = "residue" /\ \A t \in Tracks : trackRing[t] = <<>>
  /\ writer' = [writer EXCEPT !.pc = "finalize"]
  /\ UNCHANGED <<open, captured, held, missed, cb, trackRing, owed, file, stop, result>>

Residue ==
  /\ writer.pc = "residue"
  /\ writer' = IF \A t \in Tracks : trackRing[t] = <<>> THEN [writer EXCEPT !.pc = "finalize"] ELSE Sweep
  /\ UNCHANGED <<open, captured, held, missed, cb, trackRing, owed, file, stop, result>>

CloseFiles ==
  /\ writer.pc = "finalize"
  /\ writer' = [writer EXCEPT !.pc = "done"]
  /\ UNCHANGED <<open, captured, held, missed, cb, trackRing, owed, file, stop, result>>

----------------------------------------------------------------------------
(* Ending the take, on the engine's thread.                                *)

(* Dropping a stream waits for its callback. *)
Close ==
  /\ open /\ cb.pc = "idle" /\ open' = FALSE
  /\ UNCHANGED <<captured, held, missed, cb, trackRing, owed, file, stop, writer, result>>

Stop ==
  /\ ~open /\ ~stop /\ stop' = TRUE
  /\ UNCHANGED <<open, captured, held, missed, cb, trackRing, owed, file, writer, result>>

(* The writer answers, or fifteen seconds pass. *)
Finish ==
  /\ stop /\ result = "none"
  /\ \/ writer.pc = "done" /\ result' = "clips"
     \/ writer.pc # "done" /\ result' = "error"
  /\ UNCHANGED <<open, captured, held, missed, cb, trackRing, owed, file, stop, writer>>

----------------------------------------------------------------------------
TakeNext ==
  \/ Deliver \/ Repay \/ Record
  \/ Drain \/ DiskFails \/ EndSweep \/ Residue \/ CloseFiles
  \/ Close \/ Stop \/ Finish

Writing == Drain \/ EndSweep \/ Residue \/ CloseFiles

(* The threads run; how long the take lasts and what the user holds is free. *)
TakeSpec == TakeInit /\ [][TakeNext]_takeVars /\ WF_takeVars(Repay \/ Record) /\ WF_takeVars(Writing)
             /\ WF_takeVars(Stop) /\ WF_takeVars(Finish)

----------------------------------------------------------------------------
(* Properties.                                                             *)

Take(t) == file[t] \o trackRing[t]
Passed(t) == cb.pc = "idle" \/ t < cb.track

(* NEVER shrink a take: on its way to disk, every frame the device         *)
(* delivered is at its own index, as itself, or as silence where the ring  *)
(* had no room or the user held the take; and what is not there yet is     *)
(* owed.  So the tracks of a take stay aligned with each other, and all    *)
(* hold the same span, whatever the writer and the user do meanwhile.      *)
TakeKeepsTime ==
  \A t \in Tracks :
    /\ \A i \in 1..Len(Take(t)) :
         Take(t)[i] = (IF i \in held \/ i \in missed[t] THEN Silence ELSE i)
    /\ Passed(t) => Len(Take(t)) + owed[t] = captured

(* The clips of a take that ended hold all of it: nothing the callback put *)
(* in a ring stays there, not even what came between the writer's last     *)
(* sweep and its finding that the take was over.                           *)
NothingLeftBehind ==
  result = "clips" => \A t \in Tracks : Len(file[t]) + owed[t] = captured

(* Both; and the types.                                                    *)
TakeIsWhole == TakeTypeOK /\ TakeKeepsTime /\ NothingLeftBehind

(* A take whose streams are closed gets written: the writer notices,       *)
(* drains what is left and finishes, or says what failed.                  *)
TakeEnds == ~open ~> writer.pc \in {"done", "failed"}
=============================================================================
