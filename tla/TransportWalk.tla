--------------------------- MODULE TransportWalk ---------------------------
(***************************************************************************)
(* The block arithmetic of TransportMath beside a playhead that moves one  *)
(* frame at a time.  The device asks for blocks of any size; the playhead  *)
(* starts anywhere, inside, before or past any loop, enabled or not.       *)
(***************************************************************************)
EXTENDS TransportMath

CONSTANT MaxBlock   \* bound: frames in a block

ASSUME MaxBlockAssumption == MaxBlock \in Nat

VARIABLES
  base,      \* SharedRt::position when the block begins
  lp,        \* SharedRt::loop_spec
  songEnd,   \* SharedRt::song_end
  frames,    \* frames of the block so far
  walk,      \* where the playhead that moves frame by frame is
  met,       \* the walk has been at songEnd in this block
  turned,    \* the walk has turned back in this block
  reported   \* the ReachedEnd event of the block before

walkVars == <<base, lp, songEnd, frames, walk, met, turned, reported>>

WalkInit ==
  /\ base \in Samples /\ walk = base
  /\ lp \in LoopSpecs /\ songEnd \in Samples
  /\ frames = 0 /\ met = FALSE /\ turned = FALSE
  /\ reported = Nowhere

(* One frame of the reference: at the end of an active loop, turn back.    *)
(* The block is kept from running into MaxSample, where the code saturates.*)
WalkFrame ==
  /\ frames < MaxBlock
  /\ base + frames < MaxSample
  /\ LET turn == Active(lp) /\ walk + 1 = lp.end
     IN /\ walk' = IF turn THEN lp.start ELSE walk + 1
        /\ turned' = (turned \/ turn)
        /\ met' = (met \/ walk' = songEnd)
  /\ frames' = frames + 1
  /\ UNCHANGED <<base, lp, songEnd, reported>>

(* The code at the end of the block: report the crossing, move on. *)
EndBlock ==
  /\ frames > 0
  /\ reported' = Crossing(base, frames, lp, songEnd)
  /\ base' = Advance(base, frames, lp)
  /\ frames' = 0 /\ met' = FALSE /\ turned' = FALSE
  /\ UNCHANGED <<lp, songEnd, walk>>

WalkNext == WalkFrame \/ EndBlock

WalkSpec == WalkInit /\ [][WalkNext]_walkVars

----------------------------------------------------------------------------
(* Properties.                                                             *)

BlockEnds == frames > 0 /\ frames' = 0

(* One step over a block lands where its frames would, whatever the block  *)
(* size, the loop and the side of the loop the playhead started on.        *)
BlockIsItsFrames == frames = 0 => base = walk

(* A playhead before the end of an active loop never gets past it.         *)
NeverPastTheLoop == [][Active(lp) /\ base < lp.end => base' < lp.end]_walkVars

(* A block that did not turn back reports the song's end exactly when a    *)
(* frame of it landed there, and reports nothing else; one that did turn   *)
(* back reports nothing that did not happen.                               *)
CrossingFollowsTheWalk ==
  [][BlockEnds => /\ reported' \subseteq IF met THEN {songEnd} ELSE {}
                  /\ met /\ ~turned => reported' = {songEnd}]_walkVars
=============================================================================
