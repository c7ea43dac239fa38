---------------------------- MODULE MCLiveMidiIn ----------------------------
(* One key, a track with clips and one without, one pick and one audition. *)
EXTENDS LiveMidiIn

OneOrder == {[scored |-> 1, bare |-> 2]}
OneAudition ==
  {[presses |-> 0, picks |-> 1, holds |-> 1, switches |-> 0, moves |-> 0, rolls |-> 0]}
=============================================================================
