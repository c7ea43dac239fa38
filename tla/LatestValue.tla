---------------------------- MODULE LatestValue ----------------------------
(***************************************************************************)
(* What a triple buffer promises, with no slot and no index in it: a       *)
(* register the writer overwrites with the next version and the reader     *)
(* copies.  A read may skip versions, never goes back, and is one step: no *)
(* state of the register is a half-written value.  TripleBuffer            *)
(* implements this module.                                                 *)
(***************************************************************************)
EXTENDS Naturals

VARIABLES
  latest,   \* the version published last (0: the value built with the buffer)
  held      \* the version the reader holds a borrow of

vars == <<latest, held>>

Init == latest = 0 /\ held = 0

Publish == latest' = latest + 1 /\ UNCHANGED held

Read == held' = latest /\ UNCHANGED latest

Next == Publish \/ Read

Spec == Init /\ [][Next]_vars
=============================================================================
