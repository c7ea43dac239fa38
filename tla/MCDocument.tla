----------------------------- MODULE MCDocument -----------------------------
(***************************************************************************)
(* The document and what follows it, for TLC: in a behaviour its files     *)
(* (ProjectFiles), its operations (DocumentOps) or its kept versions       *)
(* (VersionGraph) move, chosen at the start, and the other parts rest.  Of *)
(* the operations a behaviour takes one family: routing with three edits,  *)
(* plugin slots, clips or the order of the tracks with two.                *)
(***************************************************************************)
EXTENDS MCProjectFiles, VersionGraph

VARIABLES
  part,  \* the part that moves
  opsDoc, opsPlan, opsUndo, opsRedo, opsEdits, opsOdd

opsVars == <<opsDoc, opsPlan, opsUndo, opsRedo, opsEdits, opsOdd>>

(* A track with a plugin and a send into one of two buses, and two clips.  *)
Strip(t, bus, inserts, sends) ==
  [id |-> t, bus |-> bus, group |-> 0, out |-> 0, instrument |-> 0, inserts |-> inserts, sends |-> sends]
Opened ==
  [tracks |-> <<Strip(1, FALSE, <<[id |-> 11, on |-> TRUE]>>, <<[id |-> 21, dest |-> 2, amount |-> 0, pre |-> 0]>>),
                Strip(2, TRUE, <<>>, <<>>), Strip(3, TRUE, <<>>, <<>>)>>,
   clips |-> <<[id |-> 31, track |-> 1, start |-> 0], [id |-> 32, track |-> 2, start |-> 0]>>,
   plugins |-> <<[id |-> 11]>>, raised |-> {}, drives |-> [c \in {31, 32} |-> 0]]

Wiring == INSTANCE DocumentOps WITH
  Threads <- {"ui"}, Start <- Opened, Maps <- {1, 2}, MaxEdits <- 3,
  doc <- opsDoc, plan <- opsPlan, undo <- opsUndo, redo <- opsRedo,
  edits <- opsEdits, odd <- opsOdd

Editing == INSTANCE DocumentOps WITH
  Threads <- {"ui"}, Start <- Opened, Maps <- {1, 2}, MaxEdits <- 2,
  doc <- opsDoc, plan <- opsPlan, undo <- opsUndo, redo <- opsRedo,
  edits <- opsEdits, odd <- opsOdd

(* A small image; a large one, of a batch that is small or larger still.   *)
Weights == {[image |-> 1, ops |-> 1], [image |-> 4, ops |-> 1], [image |-> 4, ops |-> 5]}

----------------------------------------------------------------------------
(* There is no project yet, or there are two of which one has no MIDI.     *)
NoProjects == \A d \in Dirs : ~disk[d].made
TwoProjects ==
  \E d, e \in Dirs : disk[d].made /\ disk[d].midi = NoMidi /\ disk[e].midi # NoMidi

MCInit ==
  /\ part \in {"files", "routing", "slots", "clips", "lanes", "versions"}
  /\ Init /\ (NoProjects \/ (part = "files" /\ TwoProjects))
  /\ Editing!Init /\ VersionInit

Persisting ==
  part = "files" /\ Next /\ UNCHANGED <<part, opsVars, verVars>>
Operations ==
  /\ \/ part = "routing" /\ Wiring!Routing
     \/ part = "slots" /\ Editing!Slots
     \/ part = "clips" /\ Editing!Clipping
     \/ part = "lanes" /\ Editing!Arranging
     \/ part \in {"routing", "slots", "clips", "lanes"} /\ (Editing!Undo \/ Editing!Redo)
  /\ UNCHANGED <<part, vars, verVars>>
Keeping ==
  part = "versions" /\ VersionNext /\ UNCHANGED <<part, vars, opsVars>>

MCNext == Persisting \/ Operations \/ Keeping

MCSpec == MCInit /\ [][MCNext]_<<part, vars, opsVars, verVars>>

----------------------------------------------------------------------------
(* Properties: ProjectFiles' and VersionGraph's by their own names, and of  *)
(* DocumentOps.                                                            *)

(* DocumentOps: the step on top of the undo or redo stack applies and      *)
(* gives the document it was recorded with.                                *)
UndoLeadsHome == Editing!UndoLeadsHome

(* DocumentOps: no routing loop, one place for a plugin, and no slot       *)
(* without its plugin.                                                     *)
DocumentIsSound == Wiring!DocumentIsSound

(* DocumentOps: a transaction that fails leaves the document as it was.    *)
FailsWhole == Editing!FailsWhole
=============================================================================
