--------------------------- MODULE CommitPipeline ---------------------------
(***************************************************************************)
(* From the document to the knobs that sound.  A commit                    *)
(* (src-tauri/src/control/mod.rs, `commit_with_rebuild_full`) changes the  *)
(* document under the session lock, writes the published tables under      *)
(* another, and then asks for a rebuild if the change was structural.  The *)
(* engine's control thread (audio/engine.rs, `Control::rebuild`) assembles *)
(* a graph from an image of the document without a lock, publishes fresh   *)
(* tables of the live document under both locks, and re-keys the rows it   *)
(* has assembled to their slots.                                           *)
(*                                                                         *)
(* A track's four mix parameters are rewritten together and so are one     *)
(* value here, its setting.  An output is open.                            *)
(***************************************************************************)
EXTENDS Naturals, Sequences, FiniteSets

CONSTANTS
  Threads,     \* command threads: the UI's and MCP clients'
  Tracks,      \* track ids
  Slotless,    \* those of automation tracks, which own no mixer slot
  Settings,    \* what gain, pan, mute and solo of a track may be
  Soloing,     \* the settings that solo the track
  FreshRow,    \* the setting of a new row
  AnySolo,     \* the name of the knob all tracks share, any_solo
  SavedSongs,  \* documents that may be opened
  MaxChanges   \* bound: commits, and projects created or opened

Document == [order : Seq(Tracks), row : [Tracks -> Settings]]

KnobsAssumption == AnySolo \notin Tracks
SettingsAssumption == FreshRow \in Settings \ Soloing
SavedAssumption == SavedSongs \subseteq Document
BoundAssumption == MaxChanges \in Nat

(* Assumed of the constants. *)
KnobsAreKnown ==
  KnobsAssumption /\ SettingsAssumption /\ SavedAssumption /\ BoundAssumption

VARIABLES
  doc,      \* session.store: the tracks in display order, and their settings
  slotOf,   \* GraphTables::slots
  cells,    \* GraphTables::params, by slot
  any,      \* GraphTables::params.any_solo
  work,     \* work[t]: thread t and the effect of its commit (see Working)
  asked,    \* Rebuild messages in the engine's channel
  engine,   \* the rebuild: where it is, and the image it assembles
  graph,    \* the rows of the last graph queued: track |-> slot
  crossed,  \* history: the knobs of which two changes overlapped (see Cross)
  changes   \* history: changes made

tables == <<slotOf, cells, any>>
vars == <<doc, tables, work, asked, engine, graph, crossed, changes>>

Knobs == Tracks \cup {AnySolo}

Elements(s) == {s[i] : i \in DOMAIN s}

(* is_mixer_track *)
Mixing(order) == Elements(order) \ Slotless

(* derive_slots: the mixer tracks numbered in display order. *)
Place(order, t) == CHOOSE i \in DOMAIN order : order[i] = t
Above(order, t) == {u \in Mixing(order) : Place(order, u) < Place(order, t)}
Slots(order) == [t \in Mixing(order) |-> Cardinality(Above(order, t))]

(* Store::any_solo *)
Solos(d) == \E t \in Mixing(d.order) : d.row[t] \in Soloing

(* The table of a rebuild: what the document says of every slot. *)
Cells(s, row) == [n \in {s[t] : t \in DOMAIN s} |-> row[CHOOSE t \in DOMAIN s : s[t] = n]]

(* EngineEffect: param_writes, any_solo (a set of one, or none) and        *)
(* rebuild.                                                                *)
Working ==
  [pc : {"idle", "tables", "ask"}, writes : UNION {[S -> Settings] : S \in SUBSET Tracks},
   any : SUBSET BOOLEAN, rebuild : BOOLEAN]

NoWrites == [t \in {} |-> FreshRow]
Idle == [pc |-> "idle", writes |-> NoWrites, any |-> {}, rebuild |-> FALSE]

(* A commit of knob k has left the session lock and not yet reached the    *)
(* tables.                                                                 *)
Writes(t, k) == IF k = AnySolo THEN work[t].any # {} ELSE k \in DOMAIN work[t].writes
Underway(k) == \E t \in Threads : Writes(t, k)

(* The knobs of ks change.  One that a commit is under way to crosses it,  *)
(* until a change finds it alone, or the tables are made anew.             *)
Cross(ks) == crossed' = (crossed \ ks) \cup {k \in ks : Underway(k)}

EmptySong == [order |-> <<>>, row |-> [t \in Tracks |-> FreshRow]]

Init ==
  /\ doc \in SavedSongs \cup {EmptySong}
  /\ slotOf = Slots(doc.order)
  /\ cells = Cells(slotOf, doc.row)
  /\ any = Solos(doc)
  /\ work = [t \in Threads |-> Idle]
  /\ asked = 0
  /\ engine = [pc |-> "idle", image |-> EmptySong]
  /\ graph = slotOf
  /\ crossed = {}
  /\ changes = 0

----------------------------------------------------------------------------
(* Session::transact: each operation with the effect it describes.         *)

(* Faulty: any_solo is that of before the write. *)
SetRowSoloBefore(t) ==
  /\ \E k \in Elements(doc.order), s \in Settings :
       /\ doc' = [doc EXCEPT !.row[k] = s]
       /\ work' = [work EXCEPT ![t] = [pc |-> "tables", writes |-> [x \in {k} |-> s],
                                       any |-> {Solos(doc)}, rebuild |-> FALSE]]
       /\ Cross({k, AnySolo})

(* Op::Set of a mix parameter of a track. *)
SetRow(t) ==
  /\ \E k \in Elements(doc.order), s \in Settings :
       /\ doc' = [doc EXCEPT !.row[k] = s]
       /\ work' = [work EXCEPT ![t] = [pc |-> "tables", writes |-> [x \in {k} |-> s],
                                       any |-> {Solos(doc')}, rebuild |-> FALSE]]
       /\ Cross({k, AnySolo})

(* Op::TrackAdd, of a new row or of one that undo brings back as it was.   *)
(* It says nothing of any_solo.                                            *)
AddRow(t) ==
  /\ \E k \in Tracks \ Elements(doc.order), s \in Settings, at \in 0..Len(doc.order) :
       /\ doc' = [order |-> SubSeq(doc.order, 1, at) \o <<k>>
                              \o SubSeq(doc.order, at + 1, Len(doc.order)),
                  row |-> [doc.row EXCEPT ![k] = s]]
       /\ work' = [work EXCEPT ![t].pc = "tables", ![t].rebuild = TRUE]
       /\ Cross({k, AnySolo})

(* Op::TrackRemove *)
RemoveRow(t) ==
  /\ \E at \in DOMAIN doc.order :
       LET k == doc.order[at]
       IN /\ doc' = [order |-> SubSeq(doc.order, 1, at - 1)
                                 \o SubSeq(doc.order, at + 1, Len(doc.order)),
                     row |-> [doc.row EXCEPT ![k] = FreshRow]]
          /\ work' = [work EXCEPT ![t] = [pc |-> "tables", writes |-> NoWrites,
                                          any |-> {Solos(doc')}, rebuild |-> TRUE]]
          /\ Cross({k, AnySolo})

(* Op::TrackReorder, to another order of the same tracks. *)
Reorder(t) ==
  /\ \E order \in [DOMAIN doc.order -> Elements(doc.order)] :
       /\ order # doc.order
       /\ Elements(order) = Elements(doc.order)
       /\ doc' = [doc EXCEPT !.order = order]
  /\ work' = [work EXCEPT ![t].pc = "tables", ![t].rebuild = TRUE]
  /\ UNCHANGED crossed

Transact(t) ==
  /\ work[t].pc = "idle"
  /\ changes < MaxChanges
  /\ changes' = changes + 1
  /\ SetRow(t) \/ AddRow(t) \/ RemoveRow(t) \/ Reorder(t)
  /\ UNCHANGED <<tables, asked, engine, graph>>

----------------------------------------------------------------------------
(* The effect, after the session lock.                                     *)

(* Under the tables lock.  A track without a slot is skipped. *)
WriteTables(t) ==
  /\ work[t].pc = "tables"
  /\ LET due == {k \in DOMAIN work[t].writes : k \in DOMAIN slotOf}
     IN cells' = [n \in DOMAIN cells |->
                    IF \E k \in due : slotOf[k] = n
                    THEN work[t].writes[CHOOSE k \in due : slotOf[k] = n] ELSE cells[n]]
  /\ any' \in IF work[t].any = {} THEN {any} ELSE work[t].any
  /\ work' = [work EXCEPT ![t] = IF @.rebuild THEN [Idle EXCEPT !.pc = "ask", !.rebuild = TRUE]
                                              ELSE Idle]
  /\ UNCHANGED <<doc, slotOf, asked, engine, graph, crossed, changes>>

(* do_rebuild *)
AskRebuild(t) ==
  /\ work[t].pc = "ask"
  /\ asked' = asked + 1
  /\ work' = [work EXCEPT ![t] = Idle]
  /\ UNCHANGED <<doc, tables, engine, graph, crossed, changes>>

(* create_project_at: the document, and any_solo under the same lock; the  *)
(* rebuild is asked for after the host's round-trips.                      *)
Create(t) ==
  /\ work[t].pc = "idle"
  /\ changes < MaxChanges
  /\ changes' = changes + 1
  /\ doc' = EmptySong
  /\ any' = FALSE
  /\ Cross(Knobs)
  /\ work' = [work EXCEPT ![t].pc = "ask", ![t].rebuild = TRUE]
  /\ UNCHANGED <<slotOf, cells, asked, engine, graph>>

(* open_project *)
Open(t) ==
  /\ work[t].pc = "idle"
  /\ changes < MaxChanges
  /\ changes' = changes + 1
  /\ doc' \in SavedSongs
  /\ Cross(Knobs)
  /\ work' = [work EXCEPT ![t].pc = "ask", ![t].rebuild = TRUE]
  /\ UNCHANGED <<tables, asked, engine, graph>>

----------------------------------------------------------------------------
(* Control::rebuild.                                                       *)

(* Faulty: the values, too, are those of the image. *)
PublishOfImage ==
  /\ engine.pc = "assembled"
  /\ slotOf' = Slots(doc.order)
  /\ cells' = Cells(slotOf', engine.image.row)
  /\ any' = Solos(engine.image)
  /\ crossed' = {k \in crossed : Underway(k)}
  /\ engine' = [engine EXCEPT !.pc = "published"]
  /\ UNCHANGED <<doc, work, asked, graph, changes>>

(* Faulty: the rows keep the slots they were assembled for. *)
PushAsAssembled ==
  /\ engine.pc = "published"
  /\ graph' = Slots(engine.image.order)
  /\ engine' = [pc |-> "idle", image |-> EmptySong]
  /\ UNCHANGED <<doc, tables, work, asked, crossed, changes>>

(* A message is taken; phase 1 reads the published image and assembles. *)
Assemble ==
  /\ engine.pc = "idle" /\ asked > 0
  /\ asked' = asked - 1
  /\ engine' = [pc |-> "assembled", image |-> doc]
  /\ UNCHANGED <<doc, tables, work, graph, crossed, changes>>

(* Phase 2, under the session lock and the tables lock. *)
PublishTables ==
  /\ engine.pc = "assembled"
  /\ slotOf' = Slots(doc.order)
  /\ cells' = Cells(slotOf', doc.row)
  /\ any' = Solos(doc)
  /\ crossed' = {k \in crossed : Underway(k)}
  /\ engine' = [engine EXCEPT !.pc = "published"]
  /\ UNCHANGED <<doc, work, asked, graph, changes>>

(* The rows of the image that the tables still know, at their slots. *)
Push ==
  /\ engine.pc = "published"
  /\ graph' = [k \in Mixing(engine.image.order) \cap DOMAIN slotOf |-> slotOf[k]]
  /\ engine' = [pc |-> "idle", image |-> EmptySong]
  /\ UNCHANGED <<doc, tables, work, asked, crossed, changes>>

Next ==
  \/ \E t \in Threads : Transact(t) \/ WriteTables(t) \/ AskRebuild(t) \/ Create(t) \/ Open(t)
  \/ Assemble \/ PublishTables \/ Push

Spec == Init /\ [][Next]_vars

----------------------------------------------------------------------------
(* Properties.                                                             *)

TypeOK ==
  /\ doc \in Document
  /\ cells \in [DOMAIN cells -> Settings]
  /\ work \in [Threads -> Working]
  /\ asked \in Nat
  /\ engine \in [pc : {"idle", "assembled", "published"}, image : Document]
  /\ any \in BOOLEAN
  /\ crossed \subseteq Knobs
  /\ changes \in 0..MaxChanges

(* No rebuild is under way, asked for or still to be asked for. *)
Rebuilt == engine.pc = "idle" /\ asked = 0 /\ \A t \in Threads : ~work[t].rebuild

(* Once rebuilds have caught up, the published tables are those of the     *)
(* document: each track's slot, and each knob's value unless a commit is   *)
(* on its way to it, or two commits of that knob overlapped.               *)
TablesFollow ==
  Rebuilt =>
    /\ slotOf = Slots(doc.order)
    /\ \A k \in DOMAIN slotOf :
         ~Underway(k) /\ k \notin crossed => cells[slotOf[k]] = doc.row[k]
    /\ ~Underway(AnySolo) /\ AnySolo \notin crossed => any = Solos(doc)

(* The rows of the last graph are at the slots their tracks' knobs are     *)
(* written to, also while the document has gone on; once rebuilds have     *)
(* caught up it has a row for every track.                                 *)
GraphFollows ==
  /\ engine.pc # "published" =>
       \A k \in DOMAIN graph : k \in DOMAIN slotOf /\ graph[k] = slotOf[k]
  /\ Rebuilt => DOMAIN graph = Mixing(doc.order)
=============================================================================
