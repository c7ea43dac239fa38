---------------------------- MODULE ProjectFiles ----------------------------
(***************************************************************************)
(* What of an edit is on disk.  A commit changes the document under the    *)
(* session lock and writes it out later, under the persist gate, if the    *)
(* document is still the same one (control/mod.rs, execute_persist); then  *)
(* it adds a line to the project's journal (control/history.rs).  Saving   *)
(* marks the journal; the batches after the mark are the unsaved tail      *)
(* (control/replay.rs).  Projects are created, opened and saved under a    *)
(* new name meanwhile, without the gate but for the last.                  *)
(*                                                                         *)
(* A document has a song (project.json: tracks, clips, transport) and its  *)
(* MIDI, of two parts: the notes, and the chords with the meter.  A part's *)
(* content is the edit that made it and the project it was made in.  Any   *)
(* write may fail.  Left out: plugin states, which are kept dirty as the   *)
(* MIDI is, automation, and journals of earlier runs of the program.       *)
(***************************************************************************)
EXTENDS Integers, Sequences, SequencesExt, FiniteSets, FiniteSetsExt

CONSTANTS
  Threads,    \* threads that run commands
  Nobody,     \* holder of a free gate
  Dirs,       \* project directories
  NoDir,      \* the project_dir of a session never saved
  MidiParts,  \* parts of the MIDI document
  Reset,      \* those that a new project clears
  MaxRev, MaxEpoch, MaxFails, MaxLines  \* bounds: edits, document swaps, failed
              \* writes, journal lines before a last save

ASSUME ThreadsAssumption == Nobody \notin Threads
ASSUME DirsAssumption == NoDir \notin Dirs
ASSUME PartsAssumption == Reset \subseteq MidiParts /\ MidiParts \cap {"song", "none"} = {}
ASSUME BoundsAssumption == MaxRev \in Nat /\ MaxEpoch \in Nat /\ MaxFails \in Nat /\ MaxLines \in Nat

(* What makes a property below conditional: document swaps that overlap,   *)
(* MIDI edited in a project the store is not bound to, a save-as that gave *)
(* up, MIDI that could not be read, a project replaced under a write whose *)
(* MIDI is still in memory.                                                *)
Mishaps == {"overlap", "unbound", "gaveUp", "unread", "elsewhere"}

VARIABLES
  doc, rev, epoch, dir,      \* Session: the document, its counters, project_dir
  loaded, dirty,             \* MidiStore: loaded_dir, dirty
  gate,                      \* persist_gate: who holds it
  logEpoch, logDir, journal, \* HistoryLog; journal[d]: the lines of d's file
  disk,                      \* disk[d]: what d's files hold
  thread,                    \* thread[t]: the command t executes
  fails, mishaps             \* history: failed writes; what else went wrong

session == <<doc, rev, epoch, dir, loaded, dirty>>
log == <<logEpoch, logDir, journal>>
vars == <<session, gate, log, disk, thread, fails, mishaps>>

Homes == Dirs \cup {NoDir}
Content == [by : Nat, of : Homes]
Blank == [by |-> 0, of |-> NoDir]
Midi == [MidiParts -> Content]
BlankMidi == [p \in MidiParts |-> Blank]
Document == [song : Content, midi : Midi]
BlankDocument == [song |-> Blank, midi |-> BlankMidi]

(* A directory's files; a file without MIDI is of schema version 1.        *)
NoMidi == [none |-> TRUE]
Missing == [made |-> FALSE, song |-> Blank, midi |-> NoMidi]
Fresh == [Missing EXCEPT !.made = TRUE]
Files == [made : BOOLEAN, song : Content, midi : Midi \cup {NoMidi}]

Batch == [kind : {"batch"}, rev : Nat, epoch : Nat, part : {"song"} \cup MidiParts]
SaveMark == [kind : {"save"}, epoch : Nat]

(* at: the epoch of the command's document; to: the directory it writes;   *)
(* take: the snapshot; midi: it is to write the MIDI too; ok: flush_ok.    *)
Idle == [pc |-> "idle", job |-> "none", part |-> "song", rev |-> 0, at |-> 0,
         to |-> NoDir, take |-> BlankDocument, midi |-> FALSE, ok |-> TRUE]
Command ==
  [pc : {"idle", "persist", "record", "mint", "swap", "reread", "boundary",
         "song", "midi", "settle", "upgrade", "line"},
   job : {"none", "commit", "mark", "saveAs", "ensure", "create", "open"},
   part : {"song"} \cup MidiParts, rev : Nat, at : Nat,
   to : Homes, take : Document, midi : BOOLEAN, ok : BOOLEAN]

(* The directories of earlier runs are there, with MIDI or without.        *)
Old(d) == [by |-> 0, of |-> d]
Init ==
  /\ doc = BlankDocument /\ rev = 0 /\ epoch = 0 /\ dir = NoDir
  /\ loaded = NoDir /\ dirty = FALSE
  /\ gate = Nobody
  /\ logEpoch = 0 /\ logDir = NoDir /\ journal = [d \in Dirs |-> <<>>]
  /\ disk \in [Dirs -> {Missing} \cup
                 {[made |-> TRUE, song |-> Old(d), midi |-> m] :
                    d \in Dirs, m \in {NoMidi} \cup {[p \in MidiParts |-> Old(d)] : d \in Dirs}}]
  /\ \A d \in Dirs : disk[d].song \in {Blank, Old(d)}
       /\ disk[d].midi \in {NoMidi, [p \in MidiParts |-> Old(d)]}
  /\ thread = [t \in Threads |-> Idle]
  /\ fails = 0 /\ mishaps = {}

Becomes(t, c) == thread' = [thread EXCEPT ![t] = c]
Goto(t, l) == Becomes(t, [thread[t] EXCEPT !.pc = l])
Finish(t) == Becomes(t, Idle)
ToRecord(t) == Becomes(t, [thread[t] EXCEPT !.pc = "record", !.to = NoDir, !.take = BlankDocument,
                             !.midi = FALSE, !.ok = TRUE])
Fails == fails < MaxFails /\ fails' = fails + 1
Release == gate' = Nobody
Happens(b, m) == mishaps' = IF b THEN mishaps \cup {m} ELSE mishaps

----------------------------------------------------------------------------
(* A commit.                                                               *)

(* Session::transact: one part changes. *)
Edit(t) ==
  /\ thread[t].pc = "idle" /\ rev < MaxRev
  /\ rev' = rev + 1
  /\ \E p \in {"song"} \cup MidiParts :
       /\ LET c == [by |-> rev + 1, of |-> dir] IN
            doc' = IF p = "song" THEN [doc EXCEPT !.song = c] ELSE [doc EXCEPT !.midi[p] = c]
       /\ Becomes(t, [Idle EXCEPT !.pc = "persist", !.job = "commit", !.part = p,
                        !.rev = rev + 1, !.at = epoch])
       /\ Happens(p # "song" /\ dir \notin {NoDir, loaded}, "unbound")
  /\ UNCHANGED <<epoch, dir, loaded, dirty, gate, log, disk, fails>>

(* execute_persist: the gate, then a snapshot under the session lock. *)
Skip(t) ==
  /\ thread[t].pc = "persist" /\ gate = Nobody
  /\ epoch # thread[t].at \/ dir = NoDir
  /\ Goto(t, "record")
  /\ UNCHANGED <<session, gate, log, disk, fails, mishaps>>

(* Faulty variant. *)
SnapshotUngated(t) ==
  /\ thread[t].pc = "persist"
  /\ epoch = thread[t].at /\ dir # NoDir
  /\ LET m == thread[t].part # "song" IN
       Becomes(t, [thread[t] EXCEPT !.pc = IF m THEN "midi" ELSE "song", !.to = dir,
                     !.take = doc, !.midi = m])
  /\ UNCHANGED <<session, gate, log, disk, fails, mishaps>>

Snapshot(t) ==
  /\ thread[t].pc = "persist" /\ gate = Nobody
  /\ epoch = thread[t].at /\ dir # NoDir
  /\ gate' = t
  /\ LET m == thread[t].part # "song" IN
       Becomes(t, [thread[t] EXCEPT !.pc = IF m THEN "midi" ELSE "song", !.to = dir,
                     !.take = doc, !.midi = m])
  /\ UNCHANGED <<session, log, disk, fails, mishaps>>

(* record_commit: dropped if the log is of another epoch. *)
Record(t) ==
  /\ thread[t].pc = "record"
  /\ journal' =
       IF thread[t].at = logEpoch /\ logDir # NoDir
       THEN [journal EXCEPT ![logDir] = Append(@,
               [kind |-> "batch", rev |-> thread[t].rev, epoch |-> thread[t].at,
                part |-> thread[t].part])]
       ELSE journal
  /\ Finish(t)
  /\ UNCHANGED <<session, gate, logEpoch, logDir, disk, fails, mishaps>>

----------------------------------------------------------------------------
(* Writing, by the holder of the gate.                                     *)

(* A commit's writing ends with its part, a save goes on.                  *)
Done(t) == Release /\ ToRecord(t)

(* Faulty variant. *)
WriteSongToOpen(t) ==
  /\ thread[t].pc = "song" /\ dir # NoDir
  /\ disk' = [disk EXCEPT ![dir].song = thread[t].take.song]
  /\ IF thread[t].job = "commit"
     THEN Done(t)
     ELSE UNCHANGED gate /\ Goto(t, IF thread[t].midi THEN "midi" ELSE "upgrade")
  /\ UNCHANGED <<session, log, fails, mishaps>>

WriteSong(t) ==
  /\ thread[t].pc = "song"
  /\ disk' = [disk EXCEPT ![thread[t].to].song = thread[t].take.song]
  /\ IF thread[t].job = "commit"
     THEN Done(t)
     ELSE UNCHANGED gate /\ Goto(t, IF thread[t].midi THEN "midi" ELSE "upgrade")
  /\ UNCHANGED <<session, log, fails, mishaps>>

(* A commit warns, a save returns the error. *)
SongFails(t) ==
  /\ thread[t].pc = "song" /\ Fails
  /\ IF thread[t].job = "commit" THEN Done(t) ELSE Release /\ Finish(t)
  /\ Happens(thread[t].job = "saveAs", "gaveUp")
  /\ UNCHANGED <<session, log, disk>>

WriteMidi(t) ==
  /\ thread[t].pc = "midi"
  /\ disk' = [disk EXCEPT ![thread[t].to].midi = thread[t].take.midi]
  /\ Goto(t, "settle")
  /\ UNCHANGED <<session, gate, log, fails, mishaps>>

MidiFails(t) ==
  /\ thread[t].pc = "midi" /\ Fails
  /\ Becomes(t, [thread[t] EXCEPT !.pc = "settle", !.ok = FALSE])
  /\ UNCHANGED <<session, gate, log, disk, mishaps>>

(* Faulty variant. *)
SettleForgets(t) ==
  /\ thread[t].pc = "settle"
  /\ dirty' = (doc.midi # thread[t].take.midi)
  /\ Happens(~dirty' /\ thread[t].to # dir, "elsewhere")
  /\ IF thread[t].job = "commit"
     THEN Done(t)
     ELSE UNCHANGED gate /\ Becomes(t, [thread[t] EXCEPT !.pc = "upgrade", !.ok = @ /\ ~dirty'])
  /\ UNCHANGED <<doc, rev, epoch, dir, loaded, log, disk, fails>>

(* clear_midi_dirty_if_unchanged after a write, dirty = true after a       *)
(* failed one; whatever document is open now.                              *)
Settle(t) ==
  /\ thread[t].pc = "settle"
  /\ LET clean == thread[t].ok /\ doc.midi = thread[t].take.midi IN
       /\ dirty' = ~clean
       /\ Happens(clean /\ thread[t].to # dir, "elsewhere")
       /\ IF thread[t].job = "commit"
          THEN Done(t)
          ELSE UNCHANGED gate /\ Becomes(t, [thread[t] EXCEPT !.pc = "upgrade", !.ok = clean])
  /\ UNCHANGED <<doc, rev, epoch, dir, loaded, log, disk, fails>>

(* The modulation is written at schema version 4, with which the file has  *)
(* MIDI, if only the defaults.                                             *)
Upgrade(t) ==
  /\ thread[t].pc = "upgrade"
  /\ disk' = [disk EXCEPT ![thread[t].to].midi = IF @ = NoMidi THEN BlankMidi ELSE @]
  /\ IF thread[t].job = "mark" THEN Goto(t, "line") /\ UNCHANGED gate ELSE Finish(t) /\ Release
  /\ UNCHANGED <<session, log, fails, mishaps>>

UpgradeFails(t) ==
  /\ thread[t].pc = "upgrade" /\ Fails
  /\ Release /\ Finish(t)
  /\ UNCHANGED <<session, log, disk, mishaps>>

(* snapshot_mark: only if all was flushed, and in the same epoch. *)
Line(t) ==
  /\ thread[t].pc = "line"
  /\ journal' =
       IF thread[t].ok /\ thread[t].at = logEpoch
       THEN [journal EXCEPT ![logDir] = Append(@, [kind |-> "save", epoch |-> logEpoch])]
       ELSE journal
  /\ Release /\ Finish(t)
  /\ UNCHANGED <<session, logEpoch, logDir, disk, fails, mishaps>>

----------------------------------------------------------------------------
(* Saving.                                                                 *)

(* Faulty variant. *)
MarkUngated(t) ==
  /\ thread[t].pc = "idle" /\ dir # NoDir
  /\ \A d \in Dirs : Len(journal[d]) < MaxLines
  /\ Becomes(t, [Idle EXCEPT !.pc = "song", !.job = "mark", !.at = epoch, !.to = dir,
                   !.take = doc, !.midi = dirty])
  /\ UNCHANGED <<session, gate, log, disk, fails, mishaps>>

(* save_project_mark: the song always, the MIDI if it is dirty. *)
Mark(t) ==
  /\ thread[t].pc = "idle" /\ gate = Nobody /\ dir # NoDir
  /\ \A d \in Dirs : Len(journal[d]) < MaxLines
  /\ gate' = t
  /\ Becomes(t, [Idle EXCEPT !.pc = "song", !.job = "mark", !.at = epoch, !.to = dir,
                   !.take = doc, !.midi = dirty])
  /\ UNCHANGED <<session, log, disk, fails, mishaps>>

(* The document is now that of directory d: all it holds was made in it.   *)
Belongs(c, d) == IF c = Blank THEN c ELSE [c EXCEPT !.of = d]
Adopted(d) ==
  [song |-> Belongs(doc.song, d), midi |-> [p \in MidiParts |-> Belongs(doc.midi[p], d)]]

(* Another swap came between two steps of this one.                       *)
Overtaken(t) == epoch # thread[t].at
Overlap(t) == Happens(Overtaken(t), "overlap")

Swap(d, new) == epoch < MaxEpoch /\ epoch' = epoch + 1 /\ dir' = d /\ doc' = new /\ UNCHANGED rev

(* save_project_as_epoch, once the directory is there. *)
SaveAs(t) ==
  /\ thread[t].pc = "swap" /\ thread[t].job = "saveAs" /\ gate = Nobody
  /\ gate' = t
  /\ LET d == thread[t].to IN
       /\ Swap(d, Adopted(d))
       /\ loaded' = d
       /\ Becomes(t, [thread[t] EXCEPT !.pc = "boundary", !.at = epoch + 1,
                        !.take = Adopted(d), !.midi = TRUE])
  /\ Overlap(t)
  /\ UNCHANGED <<dirty, log, disk, fails>>

----------------------------------------------------------------------------
(* Documents are born and replaced.                                        *)

(* project::create.  The session is not looked at again. *)
Mint(t) ==
  /\ thread[t].pc = "idle"
  /\ \E j \in {"saveAs", "ensure", "create"}, d \in Dirs :
       /\ j = "create" \/ dir = NoDir
       /\ ~disk[d].made
       /\ disk' = [disk EXCEPT ![d] = Fresh]
       /\ Becomes(t, [Idle EXCEPT !.pc = "swap", !.job = j, !.at = epoch, !.to = d])
  /\ UNCHANGED <<session, gate, log, fails, mishaps>>

(* ensure_default_project; loaded_dir stays. *)
Ensure(t) ==
  /\ thread[t].pc = "swap" /\ thread[t].job = "ensure"
  /\ Swap(thread[t].to, doc)
  /\ Becomes(t, [thread[t] EXCEPT !.pc = "reread", !.at = epoch + 1])
  /\ Overlap(t)
  /\ UNCHANGED <<loaded, dirty, gate, log, disk, fails>>

Reread(t) ==
  /\ thread[t].pc = "reread"
  /\ Becomes(t, [thread[t] EXCEPT !.pc = "boundary", !.at = epoch])
  /\ Overlap(t)
  /\ UNCHANGED <<session, gate, log, disk, fails>>

(* create_project_at. *)
Create(t) ==
  /\ thread[t].pc = "swap" /\ thread[t].job = "create"
  /\ Swap(thread[t].to,
          [song |-> Blank, midi |-> [p \in MidiParts |-> IF p \in Reset THEN Blank ELSE doc.midi[p]]])
  /\ loaded' = thread[t].to /\ dirty' = FALSE
  /\ Becomes(t, [thread[t] EXCEPT !.pc = "boundary", !.at = epoch + 1])
  /\ Overlap(t)
  /\ UNCHANGED <<gate, log, disk, fails>>

(* open_project_epoch reads the song, *)
Load(t) ==
  /\ thread[t].pc = "idle"
  /\ \E d \in Dirs :
       /\ disk[d].made
       /\ Becomes(t, [Idle EXCEPT !.pc = "swap", !.job = "open", !.at = epoch, !.to = d,
                        !.take.song = disk[d].song])
  /\ UNCHANGED <<session, gate, log, disk, fails, mishaps>>

(* and the MIDI when it swaps (adopt_midi_from_dir): not while memory is   *)
(* ahead of the disk, nor if it cannot be read; and from a file without    *)
(* MIDI only where a file was loaded before.                               *)
Keeps(m, l) == m = doc.midi /\ l = loaded
Adopts(d, m, l) ==
  IF disk[d].midi # NoMidi THEN m = disk[d].midi /\ l = d
  ELSE m = (IF loaded # NoDir THEN BlankMidi ELSE doc.midi) /\ l = d

Open(t) ==
  /\ thread[t].pc = "swap" /\ thread[t].job = "open"
  /\ LET d == thread[t].to
         overlap == \/ Overtaken(t)
                    \/ thread[t].take.song # disk[d].song
                    \/ gate # Nobody /\ thread[gate].to = d
     IN \E m \in {doc.midi, disk[d].midi, BlankMidi} \ {NoMidi}, l \in {loaded, d},
           unread \in BOOLEAN :
          /\ unread => ~dirty /\ disk[d].midi # NoMidi /\ Fails
          /\ ~unread => UNCHANGED fails
          /\ IF dirty \/ unread THEN Keeps(m, l) ELSE Adopts(d, m, l)
          /\ Swap(d, [song |-> thread[t].take.song, midi |-> m])
          /\ loaded' = l
          /\ mishaps' = mishaps \cup (IF overlap THEN {"overlap"} ELSE {})
                               \cup (IF unread THEN {"unread"} ELSE {})
  /\ Becomes(t, [thread[t] EXCEPT !.pc = "boundary", !.at = epoch + 1])
  /\ UNCHANGED <<dirty, gate, log, disk>>

(* epoch_boundary: the log follows, in the new directory's journal. *)
Boundary(t) ==
  /\ thread[t].pc = "boundary"
  /\ logEpoch' = thread[t].at /\ logDir' = thread[t].to
  /\ IF thread[t].job = "saveAs" THEN Goto(t, "song") ELSE Finish(t)
  /\ Overlap(t)
  /\ UNCHANGED <<session, gate, journal, disk, fails>>

----------------------------------------------------------------------------
Act(t) ==
  \/ Edit(t) \/ Skip(t) \/ Snapshot(t) \/ Record(t)
  \/ WriteSong(t) \/ SongFails(t) \/ WriteMidi(t) \/ MidiFails(t) \/ Settle(t)
  \/ Upgrade(t) \/ UpgradeFails(t) \/ Line(t)
  \/ Mark(t) \/ SaveAs(t) \/ Mint(t) \/ Ensure(t) \/ Reread(t) \/ Create(t)
  \/ Load(t) \/ Open(t) \/ Boundary(t)

Next == \E t \in Threads : Act(t)

Spec == Init /\ [][Next]_vars

----------------------------------------------------------------------------
(* unsaved_tail: of the newest epoch with a batch, the batches that sort   *)
(* after its last mark; the reader sorts by revision, and a mark by the    *)
(* highest revision before it in the file.                                 *)
Batches(s) == {i \in DOMAIN s : s[i].kind = "batch"}
Newest(s) == Max({s[i].epoch : i \in Batches(s)})
Marks(s) == {i \in DOMAIN s : s[i].kind = "save" /\ s[i].epoch = Newest(s)}
Anchor(s, i) == Max({0} \cup {s[j].rev : j \in {k \in Batches(s) : k < i /\ s[k].epoch = Newest(s)}})
Saved(s) == Max({0} \cup {Anchor(s, i) : i \in Marks(s)})
UnsavedTail(s) == {i \in Batches(s) : s[i].epoch = Newest(s) /\ s[i].rev > Saved(s)}

----------------------------------------------------------------------------
(* Properties.                                                             *)

(* Types of the session, the log, the files and the commands under way.    *)
TypeOK ==
  /\ doc \in Document /\ rev \in 0..MaxRev /\ epoch \in 0..MaxEpoch /\ dir \in Homes
  /\ loaded \in Homes /\ dirty \in BOOLEAN
  /\ gate \in Threads \cup {Nobody}
  /\ logEpoch \in Nat /\ logDir \in Homes
  /\ journal \in [Dirs -> Seq(Batch \cup SaveMark)]
  /\ disk \in [Dirs -> Files]
  /\ thread \in [Threads -> Command]
  /\ fails \in 0..MaxFails /\ mishaps \subseteq Mishaps

Resting == \A t \in Threads : thread[t].pc = "idle"

(* Song and directory are taken together (execute_persist, the saves), and *)
(* the song is written where it was taken though the project may be        *)
(* replaced before the write: no project.json holds another project's      *)
(* song, and the open song is the open project's.                          *)
SongIsItsOwn ==
  "overlap" \notin mishaps =>
    /\ doc.song.of \in {NoDir, dir}
    /\ \A d \in Dirs : disk[d].song.of \in {NoDir, d}

(* MidiStore::dirty: with no command under way and the flag down, what was *)
(* edited in this project is on disk as it is in memory, whatever writes   *)
(* failed and however they were ordered (clear_midi_dirty_if_unchanged).   *)
CleanMidiIsOnDisk ==
  (Resting /\ ~dirty /\ dir # NoDir /\ loaded = dir /\ mishaps = {}) =>
    \A p \in MidiParts :
      doc.midi[p].of = dir => disk[dir].midi # NoMidi /\ disk[dir].midi[p] = doc.midi[p]

OnDisk(d, l) ==
  IF l.part = "song" THEN disk[d].song.by >= l.rev
  ELSE disk[d].midi # NoMidi /\ disk[d].midi[l.part].by >= l.rev

SavedOrOffered(Parts) ==
  "overlap" \notin mishaps =>
    \A d \in Dirs : \A i \in Batches(journal[d]) :
      LET l == journal[d][i] IN
      (l.epoch = Newest(journal[d]) /\ l.part \in Parts) =>
        i \in UnsavedTail(journal[d]) \/ OnDisk(d, l)

(* The persist gate: a song edit with a line in the journal is in          *)
(* project.json, or unsaved_tail offers it at the next open, though a line *)
(* may come after the mark of the save that holds its edit, a write may    *)
(* fail and the project may be replaced between any two steps.             *)
SongsAreSavedOrOffered == SavedOrOffered({"song"})

(* The persist gate: project.json never goes back to an older song.        *)
GoesForward ==
  [][\A d \in Dirs : "overlap" \notin mishaps' => disk'[d].song.by >= disk[d].song.by]_vars

(* midi/mod.rs: loaded_dir is always current when a command runs.  Then an *)
(* open, a new project or a save would leave no other project's MIDI in    *)
(* memory.                                                                 *)
MidiIsItsOwn ==
  "overlap" \notin mishaps => \A p \in MidiParts : doc.midi[p].of \in {NoDir, dir}

(* save_project_mark: the mark claims durability for the whole document.   *)
(* With no other command under way, the MIDI it snapshot is on disk.       *)
MarkIsWhole ==
  [][\A t \in Threads :
       (thread[t].pc = "line" /\ journal' # journal /\ \A u \in Threads \ {t} : thread[u].pc = "idle")
         => disk[thread[t].to].midi = thread[t].take.midi]_vars
=============================================================================
