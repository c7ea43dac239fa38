------------------------- MODULE ProjectFilesProofs -------------------------
(***************************************************************************)
(* Theorems about ProjectFiles, for any number of threads, projects, MIDI  *)
(* parts, edits, document swaps and failed writes: types, each song in its *)
(* own directory and never an older one, the MIDI's dirty flag, and the    *)
(* unsaved tail of the journal.                                            *)
(***************************************************************************)
EXTENDS ProjectFiles, WellFoundedInduction, TLAPS

(* The values a command and a document start from. *)
LEMMA BlankTyped == Blank \in Content /\ BlankMidi \in Midi /\ BlankDocument \in Document
BY DEF Blank, Content, Homes, BlankMidi, Midi, BlankDocument, Document

LEMMA IdleTyped == Idle \in Command
BY BlankTyped DEF Idle, Command, Homes

LEMMA FreshTyped == Missing \in Files /\ Fresh \in Files
BY BlankTyped DEF Missing, Fresh, Files

LEMMA InitTypes == Init => TypeOK
<1> SUFFICES ASSUME Init PROVE TypeOK
  OBVIOUS
<1>1. disk \in [Dirs -> Files]
  <2>1. \A d \in Dirs : Old(d) \in Content
    BY DEF Old, Content, Homes
  <2>2. \A d \in Dirs : [p \in MidiParts |-> Old(d)] \in Midi
    BY <2>1 DEF Midi
  <2> DEFINE M == {NoMidi} \cup {[p \in MidiParts |-> Old(d)] : d \in Dirs}
  <2>3. M \subseteq Midi \cup {NoMidi}
    BY <2>2
  <2>4. \A d \in Dirs : \A m \in M : [made |-> TRUE, song |-> Old(d), midi |-> m] \in Files
    <3> HIDE DEF M
    <3> QED BY <2>1, <2>3 DEF Files
  <2>5. {[made |-> TRUE, song |-> Old(d), midi |-> m] : d \in Dirs, m \in M} \subseteq Files
    <3> HIDE DEF M
    <3> QED BY <2>4
  <2>6. disk \in [Dirs -> {Missing} \cup
                    {[made |-> TRUE, song |-> Old(d), midi |-> m] : d \in Dirs, m \in M}]
    BY DEF Init
  <2> HIDE DEF M
  <2> QED
    BY <2>5, <2>6, FreshTyped
<1>2. journal \in [Dirs -> Seq(Batch \cup SaveMark)]
  BY DEF Init
<1>3. thread \in [Threads -> Command]
  BY IdleTyped DEF Init
<1>4. doc \in Document /\ dir \in Homes /\ loaded \in Homes /\ dirty \in BOOLEAN
  BY BlankTyped, Zenon DEF Init, Homes
<1>6. rev \in 0..MaxRev /\ epoch \in 0..MaxEpoch
  BY BoundsAssumption DEF Init
<1>5. /\ gate \in Threads \cup {Nobody} /\ logEpoch \in Nat /\ logDir \in Homes
      /\ fails \in 0..MaxFails /\ mishaps \subseteq Mishaps
  BY BoundsAssumption DEF Init, Homes
<1> QED
  BY <1>1, <1>2, <1>3, <1>4, <1>5, <1>6 DEF TypeOK

LEMMA Becoming ==
  ASSUME TypeOK, NEW t \in Threads, NEW c \in Command, Becomes(t, c)
  PROVE  thread' \in [Threads -> Command]
BY DEF TypeOK, Becomes

Labels == {"idle", "persist", "record", "swap", "reread", "boundary",
           "song", "midi", "settle", "upgrade", "line"}

LEMMA Relabelled ==
  ASSUME NEW c \in Command, NEW l \in Labels
  PROVE  [c EXCEPT !.pc = l] \in Command
BY DEF Command, Labels

LEMMA GoingOn ==
  ASSUME TypeOK, NEW t \in Threads, NEW l \in Labels, Goto(t, l)
  PROVE  thread' \in [Threads -> Command]
<1>1. thread[t] \in Command
  BY DEF TypeOK
<1> QED
  BY <1>1, Relabelled, Becoming DEF Goto

LEMMA Ending ==
  ASSUME TypeOK, NEW t \in Threads, Finish(t) \/ ToRecord(t)
  PROVE  thread' \in [Threads -> Command]
<1>1. CASE Finish(t)
  BY <1>1, IdleTyped, Becoming DEF Finish
<1>2. CASE ToRecord(t)
  <2>1. ASSUME NEW c \in Command
        PROVE  [c EXCEPT !.pc = "record", !.to = NoDir, !.take = BlankDocument,
                         !.midi = FALSE, !.ok = TRUE] \in Command
    BY BlankTyped DEF Command, Homes
  <2>2. thread[t] \in Command
    BY DEF TypeOK
  <2> QED
    BY <1>2, <2>1, <2>2, Becoming DEF ToRecord
<1> QED
  BY <1>1, <1>2

(* Writes leave the directories well-formed. *)
LEMMA SongWritten ==
  ASSUME TypeOK, NEW t \in Threads,
         disk' = [disk EXCEPT ![thread[t].to].song = thread[t].take.song]
  PROVE  disk' \in [Dirs -> Files]
<1>1. ASSUME NEW f \in Files, NEW c \in Content PROVE [f EXCEPT !.song = c] \in Files
  BY DEF Files
<1>2. thread[t].take.song \in Content
  BY DEF TypeOK, Command, Document
<1> QED
  BY <1>1, <1>2 DEF TypeOK

LEMMA MidiWritten ==
  ASSUME TypeOK, NEW d, NEW m \in Midi \cup {NoMidi}, disk' = [disk EXCEPT ![d].midi = m]
  PROVE  disk' \in [Dirs -> Files]
<1>1. ASSUME NEW f \in Files PROVE [f EXCEPT !.midi = m] \in Files
  BY DEF Files
<1> QED
  BY <1>1 DEF TypeOK

LEMMA LineAdded == ASSUME NEW S, NEW q \in Seq(S), NEW b \in S PROVE Append(q, b) \in Seq(S)
OBVIOUS

(* What a command reads of its own record. *)
LEMMA ThreadTyped ==
  ASSUME TypeOK, NEW t \in Threads
  PROVE  /\ thread[t] \in Command /\ thread[t].at \in Nat /\ thread[t].rev \in Nat
         /\ thread[t].to \in Homes /\ thread[t].part \in {"song"} \cup MidiParts
         /\ thread[t].take \in Document /\ thread[t].take.song \in Content
         /\ thread[t].take.midi \in Midi
BY DEF TypeOK, Command, Document

LEMMA DocTyped == TypeOK => doc.song \in Content /\ doc.midi \in Midi
BY DEF TypeOK, Document

LEMMA EditTypes ==
  ASSUME TypeOK, NEW t \in Threads, Edit(t)
  PROVE  TypeOK'
<1> PICK p \in {"song"} \cup MidiParts :
       /\ LET c == [by |-> rev + 1, of |-> dir] IN
            doc' = IF p = "song" THEN [doc EXCEPT !.song = c] ELSE [doc EXCEPT !.midi[p] = c]
       /\ Becomes(t, [Idle EXCEPT !.pc = "persist", !.job = "commit", !.part = p,
                        !.rev = rev + 1, !.at = epoch])
       /\ Happens(p # "song" /\ dir \notin {NoDir, loaded}, "unbound")
  BY DEF Edit
<1>1. rev' \in 0..MaxRev /\ rev + 1 \in Nat /\ epoch \in Nat
  BY BoundsAssumption DEF TypeOK, Edit
<1>2. doc' \in Document
  <2> DEFINE c == [by |-> rev + 1, of |-> dir]
  <2>1. c \in Content
    BY <1>1 DEF Content, TypeOK
  <2> HIDE DEF c
  <2>2. doc' = IF p = "song" THEN [doc EXCEPT !.song = c] ELSE [doc EXCEPT !.midi[p] = c]
    BY DEF c
  <2>3. ASSUME NEW q \in MidiParts, NEW m \in Midi PROVE [m EXCEPT ![q] = c] \in Midi
    BY <2>1 DEF Midi
  <2>4. CASE p = "song"
    BY <2>1, <2>2, <2>4 DEF TypeOK, Document
  <2>5. CASE p # "song"
    <3>1. doc' = [doc EXCEPT !.midi = [doc.midi EXCEPT ![p] = c]] /\ p \in MidiParts
      BY <2>2, <2>5 DEF TypeOK, Document
    <3> QED
      BY <3>1, <2>3, DocTyped DEF TypeOK, Document
  <2> QED
    BY <2>4, <2>5
<1>3. thread' \in [Threads -> Command]
  <2> DEFINE c == [Idle EXCEPT !.pc = "persist", !.job = "commit", !.part = p,
                     !.rev = rev + 1, !.at = epoch]
  <2>1. c \in Command
    BY <1>1, IdleTyped DEF Command
  <2> HIDE DEF c
  <2> QED
    BY <2>1, Becoming DEF c
<1>4. mishaps' \subseteq Mishaps
  BY DEF Happens, TypeOK, Mishaps
<1> QED
  BY <1>1, <1>2, <1>3, <1>4 DEF TypeOK, Edit, log

LEMMA CommitTypes ==
  ASSUME TypeOK, NEW t \in Threads, Skip(t) \/ Snapshot(t) \/ Record(t)
  PROVE  TypeOK'
<1>1. CASE Skip(t)
  <2>1. thread' \in [Threads -> Command]
    BY <1>1, GoingOn DEF Skip, Labels
  <2> QED
    BY <1>1, <2>1 DEF TypeOK, Skip, session, log
<1>2. CASE Snapshot(t)
  <2> DEFINE m == thread[t].part # "song"
             c == [thread[t] EXCEPT !.pc = IF m THEN "midi" ELSE "song", !.to = dir,
                     !.take = doc, !.midi = m]
  <2>1. m \in BOOLEAN /\ dir \in Homes /\ doc \in Document
    BY DEF TypeOK
  <2>2. c \in Command
    <3> HIDE DEF m
    <3> QED BY <2>1, ThreadTyped DEF Command
  <2> HIDE DEF c
  <2>3. thread' \in [Threads -> Command]
    BY <1>2, <2>2, Becoming DEF Snapshot, c
  <2> QED
    BY <1>2, <2>3 DEF TypeOK, Snapshot, session, log
<1>3. CASE Record(t)
  <2>1. thread' \in [Threads -> Command]
    BY <1>3, Ending DEF Record
  <2> DEFINE b == [kind |-> "batch", rev |-> thread[t].rev, epoch |-> thread[t].at,
                   part |-> thread[t].part]
  <2>2. b \in Batch \cup SaveMark
    BY ThreadTyped DEF Batch
  <2> HIDE DEF b
  <2>3. journal' \in [Dirs -> Seq(Batch \cup SaveMark)]
    <3> DEFINE S == Batch \cup SaveMark
    <3>1. journal \in [Dirs -> Seq(S)] /\ b \in S
      BY <2>2 DEF TypeOK
    <3>2. journal' = journal \/ journal' = [journal EXCEPT ![logDir] = Append(@, b)]
      BY <1>3 DEF Record, b
    <3> HIDE DEF S
    <3>3. \A d \in Dirs : Append(journal[d], b) \in Seq(S)
      BY <3>1, LineAdded
    <3>4. journal' \in [Dirs -> Seq(S)]
      BY <3>1, <3>2, <3>3
    <3> QED
      BY <3>4 DEF S
  <2> QED
    BY <1>3, <2>1, <2>3 DEF TypeOK, Record, session
<1> QED
  BY <1>1, <1>2, <1>3

LEMMA SongTypes ==
  ASSUME TypeOK, NEW t \in Threads, WriteSong(t) \/ SongFails(t)
  PROVE  TypeOK'
<1>1. CASE WriteSong(t)
  <2>1. thread' \in [Threads -> Command]
    BY <1>1, Ending, GoingOn DEF WriteSong, Done, Labels
  <2>2. gate' \in Threads \cup {Nobody}
    BY <1>1 DEF WriteSong, Done, Release, TypeOK
  <2> QED
    BY <1>1, <2>1, <2>2, SongWritten DEF TypeOK, WriteSong, session, log
<1>2. CASE SongFails(t)
  <2>1. thread' \in [Threads -> Command]
    BY <1>2, Ending DEF SongFails, Done
  <2>2. gate' \in Threads \cup {Nobody} /\ mishaps' \subseteq Mishaps
    BY <1>2 DEF SongFails, Done, Release, TypeOK, Happens, Mishaps
  <2>3. fails' \in 0..MaxFails
    BY <1>2, BoundsAssumption DEF SongFails, Fails, TypeOK
  <2> QED
    BY <1>2, <2>1, <2>2, <2>3 DEF TypeOK, SongFails, session, log
<1> QED
  BY <1>1, <1>2

LEMMA MidiTypes ==
  ASSUME TypeOK, NEW t \in Threads, WriteMidi(t) \/ MidiFails(t) \/ Settle(t)
  PROVE  TypeOK'
<1>1. CASE WriteMidi(t)
  <2>1. thread' \in [Threads -> Command]
    BY <1>1, GoingOn DEF WriteMidi, Labels
  <2>2. disk' \in [Dirs -> Files]
    BY <1>1, MidiWritten, ThreadTyped DEF WriteMidi
  <2> QED
    BY <1>1, <2>1, <2>2 DEF TypeOK, WriteMidi, session, log
<1>2. CASE MidiFails(t)
  <2>1. [thread[t] EXCEPT !.pc = "settle", !.ok = FALSE] \in Command
    BY ThreadTyped DEF Command
  <2>2. thread' \in [Threads -> Command]
    BY <1>2, <2>1, Becoming DEF MidiFails
  <2>3. fails' \in 0..MaxFails
    BY <1>2, BoundsAssumption DEF MidiFails, Fails, TypeOK
  <2> QED
    BY <1>2, <2>2, <2>3 DEF TypeOK, MidiFails, session, log
<1>3. CASE Settle(t)
  <2> DEFINE clean == thread[t].ok /\ doc.midi = thread[t].take.midi
  <2>1. clean \in BOOLEAN
    OBVIOUS
  <2> HIDE DEF clean
  <2>2. [thread[t] EXCEPT !.pc = "upgrade", !.ok = clean] \in Command
    BY <2>1, ThreadTyped DEF Command
  <2>3. dirty' \in BOOLEAN
    BY <1>3, Zenon DEF Settle
  <2>4. thread' \in [Threads -> Command]
    BY <1>3, <2>2, Ending, Becoming DEF Settle, Done, clean
  <2>5. gate' \in Threads \cup {Nobody} /\ mishaps' \subseteq Mishaps
    BY <1>3 DEF Settle, Done, Release, TypeOK, Happens, Mishaps
  <2> QED
    BY <1>3, <2>3, <2>4, <2>5 DEF TypeOK, Settle, log
<1> QED
  BY <1>1, <1>2, <1>3

LEMMA SaveTypes ==
  ASSUME TypeOK, NEW t \in Threads, Upgrade(t) \/ UpgradeFails(t) \/ Line(t) \/ Mark(t)
  PROVE  TypeOK'
<1>1. CASE Upgrade(t)
  <2>1. thread' \in [Threads -> Command]
    BY <1>1, Ending, GoingOn DEF Upgrade, Labels
  <2>2. disk' \in [Dirs -> Files]
    <3>1. ASSUME NEW f \in Files
          PROVE  [f EXCEPT !.midi = IF f.midi = NoMidi THEN BlankMidi ELSE f.midi] \in Files
      BY BlankTyped DEF Files
    <3> QED
      BY <1>1, <3>1 DEF Upgrade, TypeOK
  <2>3. gate' \in Threads \cup {Nobody}
    BY <1>1 DEF Upgrade, Release, TypeOK
  <2> QED
    BY <1>1, <2>1, <2>2, <2>3 DEF TypeOK, Upgrade, session, log
<1>2. CASE UpgradeFails(t)
  <2>1. thread' \in [Threads -> Command]
    BY <1>2, Ending DEF UpgradeFails
  <2>2. fails' \in 0..MaxFails
    BY <1>2, BoundsAssumption DEF UpgradeFails, Fails, TypeOK
  <2> QED
    BY <1>2, <2>1, <2>2 DEF TypeOK, UpgradeFails, Release, session, log
<1>3. CASE Line(t)
  <2>1. thread' \in [Threads -> Command]
    BY <1>3, Ending DEF Line
  <2> DEFINE b == [kind |-> "save", epoch |-> logEpoch]
  <2>2. b \in Batch \cup SaveMark
    BY DEF SaveMark, TypeOK
  <2> HIDE DEF b
  <2>3. journal' \in [Dirs -> Seq(Batch \cup SaveMark)]
    <3> DEFINE S == Batch \cup SaveMark
    <3>1. journal \in [Dirs -> Seq(S)] /\ b \in S
      BY <2>2 DEF TypeOK
    <3>2. journal' = journal \/ journal' = [journal EXCEPT ![logDir] = Append(@, b)]
      BY <1>3 DEF Line, b
    <3> HIDE DEF S
    <3>3. \A d \in Dirs : Append(journal[d], b) \in Seq(S)
      BY <3>1, LineAdded
    <3>4. journal' \in [Dirs -> Seq(S)]
      BY <3>1, <3>2, <3>3
    <3> QED
      BY <3>4 DEF S
  <2> QED
    BY <1>3, <2>1, <2>3 DEF TypeOK, Line, Release, session
<1>4. CASE Mark(t)
  <2>1. [Idle EXCEPT !.pc = "song", !.job = "mark", !.at = epoch, !.to = dir,
                     !.take = doc, !.midi = dirty] \in Command
    <3>1. dirty \in BOOLEAN /\ epoch \in Nat /\ dir \in Homes /\ doc \in Document
      BY BoundsAssumption DEF TypeOK
    <3> QED
      BY <3>1, IdleTyped DEF Command
  <2>2. thread' \in [Threads -> Command]
    BY <1>4, <2>1, Becoming DEF Mark
  <2> QED
    BY <1>4, <2>2 DEF TypeOK, Mark, session, log
<1> QED
  BY <1>1, <1>2, <1>3, <1>4

(* A swap's command, its document and its counters. *)
LEMMA SwapTypes ==
  ASSUME TypeOK, NEW d \in Homes, NEW new \in Document, Swap(d, new)
  PROVE  /\ doc' \in Document /\ rev' \in 0..MaxRev /\ epoch' \in 0..MaxEpoch /\ dir' \in Homes
         /\ epoch' = epoch + 1 /\ epoch + 1 \in Nat
BY BoundsAssumption DEF TypeOK, Swap

LEMMA OverlapTypes ==
  ASSUME TypeOK, NEW t \in Threads, Overlap(t)
  PROVE  mishaps' \subseteq Mishaps
BY DEF TypeOK, Overlap, Happens, Mishaps

LEMMA AdoptedTyped == ASSUME TypeOK, NEW d \in Homes PROVE Adopted(d) \in Document
<1>1. ASSUME NEW c \in Content PROVE Belongs(c, d) \in Content
  BY DEF Belongs, Content
<1>2. doc.song \in Content /\ doc.midi \in [MidiParts -> Content]
  BY DocTyped DEF Midi
<1> QED
  BY <1>1, <1>2 DEF Adopted, Document, Midi

LEMMA BirthTypes ==
  ASSUME TypeOK, NEW t \in Threads, SaveAs(t) \/ Mint(t) \/ Ensure(t) \/ Reread(t) \/ Create(t)
  PROVE  TypeOK'
<1>0. epoch \in Nat /\ epoch + 1 \in Nat /\ thread[t].to \in Homes /\ thread[t] \in Command
  BY ThreadTyped DEF TypeOK
<1>1. CASE SaveAs(t)
  <2>1. Adopted(thread[t].to) \in Document
    BY <1>0, AdoptedTyped
  <2>2. [thread[t] EXCEPT !.pc = "boundary", !.at = epoch + 1,
           !.take = Adopted(thread[t].to), !.midi = TRUE] \in Command
    BY <1>0, <2>1 DEF Command
  <2>3. thread' \in [Threads -> Command]
    BY <1>1, <2>2, Becoming DEF SaveAs
  <2> QED
    BY <1>0, <1>1, <2>1, <2>3, SwapTypes, OverlapTypes DEF TypeOK, SaveAs, log
<1>2. CASE Mint(t)
  <2> PICK j \in {"saveAs", "ensure", "create"}, d \in Dirs :
         /\ disk' = [disk EXCEPT ![d] = Fresh]
         /\ Becomes(t, [Idle EXCEPT !.pc = "swap", !.job = j, !.at = epoch, !.to = d])
    BY <1>2 DEF Mint
  <2>1. [Idle EXCEPT !.pc = "swap", !.job = j, !.at = epoch, !.to = d] \in Command
    BY <1>0, IdleTyped DEF Command, Homes
  <2>2. thread' \in [Threads -> Command]
    BY <2>1, Becoming
  <2>3. disk' \in [Dirs -> Files]
    BY FreshTyped DEF TypeOK
  <2> QED
    BY <1>2, <2>2, <2>3 DEF TypeOK, Mint, session, log
<1>3. CASE Ensure(t)
  <2>1. [thread[t] EXCEPT !.pc = "reread", !.at = epoch + 1] \in Command
    BY <1>0 DEF Command
  <2>2. thread' \in [Threads -> Command]
    BY <1>3, <2>1, Becoming DEF Ensure
  <2>3. doc \in Document
    BY DEF TypeOK
  <2> QED
    BY <1>0, <1>3, <2>2, <2>3, SwapTypes, OverlapTypes DEF TypeOK, Ensure, log
<1>4. CASE Reread(t)
  <2>1. [thread[t] EXCEPT !.pc = "boundary", !.at = epoch] \in Command
    BY <1>0 DEF Command
  <2>2. thread' \in [Threads -> Command]
    BY <1>4, <2>1, Becoming DEF Reread
  <2> QED
    BY <1>4, <2>2, OverlapTypes DEF TypeOK, Reread, session, log
<1>5. CASE Create(t)
  <2> DEFINE new == [song |-> Blank,
                     midi |-> [p \in MidiParts |-> IF p \in Reset THEN Blank ELSE doc.midi[p]]]
  <2>1. new \in Document
    BY BlankTyped, DocTyped DEF Document, Midi
  <2> HIDE DEF new
  <2>2. [thread[t] EXCEPT !.pc = "boundary", !.at = epoch + 1] \in Command
    BY <1>0 DEF Command
  <2>3. thread' \in [Threads -> Command]
    BY <1>5, <2>2, Becoming DEF Create
  <2>4. Swap(thread[t].to, new)
    BY <1>5 DEF Create, new
  <2> QED
    BY <1>0, <1>5, <2>1, <2>3, <2>4, SwapTypes, OverlapTypes DEF TypeOK, Create, log
<1> QED
  BY <1>1, <1>2, <1>3, <1>4, <1>5

(* A swap has a directory and is of an epoch there was; only ensure rereads. *)
Placed ==
  \A t \in Threads :
    /\ thread[t].pc = "swap" => thread[t].to \in Dirs /\ thread[t].at <= epoch
    /\ thread[t].pc = "reread" => thread[t].job = "ensure"

LEMMA OpenTypes ==
  ASSUME TypeOK, Placed, NEW t \in Threads, Load(t) \/ Open(t) \/ Boundary(t)
  PROVE  TypeOK'
<1>0. epoch \in Nat /\ epoch + 1 \in Nat /\ thread[t].to \in Homes /\ thread[t] \in Command
  BY ThreadTyped DEF TypeOK
<1>1. CASE Load(t)
  <2> PICK d \in Dirs :
         Becomes(t, [Idle EXCEPT !.pc = "swap", !.job = "open", !.at = epoch, !.to = d,
                       !.take.song = disk[d].song])
    BY <1>1 DEF Load
  <2>1. disk[d].song \in Content
    BY DEF TypeOK, Files
  <2>2. [Idle.take EXCEPT !.song = disk[d].song] \in Document
    BY <2>1, IdleTyped DEF Command, Document
  <2>3. [Idle EXCEPT !.pc = "swap", !.job = "open", !.at = epoch, !.to = d,
           !.take.song = disk[d].song] \in Command
    BY <1>0, <2>2, IdleTyped DEF Command, Homes
  <2>4. thread' \in [Threads -> Command]
    BY <2>3, Becoming
  <2> QED
    BY <1>1, <2>4 DEF TypeOK, Load, session, log
<1>2. CASE Open(t)
  <2> DEFINE d == thread[t].to
  <2> PICK m \in {doc.midi, disk[d].midi, BlankMidi} \ {NoMidi}, l \in {loaded, d}, unread \in BOOLEAN :
         /\ unread => Fails
         /\ ~unread => UNCHANGED fails
         /\ Swap(d, [song |-> thread[t].take.song, midi |-> m])
         /\ loaded' = l
         /\ mishaps' \ mishaps \subseteq {"overlap", "unread"}
    BY <1>2 DEF Open
  <2>1. m \in Midi
    <3>1. d \in Dirs
      BY <1>2 DEF Placed, Open
    <3>2. disk[d].midi \in Midi \cup {NoMidi}
      BY <3>1 DEF TypeOK, Files
    <3> QED
      BY <3>2, BlankTyped, DocTyped
  <2>2. [song |-> thread[t].take.song, midi |-> m] \in Document
    BY <2>1, ThreadTyped DEF Document
  <2>3. fails' \in 0..MaxFails
    BY BoundsAssumption DEF Fails, TypeOK
  <2>4. loaded' \in Homes
    BY <1>0 DEF TypeOK
  <2>5. mishaps' \subseteq Mishaps
    BY DEF TypeOK, Mishaps
  <2>6. [thread[t] EXCEPT !.pc = "boundary", !.at = epoch + 1] \in Command
    BY <1>0 DEF Command
  <2>7. thread' \in [Threads -> Command]
    BY <1>2, <2>6, Becoming DEF Open
  <2> QED
    BY <1>0, <1>2, <2>2, <2>3, <2>4, <2>5, <2>7, SwapTypes DEF TypeOK, Open, log
<1>3. CASE Boundary(t)
  <2>1. thread' \in [Threads -> Command]
    BY <1>3, Ending, GoingOn DEF Boundary, Labels
  <2>2. logEpoch' \in Nat /\ logDir' \in Homes
    BY <1>3, ThreadTyped DEF Boundary
  <2> QED
    BY <1>3, <2>1, <2>2, OverlapTypes DEF TypeOK, Boundary, session
<1> QED
  BY <1>1, <1>2, <1>3

LEMMA StepTypes == TypeOK /\ Placed /\ [Next]_vars => TypeOK'
<1> SUFFICES ASSUME TypeOK, Placed, [Next]_vars PROVE TypeOK'
  OBVIOUS
<1>1. CASE UNCHANGED vars
  BY <1>1 DEF TypeOK, vars, session, log
<1>2. ASSUME NEW t \in Threads, Act(t) PROVE TypeOK'
  BY <1>2, EditTypes, CommitTypes, SongTypes, MidiTypes, SaveTypes, BirthTypes, OpenTypes DEF Act
<1> QED
  BY <1>1, <1>2 DEF Next

(* A step changes its thread's command only. *)
LEMMA Own ==
  ASSUME TypeOK, NEW t \in Threads, NEW c, Becomes(t, c)
  PROVE  thread'[t] = c /\ \A u \in Threads \ {t} : thread'[u] = thread[u]
BY DEF TypeOK, Becomes

Others(t) == \A u \in Threads \ {t} : thread'[u] = thread[u]

LEMMA OwnLabel ==
  ASSUME TypeOK, NEW t \in Threads, NEW l, Goto(t, l)
  PROVE  /\ Others(t) /\ thread'[t].pc = l /\ thread'[t].job = thread[t].job
         /\ thread'[t].to = thread[t].to /\ thread'[t].take = thread[t].take
         /\ thread'[t].at = thread[t].at
<1>1. ASSUME NEW c \in Command, NEW d, d = [c EXCEPT !.pc = l]
      PROVE  d.pc = l /\ d.job = c.job /\ d.to = c.to /\ d.take = c.take /\ d.at = c.at
  BY <1>1 DEF Command
<1> QED
  BY <1>1, ThreadTyped, Own DEF Goto, Others

LEMMA OwnEnd ==
  ASSUME TypeOK, NEW t \in Threads, Finish(t) \/ ToRecord(t)
  PROVE  Others(t) /\ thread'[t].pc \in {"idle", "record"}
<1>1. ASSUME NEW c \in Command
      PROVE  [c EXCEPT !.pc = "record", !.to = NoDir, !.take = BlankDocument,
                         !.midi = FALSE, !.ok = TRUE].pc = "record"
  BY DEF Command
<1>2. CASE Finish(t)
  BY <1>2, Own DEF Finish, Others, Idle
<1>3. CASE ToRecord(t)
  BY <1>1, <1>3, ThreadTyped, Own DEF ToRecord, Others
<1> QED
  BY <1>2, <1>3

(* Most steps leave their thread where it neither swaps nor writes a song. *)
Harmless == {"idle", "persist", "record", "midi", "settle", "upgrade", "line"}

LEMMA HarmlessSteps ==
  ASSUME TypeOK, NEW t \in Threads,
         \/ Edit(t) \/ Skip(t) \/ Record(t) \/ WriteSong(t) \/ SongFails(t) \/ WriteMidi(t)
         \/ MidiFails(t) \/ Settle(t) \/ Upgrade(t) \/ UpgradeFails(t) \/ Line(t)
  PROVE  Others(t) /\ thread'[t].pc \in Harmless
<1> USE DEF Harmless
<1>1. CASE Edit(t)
  <2> DEFINE c(p) == [Idle EXCEPT !.pc = "persist", !.job = "commit", !.part = p,
                        !.rev = rev + 1, !.at = epoch]
  <2>1. \A p : c(p).pc = "persist"
    BY DEF Idle
  <2>2. PICK p : Becomes(t, c(p))
    BY <1>1 DEF Edit
  <2> HIDE DEF c
  <2> QED
    BY <2>1, <2>2, Own DEF Others
<1>2. CASE Skip(t) \/ WriteMidi(t)
  BY <1>2, OwnLabel DEF Skip, WriteMidi
<1>3. CASE Record(t) \/ UpgradeFails(t) \/ Line(t)
  BY <1>3, OwnEnd DEF Record, UpgradeFails, Line
<1>4. CASE WriteSong(t)
  BY <1>4, OwnEnd, OwnLabel DEF WriteSong, Done
<1>5. CASE SongFails(t)
  BY <1>5, OwnEnd DEF SongFails, Done
<1>6. CASE MidiFails(t)
  <2> DEFINE c == [thread[t] EXCEPT !.pc = "settle", !.ok = FALSE]
  <2>1. c.pc = "settle"
    BY ThreadTyped DEF Command
  <2>2. Becomes(t, c)
    BY <1>6 DEF MidiFails
  <2> HIDE DEF c
  <2> QED
    BY <2>1, <2>2, Own DEF Others
<1>7. CASE Settle(t)
  <2> DEFINE c(x) == [thread[t] EXCEPT !.pc = "upgrade", !.ok = x]
  <2>1. \A x : c(x).pc = "upgrade"
    BY ThreadTyped DEF Command
  <2>2. ToRecord(t) \/ \E x : Becomes(t, c(x))
    BY <1>7 DEF Settle, Done
  <2> HIDE DEF c
  <2> QED
    BY <2>1, <2>2, Own, OwnEnd DEF Others
<1>8. CASE Upgrade(t)
  BY <1>8, OwnEnd, OwnLabel DEF Upgrade
<1> QED
  BY <1>1, <1>2, <1>3, <1>4, <1>5, <1>6, <1>7, <1>8

(* What the other steps leave their thread with. *)
LEMMA SnapshotLeaves ==
  ASSUME TypeOK, NEW t \in Threads, Snapshot(t) \/ Mark(t)
  PROVE  /\ Others(t) /\ thread'[t].pc \in {"song", "midi"}
         /\ thread'[t].to = dir /\ thread'[t].take = doc
<1>1. CASE Snapshot(t)
  <2> DEFINE c(m) == [thread[t] EXCEPT !.pc = IF m THEN "midi" ELSE "song", !.to = dir,
                        !.take = doc, !.midi = m]
  <2>1. \A m : c(m).pc \in {"song", "midi"} /\ c(m).to = dir /\ c(m).take = doc
    BY ThreadTyped DEF Command
  <2> HIDE DEF c
  <2>2. PICK m : Becomes(t, c(m))
    BY <1>1 DEF Snapshot, c
  <2> QED
    BY <2>1, <2>2, Own DEF Others
<1>2. CASE Mark(t)
  <2> DEFINE c == [Idle EXCEPT !.pc = "song", !.job = "mark", !.at = epoch, !.to = dir,
                     !.take = doc, !.midi = dirty]
  <2>1. c.pc = "song" /\ c.to = dir /\ c.take = doc
    BY DEF Idle
  <2>2. Becomes(t, c)
    BY <1>2 DEF Mark
  <2> HIDE DEF c
  <2> QED
    BY <2>1, <2>2, Own DEF Others
<1> QED
  BY <1>1, <1>2

LEMMA SwapLeaves ==
  ASSUME TypeOK, NEW t \in Threads, SaveAs(t) \/ Ensure(t) \/ Create(t) \/ Open(t)
  PROVE  /\ Others(t) /\ epoch' = epoch + 1 /\ dir' = thread[t].to /\ thread'[t].to = thread[t].to
         /\ thread'[t].pc = (IF Ensure(t) THEN "reread" ELSE "boundary")
         /\ thread'[t].job = thread[t].job
         /\ SaveAs(t) => thread'[t].take = Adopted(thread[t].to)
<1> DEFINE b == [thread[t] EXCEPT !.pc = "boundary", !.at = epoch + 1]
           r == [thread[t] EXCEPT !.pc = "reread", !.at = epoch + 1]
           a(d) == [thread[t] EXCEPT !.pc = "boundary", !.at = epoch + 1, !.take = d, !.midi = TRUE]
<1>1. /\ b.pc = "boundary" /\ b.to = thread[t].to /\ b.job = thread[t].job
      /\ r.pc = "reread" /\ r.to = thread[t].to /\ r.job = thread[t].job
      /\ \A d : a(d).pc = "boundary" /\ a(d).to = thread[t].to /\ a(d).job = thread[t].job /\ a(d).take = d
  BY ThreadTyped DEF Command
<1>2. CASE SaveAs(t)
  <2>1. ~Ensure(t) /\ Becomes(t, a(Adopted(thread[t].to))) /\ Swap(thread[t].to, Adopted(thread[t].to))
    BY <1>2 DEF SaveAs, Ensure
  <2> HIDE DEF a, b, r
  <2> QED
    BY <1>1, <2>1, Own DEF Others, Swap
<1>3. CASE Ensure(t)
  <2>1. Becomes(t, r) /\ Swap(thread[t].to, doc) /\ ~SaveAs(t)
    BY <1>3 DEF Ensure, SaveAs
  <2> HIDE DEF a, b, r
  <2> QED
    BY <1>1, <1>3, <2>1, Own DEF Others, Swap
<1>4. CASE Create(t) \/ Open(t)
  <2>1. Becomes(t, b) /\ ~SaveAs(t) /\ ~Ensure(t) /\ \E new : Swap(thread[t].to, new)
    BY <1>4 DEF Create, Open, SaveAs, Ensure
  <2> HIDE DEF a, b, r
  <2> QED
    BY <1>1, <2>1, Own DEF Others, Swap
<1> QED
  BY <1>2, <1>3, <1>4

LEMMA StartLeaves ==
  ASSUME TypeOK, NEW t \in Threads, Mint(t) \/ Load(t)
  PROVE  /\ Others(t) /\ thread'[t].pc = "swap" /\ thread'[t].to \in Dirs /\ thread'[t].at = epoch
         /\ thread'[t].job \in {"saveAs", "ensure"} => dir = NoDir
<1>1. CASE Mint(t)
  <2> DEFINE c(j, d) == [Idle EXCEPT !.pc = "swap", !.job = j, !.at = epoch, !.to = d]
  <2>1. \A j, d : c(j, d).pc = "swap" /\ c(j, d).job = j /\ c(j, d).at = epoch /\ c(j, d).to = d
    BY DEF Idle
  <2>2. PICK j \in {"saveAs", "ensure", "create"}, d \in Dirs :
          (j = "create" \/ dir = NoDir) /\ Becomes(t, c(j, d))
    BY <1>1 DEF Mint
  <2> HIDE DEF c
  <2> QED
    BY <2>1, <2>2, Own DEF Others
<1>2. CASE Load(t)
  <2> DEFINE c(s, d) == [Idle EXCEPT !.pc = "swap", !.job = "open", !.at = epoch, !.to = d,
                           !.take.song = s]
  <2>1. \A s, d : c(s, d).pc = "swap" /\ c(s, d).job = "open" /\ c(s, d).at = epoch /\ c(s, d).to = d
    BY DEF Idle
  <2>2. PICK d \in Dirs : Becomes(t, c(disk[d].song, d))
    BY <1>2 DEF Load
  <2> HIDE DEF c
  <2> QED
    BY <2>1, <2>2, Own DEF Others
<1> QED
  BY <1>1, <1>2

LEMMA RereadLeaves ==
  ASSUME TypeOK, NEW t \in Threads, Reread(t)
  PROVE  Others(t) /\ thread'[t].pc = "boundary" /\ thread'[t].job = thread[t].job
<1> DEFINE c == [thread[t] EXCEPT !.pc = "boundary", !.at = epoch]
<1>1. c.pc = "boundary" /\ c.job = thread[t].job
  BY ThreadTyped DEF Command
<1>2. Becomes(t, c)
  BY DEF Reread
<1> HIDE DEF c
<1> QED
  BY <1>1, <1>2, Own DEF Others

LEMMA BoundaryLeaves ==
  ASSUME TypeOK, NEW t \in Threads, Boundary(t)
  PROVE  /\ Others(t) /\ thread'[t].pc \in {"song", "idle"}
         /\ thread'[t].pc = "song" => /\ thread[t].pc = "boundary" /\ thread[t].job = "saveAs"
                                       /\ thread'[t].to = thread[t].to
                                       /\ thread'[t].take = thread[t].take
<1>1. CASE thread[t].job = "saveAs"
  BY <1>1, OwnLabel DEF Boundary
<1>2. CASE thread[t].job # "saveAs"
  BY <1>2, Own DEF Boundary, Finish, Others, Idle
<1> QED
  BY <1>1, <1>2

LEMMA StepPlaced == TypeOK /\ Placed /\ [Next]_vars => Placed'
<1> SUFFICES ASSUME TypeOK, Placed, [Next]_vars PROVE Placed'
  OBVIOUS
<1>0. epoch \in Nat
  BY DEF TypeOK
<1>1. CASE UNCHANGED vars
  BY <1>1 DEF Placed, vars, session
<1>2. ASSUME NEW t \in Threads, Act(t) PROVE Placed'
  <2>0. epoch' = epoch \/ epoch' = epoch + 1
    BY <1>2 DEF Act, Edit, Skip, Snapshot, Record, WriteSong, SongFails, WriteMidi, MidiFails, Settle,
       Upgrade, UpgradeFails, Line, Mark, SaveAs, Mint, Ensure, Reread, Create, Load, Open, Boundary,
       Swap, session
  <2>1. ASSUME Others(t), thread'[t].pc = "swap" => thread'[t].to \in Dirs /\ thread'[t].at <= epoch',
               thread'[t].pc = "reread" => thread'[t].job = "ensure"
        PROVE  Placed'
    <3> SUFFICES ASSUME NEW u \in Threads
                 PROVE  /\ thread'[u].pc = "swap" => thread'[u].to \in Dirs /\ thread'[u].at <= epoch'
                        /\ thread'[u].pc = "reread" => thread'[u].job = "ensure"
      BY DEF Placed
    <3>1. CASE u = t
      BY <3>1, <2>1
    <3>2. CASE u # t
      <4>1. thread[u].at \in Nat /\ thread'[u] = thread[u]
        BY <2>1, <3>2, ThreadTyped DEF Others
      <4> QED
        BY <1>0, <2>0, <4>1 DEF Placed
    <3> QED
      BY <3>1, <3>2
  <2>2. CASE \/ Edit(t) \/ Skip(t) \/ Record(t) \/ WriteSong(t) \/ SongFails(t) \/ WriteMidi(t)
             \/ MidiFails(t) \/ Settle(t) \/ Upgrade(t) \/ UpgradeFails(t) \/ Line(t)
    BY <2>1, <2>2, HarmlessSteps DEF Harmless
  <2>3. CASE Snapshot(t) \/ Mark(t)
    BY <2>1, <2>3, SnapshotLeaves
  <2>4. CASE SaveAs(t) \/ Ensure(t) \/ Create(t) \/ Open(t)
    <3>1. Ensure(t) => thread[t].job = "ensure"
      BY DEF Ensure
    <3> QED
      BY <2>1, <2>4, <3>1, SwapLeaves
  <2>5. CASE Mint(t) \/ Load(t)
    <3>1. epoch' = epoch
      BY <2>5 DEF Mint, Load, session
    <3> QED
      BY <1>0, <2>1, <2>5, <3>1, StartLeaves
  <2>6. CASE Reread(t)
    BY <2>1, <2>6, RereadLeaves
  <2>7. CASE Boundary(t)
    BY <2>1, <2>7, BoundaryLeaves
  <2> QED
    BY <1>2, <2>2, <2>3, <2>4, <2>5, <2>6, <2>7 DEF Act
<1> QED
  BY <1>1, <1>2 DEF Next

LEMMA InitPlaced == Init => Placed
BY DEF Init, Placed, Idle

(* Types of the session, the log, the files and the commands under way,    *)
(* for any number of threads, directories and parts of the MIDI.           *)
THEOREM Types == Spec => []TypeOK
<1>1. Init => TypeOK /\ Placed
  BY InitTypes, InitPlaced
<1>2. (TypeOK /\ Placed) /\ [Next]_vars => (TypeOK /\ Placed)'
  BY StepTypes, StepPlaced
<1> QED
  BY <1>1, <1>2, PTL DEF Spec

----------------------------------------------------------------------------
(* SongIsItsOwn.  It is not inductive: what a command is about to write    *)
(* must be of the directory it writes, and a birth that was not overtaken  *)
(* must find the session still unsaved.                                    *)
WritesHome(t) ==
  (thread[t].pc = "song" \/ (thread[t].pc = "boundary" /\ thread[t].job = "saveAs")) =>
    thread[t].take.song.of \in {NoDir, thread[t].to}

BirthIsFirst(t) ==
  (thread[t].pc = "swap" /\ thread[t].job \in {"saveAs", "ensure"} /\ thread[t].at = epoch) => dir = NoDir

SongsHome ==
  /\ doc.song.of \in {NoDir, dir}
  /\ \A d \in Dirs : disk[d].song.of \in {NoDir, d}
  /\ \A t \in Threads : WritesHome(t) /\ BirthIsFirst(t)

IInv == TypeOK /\ Placed /\ ("overlap" \notin mishaps => SongsHome)

LEMMA InitHome == Init => IInv
<1> SUFFICES ASSUME Init PROVE SongsHome
  BY InitTypes, InitPlaced DEF IInv
<1>1. doc.song.of = NoDir
  BY DEF Init, BlankDocument, Blank
<1>2. ASSUME NEW d \in Dirs PROVE disk[d].song.of \in {NoDir, d}
  BY DEF Init, Blank, Old
<1>3. ASSUME NEW t \in Threads PROVE thread[t].pc = "idle"
  BY DEF Init, Idle
<1> QED
  BY <1>1, <1>2, <1>3 DEF SongsHome, WritesHome, BirthIsFirst

(* The steps of one thread leave the others' commands in order, if a swap  *)
(* moves the epoch.                                                        *)
LEMMA OthersHome ==
  ASSUME TypeOK, Placed, SongsHome, NEW t \in Threads, Others(t),
         (epoch' = epoch /\ dir' = dir) \/ epoch' = epoch + 1,
         NEW u \in Threads \ {t}
  PROVE  WritesHome(u)' /\ BirthIsFirst(u)'
<1>1. thread'[u] = thread[u]
  BY DEF Others
<1>2. WritesHome(u)'
  BY <1>1 DEF SongsHome, WritesHome
<1>3. BirthIsFirst(u)'
  <2>1. CASE epoch' = epoch /\ dir' = dir
    BY <1>1, <2>1 DEF SongsHome, BirthIsFirst
  <2>2. CASE epoch' = epoch + 1
    <3>1. epoch \in Nat /\ thread[u].at \in Nat
      BY ThreadTyped DEF TypeOK
    <3>2. thread[u].pc = "swap" => thread[u].at <= epoch
      BY DEF Placed
    <3>3. thread[u].pc = "swap" => thread'[u].at # epoch'
      BY <1>1, <2>2, <3>1, <3>2
    <3> QED
      BY <1>1, <3>3 DEF BirthIsFirst
  <2> QED
    BY <2>1, <2>2
<1> QED
  BY <1>2, <1>3

(* A step that leaves its own command harmless. *)
LEMMA HomeKept ==
  ASSUME TypeOK, Placed, SongsHome, NEW t \in Threads, Others(t),
         (epoch' = epoch /\ dir' = dir) \/ epoch' = epoch + 1,
         WritesHome(t)', BirthIsFirst(t)',
         doc'.song.of \in {NoDir, dir'},
         \A d \in Dirs : disk'[d].song.of \in {NoDir, d}
  PROVE  SongsHome'
BY OthersHome DEF SongsHome

LEMMA StepsHome ==
  ASSUME TypeOK, Placed, SongsHome, NEW t \in Threads, Act(t), "overlap" \notin mishaps'
  PROVE  SongsHome'
<1>0. /\ doc.song.of \in {NoDir, dir} /\ \A d \in Dirs : disk[d].song.of \in {NoDir, d}
      /\ WritesHome(t) /\ BirthIsFirst(t)
  BY DEF SongsHome
<1>1. CASE Edit(t)
  <2>1. doc'.song.of \in {NoDir, dir'}
    <3> PICK p \in {"song"} \cup MidiParts :
           LET c == [by |-> rev + 1, of |-> dir] IN
             doc' = IF p = "song" THEN [doc EXCEPT !.song = c] ELSE [doc EXCEPT !.midi[p] = c]
      BY <1>1 DEF Edit
    <3>1. doc'.song.of \in {NoDir, dir}
      BY <1>0 DEF TypeOK, Document
    <3> QED
      BY <1>1, <3>1 DEF Edit
  <2> QED
    BY <1>0, <1>1, <2>1, HarmlessSteps, HomeKept DEF Edit, WritesHome, BirthIsFirst, Harmless
<1>2. CASE WriteSong(t)
  <2>1. \A d \in Dirs : disk'[d].song.of \in {NoDir, d}
    <3>1. thread[t].take.song.of \in {NoDir, thread[t].to}
      BY <1>0, <1>2 DEF WriteSong, WritesHome
    <3>2. disk' = [disk EXCEPT ![thread[t].to].song = thread[t].take.song]
      BY <1>2 DEF WriteSong
    <3> QED
      BY <1>0, <3>1, <3>2 DEF TypeOK, Files
  <2> QED
    BY <1>0, <1>2, <2>1, HarmlessSteps, HomeKept DEF WriteSong, WritesHome, BirthIsFirst, Harmless, session
<1>3. CASE WriteMidi(t) \/ Upgrade(t)
  <2>1. PICK m : disk' = [disk EXCEPT ![thread[t].to].midi = m]
    BY <1>3 DEF WriteMidi, Upgrade
  <2>2. \A d \in Dirs : disk'[d].song = disk[d].song
    BY <2>1 DEF TypeOK, Files
  <2> QED
    BY <1>0, <1>3, <2>2, HarmlessSteps, HomeKept
    DEF WriteMidi, Upgrade, WritesHome, BirthIsFirst, Harmless, session
<1>4. CASE \/ Skip(t) \/ Record(t) \/ SongFails(t) \/ MidiFails(t) \/ Settle(t) \/ UpgradeFails(t) \/ Line(t)
  <2>1. doc' = doc /\ disk' = disk /\ epoch' = epoch /\ dir' = dir
    BY <1>4 DEF Skip, Record, SongFails, MidiFails, Settle, UpgradeFails, Line, session
  <2> QED
    BY <1>0, <1>4, <2>1, HarmlessSteps, HomeKept DEF WritesHome, BirthIsFirst, Harmless
<1>5. CASE Snapshot(t) \/ Mark(t)
  <2>1. doc' = doc /\ disk' = disk /\ epoch' = epoch /\ dir' = dir
    BY <1>5 DEF Snapshot, Mark, session
  <2> QED
    BY <1>0, <1>5, <2>1, SnapshotLeaves, HomeKept DEF WritesHome, BirthIsFirst
<1>6. CASE SaveAs(t)
  <2>1. doc' = Adopted(thread[t].to) /\ disk' = disk
    BY <1>6 DEF SaveAs, Swap
  <2>2. Adopted(thread[t].to).song.of \in {NoDir, thread[t].to}
    BY DocTyped DEF Adopted, Belongs, Blank, Content
  <2> QED
    BY <1>0, <1>6, <2>1, <2>2, SwapLeaves, HomeKept DEF WritesHome, BirthIsFirst, SaveAs, Ensure
<1>7. CASE Ensure(t)
  <2>1. ~Overtaken(t)
    BY <1>7 DEF Ensure, Overlap, Happens
  <2>2. dir = NoDir
    BY <1>0, <1>7, <2>1 DEF Ensure, Overtaken, BirthIsFirst
  <2>3. doc' = doc /\ disk' = disk
    BY <1>7 DEF Ensure, Swap
  <2> QED
    BY <1>0, <1>7, <2>2, <2>3, SwapLeaves, HomeKept DEF WritesHome, BirthIsFirst
<1>8. CASE Create(t)
  <2>1. doc'.song.of = NoDir /\ disk' = disk
    BY <1>8 DEF Create, Swap, Blank
  <2> QED
    BY <1>0, <1>8, <2>1, SwapLeaves, HomeKept DEF WritesHome, BirthIsFirst, Create, Ensure
<1>9. CASE Open(t)
  <2> DEFINE d == thread[t].to
  <2>1. thread[t].take.song = disk[d].song /\ disk' = disk
    BY <1>9 DEF Open
  <2>2. d \in Dirs
    BY <1>9 DEF Open, Placed
  <2>3. doc'.song = thread[t].take.song
    BY <1>9 DEF Open, Swap
  <2>4. doc'.song.of \in {NoDir, d} /\ d = thread[t].to
    BY <1>0, <2>1, <2>2, <2>3
  <2> HIDE DEF d
  <2> QED
    BY <1>0, <1>9, <2>1, <2>4, SwapLeaves, HomeKept DEF WritesHome, BirthIsFirst, Open, Ensure
<1>10. CASE Mint(t) \/ Load(t)
  <2>1. doc' = doc /\ epoch' = epoch /\ dir' = dir
    BY <1>10 DEF Mint, Load, session
  <2>2. \A d \in Dirs : disk'[d].song.of \in {NoDir, d}
    <3>1. CASE Mint(t)
      <4> PICK d \in Dirs : disk' = [disk EXCEPT ![d] = Fresh]
        BY <3>1 DEF Mint
      <4>1. Fresh.song.of = NoDir
        BY DEF Fresh, Missing, Blank
      <4> QED
        BY <1>0, <4>1 DEF TypeOK
    <3>2. CASE Load(t)
      BY <1>0, <3>2 DEF Load
    <3> QED
      BY <1>10, <3>1, <3>2
  <2> QED
    BY <1>0, <1>10, <2>1, <2>2, StartLeaves, HomeKept DEF WritesHome, BirthIsFirst
<1>11. CASE Reread(t)
  <2>1. doc' = doc /\ disk' = disk /\ epoch' = epoch /\ dir' = dir
    BY <1>11 DEF Reread, session
  <2>2. thread[t].job = "ensure"
    BY <1>11 DEF Reread, Placed
  <2> QED
    BY <1>0, <1>11, <2>1, <2>2, RereadLeaves, HomeKept DEF WritesHome, BirthIsFirst
<1>12. CASE Boundary(t)
  <2>1. doc' = doc /\ disk' = disk /\ epoch' = epoch /\ dir' = dir
    BY <1>12 DEF Boundary, session
  <2> QED
    BY <1>0, <1>12, <2>1, BoundaryLeaves, HomeKept DEF WritesHome, BirthIsFirst
<1> QED
  BY <1>1, <1>2, <1>3, <1>4, <1>5, <1>6, <1>7, <1>8, <1>9, <1>10, <1>11, <1>12 DEF Act

LEMMA MishapsGrow ==
  ASSUME NEW t \in Threads, Act(t)
  PROVE  mishaps \subseteq mishaps'
BY DEF Act, Edit, Skip, Snapshot, Record, WriteSong, SongFails, WriteMidi, MidiFails, Settle,
       Upgrade, UpgradeFails, Line, Mark, SaveAs, Mint, Ensure, Reread, Create, Load, Open, Boundary,
       Happens, Overlap

(* No project.json ever holds another project's song, and the open song is *)
(* the open project's, unless document swaps overlapped.                   *)
THEOREM SongsStayHome == Spec => []SongIsItsOwn
<1>1. IInv /\ [Next]_vars => IInv'
  <2> SUFFICES ASSUME IInv, [Next]_vars PROVE IInv'
    OBVIOUS
  <2>1. TypeOK' /\ Placed'
    BY StepTypes, StepPlaced DEF IInv
  <2>2. CASE UNCHANGED vars
    <3>1. SongsHome => SongsHome'
      BY <2>2 DEF vars, session, SongsHome, WritesHome, BirthIsFirst
    <3> QED
      BY <2>1, <2>2, <3>1 DEF IInv, vars
  <2>3. ASSUME NEW t \in Threads, Act(t) PROVE IInv'
    BY <2>1, <2>3, StepsHome, MishapsGrow DEF IInv
  <2> QED
    BY <2>2, <2>3 DEF Next
<1>2. IInv => SongIsItsOwn
  BY DEF IInv, SongsHome, SongIsItsOwn
<1> QED
  BY InitHome, <1>1, <1>2, PTL DEF Spec
----------------------------------------------------------------------------
(* The command of a step's thread after the step, field by field.          *)
Same(t) ==
  /\ thread'[t].job = thread[t].job /\ thread'[t].part = thread[t].part
  /\ thread'[t].rev = thread[t].rev /\ thread'[t].at = thread[t].at

Carries(t) == Same(t) /\ thread'[t].to = thread[t].to /\ thread'[t].take = thread[t].take

LEMMA AfterGoto ==
  ASSUME TypeOK, NEW t \in Threads, NEW l, Goto(t, l)
  PROVE  Others(t) /\ Carries(t) /\ thread'[t].pc = l /\ thread'[t].ok = thread[t].ok
<1> DEFINE c == [thread[t] EXCEPT !.pc = l]
<1>1. /\ c.pc = l /\ c.job = thread[t].job /\ c.part = thread[t].part /\ c.rev = thread[t].rev
      /\ c.at = thread[t].at /\ c.to = thread[t].to /\ c.take = thread[t].take
      /\ c.ok = thread[t].ok
  BY ThreadTyped DEF Command
<1>2. Becomes(t, c)
  BY DEF Goto
<1> HIDE DEF c
<1> QED
  BY <1>1, <1>2, Own DEF Others, Carries, Same

LEMMA AfterFinish ==
  ASSUME TypeOK, NEW t \in Threads, Finish(t)
  PROVE  Others(t) /\ thread'[t] = Idle
BY Own DEF Finish, Others

LEMMA AfterToRecord ==
  ASSUME TypeOK, NEW t \in Threads, ToRecord(t)
  PROVE  /\ Others(t) /\ Same(t) /\ thread'[t].pc = "record"
         /\ thread'[t].to = NoDir /\ thread'[t].take = BlankDocument
<1> DEFINE c == [thread[t] EXCEPT !.pc = "record", !.to = NoDir, !.take = BlankDocument,
                                   !.midi = FALSE, !.ok = TRUE]
<1>1. /\ c.pc = "record" /\ c.job = thread[t].job /\ c.part = thread[t].part
      /\ c.rev = thread[t].rev /\ c.at = thread[t].at /\ c.to = NoDir /\ c.take = BlankDocument
  BY ThreadTyped DEF Command
<1>2. Becomes(t, c)
  BY DEF ToRecord
<1> HIDE DEF c
<1> QED
  BY <1>1, <1>2, Own DEF Others, Same

LEMMA AfterEdit ==
  ASSUME TypeOK, NEW t \in Threads, Edit(t)
  PROVE  /\ Others(t) /\ thread'[t].pc = "persist" /\ thread'[t].job = "commit"
         /\ thread'[t].rev = rev + 1 /\ thread'[t].at = epoch /\ thread'[t].to = NoDir
         /\ thread'[t].take = BlankDocument
         /\ \/ /\ thread'[t].part = "song" /\ doc'.song = [by |-> rev + 1, of |-> dir]
               /\ doc'.midi = doc.midi /\ mishaps' = mishaps
            \/ /\ thread'[t].part # "song" /\ doc'.song = doc.song
               /\ thread'[t].part \in MidiParts
               /\ \A p \in MidiParts :
                    doc'.midi[p] = IF p = thread'[t].part THEN [by |-> rev + 1, of |-> dir]
                                   ELSE doc.midi[p]
               /\ dir \notin {NoDir, loaded} => "unbound" \in mishaps'
               /\ mishaps \subseteq mishaps'
<1> PICK p \in {"song"} \cup MidiParts :
       /\ LET c == [by |-> rev + 1, of |-> dir] IN
            doc' = IF p = "song" THEN [doc EXCEPT !.song = c] ELSE [doc EXCEPT !.midi[p] = c]
       /\ Becomes(t, [Idle EXCEPT !.pc = "persist", !.job = "commit", !.part = p,
                        !.rev = rev + 1, !.at = epoch])
       /\ Happens(p # "song" /\ dir \notin {NoDir, loaded}, "unbound")
  BY DEF Edit
<1> DEFINE c == [Idle EXCEPT !.pc = "persist", !.job = "commit", !.part = p,
                   !.rev = rev + 1, !.at = epoch]
<1>1. /\ c.pc = "persist" /\ c.job = "commit" /\ c.part = p /\ c.rev = rev + 1 /\ c.at = epoch
      /\ c.to = NoDir /\ c.take = BlankDocument
  BY DEF Idle
<1> HIDE DEF c
<1>2. thread'[t] = c /\ Others(t)
  BY Own DEF c, Others
<1>3. CASE p = "song"
  BY <1>1, <1>2, <1>3, DocTyped DEF TypeOK, Document, Happens
<1>4. CASE p # "song"
  <2>1. doc' = [doc EXCEPT !.midi[p] = [by |-> rev + 1, of |-> dir]] /\ p \in MidiParts
    BY <1>4
  <2>2. doc'.song = doc.song /\ doc'.midi = [doc.midi EXCEPT ![p] = [by |-> rev + 1, of |-> dir]]
    BY <2>1 DEF TypeOK, Document
  <2> QED
    BY <1>1, <1>2, <1>4, <2>1, <2>2, DocTyped DEF Midi, Happens
<1> QED
  BY <1>3, <1>4

LEMMA AfterSnapshot ==
  ASSUME TypeOK, NEW t \in Threads, Snapshot(t)
  PROVE  /\ Others(t) /\ Same(t) /\ thread'[t].to = dir /\ thread'[t].take = doc
         /\ thread'[t].pc = IF thread[t].part = "song" THEN "song" ELSE "midi"
<1> DEFINE m == thread[t].part # "song"
           c == [thread[t] EXCEPT !.pc = IF m THEN "midi" ELSE "song", !.to = dir,
                                  !.take = doc, !.midi = m]
<1>1. /\ c.pc = (IF m THEN "midi" ELSE "song") /\ c.job = thread[t].job /\ c.part = thread[t].part
      /\ c.rev = thread[t].rev /\ c.at = thread[t].at /\ c.to = dir /\ c.take = doc
  <2> HIDE DEF m
  <2> QED
    BY ThreadTyped DEF Command
<1>2. Becomes(t, c)
  BY DEF Snapshot
<1> HIDE DEF c
<1> QED
  BY <1>1, <1>2, Own DEF Others, Same

LEMMA AfterMark ==
  ASSUME TypeOK, NEW t \in Threads, Mark(t)
  PROVE  /\ Others(t) /\ thread'[t].pc = "song" /\ thread'[t].job = "mark" /\ thread'[t].at = epoch
         /\ thread'[t].to = dir /\ thread'[t].take = doc
<1> DEFINE c == [Idle EXCEPT !.pc = "song", !.job = "mark", !.at = epoch, !.to = dir,
                   !.take = doc, !.midi = dirty]
<1>1. c.pc = "song" /\ c.job = "mark" /\ c.at = epoch /\ c.to = dir /\ c.take = doc
  BY DEF Idle
<1>2. Becomes(t, c)
  BY DEF Mark
<1> HIDE DEF c
<1> QED
  BY <1>1, <1>2, Own DEF Others

LEMMA AfterMidiFails ==
  ASSUME TypeOK, NEW t \in Threads, MidiFails(t)
  PROVE  Others(t) /\ Carries(t) /\ thread'[t].pc = "settle" /\ thread'[t].ok = FALSE
<1> DEFINE c == [thread[t] EXCEPT !.pc = "settle", !.ok = FALSE]
<1>1. /\ c.pc = "settle" /\ c.ok = FALSE /\ c.job = thread[t].job /\ c.part = thread[t].part
      /\ c.rev = thread[t].rev /\ c.at = thread[t].at /\ c.to = thread[t].to
      /\ c.take = thread[t].take
  BY ThreadTyped DEF Command
<1>2. Becomes(t, c)
  BY DEF MidiFails
<1> HIDE DEF c
<1> QED
  BY <1>1, <1>2, Own DEF Others, Carries, Same

LEMMA AfterSettle ==
  ASSUME TypeOK, NEW t \in Threads, Settle(t)
  PROVE  /\ thread[t].job = "commit" => ToRecord(t) /\ gate' = Nobody
         /\ thread[t].job # "commit" => /\ Others(t) /\ Carries(t) /\ thread'[t].pc = "upgrade"
                                        /\ gate' = gate
<1> DEFINE clean == thread[t].ok /\ doc.midi = thread[t].take.midi
           c == [thread[t] EXCEPT !.pc = "upgrade", !.ok = clean]
<1>1. /\ c.pc = "upgrade" /\ c.job = thread[t].job /\ c.part = thread[t].part
      /\ c.rev = thread[t].rev /\ c.at = thread[t].at /\ c.to = thread[t].to
      /\ c.take = thread[t].take
  <2> HIDE DEF clean
  <2> QED
    BY ThreadTyped DEF Command
<1>2. CASE thread[t].job = "commit"
  BY <1>2 DEF Settle, Done, Release
<1>3. CASE thread[t].job # "commit"
  <2>1. Becomes(t, c) /\ gate' = gate
    BY <1>3 DEF Settle
  <2> HIDE DEF c
  <2> QED
    BY <1>1, <1>3, <2>1, Own DEF Others, Carries, Same
<1> QED
  BY <1>2, <1>3

LEMMA AfterMint ==
  ASSUME TypeOK, NEW t \in Threads, Mint(t)
  PROVE  /\ Others(t) /\ thread'[t].pc = "swap" /\ thread'[t].at = epoch
         /\ thread'[t].job \in {"saveAs", "ensure", "create"}
         /\ thread'[t].to \in Dirs /\ thread'[t].take = BlankDocument
         /\ ~disk[thread'[t].to].made /\ disk' = [disk EXCEPT ![thread'[t].to] = Fresh]
<1> DEFINE c(j, d) == [Idle EXCEPT !.pc = "swap", !.job = j, !.at = epoch, !.to = d]
<1>1. \A j, d : /\ c(j, d).pc = "swap" /\ c(j, d).job = j /\ c(j, d).at = epoch /\ c(j, d).to = d
                /\ c(j, d).take = BlankDocument
  BY DEF Idle
<1>2. PICK j \in {"saveAs", "ensure", "create"}, d \in Dirs :
        /\ ~disk[d].made /\ disk' = [disk EXCEPT ![d] = Fresh] /\ Becomes(t, c(j, d))
  BY DEF Mint
<1> HIDE DEF c
<1>3. thread'[t] = c(j, d) /\ Others(t)
  BY <1>2, Own DEF Others
<1>4. /\ thread'[t].pc = "swap" /\ thread'[t].job = j /\ thread'[t].at = epoch
      /\ thread'[t].to = d /\ thread'[t].take = BlankDocument
  BY <1>1, <1>3
<1> QED
  BY <1>2, <1>3, <1>4

LEMMA AfterLoad ==
  ASSUME TypeOK, NEW t \in Threads, Load(t)
  PROVE  /\ Others(t) /\ thread'[t].pc = "swap" /\ thread'[t].at = epoch /\ thread'[t].job = "open"
         /\ thread'[t].to \in Dirs /\ disk[thread'[t].to].made
         /\ thread'[t].take.midi = BlankMidi
<1> DEFINE c(s, d) == [Idle EXCEPT !.pc = "swap", !.job = "open", !.at = epoch, !.to = d,
                         !.take.song = s]
<1>1. \A s, d : /\ c(s, d).pc = "swap" /\ c(s, d).job = "open" /\ c(s, d).at = epoch /\ c(s, d).to = d
                /\ c(s, d).take.midi = BlankMidi
  BY DEF Idle, BlankDocument
<1>2. PICK d \in Dirs : disk[d].made /\ Becomes(t, c(disk[d].song, d))
  BY DEF Load
<1> HIDE DEF c
<1> QED
  BY <1>1, <1>2, Own DEF Others

LEMMA AfterSwap ==
  ASSUME TypeOK, NEW t \in Threads, SaveAs(t) \/ Ensure(t) \/ Create(t) \/ Open(t)
  PROVE  /\ Others(t) /\ thread'[t].at = epoch + 1
         /\ thread[t].pc = "swap" /\ thread'[t].job = thread[t].job
         /\ thread'[t].to = thread[t].to
         /\ epoch' = epoch + 1 /\ dir' = thread[t].to
         /\ thread'[t].pc = IF Ensure(t) THEN "reread" ELSE "boundary"
         /\ thread'[t].take = IF SaveAs(t) THEN doc' ELSE thread[t].take
<1> DEFINE b == [thread[t] EXCEPT !.pc = "boundary", !.at = epoch + 1]
           r == [thread[t] EXCEPT !.pc = "reread", !.at = epoch + 1]
           a(d) == [thread[t] EXCEPT !.pc = "boundary", !.at = epoch + 1, !.take = d, !.midi = TRUE]
<1>1. /\ b.pc = "boundary" /\ b.to = thread[t].to /\ b.job = thread[t].job /\ b.at = epoch + 1
      /\ b.take = thread[t].take
      /\ r.pc = "reread" /\ r.to = thread[t].to /\ r.job = thread[t].job /\ r.at = epoch + 1
      /\ r.take = thread[t].take
      /\ \A d : /\ a(d).pc = "boundary" /\ a(d).to = thread[t].to /\ a(d).job = thread[t].job
                /\ a(d).take = d /\ a(d).at = epoch + 1
  BY ThreadTyped DEF Command
<1>2. CASE SaveAs(t)
  <2>1. /\ ~Ensure(t) /\ Becomes(t, a(Adopted(thread[t].to)))
        /\ Swap(thread[t].to, Adopted(thread[t].to)) /\ thread[t].pc = "swap"
    BY <1>2 DEF SaveAs, Ensure
  <2> HIDE DEF a, b, r
  <2> QED
    BY <1>1, <1>2, <2>1, Own DEF Others, Swap
<1>3. CASE Ensure(t)
  <2>1. Becomes(t, r) /\ Swap(thread[t].to, doc) /\ ~SaveAs(t) /\ thread[t].pc = "swap"
    BY <1>3 DEF Ensure, SaveAs
  <2> HIDE DEF a, b, r
  <2> QED
    BY <1>1, <1>3, <2>1, Own DEF Others, Swap
<1>4. CASE Create(t) \/ Open(t)
  <2>1. /\ Becomes(t, b) /\ ~SaveAs(t) /\ ~Ensure(t) /\ \E new : Swap(thread[t].to, new)
        /\ thread[t].pc = "swap"
    BY <1>4 DEF Create, Open, SaveAs, Ensure
  <2> HIDE DEF a, b, r
  <2> QED
    BY <1>1, <2>1, Own DEF Others, Swap
<1> QED
  BY <1>2, <1>3, <1>4

LEMMA AfterReread ==
  ASSUME TypeOK, NEW t \in Threads, Reread(t)
  PROVE  /\ Others(t) /\ thread[t].pc = "reread" /\ thread'[t].pc = "boundary"
         /\ thread'[t].at = epoch /\ thread'[t].job = thread[t].job /\ thread'[t].to = thread[t].to
         /\ thread'[t].take = thread[t].take
<1> DEFINE c == [thread[t] EXCEPT !.pc = "boundary", !.at = epoch]
<1>1. /\ c.pc = "boundary" /\ c.at = epoch /\ c.job = thread[t].job /\ c.to = thread[t].to
      /\ c.take = thread[t].take
  BY ThreadTyped DEF Command
<1>2. Becomes(t, c) /\ thread[t].pc = "reread"
  BY DEF Reread
<1> HIDE DEF c
<1> QED
  BY <1>1, <1>2, Own DEF Others

----------------------------------------------------------------------------
(* The gate is held by who writes.  A save under a new name takes it with  *)
(* its swap, before the log follows.                                       *)
Writes(t) ==
  \/ thread[t].pc \in {"song", "midi", "settle", "upgrade", "line"}
  \/ thread[t].pc = "boundary" /\ thread[t].job = "saveAs"

Fit(t) ==
  LET pc == thread[t].pc  job == thread[t].job IN
  /\ pc \in {"persist", "record"} <=> job = "commit" /\ ~Writes(t)
  /\ pc = "line" => job = "mark"
  /\ job = "mark" => Writes(t)
  /\ pc = "upgrade" => job \in {"mark", "saveAs"}
  /\ pc \in {"song", "midi", "settle"} => job \in {"commit", "mark", "saveAs"}
  /\ pc \in {"swap", "boundary"} => job \in {"saveAs", "ensure", "create", "open"}
  /\ pc = "reread" => job = "ensure"

Gated == \A t \in Threads : (Writes(t) <=> gate = t) /\ Fit(t)

LEMMA GateStep ==
  ASSUME Gated, NEW t \in Threads, Others(t), Fit(t)',
         \/ gate' = gate /\ (Writes(t)' <=> Writes(t))
         \/ gate = Nobody /\ gate' = t /\ Writes(t)'
         \/ gate' = Nobody /\ Writes(t) /\ ~Writes(t)'
  PROVE  Gated'
<1> SUFFICES ASSUME NEW u \in Threads PROVE (Writes(u)' <=> gate' = u) /\ Fit(u)'
  BY DEF Gated
<1>1. u # Nobody /\ t # Nobody
  BY ThreadsAssumption
<1>2. CASE u = t
  BY <1>1, <1>2 DEF Gated
<1>3. CASE u # t
  <2>1. thread'[u] = thread[u]
    BY <1>3 DEF Others
  <2>2. (Writes(u)' <=> Writes(u)) /\ (Fit(u)' <=> Fit(u))
    BY <2>1 DEF Writes, Fit
  <2> QED
    BY <1>1, <1>3, <2>2 DEF Gated
<1> QED
  BY <1>2, <1>3

LEMMA StepsGated ==
  ASSUME TypeOK, Gated, NEW t \in Threads, Act(t)
  PROVE  Gated'
<1> USE DEF Fit, Writes
<1>0. Fit(t) /\ (Writes(t) <=> gate = t)
  BY DEF Gated
<1>1. CASE Edit(t)
  BY <1>1, <1>0, AfterEdit, GateStep DEF Edit
<1>2. CASE Skip(t)
  BY <1>2, <1>0, AfterGoto, GateStep DEF Skip, Carries, Same
<1>3. CASE Snapshot(t)
  BY <1>3, <1>0, AfterSnapshot, GateStep DEF Snapshot, Same
<1>4. CASE Record(t)
  BY <1>4, <1>0, AfterFinish, GateStep DEF Record, Idle
<1>5. CASE WriteSong(t)
  <2>1. CASE thread[t].job = "commit"
    BY <1>5, <1>0, <2>1, AfterToRecord, GateStep DEF WriteSong, Done, Release, Same
  <2>2. CASE thread[t].job # "commit"
    BY <1>5, <1>0, <2>2, AfterGoto, GateStep DEF WriteSong, Carries, Same
  <2> QED
    BY <2>1, <2>2
<1>6. CASE SongFails(t)
  <2>1. CASE thread[t].job = "commit"
    BY <1>6, <1>0, <2>1, AfterToRecord, GateStep DEF SongFails, Done, Release, Same
  <2>2. CASE thread[t].job # "commit"
    BY <1>6, <1>0, <2>2, AfterFinish, GateStep DEF SongFails, Release, Idle
  <2> QED
    BY <2>1, <2>2
<1>7. CASE WriteMidi(t)
  BY <1>7, <1>0, AfterGoto, GateStep DEF WriteMidi, Carries, Same
<1>8. CASE MidiFails(t)
  BY <1>8, <1>0, AfterMidiFails, GateStep DEF MidiFails, Carries, Same
<1>9. CASE Settle(t)
  BY <1>9, <1>0, AfterSettle, AfterToRecord, GateStep DEF Settle, Carries, Same
<1>10. CASE Upgrade(t)
  <2>1. CASE thread[t].job = "mark"
    BY <1>10, <1>0, <2>1, AfterGoto, GateStep DEF Upgrade, Carries, Same
  <2>2. CASE thread[t].job # "mark"
    BY <1>10, <1>0, <2>2, AfterFinish, GateStep DEF Upgrade, Release, Idle
  <2> QED
    BY <2>1, <2>2
<1>11. CASE UpgradeFails(t) \/ Line(t)
  BY <1>11, <1>0, AfterFinish, GateStep DEF UpgradeFails, Line, Release, Idle
<1>12. CASE Mark(t)
  BY <1>12, <1>0, AfterMark, GateStep DEF Mark
<1>13. CASE SaveAs(t)
  BY <1>13, <1>0, AfterSwap, GateStep DEF SaveAs, Ensure
<1>14. CASE Ensure(t)
  BY <1>14, <1>0, AfterSwap, GateStep DEF Ensure
<1>15. CASE Create(t) \/ Open(t)
  BY <1>15, <1>0, AfterSwap, GateStep DEF Create, Open, Ensure, SaveAs
<1>16. CASE Mint(t)
  BY <1>16, <1>0, AfterMint, GateStep DEF Mint
<1>17. CASE Load(t)
  BY <1>17, <1>0, AfterLoad, GateStep DEF Load
<1>18. CASE Reread(t)
  BY <1>18, <1>0, AfterReread, GateStep DEF Reread
<1>19. CASE Boundary(t)
  <2>1. CASE thread[t].job = "saveAs"
    BY <1>19, <1>0, <2>1, AfterGoto, GateStep DEF Boundary, Carries, Same
  <2>2. CASE thread[t].job # "saveAs"
    BY <1>19, <1>0, <2>2, AfterFinish, GateStep DEF Boundary, Idle
  <2> QED
    BY <2>1, <2>2
<1> QED
  BY <1>1, <1>2, <1>3, <1>4, <1>5, <1>6, <1>7, <1>8, <1>9, <1>10, <1>11, <1>12, <1>13, <1>14,
     <1>15, <1>16, <1>17, <1>18, <1>19 DEF Act

----------------------------------------------------------------------------
(* Where the session, the commands and what they hold belong is there.     *)
MadeHomes == {NoDir} \cup {d \in Dirs : disk[d].made}

AllOf(m, H) == \A p \in MidiParts : m[p].of \in H

Standing ==
  /\ dir \in MadeHomes /\ loaded \in MadeHomes /\ AllOf(doc.midi, MadeHomes)
  /\ \A t \in Threads :
       /\ thread[t].to \in MadeHomes /\ AllOf(thread[t].take.midi, MadeHomes)
       /\ Writes(t) \/ thread[t].pc \in {"swap", "reread", "boundary"} => thread[t].to \in Dirs
  /\ \A d \in Dirs :
       /\ ~disk[d].made => disk[d] = Missing
       /\ disk[d].midi # NoMidi => AllOf(disk[d].midi, MadeHomes)

LEMMA BlankAnywhere == AllOf(BlankMidi, MadeHomes)
BY DEF AllOf, BlankMidi, Blank, MadeHomes

(* What is written where. *)
LEMMA AfterWrites ==
  ASSUME TypeOK, NEW t \in Threads, Act(t)
  PROVE  \/ disk' = disk
         \/ WriteSong(t) /\ disk' = [disk EXCEPT ![thread[t].to].song = thread[t].take.song]
         \/ WriteMidi(t) /\ disk' = [disk EXCEPT ![thread[t].to].midi = thread[t].take.midi]
         \/ Upgrade(t) /\ disk' = [disk EXCEPT ![thread[t].to].midi = IF @ = NoMidi THEN BlankMidi ELSE @]
         \/ Mint(t) /\ ~disk[thread'[t].to].made /\ disk' = [disk EXCEPT ![thread'[t].to] = Fresh]
BY AfterMint DEF Act, Edit, Skip, Snapshot, Record, WriteSong, SongFails, WriteMidi, MidiFails, Settle,
       Upgrade, UpgradeFails, Line, Mark, SaveAs, Ensure, Reread, Create, Load, Open, Boundary

LEMMA MadeStays ==
  ASSUME TypeOK, NEW t \in Threads, Act(t)
  PROVE  MadeHomes \subseteq MadeHomes'
<1> SUFFICES ASSUME NEW d \in Dirs, disk[d].made PROVE disk'[d].made
  BY DEF MadeHomes
<1>1. ASSUME NEW e, NEW f, disk' = [disk EXCEPT ![e].song = f] PROVE disk'[d].made
  BY <1>1 DEF TypeOK, Files
<1>2. ASSUME NEW e, NEW f, disk' = [disk EXCEPT ![e].midi = f] PROVE disk'[d].made
  BY <1>2 DEF TypeOK, Files
<1>3. ASSUME NEW e, disk' = [disk EXCEPT ![e] = Fresh] PROVE disk'[d].made
  BY <1>3 DEF TypeOK, Files, Fresh, Missing
<1> QED
  BY <1>1, <1>2, <1>3, AfterWrites

(* The directories' part, whatever the step. *)
LEMMA FilesStand ==
  ASSUME TypeOK, Standing, NEW t \in Threads, Act(t), NEW d \in Dirs
  PROVE  /\ ~disk'[d].made => disk'[d] = Missing
         /\ disk'[d].midi # NoMidi => AllOf(disk'[d].midi, MadeHomes')
<1>0. /\ ~disk[d].made => disk[d] = Missing
      /\ disk[d].midi # NoMidi => AllOf(disk[d].midi, MadeHomes)
      /\ AllOf(thread[t].take.midi, MadeHomes) /\ thread[t].to \in MadeHomes
      /\ disk \in [Dirs -> Files]
  BY DEF Standing, TypeOK
<1>1. \A m : AllOf(m, MadeHomes) => AllOf(m, MadeHomes')
  BY MadeStays DEF AllOf
<1>2. CASE disk' = disk
  <2>1. disk'[d] = disk[d]
    BY <1>2
  <2> QED
    BY <1>0, <1>1, <2>1
<1>3. CASE WriteSong(t) /\ disk' = [disk EXCEPT ![thread[t].to].song = thread[t].take.song]
  <2>1. /\ disk'[d].made = disk[d].made /\ disk'[d].midi = disk[d].midi
        /\ d # thread[t].to => disk'[d] = disk[d]
    BY <1>0, <1>3 DEF Files
  <2>2. d = thread[t].to => disk[d].made
    BY <1>0, <1>3, DirsAssumption DEF MadeHomes
  <2> QED
    BY <1>0, <1>1, <2>1, <2>2
<1>4. CASE WriteMidi(t) /\ disk' = [disk EXCEPT ![thread[t].to].midi = thread[t].take.midi]
  <2>1. /\ disk'[d].made = disk[d].made
        /\ d = thread[t].to => disk'[d].midi = thread[t].take.midi
        /\ d # thread[t].to => disk'[d] = disk[d]
    BY <1>0, <1>4 DEF Files
  <2>2. d = thread[t].to => disk[d].made
    BY <1>0, <1>4, DirsAssumption DEF MadeHomes
  <2> QED
    BY <1>0, <1>1, <2>1, <2>2
<1>5. CASE Upgrade(t) /\ disk' = [disk EXCEPT ![thread[t].to].midi = IF @ = NoMidi THEN BlankMidi ELSE @]
  <2>1. /\ disk'[d].made = disk[d].made
        /\ d = thread[t].to => disk'[d].midi = IF disk[d].midi = NoMidi THEN BlankMidi ELSE disk[d].midi
        /\ d # thread[t].to => disk'[d] = disk[d]
    BY <1>0, <1>5 DEF Files
  <2>2. d = thread[t].to => disk[d].made
    BY <1>0, <1>5, DirsAssumption DEF MadeHomes
  <2> QED
    BY <1>0, <1>1, <2>1, <2>2, BlankAnywhere
<1>6. CASE Mint(t) /\ ~disk[thread'[t].to].made /\ disk' = [disk EXCEPT ![thread'[t].to] = Fresh]
  <2>1. /\ d = thread'[t].to => disk'[d] = Fresh
        /\ d # thread'[t].to => disk'[d] = disk[d]
    BY <1>0, <1>6
  <2>2. Fresh.made /\ Fresh.midi = NoMidi
    BY DEF Fresh, Missing
  <2> QED
    BY <1>0, <1>1, <2>1, <2>2
<1> QED
  BY <1>2, <1>3, <1>4, <1>5, <1>6, AfterWrites

LEMMA StandStep ==
  ASSUME TypeOK, Standing, NEW t \in Threads, Act(t), Others(t),
         (dir \in MadeHomes)', (loaded \in MadeHomes)', AllOf(doc.midi, MadeHomes)',
         (thread[t].to \in MadeHomes)', AllOf(thread[t].take.midi, MadeHomes)',
         (Writes(t) \/ thread[t].pc \in {"swap", "reread", "boundary"} => thread[t].to \in Dirs)'
  PROVE  Standing'
<1>1. ASSUME NEW u \in Threads
      PROVE  (/\ thread[u].to \in MadeHomes /\ AllOf(thread[u].take.midi, MadeHomes)
              /\ Writes(u) \/ thread[u].pc \in {"swap", "reread", "boundary"} => thread[u].to \in Dirs)'
  <2>1. CASE u = t
    BY <2>1
  <2>2. CASE u # t
    <3>1. thread'[u] = thread[u]
      BY <2>2 DEF Others
    <3>2. thread[u].to \in MadeHomes /\ AllOf(thread[u].take.midi, MadeHomes)
      BY DEF Standing
    <3>3. thread'[u].to \in MadeHomes' /\ AllOf(thread'[u].take.midi, MadeHomes')
      BY <3>1, <3>2, MadeStays DEF AllOf
    <3> QED
      BY <3>1, <3>3 DEF Standing, Writes
  <2> QED
    BY <2>1, <2>2
<1>2. \A d \in Dirs : (~disk[d].made => disk[d] = Missing)' /\ (disk[d].midi # NoMidi => AllOf(disk[d].midi, MadeHomes))'
  BY FilesStand
<1> QED
  BY <1>1, <1>2 DEF Standing

LEMMA BlankStands ==
  /\ Idle.to = NoDir /\ Idle.take.midi = BlankMidi /\ Idle.pc = "idle" /\ Idle.job = "none"
  /\ Idle.part = "song" /\ BlankDocument.midi = BlankMidi
BY DEF Idle, BlankDocument

LEMMA StepsStand ==
  ASSUME TypeOK, Placed, Gated, Standing, NEW t \in Threads, Act(t)
  PROVE  Standing'
<1>0. /\ dir \in MadeHomes' /\ loaded \in MadeHomes' /\ AllOf(doc.midi, MadeHomes')
      /\ thread[t].to \in MadeHomes' /\ AllOf(thread[t].take.midi, MadeHomes')
      /\ Writes(t) \/ thread[t].pc \in {"swap", "reread", "boundary"} => thread[t].to \in Dirs
      /\ AllOf(BlankMidi, MadeHomes') /\ NoDir \in MadeHomes'
  BY MadeStays DEF Standing, AllOf, BlankMidi, Blank, MadeHomes
<1>1. CASE Edit(t)
  <2>1. AllOf(doc'.midi, MadeHomes')
    <3> SUFFICES ASSUME NEW p \in MidiParts PROVE doc'.midi[p].of \in MadeHomes'
      BY DEF AllOf
    <3>1. doc'.midi[p] = [by |-> rev + 1, of |-> dir] \/ doc'.midi[p] = doc.midi[p]
      BY <1>1, AfterEdit
    <3> QED
      BY <1>0, <3>1 DEF AllOf
  <2>2. dir' = dir /\ loaded' = loaded
    BY <1>1 DEF Edit
  <2> QED
    BY <1>0, <1>1, <2>1, <2>2, AfterEdit, BlankStands, StandStep DEF Writes
<1>2. CASE Snapshot(t) \/ Mark(t)
  <2>1. dir' = dir /\ loaded' = loaded /\ doc' = doc /\ dir # NoDir
    BY <1>2 DEF Snapshot, Mark, session
  <2>2. dir \in Dirs
    BY <2>1 DEF Standing, MadeHomes
  <2> QED
    BY <1>0, <1>2, <2>1, <2>2, AfterSnapshot, AfterMark, StandStep
<1>3. CASE \/ Skip(t) \/ Record(t) \/ WriteSong(t) \/ SongFails(t) \/ WriteMidi(t) \/ MidiFails(t)
           \/ Settle(t) \/ Upgrade(t) \/ UpgradeFails(t) \/ Line(t) \/ Boundary(t)
  <2>1. dir' = dir /\ loaded' = loaded /\ doc' = doc
    BY <1>3 DEF Skip, Record, WriteSong, SongFails, WriteMidi, MidiFails, Settle, Upgrade,
                UpgradeFails, Line, Boundary, session
  <2>2. \/ Finish(t) \/ ToRecord(t)
        \/ Writes(t) /\ Others(t) /\ Carries(t)
        \/ Others(t) /\ Carries(t) /\ thread'[t].pc = "record"
    <3>1. CASE Skip(t)
      BY <3>1, AfterGoto DEF Skip
    <3>2. CASE Record(t) \/ UpgradeFails(t) \/ Line(t)
      BY <3>2 DEF Record, UpgradeFails, Line
    <3>3. CASE WriteSong(t) \/ SongFails(t)
      BY <3>3, AfterGoto DEF WriteSong, SongFails, Done, Writes
    <3>4. CASE WriteMidi(t)
      BY <3>4, AfterGoto DEF WriteMidi, Writes
    <3>5. CASE MidiFails(t)
      BY <3>5, AfterMidiFails DEF MidiFails, Writes
    <3>6. CASE Settle(t)
      BY <3>6, AfterSettle DEF Settle, Writes
    <3>7. CASE Upgrade(t)
      BY <3>7, AfterGoto DEF Upgrade, Writes
    <3>8. CASE Boundary(t)
      BY <3>8, AfterGoto DEF Boundary, Writes
    <3> QED
      BY <1>3, <3>1, <3>2, <3>3, <3>4, <3>5, <3>6, <3>7, <3>8
  <2>3. CASE Finish(t)
    BY <1>0, <2>1, <2>3, AfterFinish, BlankStands, StandStep DEF Writes
  <2>4. CASE ToRecord(t)
    BY <1>0, <2>1, <2>4, AfterToRecord, BlankStands, StandStep DEF Writes
  <2>5. CASE Writes(t) /\ Others(t) /\ Carries(t)
    BY <1>0, <2>1, <2>5, StandStep DEF Carries
  <2>6. CASE Others(t) /\ Carries(t) /\ thread'[t].pc = "record"
    BY <1>0, <2>1, <2>6, StandStep DEF Carries, Writes
  <2> QED
    BY <2>2, <2>3, <2>4, <2>5, <2>6
<1>4. CASE SaveAs(t) \/ Ensure(t) \/ Create(t) \/ Open(t)
  <2>1. thread[t].to \in Dirs /\ thread[t].pc = "swap"
    BY <1>0, <1>4, AfterSwap
  <2>2. dir' = thread[t].to
    BY <1>4, AfterSwap
  <2>3. loaded' \in {loaded, thread[t].to}
    BY <1>4 DEF SaveAs, Ensure, Create, Open
  <2>4. AllOf(doc'.midi, MadeHomes')
    <3>1. CASE SaveAs(t)
      <4>1. doc'.midi = [p \in MidiParts |-> Belongs(doc.midi[p], thread[t].to)]
        BY <3>1 DEF SaveAs, Swap, Adopted
      <4>2. \A p \in MidiParts : doc.midi[p] \in Content
        BY DocTyped DEF Midi
      <4> QED
        BY <1>0, <4>1, <4>2 DEF AllOf, Belongs, Content
    <3>2. CASE Ensure(t)
      BY <1>0, <3>2 DEF Ensure, Swap
    <3>3. CASE Create(t)
      <4>1. doc'.midi = [p \in MidiParts |-> IF p \in Reset THEN Blank ELSE doc.midi[p]]
        BY <3>3 DEF Create, Swap
      <4> QED
        BY <1>0, <4>1 DEF AllOf, Blank
    <3>4. CASE Open(t)
      <4>1. doc'.midi \in {doc.midi, disk[thread[t].to].midi, BlankMidi} \ {NoMidi}
        BY <3>4 DEF Open, Swap
      <4>2. disk[thread[t].to].midi # NoMidi => AllOf(disk[thread[t].to].midi, MadeHomes')
        BY <2>1, MadeStays DEF Standing, AllOf
      <4> QED
        BY <1>0, <4>1, <4>2
    <3> QED
      BY <1>4, <3>1, <3>2, <3>3, <3>4
  <2> QED
    BY <1>0, <1>4, <2>1, <2>2, <2>3, <2>4, AfterSwap, StandStep
<1>5. CASE Mint(t)
  <2>1. dir' = dir /\ loaded' = loaded /\ doc' = doc
    BY <1>5 DEF Mint, session
  <2>2. thread'[t].to \in MadeHomes' /\ thread'[t].to \in Dirs
    BY <1>5, AfterMint DEF MadeHomes, TypeOK, Fresh, Missing
  <2> QED
    BY <1>0, <1>5, <2>1, <2>2, AfterMint, BlankStands, StandStep
<1>6. CASE Load(t)
  <2>1. dir' = dir /\ loaded' = loaded /\ doc' = doc /\ disk' = disk
    BY <1>6 DEF Load, session
  <2>2. thread'[t].to \in MadeHomes' /\ thread'[t].to \in Dirs
    BY <1>6, <2>1, AfterLoad DEF MadeHomes
  <2> QED
    BY <1>0, <1>6, <2>1, <2>2, AfterLoad, StandStep
<1>7. CASE Reread(t)
  <2>1. dir' = dir /\ loaded' = loaded /\ doc' = doc
    BY <1>7 DEF Reread, session
  <2> QED
    BY <1>0, <1>7, <2>1, AfterReread, StandStep
<1> QED
  BY <1>1, <1>2, <1>3, <1>4, <1>5, <1>6, <1>7 DEF Act

LEMMA InitStands == Init => Gated /\ Standing
<1> SUFFICES ASSUME Init PROVE Gated /\ Standing
  OBVIOUS
<1>1. ASSUME NEW t \in Threads PROVE thread[t] = Idle
  BY <1>1 DEF Init
<1>2. Gated
  BY <1>1, BlankStands, ThreadsAssumption DEF Init, Gated, Writes, Fit
<1>3. ASSUME NEW d \in Dirs
      PROVE  /\ ~disk[d].made => disk[d] = Missing
             /\ disk[d].midi # NoMidi => AllOf(disk[d].midi, MadeHomes)
  <2>1. disk[d].midi \in {NoMidi, [p \in MidiParts |-> Old(d)]}
    BY DEF Init
  <2> DEFINE M == {NoMidi} \cup {[p \in MidiParts |-> Old(e)] : e \in Dirs}
  <2>2. disk \in [Dirs -> {Missing} \cup {[made |-> TRUE, song |-> Old(e), midi |-> m] : e \in Dirs, m \in M}]
    BY DEF Init
  <2>3. disk[d] = Missing \/ disk[d].made
    <3> HIDE DEF M
    <3> QED
      BY <2>2
  <2>4. disk[d].midi # NoMidi => disk[d].made
    BY <2>3 DEF Missing
  <2>5. disk[d].midi # NoMidi => AllOf(disk[d].midi, MadeHomes)
    BY <2>1, <2>4 DEF AllOf, MadeHomes, Old
  <2> QED
    BY <2>3, <2>5
<1>4. AllOf(doc.midi, MadeHomes) /\ dir \in MadeHomes /\ loaded \in MadeHomes
  BY BlankAnywhere, BlankStands DEF Init, MadeHomes
<1>5. ASSUME NEW t \in Threads
      PROVE  /\ thread[t].to \in MadeHomes /\ AllOf(thread[t].take.midi, MadeHomes)
             /\ Writes(t) \/ thread[t].pc \in {"swap", "reread", "boundary"} => thread[t].to \in Dirs
  BY <1>1, BlankAnywhere, BlankStands DEF MadeHomes, Writes
<1> QED
  BY <1>2, <1>3, <1>4, <1>5 DEF Standing

----------------------------------------------------------------------------
(* A step, by what it makes of its command.                                *)
Swaps(t) == SaveAs(t) \/ Ensure(t) \/ Create(t) \/ Open(t)

Going == {"song", "midi", "settle", "upgrade", "line"}

LEMMA Courses ==
  ASSUME TypeOK, NEW t \in Threads, Act(t)
  PROVE  /\ Others(t)
         /\ \/ thread'[t].pc \in {"idle", "persist", "record"}
            \/ Writes(t) /\ Carries(t) /\ thread'[t].pc \in Going
                 /\ (thread'[t].pc = "song" => Boundary(t))
            \/ Snapshot(t) \/ Mark(t) \/ Swaps(t) \/ Mint(t) \/ Load(t) \/ Reread(t)
<1> USE DEF Going
<1>1. CASE Edit(t)
  BY <1>1, AfterEdit
<1>2. CASE Skip(t)
  BY <1>2, AfterGoto DEF Skip
<1>3. CASE Snapshot(t) \/ Mark(t)
  BY <1>3, AfterSnapshot, AfterMark
<1>4. CASE Record(t) \/ UpgradeFails(t) \/ Line(t)
  BY <1>4, AfterFinish, BlankStands DEF Record, UpgradeFails, Line
<1>5. CASE WriteSong(t) \/ SongFails(t)
  <2>1. CASE thread[t].job = "commit"
    BY <1>5, <2>1, AfterToRecord DEF WriteSong, SongFails, Done
  <2>2. CASE thread[t].job # "commit"
    BY <1>5, <2>2, AfterGoto, AfterFinish, BlankStands DEF WriteSong, SongFails, Writes
  <2> QED
    BY <2>1, <2>2
<1>6. CASE WriteMidi(t)
  BY <1>6, AfterGoto DEF WriteMidi, Writes
<1>7. CASE MidiFails(t)
  BY <1>7, AfterMidiFails DEF MidiFails, Writes
<1>8. CASE Settle(t)
  <2>1. CASE thread[t].job = "commit"
    BY <1>8, <2>1, AfterSettle, AfterToRecord
  <2>2. CASE thread[t].job # "commit"
    BY <1>8, <2>2, AfterSettle DEF Settle, Writes
  <2> QED
    BY <2>1, <2>2
<1>9. CASE Upgrade(t)
  BY <1>9, AfterGoto, AfterFinish, BlankStands DEF Upgrade, Writes
<1>10. CASE Swaps(t)
  BY <1>10, AfterSwap DEF Swaps
<1>11. CASE Mint(t) \/ Load(t) \/ Reread(t)
  BY <1>11, AfterMint, AfterLoad, AfterReread
<1>12. CASE Boundary(t)
  <2>1. CASE thread[t].job = "saveAs"
    BY <1>12, <2>1, AfterGoto DEF Boundary, Writes
  <2>2. CASE thread[t].job # "saveAs"
    BY <1>12, <2>2, AfterFinish, BlankStands DEF Boundary
  <2> QED
    BY <2>1, <2>2
<1> QED
  BY <1>1, <1>2, <1>3, <1>4, <1>5, <1>6, <1>7, <1>8, <1>9, <1>10, <1>11, <1>12 DEF Act, Swaps

(* What a step makes of the session. *)
LEMMA Sessions ==
  ASSUME TypeOK, NEW t \in Threads, Act(t)
  PROVE  \/ Swaps(t) /\ rev' = rev
         \/ Edit(t) /\ epoch' = epoch /\ dir' = dir /\ loaded' = loaded /\ rev' = rev + 1
         \/ epoch' = epoch /\ dir' = dir /\ loaded' = loaded /\ rev' = rev /\ doc' = doc
BY DEF Act, Swaps, Swap, Edit, Skip, Snapshot, Record, WriteSong, SongFails, WriteMidi, MidiFails,
       Settle, Upgrade, UpgradeFails, Line, Mark, SaveAs, Ensure, Create, Open, Mint, Reread, Load,
       Boundary, session

LEMMA WritersStay ==
  ASSUME TypeOK, Gated, NEW t \in Threads, Act(t), ~Swaps(t), NEW u \in Threads, Writes(u)'
  PROVE  thread'[u].to = dir \/ (Writes(u) /\ thread'[u].to = thread[u].to)
<1>1. CASE u # t
  BY <1>1, Courses DEF Others, Writes
<1>2. CASE u = t
  <2>1. CASE thread'[t].pc \in {"idle", "persist", "record"} \/ Mint(t) \/ Load(t)
    BY <1>2, <2>1, AfterMint, AfterLoad DEF Writes
  <2>2. CASE Reread(t)
    BY <1>2, <2>2, AfterReread DEF Writes, Gated, Fit
  <2>3. CASE Snapshot(t) \/ Mark(t)
    BY <1>2, <2>3, AfterSnapshot, AfterMark
  <2>4. CASE Writes(t) /\ Carries(t)
    BY <1>2, <2>4 DEF Carries
  <2> QED
    BY <2>1, <2>2, <2>3, <2>4, Courses
<1> QED
  BY <1>1, <1>2

----------------------------------------------------------------------------
(* A directory made for a swap that was not overtaken is nobody else's.    *)
Newborn(t) ==
  (thread[t].pc = "swap" /\ thread[t].job # "open" /\ thread[t].at = epoch) =>
    LET d == thread[t].to IN
    /\ dir # d /\ loaded # d
    /\ disk[d].song.by = 0
    /\ \A p \in MidiParts : doc.midi[p].of # d
    /\ \A u \in Threads : Writes(u) => thread[u].to # d

LEMMA StepsNewborn ==
  ASSUME TypeOK, Placed, Gated, Standing, \A t \in Threads : Newborn(t), NEW t \in Threads, Act(t)
  PROVE  \A u \in Threads : Newborn(u)'
<1> SUFFICES ASSUME NEW u \in Threads,
                    thread'[u].pc = "swap", thread'[u].job # "open", thread'[u].at = epoch'
             PROVE  /\ dir' # thread'[u].to /\ loaded' # thread'[u].to
                    /\ disk'[thread'[u].to].song.by = 0
                    /\ \A p \in MidiParts : doc'.midi[p].of # thread'[u].to
                    /\ \A w \in Threads : Writes(w)' => thread'[w].to # thread'[u].to
  BY DEF Newborn
<1>1. CASE Mint(t) /\ u = t
  <2> DEFINE d == thread'[u].to
  <2>1. /\ d \in Dirs /\ ~disk[d].made /\ disk' = [disk EXCEPT ![d] = Fresh]
        /\ thread'[t].pc = "swap" /\ Others(t)
    BY <1>1, AfterMint
  <2>2. d \notin MadeHomes
    BY <2>1, DirsAssumption DEF MadeHomes
  <2>3. dir' = dir /\ loaded' = loaded /\ doc' = doc
    BY <1>1 DEF Mint, session
  <2>4. disk'[d].song.by = 0
    BY <2>1 DEF TypeOK, Fresh, Missing, Blank
  <2>5. ASSUME NEW w \in Threads, Writes(w)' PROVE thread'[w].to # d
    <3>1. w # t
      BY <2>1, <2>5 DEF Writes
    <3>2. thread'[w] = thread[w]
      BY <2>1, <3>1 DEF Others
    <3> QED
      BY <2>2, <3>2 DEF Standing
  <2> QED
    BY <2>2, <2>3, <2>4, <2>5 DEF Standing, AllOf
<1>2. CASE ~(Mint(t) /\ u = t)
  <2>1. thread'[u] = thread[u]
    <3>1. CASE u # t
      BY <3>1, Courses DEF Others
    <3>2. CASE u = t
      BY <1>2, <3>2, Courses, AfterSnapshot, AfterMark, AfterSwap, AfterLoad, AfterReread DEF Swaps, Going
    <3> QED
      BY <3>1, <3>2
  <2>2. ~Swaps(t)
    <3>1. Swaps(t) => epoch' = epoch + 1
      BY AfterSwap DEF Swaps
    <3>2. thread[u].at <= epoch /\ thread[u].at \in Nat /\ epoch \in Nat
      BY <2>1, ThreadTyped DEF Placed, TypeOK
    <3> QED
      BY <2>1, <3>1, <3>2
  <2>3. epoch' = epoch /\ dir' = dir /\ loaded' = loaded /\ (Edit(t) \/ doc' = doc)
    BY <2>2, Sessions
  <2> DEFINE d == thread[u].to
  <2>4. /\ dir # d /\ loaded # d /\ disk[d].song.by = 0
        /\ \A p \in MidiParts : doc.midi[p].of # d
        /\ \A w \in Threads : Writes(w) => thread[w].to # d
        /\ d \in Dirs
    BY <2>1, <2>3 DEF Newborn, Placed
  <2> HIDE DEF d
  <2>5. ASSUME NEW p \in MidiParts PROVE doc'.midi[p].of # d
    <3>1. CASE Edit(t)
      <4>1. doc'.midi[p] = doc.midi[p] \/ doc'.midi[p] = [by |-> rev + 1, of |-> dir]
        BY <3>1, AfterEdit
      <4> QED
        BY <2>4, <4>1
    <3>2. CASE doc' = doc
      BY <2>4, <3>2
    <3> QED
      BY <2>3, <3>1, <3>2
  <2>6. ASSUME NEW w \in Threads, Writes(w)' PROVE thread'[w].to # d
    BY <2>2, <2>4, <2>6, WritersStay
  <2>7. disk'[d].song.by = 0
    <3> USE <2>4 DEF TypeOK, Files
    <3>1. CASE WriteSong(t) /\ disk' = [disk EXCEPT ![thread[t].to].song = thread[t].take.song]
      <4>1. thread[t].to # d
        BY <2>4, <3>1 DEF WriteSong, Writes
      <4> QED
        BY <3>1, <4>1
    <3>2. CASE disk' = [disk EXCEPT ![thread[t].to].midi = thread[t].take.midi]
      BY <3>2
    <3>3. CASE disk' = [disk EXCEPT ![thread[t].to].midi = IF @ = NoMidi THEN BlankMidi ELSE @]
      BY <3>3
    <3>4. CASE disk' = [disk EXCEPT ![thread'[t].to] = Fresh]
      BY <3>4 DEF Fresh, Missing, Blank
    <3> QED
      BY <3>1, <3>2, <3>3, <3>4, AfterWrites
  <2> QED
    BY <2>1, <2>3, <2>4, <2>5, <2>6, <2>7 DEF d
<1> QED
  BY <1>1, <1>2

----------------------------------------------------------------------------
(* GoesForward.  It needs an order of the songs at hand: the directory's,  *)
(* the one a command is about to write there, the open one, the counter.   *)
Carrying(t) == thread[t].pc = "song" \/ (thread[t].pc = "boundary" /\ thread[t].job = "saveAs")

SongRises(t) ==
  Carrying(t) =>
    /\ disk[thread[t].to].song.by <= thread[t].take.song.by
    /\ thread[t].take.song.by <= rev
    /\ thread[t].to = dir => thread[t].take.song.by <= doc.song.by

Rising ==
  /\ dir # NoDir => disk[dir].song.by <= doc.song.by
  /\ doc.song.by <= rev /\ \A d \in Dirs : disk[d].song.by <= rev
  /\ \A t \in Threads : SongRises(t)

LEMMA Numbers ==
  ASSUME TypeOK
  PROVE  /\ rev \in Nat /\ epoch \in Nat /\ doc.song.by \in Nat
         /\ \A d \in Dirs : disk[d].song.by \in Nat
         /\ \A t \in Threads : thread[t].take.song.by \in Nat
BY ThreadTyped, DocTyped DEF TypeOK, Files, Content

LEMMA WriterIsOne ==
  ASSUME Gated, NEW t \in Threads, NEW u \in Threads, Writes(t), Writes(u)
  PROVE  t = u
BY DEF Gated

(* A song a command carries keeps its place, if the step is another's.     *)
LEMMA OthersRise ==
  ASSUME TypeOK, Gated, Rising, NEW t \in Threads, Others(t), rev' \in Nat, rev <= rev',
         \A u \in Threads \ {t} : Carrying(u) =>
           /\ disk'[thread[u].to].song = disk[thread[u].to].song
           /\ thread[u].to = dir' => doc'.song.by \in Nat /\ thread[u].take.song.by <= doc'.song.by,
         Standing,
         SongRises(t)'
  PROVE  \A u \in Threads : SongRises(u)'
<1> SUFFICES ASSUME NEW u \in Threads \ {t} PROVE SongRises(u)'
  OBVIOUS
<1>1. thread'[u] = thread[u]
  BY DEF Others
<1>2. ASSUME Carrying(u)
      PROVE  /\ disk'[thread[u].to].song.by <= thread[u].take.song.by
             /\ thread[u].take.song.by <= rev'
             /\ thread[u].to = dir' => thread[u].take.song.by <= doc'.song.by
  <2>1. /\ disk[thread[u].to].song.by <= thread[u].take.song.by
        /\ thread[u].take.song.by <= rev
    BY <1>2 DEF Rising, SongRises
  <2> QED
    BY <1>2, <2>1, Numbers
<1> QED
  BY <1>1, <1>2 DEF SongRises, Carrying

LEMMA EditRises ==
  ASSUME TypeOK, Gated, Standing, Rising, NEW t \in Threads, Edit(t)
  PROVE  Rising'
<1>1. /\ thread'[t].pc = "persist" /\ Others(t)
      /\ doc'.song = doc.song \/ doc'.song = [by |-> rev + 1, of |-> dir]
  BY AfterEdit
<1>2. rev' = rev + 1 /\ dir' = dir /\ disk' = disk
  BY DEF Edit
<1>3. doc'.song.by \in Nat /\ doc.song.by <= doc'.song.by /\ doc'.song.by <= rev' /\ doc.song.by <= rev
  BY <1>1, <1>2, Numbers DEF Rising
<1>4. ASSUME NEW u \in Threads, Carrying(u), thread[u].to = dir
      PROVE  thread[u].take.song.by <= doc'.song.by
  <2>1. thread[u].take.song.by <= doc.song.by
    BY <1>4 DEF Rising, SongRises
  <2> QED
    BY <1>3, <2>1, Numbers
<1>5. SongRises(t)'
  BY <1>1 DEF SongRises, Carrying
<1>6. \A u \in Threads : SongRises(u)'
  <2>1. rev' \in Nat /\ rev <= rev'
    BY <1>2, Numbers
  <2> QED
    BY <1>1, <1>2, <1>3, <1>4, <1>5, <2>1, OthersRise
<1>7. dir' # NoDir => disk'[dir'].song.by <= doc'.song.by
  <2> SUFFICES ASSUME dir # NoDir PROVE disk[dir].song.by <= doc'.song.by
    BY <1>2
  <2>1. dir \in Dirs /\ disk[dir].song.by <= doc.song.by
    BY DEF Rising, TypeOK, Homes
  <2> QED
    BY <1>3, <2>1, Numbers
<1>8. \A d \in Dirs : disk'[d].song.by <= rev'
  BY <1>2, Numbers DEF Rising
<1> QED
  BY <1>3, <1>6, <1>7, <1>8 DEF Rising

(* Steps that leave session and songs on disk alone.                       *)
LEMMA QuietRises ==
  ASSUME TypeOK, Gated, Standing, Rising, NEW t \in Threads, Others(t), SongRises(t)',
         dir' = dir, doc'.song = doc.song, rev' = rev, \A d \in Dirs : disk'[d].song = disk[d].song
  PROVE  Rising'
<1>1. \A u \in Threads \ {t} : Carrying(u) =>
        /\ thread[u].to \in Dirs
        /\ thread[u].to = dir' => doc'.song.by \in Nat /\ thread[u].take.song.by <= doc'.song.by
  BY Numbers DEF Rising, SongRises, Standing, Carrying, Writes
<1>2. \A u \in Threads : SongRises(u)'
  <2>1. rev' \in Nat /\ rev <= rev'
    BY Numbers
  <2> QED
    BY <1>1, <2>1, OthersRise
<1>3. dir # NoDir => dir \in Dirs
  BY DEF TypeOK, Homes
<1> QED
  BY <1>2, <1>3 DEF Rising

LEMMA WriteRises ==
  ASSUME TypeOK, Gated, Standing, Rising, NEW t \in Threads, WriteSong(t)
  PROVE  /\ Rising'
         /\ \A d \in Dirs : disk'[d].song.by >= disk[d].song.by
<1> DEFINE d == thread[t].to
<1>1. /\ Writes(t) /\ d \in Dirs /\ SongRises(t) /\ Carrying(t)
      /\ disk' = [disk EXCEPT ![d].song = thread[t].take.song]
      /\ doc' = doc /\ dir' = dir /\ rev' = rev
  BY DEF WriteSong, Writes, Standing, Rising, Carrying, session
<1>2. Others(t) /\ thread'[t].pc \in {"record", "midi", "upgrade"}
  BY AfterToRecord, AfterGoto DEF WriteSong, Done
<1> HIDE DEF d
<1>3. disk'[d].song = thread[t].take.song /\ \A e \in Dirs \ {d} : disk'[e] = disk[e]
  BY <1>1 DEF TypeOK, Files
<1>4. /\ disk[d].song.by <= disk'[d].song.by /\ disk'[d].song.by <= rev
      /\ d = dir => disk'[d].song.by <= doc.song.by
  BY <1>1, <1>3 DEF SongRises, d
<1>5. SongRises(t)'
  BY <1>2 DEF SongRises, Carrying
<1>6. \A u \in Threads : SongRises(u)'
  <2>1. \A u \in Threads \ {t} : ~Carrying(u)
    BY <1>1, WriterIsOne DEF Carrying, Writes
  <2>2. rev' \in Nat /\ rev <= rev'
    BY <1>1, Numbers
  <2> QED
    BY <1>2, <1>5, <2>1, <2>2, OthersRise
<1>7. dir # NoDir => disk'[dir].song.by <= doc.song.by
  <2>1. dir # NoDir => dir \in Dirs /\ disk[dir].song.by <= doc.song.by
    BY DEF Rising, TypeOK, Homes
  <2> QED
    BY <1>3, <1>4, <2>1
<1>8. \A e \in Dirs : disk'[e].song.by <= rev
  BY <1>3, <1>4 DEF Rising
<1>9. \A e \in Dirs : disk'[e].song.by >= disk[e].song.by
  BY <1>3, <1>4, Numbers, ThreadTyped DEF Content
<1> QED
  BY <1>1, <1>6, <1>7, <1>8, <1>9 DEF Rising

(* The song a swap leaves is the directory's, or of a newborn's.           *)
LEMMA SwapRises ==
  ASSUME TypeOK, Placed, Gated, Standing, Rising, \A t \in Threads : Newborn(t),
         NEW t \in Threads, Swaps(t), "overlap" \notin mishaps'
  PROVE  Rising'
<1> DEFINE d == thread[t].to
<1>1. /\ d \in Dirs /\ Others(t) /\ dir' = d /\ disk' = disk /\ rev' = rev /\ thread[t].pc = "swap"
      /\ thread'[t].job = thread[t].job /\ thread'[t].to = d
      /\ thread'[t].take = IF SaveAs(t) THEN doc' ELSE thread[t].take
      /\ thread'[t].pc = IF Ensure(t) THEN "reread" ELSE "boundary"
  BY AfterSwap DEF Swaps, SaveAs, Ensure, Create, Open, Swap, Placed
<1>2. \A u \in Threads : Writes(u) => thread[u].to # d
  <2>1. CASE Open(t)
    <3>1. \A u \in Threads : Writes(u) => gate = u
      BY DEF Gated
    <3>2. gate # Nobody => thread[gate].to # d
      BY <2>1 DEF Open
    <3> QED
      BY <3>1, <3>2, ThreadsAssumption
  <2>2. CASE SaveAs(t) \/ Ensure(t) \/ Create(t)
    <3>1. thread[t].at = epoch /\ thread[t].job # "open"
      BY <2>2 DEF SaveAs, Ensure, Create, Overlap, Happens, Overtaken
    <3> QED
      BY <1>1, <3>1 DEF Newborn
  <2> QED
    BY <2>1, <2>2 DEF Swaps
<1>3. disk[d].song.by <= doc'.song.by /\ doc'.song.by <= rev /\ doc'.song.by \in Nat
  <2>1. CASE Open(t)
    <3>1. doc'.song = disk[d].song
      BY <2>1 DEF Open, Swap
    <3> QED
      BY <1>1, <3>1, Numbers DEF Rising
  <2>2. CASE SaveAs(t) \/ Ensure(t) \/ Create(t)
    <3>1. thread[t].at = epoch /\ thread[t].job # "open"
      BY <2>2 DEF SaveAs, Ensure, Create, Overlap, Happens, Overtaken
    <3>2. disk[d].song.by = 0
      BY <1>1, <3>1 DEF Newborn
    <3>3. doc'.song.by \in {0, doc.song.by}
      <4>1. CASE SaveAs(t)
        <5>1. doc'.song = Belongs(doc.song, d) /\ doc.song \in Content
          BY <4>1, DocTyped DEF SaveAs, Swap, Adopted
        <5> QED
          BY <5>1 DEF Belongs, Content
      <4>2. CASE Ensure(t)
        BY <4>2 DEF Ensure, Swap
      <4>3. CASE Create(t)
        BY <4>3 DEF Create, Swap, Blank
      <4> QED
        BY <2>2, <4>1, <4>2, <4>3
    <3> QED
      BY <3>2, <3>3, Numbers DEF Rising
  <2> QED
    BY <2>1, <2>2 DEF Swaps
<1> HIDE DEF d
<1>4. SongRises(t)'
  <2>1. CASE SaveAs(t)
    BY <1>1, <1>3, <2>1, Numbers DEF SongRises
  <2>2. CASE ~SaveAs(t)
    <3>1. thread[t].job # "saveAs" \/ Ensure(t)
      BY <2>2 DEF Swaps, Create, Open
    <3> QED
      BY <1>1, <3>1 DEF SongRises, Carrying
  <2> QED
    BY <2>1, <2>2
<1>5. \A u \in Threads : SongRises(u)'
  <2>1. rev' \in Nat /\ rev <= rev'
    BY <1>1, Numbers
  <2>2. \A u \in Threads : Carrying(u) => thread[u].to # d
    BY <1>2 DEF Carrying, Writes
  <2> QED
    BY <1>1, <1>4, <2>1, <2>2, OthersRise
<1> QED
  BY <1>1, <1>3, <1>5 DEF Rising

LEMMA StepsRise ==
  ASSUME TypeOK, Placed, Gated, Standing, Rising, \A t \in Threads : Newborn(t),
         NEW t \in Threads, Act(t), "overlap" \notin mishaps'
  PROVE  Rising' /\ \A d \in Dirs : disk'[d].song.by >= disk[d].song.by
<1>1. CASE Edit(t)
  <2>1. disk' = disk
    BY <1>1 DEF Edit
  <2> QED
    BY <1>1, <2>1, EditRises, Numbers
<1>2. CASE WriteSong(t)
  BY <1>2, WriteRises
<1>3. CASE Swaps(t)
  <2>1. disk' = disk
    BY <1>3 DEF Swaps, SaveAs, Ensure, Create, Open
  <2> QED
    BY <1>3, <2>1, SwapRises, Numbers
<1>4. CASE ~Edit(t) /\ ~WriteSong(t) /\ ~Swaps(t)
  <2>1. dir' = dir /\ doc' = doc /\ rev' = rev
    BY <1>4, Sessions
  <2>2. \A d \in Dirs : disk'[d].song.by >= disk[d].song.by /\ (disk'[d].song = disk[d].song \/ Mint(t))
    <3> USE DEF TypeOK, Files
    <3>1. CASE disk' = disk
      BY <3>1, Numbers
    <3>2. CASE disk' = [disk EXCEPT ![thread[t].to].midi = thread[t].take.midi]
      BY <3>2, Numbers
    <3>3. CASE disk' = [disk EXCEPT ![thread[t].to].midi = IF @ = NoMidi THEN BlankMidi ELSE @]
      BY <3>3, Numbers
    <3>4. CASE Mint(t) /\ ~disk[thread'[t].to].made /\ disk' = [disk EXCEPT ![thread'[t].to] = Fresh]
      <4>1. ~disk[thread'[t].to].made /\ thread'[t].to \in Dirs => disk[thread'[t].to].song.by = 0
        BY DEF Standing, Missing, Blank
      <4>2. Fresh.song.by = 0
        BY DEF Fresh, Missing, Blank
      <4> QED
        BY <3>4, <4>1, <4>2, Numbers, AfterMint
    <3> QED
      BY <1>4, <3>1, <3>2, <3>3, <3>4, AfterWrites
  <2>3. CASE Mint(t)
    <3>1. /\ Others(t) /\ thread'[t].pc = "swap" /\ ~disk[thread'[t].to].made
          /\ thread'[t].to \in Dirs /\ disk' = [disk EXCEPT ![thread'[t].to] = Fresh]
      BY <2>3, AfterMint
    <3>2. ~disk[thread'[t].to].made => disk[thread'[t].to].song = Blank
      BY <3>1 DEF Standing, Missing
    <3>3. \A d \in Dirs : disk'[d].song = disk[d].song
      BY <3>1, <3>2 DEF TypeOK, Fresh, Missing
    <3>4. SongRises(t)'
      BY <3>1 DEF SongRises, Carrying
    <3> QED
      BY <2>1, <2>2, <3>1, <3>3, <3>4, QuietRises
  <2>4. CASE ~Mint(t)
    <3>1. SongRises(t)'
      <4>1. CASE Snapshot(t) \/ Mark(t)
        <5>1. thread'[t].to = dir /\ thread'[t].take = doc
          BY <4>1, AfterSnapshot, AfterMark
        <5>2. dir # NoDir /\ dir \in Dirs
          BY <4>1 DEF Snapshot, Mark, TypeOK, Homes
        <5> QED
          BY <2>1, <2>2, <2>4, <5>1, <5>2, Numbers DEF SongRises, Rising
      <4>2. CASE thread'[t].pc \in {"idle", "persist", "record", "swap", "midi", "settle", "upgrade", "line"}
        BY <4>2 DEF SongRises, Carrying
      <4>3. CASE Reread(t)
        BY <4>3, AfterReread DEF SongRises, Carrying, Gated, Fit
      <4>4. CASE Writes(t) /\ Carries(t) /\ thread'[t].pc = "song" /\ Boundary(t)
        <5>1. thread[t].pc = "boundary" /\ thread[t].job = "saveAs"
          BY <4>4 DEF Boundary, Writes
        <5>2. SongRises(t) /\ thread[t].to \in Dirs
          BY <4>4 DEF Rising, Standing
        <5> QED
          BY <2>1, <2>2, <2>4, <4>4, <5>1, <5>2 DEF SongRises, Carrying, Carries
      <4> QED
        BY <1>4, <2>4, <4>1, <4>2, <4>3, <4>4, Courses, AfterLoad DEF Going
    <3> QED
      BY <2>1, <2>2, <2>4, <3>1, Courses, QuietRises
  <2> QED
    BY <2>2, <2>3, <2>4
<1> QED
  BY <1>1, <1>2, <1>3, <1>4

LEMMA InitRises == Init => Rising /\ \A t \in Threads : Newborn(t)
<1> SUFFICES ASSUME Init PROVE Rising /\ \A t \in Threads : Newborn(t)
  OBVIOUS
<1>1. \A t \in Threads : thread[t].pc = "idle"
  BY DEF Init, Idle
<1>2. \A d \in Dirs : disk[d].song.by = 0
  BY DEF Init, Blank, Old
<1>3. doc.song.by = 0 /\ rev = 0 /\ dir = NoDir
  BY DEF Init, BlankDocument, Blank
<1> QED
  BY <1>1, <1>2, <1>3 DEF Rising, SongRises, Carrying, Newborn

(* What the files' proofs share.                                           *)
Grounds ==
  /\ TypeOK /\ Placed /\ Gated /\ Standing
  /\ \A t \in Threads : Newborn(t)

FInv == Grounds /\ ("overlap" \notin mishaps => Rising)

LEMMA StutterGrounds == Grounds /\ UNCHANGED vars => Grounds'
BY DEF Grounds, vars, session, log, TypeOK, Placed, Gated, Standing, Newborn, Writes, Fit, AllOf,
       MadeHomes

LEMMA GroundsStep == Grounds /\ [Next]_vars => Grounds'
<1> SUFFICES ASSUME Grounds, [Next]_vars PROVE Grounds'
  OBVIOUS
<1>1. CASE UNCHANGED vars
  BY <1>1, StutterGrounds
<1>2. ASSUME NEW t \in Threads, Act(t) PROVE Grounds'
  BY <1>2, StepTypes, StepPlaced, StepsGated, StepsStand, StepsNewborn DEF Grounds, Next
<1> QED
  BY <1>1, <1>2 DEF Next

LEMMA InitGrounds == Init => FInv
BY InitTypes, InitPlaced, InitStands, InitRises DEF FInv, Grounds

LEMMA FilesStep ==
  FInv /\ [Next]_vars => FInv' /\ ("overlap" \notin mishaps' => \A d \in Dirs : disk'[d].song.by >= disk[d].song.by)
<1> SUFFICES ASSUME FInv, [Next]_vars
             PROVE  /\ FInv'
                    /\ "overlap" \notin mishaps' => \A d \in Dirs : disk'[d].song.by >= disk[d].song.by
  OBVIOUS
<1>1. Grounds'
  BY GroundsStep DEF FInv
<1>2. CASE UNCHANGED vars
  <2>1. Rising => Rising'
    BY <1>2 DEF vars, session, Rising, SongRises, Carrying
  <2>2. disk' = disk /\ mishaps' = mishaps
    BY <1>2 DEF vars
  <2> QED
    BY <1>1, <2>1, <2>2, Numbers DEF FInv, Grounds
<1>3. ASSUME NEW t \in Threads, Act(t), "overlap" \notin mishaps'
      PROVE  Rising' /\ \A d \in Dirs : disk'[d].song.by >= disk[d].song.by
  BY <1>3, MishapsGrow, StepsRise DEF FInv, Grounds
<1> QED
  BY <1>1, <1>2, <1>3 DEF Next, FInv

(* project.json never goes back to an older song, unless document swaps    *)
(* overlapped.                                                             *)
THEOREM SongsGoForward == Spec => GoesForward
<1>1. FInv /\ [Next]_vars =>
        [\A d \in Dirs : "overlap" \notin mishaps' => disk'[d].song.by >= disk[d].song.by]_vars
  BY FilesStep
<1>2. FInv /\ [Next]_vars => FInv'
  BY FilesStep
<1> QED
  BY InitGrounds, <1>1, <1>2, PTL DEF Spec, GoesForward

----------------------------------------------------------------------------
(* CleanMidiIsOnDisk.  Between its steps, what is not on disk has somebody *)
(* who will write it or raise the flag.                                    *)
Pending(t) ==
  \/ thread[t].pc = "persist" /\ thread[t].part # "song" /\ thread[t].at = epoch
  \/ thread[t].pc \in {"midi", "settle"}
  \/ thread[t].pc \in {"boundary", "song"} /\ thread[t].job = "saveAs"

OnDiskAsInMemory ==
  \A p \in MidiParts :
    doc.midi[p].of = dir => disk[dir].midi # NoMidi /\ disk[dir].midi[p] = doc.midi[p]

Unbound == loaded = NoDir => \A p \in MidiParts : doc.midi[p].of = NoDir

Clean ==
  (~dirty /\ dir # NoDir /\ loaded = dir /\ \A t \in Threads : ~Pending(t)) => OnDiskAsInMemory

(* A save as goes on to the MIDI, and a write that went well is there.     *)
Writing(t) ==
  /\ thread[t].pc \in {"boundary", "song"} /\ thread[t].job = "saveAs" => thread[t].midi
  /\ thread[t].pc = "settle" /\ thread[t].ok => disk[thread[t].to].midi = thread[t].take.midi

LEMMA MidiIsMidi == ASSUME NEW m \in Midi PROVE m # NoMidi
<1>1. DOMAIN m = MidiParts
  BY DEF Midi
<1>2. DOMAIN NoMidi = {"none"}
  BY DEF NoMidi
<1> QED
  BY <1>1, <1>2, PartsAssumption

LEMMA GotoKeepsMidi ==
  ASSUME TypeOK, NEW t \in Threads, NEW l, Goto(t, l)
  PROVE  thread'[t].midi = thread[t].midi
<1> DEFINE c == [thread[t] EXCEPT !.pc = l]
<1>1. c.midi = thread[t].midi
  BY ThreadTyped DEF Command
<1>2. Becomes(t, c)
  BY DEF Goto
<1> HIDE DEF c
<1> QED
  BY <1>1, <1>2, Own

LEMMA SaveAsTakesMidi ==
  ASSUME TypeOK, NEW t \in Threads, SaveAs(t)
  PROVE  thread'[t].midi
<1> DEFINE c(d) == [thread[t] EXCEPT !.pc = "boundary", !.at = epoch + 1, !.take = d, !.midi = TRUE]
<1>1. \A d : c(d).midi
  BY ThreadTyped DEF Command
<1>2. Becomes(t, c(Adopted(thread[t].to)))
  BY DEF SaveAs
<1> HIDE DEF c
<1> QED
  BY <1>1, <1>2, Own

LEMMA StepsWriting ==
  ASSUME TypeOK, Placed, Gated, Standing, \A t \in Threads : Writing(t), NEW t \in Threads, Act(t)
  PROVE  \A u \in Threads : Writing(u)'
<1>0. Others(t) /\ Writing(t)
  BY Courses
<1>1. ASSUME NEW u \in Threads \ {t} PROVE Writing(u)'
  <2>1. thread'[u] = thread[u] /\ Writing(u)
    BY <1>0 DEF Others
  <2>2. ASSUME thread[u].pc = "settle" PROVE disk'[thread[u].to].midi = disk[thread[u].to].midi
    <3> DEFINE d == thread[u].to
    <3>1. Writes(u) /\ ~Writes(t) /\ d \in Dirs /\ d \in MadeHomes
      BY <2>2, WriterIsOne DEF Writes, Standing
    <3>2. disk[d].made
      BY <3>1, DirsAssumption DEF MadeHomes
    <3> HIDE DEF d
    <3>3. CASE Mint(t) /\ ~disk[thread'[t].to].made /\ disk' = [disk EXCEPT ![thread'[t].to] = Fresh]
      <4>1. disk'[d] = disk[d]
        BY <3>1, <3>2, <3>3 DEF TypeOK
      <4> QED
        BY <4>1 DEF d
    <3>4. ~WriteSong(t) /\ ~WriteMidi(t) /\ ~Upgrade(t)
      BY <3>1 DEF Writes, WriteSong, WriteMidi, Upgrade
    <3> QED
      BY <3>3, <3>4, AfterWrites
  <2> QED
    BY <2>1, <2>2 DEF Writing
<1>2. Writing(t)'
  <2>1. CASE thread'[t].pc \notin {"boundary", "song", "settle"}
    BY <2>1 DEF Writing
  <2>2. CASE SaveAs(t)
    BY <2>2, SaveAsTakesMidi, AfterSwap DEF Writing, Ensure, SaveAs
  <2>3. CASE Swaps(t) /\ ~SaveAs(t)
    BY <2>3, AfterSwap DEF Writing, Swaps, Ensure, Create, Open
  <2>4. CASE Snapshot(t)
    BY <2>4, <1>0, AfterSnapshot DEF Writing, Snapshot, Gated, Fit, Same
  <2>5. CASE Mark(t)
    BY <2>5, AfterMark DEF Writing
  <2>6. CASE Reread(t)
    BY <2>6, AfterReread DEF Writing, Gated, Fit
  <2>7. CASE WriteMidi(t)
    <3>1. disk'[thread[t].to].midi = thread[t].take.midi
      BY <2>7 DEF WriteMidi, TypeOK, Files, Standing, Writes
    <3> QED
      BY <2>7, <3>1, AfterGoto DEF WriteMidi, Writing, Carries
  <2>8. CASE MidiFails(t)
    BY <2>8, AfterMidiFails DEF Writing
  <2>9. CASE Boundary(t) /\ thread[t].job = "saveAs"
    BY <2>9, <1>0, AfterGoto, GotoKeepsMidi DEF Boundary, Writing, Carries, Same
  <2>10. CASE Boundary(t) /\ thread[t].job # "saveAs"
    BY <2>10, AfterFinish, BlankStands DEF Boundary, Writing
  <2>11. CASE Edit(t) \/ Mint(t) \/ Load(t)
    BY <2>11, AfterEdit, AfterMint, AfterLoad DEF Writing
  <2>12. CASE Skip(t)
    BY <2>12, AfterGoto DEF Skip, Writing
  <2>13. CASE Record(t) \/ UpgradeFails(t) \/ Line(t)
    BY <2>13, AfterFinish, BlankStands DEF Record, UpgradeFails, Line, Writing
  <2>14. CASE WriteSong(t) \/ SongFails(t)
    BY <2>14, AfterGoto, AfterFinish, AfterToRecord, BlankStands DEF WriteSong, SongFails, Done, Writing
  <2>15. CASE Settle(t)
    BY <2>15, AfterSettle, AfterToRecord DEF Writing
  <2>16. CASE Upgrade(t)
    BY <2>16, AfterGoto, AfterFinish, BlankStands DEF Upgrade, Writing
  <2> QED
    BY <2>2, <2>3, <2>4, <2>5, <2>6, <2>7, <2>8, <2>9, <2>10, <2>11, <2>12, <2>13, <2>14, <2>15,
       <2>16 DEF Act, Swaps
<1> QED
  BY <1>1, <1>2

LEMMA StepsBound ==
  ASSUME TypeOK, Placed, Unbound, NEW t \in Threads, Act(t), "unbound" \notin mishaps'
  PROVE  Unbound'
<1> SUFFICES ASSUME loaded' = NoDir, NEW p \in MidiParts PROVE doc'.midi[p].of = NoDir
  BY DEF Unbound
<1>1. CASE Edit(t)
  <2>1. loaded = NoDir /\ doc.midi[p].of = NoDir
    BY <1>1 DEF Edit, Unbound
  <2>2. \/ doc'.midi[p] = doc.midi[p]
        \/ doc'.midi[p] = [by |-> rev + 1, of |-> dir] /\ dir \in {NoDir, loaded}
    BY <1>1, AfterEdit
  <2> QED
    BY <2>1, <2>2
<1>2. CASE SaveAs(t) \/ Create(t)
  BY <1>2, DirsAssumption DEF SaveAs, Create, Placed
<1>3. CASE Ensure(t)
  BY <1>3 DEF Ensure, Swap, Unbound
<1>4. CASE Open(t)
  <2>1. PICK m \in {doc.midi, disk[thread[t].to].midi, BlankMidi} \ {NoMidi}, l \in {loaded, thread[t].to},
             unread \in BOOLEAN :
          /\ IF dirty \/ unread THEN Keeps(m, l) ELSE Adopts(thread[t].to, m, l)
          /\ Swap(thread[t].to, [song |-> thread[t].take.song, midi |-> m])
          /\ loaded' = l
    BY <1>4 DEF Open
  <2>2. thread[t].to # NoDir
    BY <1>4, DirsAssumption DEF Open, Placed
  <2>3. Keeps(m, l)
    BY <2>1, <2>2 DEF Adopts
  <2> QED
    BY <2>1, <2>3 DEF Keeps, Swap, Unbound
<1>5. CASE ~Edit(t) /\ ~Swaps(t)
  BY <1>5, Sessions DEF Unbound
<1> QED
  BY <1>1, <1>2, <1>3, <1>4, <1>5 DEF Swaps

(* A command whose step leaves the MIDI alone must leave the work undone   *)
(* to itself if it had it.                                                 *)
LEMMA CleanKept ==
  ASSUME TypeOK, Clean, NEW t \in Threads, Others(t), Pending(t) => Pending(t)',
         epoch' = epoch, dir' = dir, loaded' = loaded, dirty' = dirty, doc'.midi = doc.midi,
         dir \in Dirs =>
           disk'[dir].midi = disk[dir].midi \/ (disk[dir].midi = NoMidi /\ disk'[dir].midi = BlankMidi)
  PROVE  Clean'
<1> SUFFICES ASSUME ~dirty, dir # NoDir, loaded = dir, \A u \in Threads : ~Pending(u)',
                    NEW p \in MidiParts, doc.midi[p].of = dir
             PROVE  disk'[dir].midi # NoMidi /\ disk'[dir].midi[p] = doc.midi[p]
  BY DEF Clean, OnDiskAsInMemory
<1>1. \A u \in Threads : ~Pending(u)
  <2> SUFFICES ASSUME NEW u \in Threads \ {t} PROVE ~Pending(u)
    OBVIOUS
  <2>1. thread'[u] = thread[u]
    BY DEF Others
  <2> QED
    BY <2>1 DEF Pending
<1>2. disk[dir].midi # NoMidi /\ disk[dir].midi[p] = doc.midi[p]
  BY <1>1 DEF Clean, OnDiskAsInMemory
<1>3. dir \in Dirs
  BY DEF TypeOK, Homes
<1> QED
  BY <1>2, <1>3

LEMMA StepsClean ==
  ASSUME Grounds, \A t \in Threads : Writing(t), Unbound, Clean,
         NEW t \in Threads, Act(t), mishaps' = {}
  PROVE  Clean'
<1>0. /\ TypeOK /\ Placed /\ Gated /\ Standing /\ Others(t) /\ Fit(t)
      /\ Newborn(t) /\ Writing(t)
      /\ dir # NoDir => dir \in Dirs
  BY Courses DEF Grounds, Gated, TypeOK, Homes
<1>1. CASE Pending(t)'
  BY <1>1 DEF Clean
<1>2. CASE Edit(t)
  <2>1. CASE thread'[t].part = "song"
    <3>1. doc'.midi = doc.midi
      BY <1>0, <1>2, <2>1, AfterEdit
    <3> QED
      BY <1>0, <1>2, <2>1, <3>1, CleanKept DEF Edit, Pending
  <2>2. CASE thread'[t].part # "song"
    <3>1. Pending(t)'
      BY <1>0, <1>2, <2>2, AfterEdit DEF Pending, Edit
    <3> QED
      BY <1>1, <3>1
  <2> QED
    BY <2>1, <2>2
<1>3. CASE Skip(t)
  <2>1. CASE dir = NoDir
    BY <1>3, <2>1 DEF Clean, Skip, session
  <2>2. CASE dir # NoDir
    <3>1. ~Pending(t)
      BY <1>3, <2>2 DEF Pending, Skip
    <3> QED
      BY <1>0, <1>3, <3>1, CleanKept DEF Skip, session
  <2> QED
    BY <2>1, <2>2
<1>4. CASE Snapshot(t)
  <2>1. CASE thread[t].part = "song"
    <3>1. ~Pending(t)
      BY <1>4, <2>1 DEF Pending, Snapshot
    <3> QED
      BY <1>0, <1>4, <3>1, CleanKept DEF Snapshot, session
  <2>2. CASE thread[t].part # "song"
    <3>1. Pending(t)'
      BY <1>0, <1>4, <2>2, AfterSnapshot DEF Pending
    <3> QED
      BY <1>1, <3>1
  <2> QED
    BY <2>1, <2>2
<1>5. CASE Record(t) \/ UpgradeFails(t) \/ Line(t) \/ Mark(t) \/ Load(t) \/ Reread(t)
  <2>1. ~Pending(t)
    BY <1>5 DEF Pending, Record, UpgradeFails, Line, Mark, Load, Reread
  <2>2. /\ epoch' = epoch /\ dir' = dir /\ loaded' = loaded /\ dirty' = dirty /\ doc' = doc
        /\ disk' = disk
    BY <1>5 DEF Record, UpgradeFails, Line, Mark, Load, Reread, session
  <2> QED
    BY <1>0, <2>1, <2>2, CleanKept
<1>6. CASE WriteSong(t) \/ SongFails(t)
  <2>1. /\ epoch' = epoch /\ dir' = dir /\ loaded' = loaded /\ dirty' = dirty /\ doc' = doc
        /\ dir \in Dirs => disk'[dir].midi = disk[dir].midi
    <3>1. CASE WriteSong(t)
      BY <1>0, <3>1 DEF WriteSong, session, TypeOK, Files
    <3>2. CASE SongFails(t)
      BY <3>2 DEF SongFails, session
    <3> QED
      BY <1>6, <3>1, <3>2
  <2>2. CASE thread[t].job # "saveAs"
    <3>1. ~Pending(t)
      BY <1>6, <2>2 DEF Pending, WriteSong, SongFails
    <3> QED
      BY <1>0, <2>1, <3>1, CleanKept
  <2>3. CASE thread[t].job = "saveAs"
    <3>1. WriteSong(t)
      BY <1>6, <2>3 DEF SongFails, Happens
    <3>2. Goto(t, "midi")
      BY <1>0, <2>3, <3>1 DEF WriteSong, Writing
    <3>3. Pending(t)'
      BY <1>0, <3>2, AfterGoto DEF Pending
    <3> QED
      BY <1>1, <3>3
  <2> QED
    BY <2>2, <2>3
<1>7. CASE WriteMidi(t)
  <2>1. Pending(t)'
    BY <1>0, <1>7, AfterGoto DEF Pending, WriteMidi
  <2> QED
    BY <1>1, <2>1
<1>8. CASE MidiFails(t)
  <2>1. Pending(t)'
    BY <1>0, <1>8, AfterMidiFails DEF Pending
  <2> QED
    BY <1>1, <2>1
<1>9. CASE Settle(t)
  <2> SUFFICES ASSUME ~dirty' PROVE OnDiskAsInMemory'
    BY DEF Clean
  <2>1. /\ thread[t].ok /\ doc.midi = thread[t].take.midi /\ thread[t].to = dir
        /\ doc' = doc /\ dir' = dir /\ disk' = disk
    BY <1>9 DEF Settle, Happens
  <2>2. disk[dir].midi = doc.midi
    BY <1>0, <1>9, <2>1 DEF Writing, Settle
  <2>3. disk[dir].midi # NoMidi
    BY <1>0, <2>2, MidiIsMidi, DocTyped
  <2> QED
    BY <2>1, <2>2, <2>3 DEF OnDiskAsInMemory
<1>10. CASE Upgrade(t)
  <2>1. ~Pending(t)
    BY <1>10 DEF Pending, Upgrade
  <2>2. disk' = [disk EXCEPT ![thread[t].to].midi = IF @ = NoMidi THEN BlankMidi ELSE @]
    BY <1>10 DEF Upgrade
  <2>3. dir \in Dirs =>
          disk'[dir].midi = disk[dir].midi \/ (disk[dir].midi = NoMidi /\ disk'[dir].midi = BlankMidi)
    BY <1>0, <2>2 DEF TypeOK, Files
  <2> QED
    BY <1>0, <1>10, <2>1, <2>3, CleanKept DEF Upgrade, session
<1>11. CASE Mint(t)
  <2>1. ~Pending(t)
    BY <1>11 DEF Pending, Mint
  <2>2. ~disk[thread'[t].to].made /\ disk' = [disk EXCEPT ![thread'[t].to] = Fresh] /\ thread'[t].to \in Dirs
    BY <1>0, <1>11, AfterMint
  <2>3. dir \in Dirs => disk'[dir] = disk[dir]
    <3>1. dir \in Dirs => disk[dir].made
      BY <1>0, DirsAssumption DEF Standing, MadeHomes
    <3> QED
      BY <1>0, <2>2, <3>1 DEF TypeOK
  <2> QED
    BY <1>0, <1>11, <2>1, <2>3, CleanKept DEF Mint, session
<1>12. CASE SaveAs(t)
  <2>1. Pending(t)'
    BY <1>0, <1>12, AfterSwap DEF Pending, Ensure, SaveAs
  <2> QED
    BY <1>1, <2>1
<1>13. CASE Ensure(t) \/ Create(t)
  <2>1. thread[t].pc = "swap" /\ thread[t].at = epoch /\ thread[t].job # "open"
    BY <1>13 DEF Ensure, Create, Overlap, Happens, Overtaken
  <2>2. /\ dir' = thread[t].to /\ loaded # thread[t].to
        /\ \A p \in MidiParts : doc.midi[p].of # thread[t].to
    BY <1>0, <1>13, <2>1, AfterSwap DEF Newborn
  <2>3. CASE Ensure(t)
    BY <2>2, <2>3 DEF Clean, Ensure
  <2>4. CASE Create(t)
    <3>1. doc'.midi = [p \in MidiParts |-> IF p \in Reset THEN Blank ELSE doc.midi[p]]
      BY <2>4 DEF Create, Swap
    <3>2. thread[t].to # NoDir
      BY <1>0, <2>1, DirsAssumption DEF Placed
    <3>3. \A p \in MidiParts : doc'.midi[p].of # thread[t].to
      BY <2>2, <3>1, <3>2 DEF Blank
    <3> QED
      BY <2>2, <3>3 DEF Clean, OnDiskAsInMemory
  <2> QED
    BY <1>13, <2>3, <2>4
<1>14. CASE Open(t)
  <2> DEFINE d == thread[t].to
  <2>1. PICK m \in {doc.midi, disk[d].midi, BlankMidi} \ {NoMidi}, l \in {loaded, d},
             unread \in BOOLEAN :
          /\ IF dirty \/ unread THEN Keeps(m, l) ELSE Adopts(d, m, l)
          /\ Swap(d, [song |-> thread[t].take.song, midi |-> m])
          /\ loaded' = l
          /\ unread => "unread" \in mishaps'
    BY <1>14 DEF Open
  <2> SUFFICES ASSUME ~dirty' PROVE OnDiskAsInMemory'
    BY DEF Clean
  <2>2. ~dirty /\ disk' = disk /\ dir' = d /\ doc'.midi = m
    BY <1>14, <2>1 DEF Open, Swap
  <2>3. Adopts(d, m, l) /\ d # NoDir
    BY <1>0, <1>14, <2>1, <2>2, DirsAssumption DEF Open, Placed
  <2> HIDE DEF d
  <2>4. CASE disk[d].midi # NoMidi
    BY <2>2, <2>3, <2>4 DEF Adopts, OnDiskAsInMemory
  <2>5. CASE disk[d].midi = NoMidi
    <3>1. \A p \in MidiParts : m[p].of = NoDir
      BY <2>3, <2>5 DEF Adopts, Unbound, BlankMidi, Blank
    <3> QED
      BY <2>2, <2>3, <3>1 DEF OnDiskAsInMemory
  <2> QED
    BY <2>4, <2>5
<1>15. CASE Boundary(t)
  <2>1. CASE thread[t].job = "saveAs"
    <3>1. Pending(t)'
      BY <1>0, <1>15, <2>1, AfterGoto DEF Pending, Boundary, Carries, Same
    <3> QED
      BY <1>1, <3>1
  <2>2. CASE thread[t].job # "saveAs"
    <3>1. ~Pending(t)
      BY <1>15, <2>2 DEF Pending, Boundary
    <3> QED
      BY <1>0, <1>15, <3>1, CleanKept DEF Boundary, session
  <2> QED
    BY <2>1, <2>2
<1> QED
  BY <1>2, <1>3, <1>4, <1>5, <1>6, <1>7, <1>8, <1>9, <1>10, <1>11, <1>12, <1>13, <1>14, <1>15 DEF Act

MInv ==
  /\ Grounds /\ \A t \in Threads : Writing(t)
  /\ mishaps = {} => Unbound /\ Clean

LEMMA InitClean == Init => MInv
<1> SUFFICES ASSUME Init PROVE MInv
  OBVIOUS
<1>1. \A t \in Threads : thread[t].pc = "idle"
  BY DEF Init, Idle
<1>2. dir = NoDir /\ \A p \in MidiParts : doc.midi[p].of = NoDir
  BY DEF Init, BlankDocument, BlankMidi, Blank
<1> QED
  BY <1>1, <1>2, InitGrounds DEF MInv, FInv, Writing, Unbound, Clean

LEMMA CleanStep == MInv /\ [Next]_vars => MInv'
<1> SUFFICES ASSUME MInv, [Next]_vars PROVE MInv'
  OBVIOUS
<1>1. Grounds'
  BY GroundsStep DEF MInv
<1>2. CASE UNCHANGED vars
  <2>1. Unbound => Unbound'
    BY <1>2 DEF vars, session, Unbound
  <2>2. Clean => Clean'
    BY <1>2 DEF vars, session, Clean, Pending, OnDiskAsInMemory
  <2>3. \A t \in Threads : Writing(t) => Writing(t)'
    BY <1>2 DEF vars, Writing
  <2> QED
    BY <1>1, <1>2, <2>1, <2>2, <2>3 DEF MInv, vars
<1>3. ASSUME NEW t \in Threads, Act(t) PROVE MInv'
  <2>1. \A u \in Threads : Writing(u)'
    BY <1>3, StepsWriting DEF MInv, Grounds
  <2>2. ASSUME mishaps' = {} PROVE Unbound' /\ Clean'
    <3>1. mishaps = {}
      BY <1>3, <2>2, MishapsGrow
    <3> QED
      BY <1>3, <2>2, <3>1, StepsBound, StepsClean DEF MInv, Grounds
  <2> QED
    BY <1>1, <2>1, <2>2 DEF MInv
<1> QED
  BY <1>2, <1>3 DEF Next

(* With no command under way and the flag down, the MIDI made in the open  *)
(* project is on disk as it is in memory, unless one of the mishaps came.  *)
THEOREM CleanMidiStaysOnDisk == Spec => []CleanMidiIsOnDisk
<1>1. MInv => CleanMidiIsOnDisk
  BY DEF MInv, CleanMidiIsOnDisk, Clean, Resting, Pending, OnDiskAsInMemory
<1> QED
  BY InitClean, CleanStep, <1>1, PTL DEF Spec

----------------------------------------------------------------------------
(* The journal's reader: what a mark has passed.                           *)
LEMMA LeastNatural ==
  ASSUME NEW D \in SUBSET Nat, D # {}
  PROVE  \E n \in D : \A m \in D : n <= m
<1> DEFINE Less == OpToRel(<, Nat)
<1>1. IsWellFoundedOn(Less, Nat)
  BY NatLessThanWellFounded
<1>2. \A m, n \in Nat : <<m, n>> \in Less <=> m < n
  BY DEF OpToRel
<1> HIDE DEF Less
<1>3. PICK n \in D : \A m \in D : ~(<<m, n>> \in Less)
  BY <1>1, WFMin
<1>4. ASSUME NEW m \in D PROVE n <= m
  <2>1. m \in Nat /\ n \in Nat /\ ~(<<m, n>> \in Less)
    BY <1>3
  <2>2. ~(m < n)
    BY <1>2, <2>1
  <2> QED
    BY <2>1, <2>2
<1> QED
  BY <1>4

LEMMA MaxIsReached ==
  ASSUME NEW b \in Nat, NEW S \in SUBSET (0..b), S # {}
  PROVE  Max(S) \in S
<1> DEFINE D == {b - x : x \in S}
<1>1. D \in SUBSET Nat /\ D # {}
  <2>1. \A x \in S : b - x \in Nat
    OBVIOUS
  <2> QED
    BY <2>1
<1>2. PICK n \in D : \A m \in D : n <= m
  BY <1>1, LeastNatural
<1>3. PICK k \in S : n = b - k
  BY <1>2
<1>4. ASSUME NEW x \in S PROVE k >= x
  <2>1. n <= b - x /\ x \in Nat /\ k \in Nat
    BY <1>2
  <2> QED
    BY <1>3, <2>1
<1> QED
  BY <1>4 DEF Max

(* A batch that is not offered has a mark after one at least as new.       *)
LEMMA PassedByAMark ==
  ASSUME NEW s, NEW b \in Nat, \A i \in Batches(s) : s[i].rev \in 1..b,
         NEW i \in Batches(s), s[i].epoch = Newest(s), i \notin UnsavedTail(s)
  PROVE  \E m \in Marks(s) : \E k \in Batches(s) :
           k < m /\ s[k].epoch = Newest(s) /\ s[i].rev <= s[k].rev
<1> DEFINE Before(m) == {k \in Batches(s) : k < m /\ s[k].epoch = Newest(s)}
           Revs(m) == {0} \cup {s[k].rev : k \in Before(m)}
           Anchors == {0} \cup {Anchor(s, m) : m \in Marks(s)}
<1>1. ASSUME NEW m PROVE Anchor(s, m) \in Revs(m) /\ Anchor(s, m) \in 0..b
  <2>1. Revs(m) \in SUBSET (0..b) /\ Revs(m) # {}
    OBVIOUS
  <2>2. Max(Revs(m)) \in Revs(m)
    BY <2>1, MaxIsReached
  <2>3. Anchor(s, m) = Max(Revs(m))
    BY DEF Anchor
  <2> HIDE DEF Revs
  <2> QED
    BY <2>1, <2>2, <2>3
<1>2. Saved(s) \in Anchors
  <2>1. Anchors \in SUBSET (0..b) /\ Anchors # {}
    BY <1>1
  <2>2. Max(Anchors) \in Anchors
    BY <2>1, MaxIsReached
  <2> QED
    BY <2>2 DEF Saved
<1>3. s[i].rev \in 1..b /\ ~(s[i].rev > Saved(s)) /\ Saved(s) \in 0..b
  <2>1. Anchors \in SUBSET (0..b)
    BY <1>1
  <2> QED
    BY <1>2, <2>1 DEF UnsavedTail
<1>4. PICK m \in Marks(s) : Saved(s) = Anchor(s, m)
  BY <1>2, <1>3
<1>5. PICK k \in Before(m) : Anchor(s, m) = s[k].rev
  <2>1. Anchor(s, m) # 0
    BY <1>3, <1>4
  <2> QED
    BY <1>1, <2>1
<1>6. s[i].rev <= s[k].rev
  BY <1>3, <1>4, <1>5
<1> QED
  BY <1>5, <1>6

(* The line a step adds, if it adds one. *)
NewBatch(t, l) ==
  /\ Record(t) /\ thread[t].at = logEpoch
  /\ l = [kind |-> "batch", rev |-> thread[t].rev, epoch |-> thread[t].at, part |-> thread[t].part]

NewMark(t, l) ==
  Line(t) /\ thread[t].at = logEpoch /\ l = [kind |-> "save", epoch |-> logEpoch]

LEMMA LineTyped ==
  ASSUME TypeOK, NEW d \in Dirs, NEW i \in DOMAIN journal[d]
  PROVE  /\ i \in Nat /\ journal[d][i].epoch \in Nat /\ journal[d][i].kind \in {"batch", "save"}
         /\ journal[d][i].kind = "batch" => journal[d][i].rev \in Nat
<1>1. journal[d] \in Seq(Batch \cup SaveMark)
  BY DEF TypeOK
<1>2. journal[d][i] \in Batch \cup SaveMark /\ i \in Nat
  BY <1>1
<1> QED
  BY <1>2 DEF Batch, SaveMark

LEMMA Lines ==
  ASSUME TypeOK, NEW t \in Threads, Act(t), NEW d \in Dirs, NEW i \in DOMAIN journal'[d]
  PROVE  \/ i \in DOMAIN journal[d] /\ journal'[d][i] = journal[d][i]
         \/ /\ d = logDir /\ (NewBatch(t, journal'[d][i]) \/ NewMark(t, journal'[d][i]))
            /\ \A j \in DOMAIN journal[d] : j < i
<1>1. journal[d] \in Seq(Batch \cup SaveMark) /\ journal \in [Dirs -> Seq(Batch \cup SaveMark)]
  BY DEF TypeOK
<1>2. ASSUME NEW l, journal' = [journal EXCEPT ![logDir] = Append(@, l)]
      PROVE  \/ i \in DOMAIN journal[d] /\ journal'[d][i] = journal[d][i]
             \/ d = logDir /\ journal'[d][i] = l /\ \A j \in DOMAIN journal[d] : j < i
  <2>1. CASE d # logDir
    <3>1. journal'[d] = journal[d]
      BY <1>1, <1>2, <2>1
    <3> QED
      BY <3>1
  <2>2. CASE d = logDir
    <3>1. journal'[d] = Append(journal[d], l)
      BY <1>1, <1>2, <2>2
    <3>2. /\ DOMAIN Append(journal[d], l) = 1..(Len(journal[d]) + 1) /\ Len(journal[d]) \in Nat
          /\ DOMAIN journal[d] = 1..Len(journal[d])
          /\ \A j \in 1..Len(journal[d]) : Append(journal[d], l)[j] = journal[d][j]
          /\ Append(journal[d], l)[Len(journal[d]) + 1] = l
      BY <1>1
    <3> QED
      BY <2>2, <3>1, <3>2
  <2> QED
    BY <2>1, <2>2
<1>3. CASE journal' = journal
  BY <1>3
<1>4. CASE Record(t)
  <2> DEFINE l == [kind |-> "batch", rev |-> thread[t].rev, epoch |-> thread[t].at,
                   part |-> thread[t].part]
  <2>1. \/ journal' = journal
        \/ thread[t].at = logEpoch /\ journal' = [journal EXCEPT ![logDir] = Append(@, l)]
    BY <1>4 DEF Record
  <2>2. \A e : e = l => (thread[t].at = logEpoch => NewBatch(t, e))
    BY <1>4 DEF NewBatch
  <2> HIDE DEF l
  <2> QED
    BY <1>2, <1>3, <2>1, <2>2
<1>5. CASE Line(t)
  <2> DEFINE l == [kind |-> "save", epoch |-> logEpoch]
  <2>1. \/ journal' = journal
        \/ thread[t].at = logEpoch /\ journal' = [journal EXCEPT ![logDir] = Append(@, l)]
    BY <1>5 DEF Line
  <2>2. \A e : e = l => (thread[t].at = logEpoch => NewMark(t, e))
    BY <1>5 DEF NewMark
  <2> HIDE DEF l
  <2> QED
    BY <1>2, <1>3, <2>1, <2>2
<1>6. CASE ~Record(t) /\ ~Line(t)
  <2>1. journal' = journal
    BY <1>6 DEF Act, Edit, Skip, Snapshot, WriteSong, SongFails, WriteMidi, MidiFails, Settle,
       Upgrade, UpgradeFails, Mark, SaveAs, Mint, Ensure, Reread, Create, Load, Open, Boundary, log
  <2> QED
    BY <1>3, <2>1
<1> QED
  BY <1>4, <1>5, <1>6

(* The commits under way.                                                  *)
SameCommit(u) ==
  /\ thread[u].job = "commit" /\ thread'[u].part = thread[u].part
  /\ thread'[u].rev = thread[u].rev /\ thread'[u].at = thread[u].at

LEMMA Commits ==
  ASSUME TypeOK, Gated, NEW t \in Threads, Act(t), NEW u \in Threads, thread'[u].job = "commit"
  PROVE  \/ /\ SameCommit(u)
            /\ thread'[u].pc = "record" /\ thread[u].pc # "record" =>
                 u = t /\ gate \in {Nobody, t}
         \/ u = t /\ Edit(t)
<1>1. CASE u # t
  BY <1>1, Courses DEF Others, SameCommit
<1>2. CASE u = t
  <2>0. Fit(t) /\ (Writes(t) => gate = t)
    BY DEF Gated
  <2>1. CASE Skip(t)
    BY <1>2, <2>1, AfterGoto DEF Skip, Carries, Same, SameCommit
  <2>2. CASE Snapshot(t)
    BY <1>2, <2>2, AfterSnapshot DEF Same, SameCommit
  <2>3. CASE Record(t) \/ UpgradeFails(t) \/ Line(t)
    BY <1>2, <2>3, AfterFinish, BlankStands DEF Record, UpgradeFails, Line
  <2>4. CASE WriteSong(t) \/ SongFails(t)
    <3>1. CASE thread[t].job = "commit"
      BY <1>2, <2>0, <2>4, <3>1, AfterToRecord DEF WriteSong, SongFails, Done, Same, SameCommit, Writes
    <3>2. CASE thread[t].job # "commit"
      BY <1>2, <2>4, <3>2, AfterGoto, AfterFinish, BlankStands DEF WriteSong, SongFails, Carries, Same
    <3> QED
      BY <3>1, <3>2
  <2>5. CASE WriteMidi(t)
    BY <1>2, <2>5, AfterGoto DEF WriteMidi, Carries, Same, SameCommit
  <2>6. CASE MidiFails(t)
    BY <1>2, <2>6, AfterMidiFails DEF Carries, Same, SameCommit
  <2>7. CASE Settle(t)
    <3>1. CASE thread[t].job = "commit"
      BY <1>2, <2>0, <2>7, <3>1, AfterSettle, AfterToRecord DEF Same, SameCommit, Writes, Settle
    <3>2. CASE thread[t].job # "commit"
      BY <1>2, <2>7, <3>2, AfterSettle DEF Carries, Same
    <3> QED
      BY <3>1, <3>2
  <2>8. CASE Upgrade(t)
    BY <1>2, <2>0, <2>8, AfterGoto, AfterFinish, BlankStands DEF Upgrade, Carries, Same, Fit
  <2>9. CASE Mark(t) \/ Mint(t) \/ Load(t) \/ Reread(t)
    BY <1>2, <2>0, <2>9, AfterMark, AfterMint, AfterLoad, AfterReread DEF Fit
  <2>10. CASE Swaps(t)
    BY <1>2, <2>0, <2>10, AfterSwap DEF Swaps, Fit
  <2>11. CASE Boundary(t)
    BY <1>2, <2>0, <2>11, AfterGoto, AfterFinish, BlankStands DEF Boundary, Carries, Same, Fit
  <2> QED
    BY <1>2, <2>1, <2>2, <2>3, <2>4, <2>5, <2>6, <2>7, <2>8, <2>9, <2>10, <2>11 DEF Act, Swaps
<1> QED
  BY <1>1, <1>2

----------------------------------------------------------------------------
(* The log follows the session: it has lines of its own epoch only in the  *)
(* directory it writes, and of no later one.                               *)
Follows(t) ==
  /\ thread[t].at <= epoch
  /\ thread[t].pc \in {"reread", "boundary"} \/ thread[t].job = "mark" =>
       (thread[t].at = epoch => thread[t].to = dir)
  /\ thread[t].job = "mark" => (thread[t].at = logEpoch => thread[t].to = logDir)
  /\ thread[t].job = "commit" => thread[t].rev \in 1..rev

Logged ==
  /\ logEpoch <= epoch /\ (logEpoch = epoch => logDir = dir)
  /\ \A t \in Threads : Follows(t)
  /\ \A d \in Dirs : \A i \in DOMAIN journal[d] :
       /\ journal[d][i].epoch <= logEpoch
       /\ journal[d][i].epoch = logEpoch => d = logDir
  /\ \A d \in Dirs : \A i \in Batches(journal[d]) : journal[d][i].rev \in 1..rev

(* What a step makes of the log's place.                                   *)
LEMMA Places ==
  ASSUME TypeOK, NEW t \in Threads, Act(t)
  PROVE  \/ logEpoch' = logEpoch /\ logDir' = logDir
         \/ Boundary(t) /\ logEpoch' = thread[t].at /\ logDir' = thread[t].to
BY DEF Act, Swaps, Swap, Edit, Skip, Snapshot, Record, WriteSong, SongFails, WriteMidi, MidiFails,
       Settle, Upgrade, UpgradeFails, Line, Mark, SaveAs, Ensure, Create, Open, Mint, Reread, Load,
       Boundary, log

LEMMA Clocks ==
  ASSUME TypeOK, Logged, NEW t \in Threads, Act(t), "overlap" \notin mishaps'
  PROVE  /\ rev' \in Nat /\ rev <= rev' /\ rev' <= rev + 1
         /\ epoch' \in Nat /\ epoch <= epoch'
         /\ logEpoch' \in Nat /\ logEpoch <= logEpoch' /\ logEpoch' <= epoch'
         /\ logEpoch' = epoch' => logDir' = dir'
         /\ logEpoch' = logEpoch => logDir' = logDir
         /\ logEpoch' # logEpoch => logEpoch' = epoch /\ epoch' = epoch /\ dir' = dir
         /\ epoch' # epoch => epoch' = epoch + 1 /\ Swaps(t)
         /\ ~Swaps(t) => epoch' = epoch /\ dir' = dir
<1>0. rev \in Nat /\ epoch \in Nat /\ logEpoch \in Nat /\ logEpoch <= epoch /\ (logEpoch = epoch => logDir = dir)
  BY Numbers DEF TypeOK, Logged
<1>1. CASE Swaps(t)
  <2>1. rev' = rev /\ epoch' = epoch + 1
    BY <1>1, AfterSwap DEF Swaps, SaveAs, Ensure, Create, Open, Swap
  <2>2. logEpoch' = logEpoch /\ logDir' = logDir
    BY <1>1 DEF Swaps, SaveAs, Ensure, Create, Open, log
  <2> QED
    BY <1>0, <1>1, <2>1, <2>2
<1>2. CASE Boundary(t)
  <2>1. epoch = thread[t].at /\ thread[t].pc = "boundary"
    BY <1>2 DEF Boundary, Overlap, Overtaken, Happens
  <2>2. thread[t].to = dir
    BY <2>1 DEF Logged, Follows
  <2> QED
    BY <1>0, <1>2, <2>1, <2>2 DEF Boundary, session
<1>3. CASE ~Swaps(t) /\ ~Boundary(t)
  <2>1. logEpoch' = logEpoch /\ logDir' = logDir
    BY <1>3, Places
  <2>2. epoch' = epoch /\ dir' = dir /\ (rev' = rev \/ rev' = rev + 1)
    BY <1>3, Sessions
  <2> QED
    BY <1>0, <2>1, <2>2
<1> QED
  BY <1>1, <1>2, <1>3

(* A step leaves its command with its epoch and directory, starts afresh,  *)
(* or takes the session's.                                                 *)
LEMMA Epochs ==
  ASSUME TypeOK, Gated, NEW t \in Threads, Act(t)
  PROVE  \/ thread'[t].at = thread[t].at /\ thread'[t].to = thread[t].to /\ thread'[t].job = thread[t].job
            /\ thread'[t].pc \notin {"reread", "boundary"}
         \/ thread'[t].at = thread[t].at /\ thread'[t].job = "commit"
            /\ thread'[t].pc \notin {"reread", "boundary"}
         \/ thread'[t] = Idle
         \/ Edit(t) /\ thread'[t].at = epoch
         \/ Mark(t) /\ thread'[t].at = epoch /\ thread'[t].to = dir /\ thread'[t].job = "mark"
         \/ Swaps(t) /\ thread'[t].at = epoch + 1 /\ thread'[t].to = thread[t].to
              /\ thread'[t].job = thread[t].job
         \/ (Mint(t) \/ Load(t)) /\ thread'[t].at = epoch
         \/ Reread(t) /\ thread'[t].at = epoch /\ thread'[t].to = thread[t].to
              /\ thread'[t].job = thread[t].job
<1>0. Fit(t)
  BY DEF Gated
<1>1. CASE Edit(t)
  BY <1>1, AfterEdit
<1>2. CASE Skip(t)
  BY <1>2, AfterGoto DEF Skip, Carries, Same
<1>3. CASE Snapshot(t)
  BY <1>0, <1>3, AfterSnapshot DEF Same, Fit, Snapshot
<1>4. CASE Record(t) \/ UpgradeFails(t) \/ Line(t)
  BY <1>4, AfterFinish DEF Record, UpgradeFails, Line
<1>5. CASE WriteSong(t) \/ SongFails(t)
  <2>1. CASE thread[t].job = "commit"
    BY <1>5, <2>1, AfterToRecord DEF WriteSong, SongFails, Done, Same
  <2>2. CASE thread[t].job # "commit"
    BY <1>5, <2>2, AfterGoto, AfterFinish DEF WriteSong, SongFails, Carries, Same
  <2> QED
    BY <2>1, <2>2
<1>6. CASE WriteMidi(t)
  BY <1>6, AfterGoto DEF WriteMidi, Carries, Same
<1>7. CASE MidiFails(t)
  BY <1>7, AfterMidiFails DEF Carries, Same
<1>8. CASE Settle(t)
  <2>1. CASE thread[t].job = "commit"
    BY <1>8, <2>1, AfterSettle, AfterToRecord DEF Same
  <2>2. CASE thread[t].job # "commit"
    BY <1>8, <2>2, AfterSettle DEF Carries, Same
  <2> QED
    BY <2>1, <2>2
<1>9. CASE Upgrade(t)
  BY <1>9, AfterGoto, AfterFinish DEF Upgrade, Carries, Same
<1>10. CASE Mark(t)
  BY <1>10, AfterMark
<1>11. CASE Swaps(t)
  BY <1>11, AfterSwap DEF Swaps
<1>12. CASE Mint(t) \/ Load(t) \/ Reread(t)
  BY <1>12, AfterMint, AfterLoad, AfterReread
<1>13. CASE Boundary(t)
  <2>1. CASE thread[t].job = "saveAs"
    BY <1>13, <2>1, AfterGoto DEF Boundary, Carries, Same
  <2>2. CASE thread[t].job # "saveAs"
    BY <1>13, <2>2, AfterFinish DEF Boundary
  <2> QED
    BY <2>1, <2>2
<1> QED
  BY <1>1, <1>2, <1>3, <1>4, <1>5, <1>6, <1>7, <1>8, <1>9, <1>10, <1>11, <1>12, <1>13 DEF Act, Swaps

LEMMA StepsLogged ==
  ASSUME TypeOK, Placed, Gated, Logged, NEW t \in Threads, Act(t), "overlap" \notin mishaps'
  PROVE  Logged'
<1>0. /\ rev \in Nat /\ epoch \in Nat /\ logEpoch \in Nat
      /\ rev' \in Nat /\ rev <= rev'
      /\ epoch' \in Nat /\ epoch <= epoch'
      /\ logEpoch' \in Nat /\ logEpoch <= logEpoch' /\ logEpoch' <= epoch'
      /\ logEpoch' = epoch' => logDir' = dir'
      /\ logEpoch' = logEpoch => logDir' = logDir
      /\ logEpoch' # logEpoch => logEpoch' = epoch /\ epoch' = epoch /\ dir' = dir
      /\ epoch' # epoch => epoch' = epoch + 1 /\ Swaps(t)
      /\ ~Swaps(t) => epoch' = epoch /\ dir' = dir
      /\ logEpoch <= epoch /\ (logEpoch = epoch => logDir = dir)
      /\ Others(t)
  BY Clocks, Numbers, Courses DEF TypeOK, Logged
<1>2. Swaps(t) => epoch' = epoch + 1 /\ dir' = thread[t].to /\ thread[t].pc = "swap" /\ thread'[t].to = thread[t].to
  BY AfterSwap DEF Swaps
<1>3. ASSUME NEW u \in Threads \ {t} PROVE Follows(u)'
  <2>1. thread'[u] = thread[u] /\ Follows(u) /\ thread[u].at \in Nat /\ thread[u].rev \in Nat
    BY <1>0, ThreadTyped DEF Others, Logged
  <2>2. /\ thread[u].at <= epoch'
        /\ thread[u].pc \in {"reread", "boundary"} \/ thread[u].job = "mark" =>
             (thread[u].at = epoch' => thread[u].to = dir')
    BY <1>0, <1>2, <2>1 DEF Follows
  <2>3. thread[u].job = "mark" => (thread[u].at = logEpoch' => thread[u].to = logDir')
    BY <1>0, <2>1, <2>2 DEF Follows
  <2>4. thread[u].job = "commit" => thread[u].rev \in 1..rev'
    BY <1>0, <2>1 DEF Follows
  <2> QED
    BY <2>1, <2>2, <2>3, <2>4 DEF Follows
<1>4. Follows(t)'
  <2>0. Follows(t) /\ Fit(t) /\ thread[t].at \in Nat /\ thread[t].rev \in Nat /\ thread[t].at <= epoch
    BY ThreadTyped DEF Logged, Gated, Follows
  <2>1. thread'[t].job = "commit" => thread'[t].rev \in 1..rev'
    <3> SUFFICES ASSUME thread'[t].job = "commit" PROVE thread'[t].rev \in 1..rev'
      OBVIOUS
    <3>1. CASE SameCommit(t)
      BY <1>0, <2>0, <3>1 DEF SameCommit, Follows
    <3>2. CASE Edit(t)
      <4>1. rev' = rev + 1
        BY <3>2 DEF Edit
      <4> QED
        BY <1>0, <3>2, <4>1, AfterEdit
    <3> QED
      BY <3>1, <3>2, Commits
  <2>2. /\ thread'[t].at <= epoch'
        /\ thread'[t].pc \in {"reread", "boundary"} \/ thread'[t].job = "mark" =>
             (thread'[t].at = epoch' => thread'[t].to = dir')
    <3>1. CASE /\ thread'[t].at = thread[t].at /\ thread'[t].to = thread[t].to
               /\ thread'[t].job = thread[t].job /\ thread'[t].pc \notin {"reread", "boundary"}
      <4>1. CASE Swaps(t)
        BY <1>0, <1>2, <2>0, <3>1, <4>1
      <4>2. CASE ~Swaps(t)
        BY <1>0, <2>0, <3>1, <4>2 DEF Follows
      <4> QED
        BY <4>1, <4>2
    <3>2. CASE /\ thread'[t].at = thread[t].at /\ thread'[t].job = "commit"
               /\ thread'[t].pc \notin {"reread", "boundary"}
      BY <1>0, <2>0, <3>2
    <3>3. CASE thread'[t] = Idle
      BY <1>0, <3>3, BlankStands DEF Idle
    <3>4. CASE Edit(t)
      BY <1>0, <3>4, AfterEdit
    <3>5. CASE Mark(t)
      <4>1. ~Swaps(t)
        BY <3>5 DEF Mark, Swaps, SaveAs, Ensure, Create, Open
      <4> QED
        BY <1>0, <3>5, <4>1, AfterMark
    <3>6. CASE Swaps(t) /\ thread'[t].at = epoch + 1
      BY <1>0, <1>2, <3>6
    <3>7. CASE Mint(t) \/ Load(t)
      BY <1>0, <3>7, AfterMint, AfterLoad
    <3>8. CASE Reread(t)
      <4>1. thread[t].at = epoch /\ thread[t].pc = "reread" /\ ~Swaps(t)
        BY <3>8 DEF Reread, Overlap, Overtaken, Happens, Swaps, SaveAs, Ensure, Create, Open
      <4> QED
        BY <1>0, <2>0, <3>8, <4>1, AfterReread DEF Follows
    <3> QED
      BY <3>1, <3>2, <3>3, <3>4, <3>5, <3>6, <3>7, <3>8, Epochs
  <2>3. thread'[t].job = "mark" => (thread'[t].at = logEpoch' => thread'[t].to = logDir')
    <3> SUFFICES ASSUME thread'[t].job = "mark", thread'[t].at = logEpoch' PROVE thread'[t].to = logDir'
      OBVIOUS
    <3>1. CASE logEpoch' = epoch'
      BY <1>0, <2>2, <3>1
    <3>2. CASE logEpoch' # epoch' /\ thread'[t].at = thread[t].at /\ thread'[t].to = thread[t].to
               /\ thread'[t].job = thread[t].job
      <4>1. logEpoch' = logEpoch
        BY <1>0, <3>2
      <4> QED
        BY <1>0, <2>0, <3>2, <4>1 DEF Follows
    <3>3. CASE Mark(t)
      <4>1. thread'[t].at = epoch /\ epoch' = epoch /\ logEpoch' = logEpoch
        BY <3>3, AfterMark DEF Mark, session, log
      <4> QED
        BY <3>1, <4>1
    <3>4. CASE Swaps(t) /\ thread'[t].job = thread[t].job
      BY <1>2, <2>0, <3>4 DEF Fit, Writes
    <3>5. CASE Reread(t) /\ thread'[t].job = thread[t].job
      BY <2>0, <3>5 DEF Fit, Writes, Reread
    <3> QED
      BY <3>1, <3>2, <3>3, <3>4, <3>5, Epochs, AfterEdit, AfterMint, AfterLoad, BlankStands
  <2> QED
    BY <2>1, <2>2, <2>3 DEF Follows
<1>5. ASSUME NEW d \in Dirs, NEW i \in DOMAIN journal'[d]
      PROVE  /\ journal'[d][i].epoch <= logEpoch'
             /\ journal'[d][i].epoch = logEpoch' => d = logDir'
             /\ journal'[d][i].kind = "batch" => journal'[d][i].rev \in 1..rev'
  <2>1. CASE i \in DOMAIN journal[d] /\ journal'[d][i] = journal[d][i]
    <3>1. /\ journal[d][i].epoch \in Nat /\ journal[d][i].epoch <= logEpoch
          /\ journal[d][i].epoch = logEpoch => d = logDir
          /\ journal[d][i].kind = "batch" => journal[d][i].rev \in 1..rev
      BY <2>1, LineTyped DEF Logged, Batches
    <3> QED
      BY <1>0, <2>1, <3>1
  <2>2. CASE d = logDir /\ NewBatch(t, journal'[d][i])
    <3>1. /\ journal'[d][i].epoch = logEpoch /\ journal'[d][i].rev = thread[t].rev
          /\ logEpoch' = logEpoch /\ logDir' = logDir /\ thread[t].pc = "record" /\ rev' = rev
      BY <2>2 DEF NewBatch, Record, session
    <3>2. thread[t].job = "commit" /\ Follows(t)
      BY <3>1 DEF Logged, Gated, Fit
    <3> QED
      BY <1>0, <2>2, <3>1, <3>2 DEF Follows
  <2>3. CASE d = logDir /\ NewMark(t, journal'[d][i])
    <3>1. /\ journal'[d][i].epoch = logEpoch /\ journal'[d][i].kind = "save"
          /\ logEpoch' = logEpoch /\ logDir' = logDir
      BY <2>3 DEF NewMark, Line
    <3> QED
      BY <1>0, <2>3, <3>1
  <2> QED
    BY <2>1, <2>2, <2>3, Lines
<1> QED
  BY <1>0, <1>3, <1>4, <1>5 DEF Logged, Batches

----------------------------------------------------------------------------
(* The edits of an epoch: those with a line in a directory's journal, and  *)
(* those whose commit has yet to add it, past the gate or not.             *)
SongLine(d, e, s) ==
  \E i \in Batches(journal[d]) :
    journal[d][i].epoch = e /\ journal[d][i].part = "song" /\ journal[d][i].rev = s

AnyLine(d, e, r) == \E i \in Batches(journal[d]) : journal[d][i].epoch = e /\ journal[d][i].rev = r

SongWaits(e, s) ==
  \E u \in Threads : /\ thread[u].job = "commit" /\ thread[u].part = "song"
                     /\ thread[u].at = e /\ thread[u].rev = s

Passes(e, r) == \E u \in Threads : thread[u].pc = "record" /\ thread[u].at = e /\ thread[u].rev = r

LEMMA EditsAreOld ==
  ASSUME TypeOK, Gated, Logged
  PROVE  /\ \A e, s : SongWaits(e, s) => e <= epoch /\ s \in 1..rev
         /\ \A e, r : Passes(e, r) => r \in 1..rev
         /\ \A d \in Dirs : \A e, s : SongLine(d, e, s) => e <= logEpoch /\ s \in 1..rev
         /\ \A d \in Dirs : \A e, r : AnyLine(d, e, r) => r \in 1..rev
<1>1. \A u \in Threads : thread[u].pc = "record" => thread[u].job = "commit"
  BY DEF Gated, Fit
<1> QED
  BY <1>1 DEF Logged, Follows, SongWaits, Passes, SongLine, AnyLine, Batches

LEMMA EditsMove ==
  ASSUME TypeOK, Gated, Gated', NEW t \in Threads, Act(t), NEW e, NEW s
  PROVE  /\ SongWaits(e, s)' => SongWaits(e, s) \/ (Edit(t) /\ e = epoch /\ s = rev + 1 /\ doc'.song.by = s)
         /\ Passes(e, s)' =>
              Passes(e, s) \/ (gate \in {Nobody, t} /\ thread'[t].job = "commit")
         /\ \A d \in Dirs :
              /\ SongLine(d, e, s)' =>
                   SongLine(d, e, s) \/ (d = logDir /\ e = logEpoch /\ SongWaits(e, s))
              /\ AnyLine(d, e, s)' =>
                   AnyLine(d, e, s) \/ (d = logDir /\ e = logEpoch /\ Passes(e, s))
<1>1. ASSUME SongWaits(e, s)', ~SongWaits(e, s)
      PROVE  Edit(t) /\ e = epoch /\ s = rev + 1 /\ doc'.song.by = s
  <2>1. PICK u \in Threads : /\ thread'[u].job = "commit" /\ thread'[u].part = "song"
                             /\ thread'[u].at = e /\ thread'[u].rev = s
    BY <1>1 DEF SongWaits
  <2>2. ~SameCommit(u)
    BY <1>1, <2>1 DEF SameCommit, SongWaits
  <2>3. u = t /\ Edit(t)
    BY <2>1, <2>2, Commits
  <2> QED
    BY <2>1, <2>3, AfterEdit
<1>2. ASSUME Passes(e, s)', ~Passes(e, s)
      PROVE  gate \in {Nobody, t} /\ thread'[t].job = "commit"
  <2>1. PICK u \in Threads : thread'[u].pc = "record" /\ thread'[u].at = e /\ thread'[u].rev = s
    BY <1>2 DEF Passes
  <2>2. thread'[u].job = "commit"
    BY <2>1 DEF Gated, Fit
  <2>3. CASE Edit(t) /\ u = t
    BY <2>1, <2>3, AfterEdit
  <2>4. CASE /\ SameCommit(u)
             /\ thread[u].pc # "record" => u = t /\ gate \in {Nobody, t}
    <3>1. thread[u].pc # "record"
      BY <1>2, <2>1, <2>4 DEF SameCommit, Passes
    <3> QED
      BY <2>2, <2>4, <3>1
  <2> QED
    BY <2>1, <2>2, <2>3, <2>4, Commits
<1>3. ASSUME NEW d \in Dirs, NEW i \in Batches(journal[d])', journal'[d][i].epoch = e, journal'[d][i].rev = s
      PROVE  \/ i \in Batches(journal[d]) /\ journal'[d][i] = journal[d][i]
             \/ /\ d = logDir /\ e = logEpoch /\ Passes(e, s)
                /\ journal'[d][i].part = "song" => SongWaits(e, s)
  <2>1. i \in DOMAIN journal'[d] /\ journal'[d][i].kind = "batch"
    BY <1>3 DEF Batches
  <2>2. CASE i \in DOMAIN journal[d] /\ journal'[d][i] = journal[d][i]
    BY <2>1, <2>2 DEF Batches
  <2>3. CASE d = logDir /\ NewBatch(t, journal'[d][i])
    <3>1. /\ journal'[d][i].epoch = thread[t].at /\ thread[t].at = logEpoch
          /\ journal'[d][i].rev = thread[t].rev /\ journal'[d][i].part = thread[t].part
          /\ thread[t].pc = "record"
      <4>1. Record(t) => thread[t].pc = "record"
        BY DEF Record
      <4> QED
        BY <2>3, <4>1 DEF NewBatch
    <3>2. thread[t].job = "commit"
      BY <3>1 DEF Gated, Fit
    <3> QED
      BY <1>3, <2>3, <3>1, <3>2 DEF Passes, SongWaits
  <2>4. ~NewMark(t, journal'[d][i])
    BY <2>1 DEF NewMark
  <2> QED
    BY <2>1, <2>2, <2>3, <2>4, Lines
<1>4. ASSUME NEW d \in Dirs
      PROVE  /\ SongLine(d, e, s)' =>
                  SongLine(d, e, s) \/ (d = logDir /\ e = logEpoch /\ SongWaits(e, s))
             /\ AnyLine(d, e, s)' =>
                  AnyLine(d, e, s) \/ (d = logDir /\ e = logEpoch /\ Passes(e, s))
  BY <1>3 DEF SongLine, AnyLine
<1> QED
  BY <1>1, <1>2, <1>4

----------------------------------------------------------------------------
(* The open song holds every song edit of its epoch.                       *)
Held ==
  \A s : SongWaits(epoch, s) \/ (dir # NoDir /\ SongLine(dir, epoch, s)) => s <= doc.song.by

LEMMA StepsHeld ==
  ASSUME TypeOK, Gated, Gated', Logged, Rising, Held, NEW t \in Threads, Act(t), "overlap" \notin mishaps',
         TypeOK'
  PROVE  Held'
<1>1. /\ \A e, s : SongWaits(e, s) => e <= epoch /\ s \in 1..rev
      /\ \A d \in Dirs : \A e, s : SongLine(d, e, s) => e <= logEpoch /\ s \in 1..rev
      /\ rev \in Nat /\ epoch \in Nat /\ logEpoch \in Nat /\ doc.song.by \in Nat
      /\ logEpoch <= epoch /\ (logEpoch = epoch => logDir = dir)
  BY EditsAreOld, Numbers DEF TypeOK, Logged
<1>2. \/ Swaps(t) /\ epoch' = epoch + 1
      \/ ~Swaps(t) /\ epoch' = epoch /\ dir' = dir
  BY Clocks, AfterSwap DEF Swaps
<1> SUFFICES ASSUME NEW s, SongWaits(epoch, s)' \/ (dir # NoDir /\ SongLine(dir, epoch, s))'
             PROVE  s <= doc'.song.by
  BY DEF Held
<1> DEFINE e == epoch'
           d == dir'
<1>3. \/ SongWaits(e, s)
      \/ Edit(t) /\ e = epoch /\ s = rev + 1 /\ doc'.song.by = s
      \/ d \in Dirs /\ SongLine(d, e, s)
      \/ d \in Dirs /\ d = logDir /\ e = logEpoch /\ SongWaits(e, s)
  <2>1. \A f, r : SongWaits(f, r)' =>
          SongWaits(f, r) \/ (Edit(t) /\ f = epoch /\ r = rev + 1 /\ doc'.song.by = r)
    BY EditsMove
  <2>2. \A f, r : \A c \in Dirs :
          SongLine(c, f, r)' => SongLine(c, f, r) \/ (c = logDir /\ f = logEpoch /\ SongWaits(f, r))
    BY EditsMove
  <2>3. CASE SongWaits(epoch, s)'
    <3>1. \A f : f = epoch' => SongWaits(f, s)'
      BY <2>3 DEF SongWaits
    <3> QED
      BY <2>1, <3>1
  <2>4. CASE (dir # NoDir /\ SongLine(dir, epoch, s))'
    <3>1. \A f, c : f = epoch' /\ c = dir' => SongLine(c, f, s)'
      BY <2>4 DEF SongLine, Batches
    <3>2. d \in Dirs
      BY <2>4 DEF TypeOK, Homes
    <3> QED
      BY <2>2, <3>1, <3>2
  <2> QED
    BY <2>3, <2>4
<1>4. CASE Swaps(t) /\ epoch' = epoch + 1
  <2>1. ~Edit(t)
    BY <1>4 DEF Edit, Swaps, SaveAs, Ensure, Create, Open
  <2> QED
    BY <1>1, <1>3, <1>4, <2>1
<1>5. CASE ~Swaps(t) /\ epoch' = epoch /\ dir' = dir
  <2>1. doc.song.by <= doc'.song.by /\ doc'.song.by \in Nat
    <3>1. CASE Edit(t)
      <4>1. doc'.song = doc.song \/ doc'.song = [by |-> rev + 1, of |-> dir]
        BY <3>1, AfterEdit
      <4> QED
        BY <1>1, <4>1 DEF Rising
    <3>2. CASE ~Edit(t)
      BY <1>1, <1>5, <3>2, Sessions
    <3> QED
      BY <3>1, <3>2
  <2>2. SongWaits(epoch, s) \/ (dir \in Dirs /\ SongLine(dir, epoch, s)) => s \in 1..rev /\ s <= doc.song.by
    BY <1>1, DirsAssumption DEF Held
  <2>3. CASE s = rev + 1 /\ doc'.song.by = s
    BY <1>1, <2>3
  <2> QED
    BY <1>1, <1>3, <1>5, <2>1, <2>2, <2>3
<1> QED
  BY <1>2, <1>4, <1>5

(* A save's song holds every song edit at most as new as a batch that is   *)
(* in the journal or past the gate, and so is ahead of the save's mark.    *)
MarkHolds(t) ==
  thread[t].job = "mark" =>
    LET d == thread[t].to  e == thread[t].at IN
    /\ \A r, s : (/\ AnyLine(d, e, r) \/ Passes(e, r)
                  /\ SongLine(d, e, s) \/ SongWaits(e, s)
                  /\ s <= r) => s <= thread[t].take.song.by
    /\ thread[t].pc # "song" => thread[t].take.song.by <= disk[d].song.by

LEMMA MarksLive ==
  ASSUME TypeOK, Gated, NEW t \in Threads, Act(t), NEW u \in Threads, thread'[u].job = "mark"
  PROVE  \/ u = t /\ Mark(t)
         \/ /\ thread[u].job = "mark" /\ thread'[u].at = thread[u].at /\ thread'[u].to = thread[u].to
            /\ thread'[u].take = thread[u].take
            /\ (thread[u].pc = "song" /\ thread'[u].pc # "song") => u = t /\ WriteSong(t)
<1>1. CASE u # t
  BY <1>1, Courses DEF Others
<1>2. CASE u = t
  <2>0. Fit(t)
    BY DEF Gated
  <2>1. CASE Edit(t)
    BY <1>2, <2>1, AfterEdit
  <2>2. CASE Skip(t)
    BY <1>2, <2>0, <2>2, AfterGoto DEF Skip, Carries, Same, Fit
  <2>3. CASE Snapshot(t)
    BY <1>2, <2>0, <2>3, AfterSnapshot DEF Snapshot, Same, Fit
  <2>4. CASE Record(t) \/ UpgradeFails(t) \/ Line(t)
    BY <1>2, <2>4, AfterFinish, BlankStands DEF Record, UpgradeFails, Line
  <2>5. CASE WriteSong(t) \/ SongFails(t)
    <3>1. CASE thread[t].job = "commit"
      BY <1>2, <2>5, <3>1, AfterToRecord DEF WriteSong, SongFails, Done, Same
    <3>2. CASE thread[t].job # "commit"
      BY <1>2, <2>5, <3>2, AfterGoto, AfterFinish, BlankStands DEF WriteSong, SongFails, Carries, Same
    <3> QED
      BY <3>1, <3>2
  <2>6. CASE WriteMidi(t)
    BY <1>2, <2>6, AfterGoto DEF WriteMidi, Carries, Same
  <2>7. CASE MidiFails(t)
    BY <1>2, <2>7, AfterMidiFails DEF Carries, Same, MidiFails
  <2>8. CASE Settle(t)
    <3>1. CASE thread[t].job = "commit"
      BY <1>2, <2>8, <3>1, AfterSettle, AfterToRecord DEF Same
    <3>2. CASE thread[t].job # "commit"
      BY <1>2, <2>8, <3>2, AfterSettle DEF Carries, Same, Settle
    <3> QED
      BY <3>1, <3>2
  <2>9. CASE Upgrade(t)
    BY <1>2, <2>9, AfterGoto, AfterFinish, BlankStands DEF Upgrade, Carries, Same
  <2>10. CASE Mint(t) \/ Load(t) \/ Mark(t)
    BY <1>2, <2>10, AfterMint, AfterLoad
  <2>11. CASE Swaps(t) \/ Reread(t)
    BY <1>2, <2>0, <2>11, AfterSwap, AfterReread DEF Swaps, Fit
  <2>12. CASE Boundary(t)
    BY <1>2, <2>0, <2>12, AfterGoto, AfterFinish, BlankStands DEF Boundary, Carries, Same, Fit
  <2> QED
    BY <2>1, <2>2, <2>3, <2>4, <2>5, <2>6, <2>7, <2>8, <2>9, <2>10, <2>11, <2>12 DEF Act, Swaps
<1> QED
  BY <1>1, <1>2

LEMMA StepsHold ==
  ASSUME TypeOK, Gated, Gated', Standing, Logged, Rising, Held', \A u \in Threads : MarkHolds(u),
         NEW t \in Threads, Act(t), "overlap" \notin mishaps',
         \A d \in Dirs : disk'[d].song.by >= disk[d].song.by, TypeOK'
  PROVE  \A u \in Threads : MarkHolds(u)'
<1> SUFFICES ASSUME NEW u \in Threads, thread'[u].job = "mark" PROVE MarkHolds(u)'
  BY DEF MarkHolds
<1>0. rev \in Nat /\ thread[u].take.song.by \in Nat
  BY Numbers
<1>1. CASE u = t /\ Mark(t)
  <2>1. /\ thread'[t].to = dir /\ thread'[t].at = epoch /\ thread'[t].take = doc
        /\ thread'[t].pc = "song" /\ dir' = dir /\ epoch' = epoch /\ doc' = doc /\ dir # NoDir
    BY <1>1, AfterMark DEF Mark, session
  <2>2. \A s : SongLine(dir, epoch, s)' \/ SongWaits(epoch, s)' => s <= doc'.song.by
    BY <2>1 DEF Held
  <2>3. \A s : SongLine(thread[u].to, thread[u].at, s)' \/ SongWaits(thread[u].at, s)' => s <= doc'.song.by
    BY <1>1, <2>1, <2>2 DEF SongLine, SongWaits, Batches
  <2> QED
    BY <1>1, <2>1, <2>3 DEF MarkHolds
<1>2. CASE /\ thread[u].job = "mark" /\ thread'[u].at = thread[u].at /\ thread'[u].to = thread[u].to
           /\ thread'[u].take = thread[u].take
           /\ (thread[u].pc = "song" /\ thread'[u].pc # "song") => u = t /\ WriteSong(t)
  <2>0. PICK d, e : d = thread[u].to /\ e = thread[u].at
    OBVIOUS
  <2>1. d \in Dirs /\ MarkHolds(u) /\ gate = u /\ u # Nobody /\ Writes(u)
    BY <1>2, <2>0, ThreadsAssumption DEF Standing, Gated, Fit
  <2>2. ASSUME NEW r, NEW s, AnyLine(d, e, r)' \/ Passes(e, r)', SongLine(d, e, s)' \/ SongWaits(e, s)',
               s <= r
        PROVE  s <= thread[u].take.song.by
    <3>1. Passes(e, r)' => Passes(e, r)
      BY <1>2, <2>1, EditsMove
    <3>2. AnyLine(d, e, r) \/ Passes(e, r)
      BY <2>1, <2>2, <3>1, EditsMove
    <3>3. r \in 1..rev
      BY <2>1, <3>2, EditsAreOld
    <3>4. s # rev + 1
      BY <1>0, <2>2, <3>3
    <3>5. SongLine(d, e, s) \/ SongWaits(e, s)
      BY <2>1, <2>2, <3>4, EditsMove
    <3> QED
      BY <1>2, <2>0, <2>1, <2>2, <3>2, <3>5 DEF MarkHolds
  <2>3. ASSUME thread'[u].pc # "song" PROVE thread[u].take.song.by <= disk'[d].song.by
    <3>1. CASE thread[u].pc # "song"
      <4>1. thread[u].take.song.by <= disk[d].song.by
        BY <1>2, <2>0, <2>1, <3>1 DEF MarkHolds
      <4>2. disk[d].song.by \in Nat /\ disk'[d].song.by >= disk[d].song.by /\ disk'[d].song.by \in Nat
        BY <2>1, Numbers DEF TypeOK, Files, Content
      <4> QED
        BY <1>0, <4>1, <4>2
    <3>2. CASE thread[u].pc = "song"
      <4>1. disk' = [disk EXCEPT ![d].song = thread[u].take.song]
        BY <1>2, <2>0, <2>3, <3>2 DEF WriteSong
      <4>2. disk'[d].song = thread[u].take.song
        BY <2>1, <4>1 DEF TypeOK, Files
      <4> QED
        BY <1>0, <4>2
    <3> QED
      BY <3>1, <3>2
  <2>4. \A r, s : (/\ AnyLine(thread[u].to, thread[u].at, r)' \/ Passes(thread[u].at, r)'
                   /\ SongLine(thread[u].to, thread[u].at, s)' \/ SongWaits(thread[u].at, s)'
                   /\ s <= r) => s <= thread[u].take.song.by
    <3>1. d = thread'[u].to /\ e = thread'[u].at
      BY <1>2, <2>0
    <3> QED
      BY <2>2, <3>1 DEF AnyLine, Passes, SongLine, SongWaits, Batches
  <2> QED
    BY <1>2, <2>0, <2>3, <2>4 DEF MarkHolds
<1> QED
  BY <1>1, <1>2, MarksLive

(* What a mark in a journal says of the file beside it.                    *)
MarksAreTrue ==
  \A d \in Dirs : \A i \in DOMAIN journal[d] : \A k \in Batches(journal[d]) : \A s :
    (/\ journal[d][i].kind = "save" /\ k < i /\ journal[d][k].epoch = journal[d][i].epoch
     /\ \/ SongLine(d, journal[d][i].epoch, s)
        \/ journal[d][i].epoch = logEpoch /\ SongWaits(logEpoch, s)
     /\ s <= journal[d][k].rev) => s <= disk[d].song.by

LEMMA StepsMark ==
  ASSUME TypeOK, Gated, Gated', Standing, Logged, MarksAreTrue, \A u \in Threads : MarkHolds(u),
         NEW t \in Threads, Act(t), "overlap" \notin mishaps',
         \A d \in Dirs : disk'[d].song.by >= disk[d].song.by, TypeOK'
  PROVE  MarksAreTrue'
<1> SUFFICES ASSUME NEW d \in Dirs, NEW i \in DOMAIN journal'[d], NEW k \in Batches(journal[d])', NEW s,
                    journal'[d][i].kind = "save", k < i, journal'[d][k].epoch = journal'[d][i].epoch,
                    \/ SongLine(d, journal[d][i].epoch, s)'
                    \/ journal'[d][i].epoch = logEpoch' /\ SongWaits(logEpoch, s)',
                    s <= journal'[d][k].rev
             PROVE  s <= disk'[d].song.by
  BY DEF MarksAreTrue
<1>e. PICK e : e = journal'[d][i].epoch
  OBVIOUS
<1>0. /\ rev \in Nat /\ logEpoch \in Nat /\ logEpoch' \in Nat /\ logEpoch <= logEpoch'
      /\ disk[d].song.by \in Nat /\ disk'[d].song.by \in Nat /\ disk'[d].song.by >= disk[d].song.by
      /\ k \in DOMAIN journal'[d] /\ journal'[d][k].kind = "batch"
  BY Numbers, Clocks DEF TypeOK, Batches, Files, Content
<1>1. SongLine(d, e, s)' \/ (e = logEpoch' /\ SongWaits(e, s)')
  BY <1>e DEF SongLine, SongWaits, Batches
<1>2. \/ SongLine(d, e, s)
      \/ e = logEpoch /\ SongWaits(e, s)
      \/ e = logEpoch' /\ SongWaits(e, s)
      \/ Edit(t) /\ s = rev + 1
  BY <1>1, EditsMove
<1>3. CASE i \in DOMAIN journal[d] /\ journal'[d][i] = journal[d][i]
  <2>1. i \in Nat /\ e \in Nat /\ e <= logEpoch
    BY <1>3, <1>e, LineTyped DEF Logged
  <2>2. k \in DOMAIN journal[d] /\ journal'[d][k] = journal[d][k]
    <3>1. ~(\A j \in DOMAIN journal[d] : j < k)
      <4>1. k < i => ~(i < k)
        <5>1. k \in Nat
          BY <1>0 DEF TypeOK
        <5> QED
          BY <2>1, <5>1
      <4> QED
        BY <1>3, <4>1
    <3> QED
      BY <1>0, <3>1, Lines
  <2>3. k \in Batches(journal[d]) /\ journal[d][k].rev \in 1..rev
    BY <1>0, <2>2 DEF Batches, Logged
  <2>4. s # rev + 1
    BY <1>0, <2>2, <2>3
  <2>5. SongLine(d, e, s) \/ (e = logEpoch /\ SongWaits(logEpoch, s))
    BY <1>0, <1>2, <2>1, <2>4
  <2>6. s <= disk[d].song.by
    BY <1>3, <1>e, <2>2, <2>3, <2>5 DEF MarksAreTrue
  <2>7. s \in Nat
    BY <1>0, <2>5, EditsAreOld
  <2> QED
    BY <1>0, <2>6, <2>7
<1>4. CASE /\ d = logDir /\ NewMark(t, journal'[d][i])
  <2>1. /\ e = logEpoch /\ Line(t) /\ thread[t].at = logEpoch /\ thread[t].pc = "line"
        /\ logEpoch' = logEpoch /\ disk' = disk
    BY <1>4, <1>e DEF NewMark, Line
  <2>2. thread[t].job = "mark" /\ thread[t].to = d
    BY <1>4, <2>1 DEF Gated, Fit, Logged, Follows
  <2>3. k \in DOMAIN journal[d] /\ journal'[d][k] = journal[d][k]
    <3>1. ~NewBatch(t, journal'[d][k])
      BY <2>1 DEF NewBatch, Record
    <3>2. ~NewMark(t, journal'[d][k])
      BY <1>0 DEF NewMark
    <3> QED
      BY <1>0, <3>1, <3>2, Lines
  <2>4. AnyLine(d, e, journal[d][k].rev)
    BY <1>0, <1>e, <2>3 DEF AnyLine, Batches
  <2>5. ~Edit(t)
    BY <2>1 DEF Edit
  <2>6. SongLine(d, e, s) \/ SongWaits(e, s)
    BY <1>2, <2>1, <2>5
  <2>7. s <= thread[t].take.song.by /\ thread[t].take.song.by <= disk[d].song.by
    BY <2>1, <2>2, <2>3, <2>4, <2>6 DEF MarkHolds
  <2>8. s \in Nat /\ thread[t].take.song.by \in Nat
    BY <1>0, <2>6, EditsAreOld, Numbers
  <2> QED
    BY <1>0, <2>1, <2>7, <2>8
<1>5. ~NewBatch(t, journal'[d][i])
  BY DEF NewBatch
<1> QED
  BY <1>3, <1>4, <1>5, Lines

JInv ==
  /\ FInv
  /\ "overlap" \notin mishaps => Logged /\ Held /\ MarksAreTrue /\ \A t \in Threads : MarkHolds(t)

LEMMA InitJournal == Init => JInv
<1> SUFFICES ASSUME Init PROVE JInv
  OBVIOUS
<1>1. \A t \in Threads : thread[t] = Idle
  BY DEF Init
<1>2. /\ \A d \in Dirs : journal[d] = <<>>
      /\ rev = 0 /\ epoch = 0 /\ logEpoch = 0 /\ logDir = NoDir /\ dir = NoDir
  BY DEF Init
<1>3. \A d \in Dirs : DOMAIN journal[d] = {} /\ Batches(journal[d]) = {}
  BY <1>2 DEF Batches
<1>4. Idle.at = 0
  BY DEF Idle
<1>5. Logged
  BY <1>1, <1>2, <1>3, <1>4, BlankStands DEF Logged, Follows
<1>6. Held
  BY <1>1, <1>2, BlankStands DEF Held, SongWaits
<1>7. MarksAreTrue
  BY <1>3 DEF MarksAreTrue
<1>8. \A t \in Threads : MarkHolds(t)
  BY <1>1, BlankStands DEF MarkHolds
<1> QED
  BY <1>5, <1>6, <1>7, <1>8, InitGrounds DEF JInv

LEMMA JournalStep == JInv /\ [Next]_vars => JInv'
<1> SUFFICES ASSUME JInv, [Next]_vars PROVE JInv'
  OBVIOUS
<1>1. /\ FInv' /\ TypeOK' /\ Gated'
      /\ "overlap" \notin mishaps' => \A d \in Dirs : disk'[d].song.by >= disk[d].song.by
  BY FilesStep DEF JInv, FInv, Grounds
<1>2. CASE UNCHANGED vars
  <2>1. Logged => Logged'
    BY <1>2 DEF vars, session, log, Logged, Follows, Batches
  <2>2. Held => Held'
    BY <1>2 DEF vars, session, log, Held, SongWaits, SongLine, Batches
  <2>3. MarksAreTrue => MarksAreTrue'
    BY <1>2 DEF vars, session, log, MarksAreTrue, SongWaits, SongLine, Batches
  <2>4. \A t \in Threads : MarkHolds(t) => MarkHolds(t)'
    BY <1>2 DEF vars, session, log, MarkHolds, SongWaits, SongLine, AnyLine, Passes, Batches
  <2> QED
    BY <1>1, <1>2, <2>1, <2>2, <2>3, <2>4 DEF JInv, vars
<1>3. ASSUME NEW t \in Threads, Act(t), "overlap" \notin mishaps'
      PROVE  (Logged /\ Held /\ MarksAreTrue /\ \A u \in Threads : MarkHolds(u))'
  <2>1. /\ Logged /\ Held /\ MarksAreTrue /\ \A u \in Threads : MarkHolds(u)
        /\ Rising /\ TypeOK /\ Placed /\ Gated /\ Standing
    BY <1>3, MishapsGrow DEF JInv, FInv, Grounds
  <2>2. Logged'
    BY <1>3, <2>1, StepsLogged
  <2>3. Held'
    BY <1>1, <1>3, <2>1, StepsHeld
  <2>4. \A u \in Threads : MarkHolds(u)'
    BY <1>1, <1>3, <2>1, <2>3, StepsHold
  <2>5. MarksAreTrue'
    BY <1>1, <1>3, <2>1, StepsMark
  <2> QED
    BY <2>2, <2>3, <2>4, <2>5
<1> QED
  BY <1>1, <1>2, <1>3 DEF JInv, Next

(* A song edit with a line in a journal is in project.json, or the next    *)
(* open offers it, unless document swaps overlapped.                       *)
THEOREM SongsStaySavedOrOffered == Spec => []SongsAreSavedOrOffered
<1>1. JInv => SongsAreSavedOrOffered
  <2> SUFFICES ASSUME JInv, "overlap" \notin mishaps, NEW d \in Dirs, NEW i \in Batches(journal[d]),
                      journal[d][i].epoch = Newest(journal[d]), journal[d][i].part = "song",
                      i \notin UnsavedTail(journal[d])
               PROVE  OnDisk(d, journal[d][i])
    BY DEF SongsAreSavedOrOffered, SavedOrOffered
  <2>1. /\ rev \in Nat /\ \A j \in Batches(journal[d]) : journal[d][j].rev \in 1..rev
        /\ MarksAreTrue /\ disk[d].song.by \in Nat
    BY Numbers DEF JInv, FInv, Grounds, Logged
  <2> DEFINE s == journal[d]
  <2>2. PICK m \in Marks(s) : \E k \in Batches(s) :
               k < m /\ s[k].epoch = Newest(s) /\ s[i].rev <= s[k].rev
    <3> HIDE DEF s
    <3>1. \A j \in Batches(s) : s[j].rev \in 1..rev
      BY <2>1 DEF s
    <3>2. i \in Batches(s) /\ s[i].epoch = Newest(s) /\ i \notin UnsavedTail(s)
      BY DEF s
    <3> QED
      BY <2>1, <3>1, <3>2, PassedByAMark
  <2>3. PICK k \in Batches(s) : k < m /\ s[k].epoch = Newest(s) /\ s[i].rev <= s[k].rev
    BY <2>2
  <2>4. m \in DOMAIN s /\ s[m].kind = "save" /\ s[m].epoch = Newest(s)
    BY DEF Marks
  <2>5. SongLine(d, s[m].epoch, s[i].rev)
    BY <2>4 DEF SongLine
  <2>6. s[i].rev <= disk[d].song.by
    BY <2>1, <2>3, <2>4, <2>5 DEF MarksAreTrue
  <2> QED
    BY <2>1, <2>6 DEF OnDisk
<1> QED
  BY InitJournal, JournalStep, <1>1, PTL DEF Spec


=============================================================================
