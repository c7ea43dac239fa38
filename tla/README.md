# AURA, verified: TLA+ models of the audio engine and its control plane

AURA is a digital audio workstation: a Rust engine (`src-tauri/`, with the
real-time primitives in `aura-engine/`), a Svelte user interface (`src/`) and
Python sidecars. These modules model the parts in which several threads share
state, or in which long sequences of legal calls must not lead astray: the audio
callback, which may neither lock nor free; the engine control thread, which owns
devices, takes and render graphs; the threads of the UI and of MCP clients, which
send commands; the document with its operations, its undo history and its files;
and the threads that carry things for others: the disk writer of a take, the
supervisors of sidecar jobs, the clock of a hardware MIDI port.

Paths below are relative to the repository's root; "engine.rs", "rt.rs", "clock.rs",
"recorder.rs", "project.rs" and "transport.rs" are in `src-tauri/src/audio/`,
"control/mod.rs", "session.rs", "replay.rs" and "history.rs" in
`src-tauri/src/control/`.

1. [The system](#1-the-system)
2. [The modules](#2-the-modules)
3. [What is checked](#3-what-is-checked)
4. [Fairness](#4-fairness)
5. [What is proved](#5-what-is-proved)
6. [Where the code and its words disagree](#6-where-the-code-and-its-words-disagree)
7. [What is not modelled](#7-what-is-not-modelled)
8. [Plan](#8-plan)
9. [Running it](#9-running-it)

## 1. The system

### Threads

| thread | runs | may block |
|---|---|---|
| audio callback | `OutputCb::render`, one call per block of frames; the input callback of a capture device | no |
| engine control thread | `Control::run`: takes `ControlMsg`s, ticks every 2 ms; rebuilds graphs, opens devices, starts and ends takes, applies the end policy | yes |
| command threads | `ControlPlane`: one per UI command or MCP call in flight; commits, transport, undo, open and save | yes |
| disk writer | `run_writer`: one per take, drains the capture rings into files | yes |
| MIDI output | `out_tick` and the refresh of its routes: one per opened hardware port | yes |
| sidecar supervisors | one asynchronous task per job | at its awaits |

### Components

For each component: its state, its operations, whom it meets, what is hard about
it, and what makes it correct. `PROJECT.json` lists the same components with
their status.

**Triple buffer** (`aura-engine/src/sync/triple_buffer.rs`).
State: three slots, a shared word (index and dirty bit), an index on each side.
Operations: `slot`, `write`, `publish`, `replace`; `updated`, `read`.
One writer and one reader run without a lock between any two memory accesses.
Correct when the two sides never hold one slot, a borrow sees one value whole,
`read` can always get the newest, and nothing is dropped while the reader may see it.

**Graph exchange** (engine.rs). State: generation, published tables, a graph ring
and a retire ring per output stream, the graph the callback plays. Operations:
`rebuild` (compile, publish tables, push), the retry of a push that found the
ring full, `drain_retired`, `open_output` (a new stream plays before the old one
is dropped), the callback's adoption. Correct when every graph has one owner, the
callback never frees one, it only goes forward, and the knobs' tables end up the
ones that sound.

**Mixer parameter table** (rt.rs, `ParamTable`). State: per slot atomics; live and
base gain share a sequence lock. Writers are the UI's faders and the automation
driver, the reader is the recording of relative automation. Correct when writers
take effect one after the other and a reader gets one committed pair.

**From the document to the tables** (control/mod.rs `commit_with_rebuild_full`, engine.rs
`rebuild`). State: the document, the published tables (slots by track, parameters by slot,
`any_solo`), the effect each commit still has to carry out, the rebuilds asked for, the
image that one assembles, the rows of the last graph. Operations: mix settings, tracks
added, removed, reordered; create and open; a rebuild's three phases. Hard: a commit
writes the tables after it has left the session lock, and a graph is assembled from an image
that the document leaves behind. Correct when the tables come to be the document's,
and a row of the graph listens to its own track's knobs.

**Transport mathematics** (transport.rs). Pure: advance by a block with a loop, find
a crossing. Correct when a block is the sum of its frames, whatever the device's
block size.

**Playhead** (engine.rs, control/mod.rs, rt.rs). State: `position`, `playing`, `park`,
written by the callback, the engine thread and command threads with no lock.
Operations: a block, the end policy's auto-stop, Play, Stop, Seek, SetStopAtEnd,
the headless advance. Correct when a stop at the song's end parks there, and an
explicit command is not undone by what was in flight.

**Recording and transport state** (engine.rs, control/mod.rs). State: `recording`,
`countin_left`, the running take, `pending_record`, the document's transport label.
Operations: record, keep (stop recording), Play, Stop, count-in, arming, auto-stop,
finalisation; requests to the engine give up after 30 s while it still carries them
out. Correct when each take is kept exactly once, a Stop ends what it saw, and the
clients are told what is so.

**Capture and disk writer** (engine.rs `InputCb::capture`, recorder.rs). State: a ring
per armed track, the debt of silence of each, the files, the writer's place in its
sweep, the stop flag. Operations: a buffer of the device fanned out to all rings,
a rehearsal muting it, a full ring, the repayment of the debt, the writer's sweep, its final
sweep and wait for residue, a failing disk, the end of a take with its time-out. Hard:
neither thread waits for the other, and the take ends between two sweeps. Correct
when every frame is at its own index, or silence in its place, in each file, and the
clips of a take hold all of it.

**Clock table and scene launch** (clock.rs, control/mod.rs). State: a table of clocks
per graph (sounding, position, discontinuity, a pending press with its sequence number, a
counter of writes, the count carried), the table last published, the one the callback
plays. Operations: fire, stop, choke a group, cancel all pending; `carry_over` at a
rebuild; `reconcile_adoption`; arming at the beat, advancing, ending, looping. Hard:
a press lands in the table published while the callback plays an older one, and the
callback's loads and stores have gaps. Correct when rebuilds take no press back,
a choke group sounds one pad, playing clips are not set back, and nodes are told of cuts.

**Hardware MIDI output** (`src-tauri/src/midi_out/mod.rs`). State: a clock that
estimates the song's position from the wall clock, a cursor and the sounding notes of
every route, what the device has been told. Operations: a tick (stopped, starting,
jumping, running), a refresh of routes, notes and tempo, enabling the clock, closing. Hard: two
clocks that drift, edits under sounding notes. Correct when each route plays every
event, nothing hangs, and the device runs with the song.

**Session and operations** (session.rs, and the commands in control/mod.rs that compose
them). State: tracks with routing and plugin slots, clips, plugin instances, launchers.
Operations: `apply_raw` with its inverses, `transact` with its rollback, `fold_ops`, undo
and redo, and commands such as `remove_track` that read the document under one lock and
commit under another. Correct when undo leads back and redo forth, a failed
transaction leaves nothing, routing has no loop and no slot lacks its plugin.

**Commit pipeline and undo history** (session.rs, control/mod.rs, history.rs).
State: the document, its revision and epoch; an open gesture; two stacks, the log's
own epoch; the journal; the version graph. Operations: transact, record, gestures,
undo, redo, undo_to, open, create, save-as, ensure. A commit changes the document
under one lock and reaches the log under another, after plugin round-trips and disk
writes. Correct when no step outlives its document, a replay hits the document it
was made in, and undo leads back.

**Project persistence and replay** (project.rs, control/mod.rs, replay.rs, history.rs,
`midi/mod.rs`). State: the document with its song and its MIDI, `project_dir`, `loaded_dir`,
the dirty flag, the persist gate, the files and the journal of each directory.
Operations: a commit's snapshot and write, save, save-as, create, ensure, open, the
journal's marks, the unsaved tail. Hard: what is written was taken
under another lock than the write, any write may fail, and the project is replaced in
between. Correct when no directory holds another's song, files do not go back, what the
flag calls clean is on disk, and what is in the journal is on disk or offered.

**Sidecar jobs** (`sidecars/jobs.rs`). State: a registry of jobs, a slot semaphore, a
notification per job, the worker processes. Operations: submit, cancel, sweep, and the
supervisor's waits for a slot, a line, the end of the output, the process. Hard: a
cancel may fall at every await, and a worker does what it likes. Correct when a job ends once,
as its worker or its user ended it, slots are never exceeded nor lost, and an accepted
cancel ends its job.

**Hardware MIDI input** (`src-tauri/src/audio/midi_in.rs`, `midi_input.rs`, engine.rs). State: the
port and its monitor flag, the picked track, a ring of notes without an address, the slot at
which the callback finds the track's node, what the callback has put down there and what it
still owes a node it left. Operations: a key down and up, picking a track, opening, closing and
switching a port, an audition that borrows the target, rebuilds that renumber slots, Play, Stop,
count-in, a block. Hard: a note and its release travel apart, and the target, its slot and the
transport change in between. Correct when no note hangs, no release rings on, and none of them
cuts a note of the song.

**Automation recording.** Endpoints of a touch and the owner of a slot's gain. Not modelled.

**Everything else**: rendering (mixer, delay compensation, voices), MIDI
scheduling and tempo maps, plugin hosting, modulation, pitch analysis, import and
export, composer and theory, the MCP server, JIT kernels, UI, Python workers.

### How they interact

```
 UI / MCP ── transport ──> atomics (rt.rs) <──── callback ──> graph ring / retire ring
    │                          ^    ^   ^                          ^      │
    │── commits ──> session    │    │   └── MIDI output ports      │      └─> capture rings
    │                 │        │    └── engine control thread ─────┘              │
    │                 v        │          ^   takes, count-in, end policy         v
    │── undo/redo <─ log ──────┴── ControlMsg (Rebuild, Record, Stop, ...)   disk writer
    │                 │
    │                 v   persist gate
    │── save/open ─> files, journal
    └── jobs ──────> supervisors ──> worker processes
```

## 2. The modules

| module | models | composes / refines |
|---|---|---|
| `LatestValue` | what a triple buffer promises: a register whose read returns the newest value | abstract |
| `TripleBuffer` | `Input`/`Output` at single memory accesses | implements `LatestValue` |
| `GraphExchange` | rings, rebuild, retry, drains, adoption, device switch | |
| `GainSeqlock` | the seqlock of one mixer slot | |
| `TransportMath` | `advance` and `crossing` as operators | |
| `TransportWalk` | the same beside a playhead that moves frame by frame | extends `TransportMath` |
| `Playhead` | callback, engine and commands writing the playhead | extends `TransportMath` |
| `RecordTransport` | takes, count-ins, labels, Play and Stop | |
| `CaptureTake` | the input callback, the rings, the disk writer, the end of a take | |
| `ClockCarry` | launched clocks across rebuilds and adoptions | |
| `MidiOutPort` | the thread of one hardware port | |
| `LiveMidiIn` | a keyboard, the hub, the engine's target, the callback's releases, the tracks' nodes | |
| `SidecarJobs` | supervisors, slots, cancels, workers | |
| `CommitPipeline` | commits, swaps and rebuilds on the way to the tables and the graph | |
| `CommitHistory` | commits, gestures, undo stacks, document swaps | |
| `ProjectFiles` | snapshots, gate, files, journal, swaps, failing writes | |
| `DocumentOps` | operations with inverses, transactions, undo and redo, composing commands | |
| `VersionGraph` | the versions of the history browser: insertion, classification, eviction, replay | |
| `MCCommitHistory`, `MCProjectFiles`, `MCLiveMidiIn` | symmetry and constants for TLC | extend what they are named after |
| `MCEngine` | `TransportWalk`, `Playhead`, `RecordTransport` twice, `ClockCarry`, `MidiOutPort` in one run | extends them, instances `RecordTransport` |
| `MCWorkers` | `GraphExchange`, `CaptureTake`, `SidecarJobs` in one run | extends them |
| `MCShared` | `TripleBuffer`, `GainSeqlock` and `CommitPipeline` in one run | extends them |
| `MCCommands` | `CommitHistory` and `LiveMidiIn` in one run | extends `MCCommitHistory` and `LiveMidiIn` |
| `MCDocument` | `ProjectFiles`, four families of `DocumentOps` and `VersionGraph` in one run | extends the first and the last, instances `DocumentOps` |
| `*Proofs` | theorems of the module they are named after (`SharedProofs` of `TripleBuffer`, `GainSeqlock` and `CommitPipeline`, `LiveProofs` of `LiveMidiIn`, `TransportProofs` of `TransportWalk`, `RecordTransport` and `Playhead`, `ClockPortProofs` of `ClockCarry` and `MidiOutPort`, `WorkersProofs` of `SidecarJobs`, `CaptureTake` and `GraphExchange`, `VersionProofs` of `VersionGraph`) | |

`TransportMath` is the one place where a block's arithmetic is written down: it is
checked against single frames in `TransportWalk` and used by the callback, the
headless advance and the end policy in `Playhead`.

In `MCEngine`, `MCWorkers`, `MCShared`, `MCCommands` and `MCDocument` a behaviour moves one part,
chosen in the initial state and never changed, while the others rest in an initial state of their
own. The parts do not share variables, so their states add up and are not multiplied, and each
part is explored as it would be alone: the properties are the parts' own, under the
parts' names or collected under one. These five are hosts, not compositions.

`Playhead` and `RecordTransport` divide the transport. The first has positions, and stands
for "stop_at_end is set and no take is running" with one bit, `mayStop`, that commands flip.
The second has takes; it leaves out where the playhead is, keeps whether it moves, and lets
the song's end come in any block. `CaptureTake` is what `RecordTransport` calls the take:
its `Finish` is the answer that `RecordTransport`'s writer gives or fails to give. What none
has is a take and a position in one state.

`CommitPipeline`, `CommitHistory`, `ProjectFiles` and `DocumentOps` divide a commit. The first has
what it does to the tables, the second what happens between the session's lock and the log's,
and swaps; the third what reaches the disk, and the same swaps; the fourth what the
operations do to the document, one transaction at a time. `VersionGraph` stands beside the second: the
log hands each batch to both. `CommitPipeline` and
`GraphExchange` divide a rebuild: what is in it, and how it reaches the callback.

### Correspondence

*TripleBuffer.* A payload is a set of words; a word holds the number of the publication
it belongs to. `StoreField` and `CopyField` are single accesses, `Publish` is the swap of
the shared word, `Updated` and `Swap` are the two steps of `read`. `Replace` and
`Dispose` follow values whose destructor matters.

*GraphExchange.* A graph is its generation. The control thread's counter `cpc` follows
`rebuild`: tables published, retired drained, graph pushed or the rebuild marked pending.
`BeginBlock`, `PopGraph`, `SwapGraph`, `PushRetired`, `EndBlock` are the callback's
accesses; `PlayStream`, `StopPrevious`, `InstallOutput` are `open_output`. That building
a graph takes time does not matter: only its generation does.

*GainSeqlock.* Writers load the counter, compare-exchange it (which may fail at any
time: `compare_exchange_weak`), store halves in either order, and leave. A reader
loads the counter, the halves and the counter again; the constant `InOrder` says
whether the re-check stays behind the data loads.

*Playhead.* `block`, `tick` and `sender` hold the program counter and locals of the callback, the
engine thread and each commanding thread, so that a value loaded early and stored late is visible;
`rolling` is the atomic `playing`, which `RecordTransport` has under its own name. `autoStop`, `sought`
and `unfinished` are history variables, named as such.

*RecordTransport.* Time is in blocks, a take is one object, the engine's message queue is
explicit, and a request that gave up is a message whose sender has gone
(`Orphan`, `GiveUp`). The transport label is written only by commits, as in the code; a
commit of the label does not fail here (`commit_recording_finalize` logs an error and
goes on).

*CaptureTake.* Everything is counted in frames: a ring's capacity is a multiple of the
channels, so that no frame is split. A frame of audio is its number in the take, a frame of
silence 0; so a file shows at each index what belongs there. `Deliver` is a
callback that begins, `Repay` and `Record` its work on one track, `Drain` the
writer's on one, `EndSweep` the test of the stop flag, `Residue` the bounded
wait for what a callback still holds. `Finish` is the answer to the engine, or
its fifteen seconds running out.

*ClockCarry.* A clock has `on`, `pos`, `discont`, `pending`, `seq`, `writes`, `carried`.
`Press` begins a fire or a stop and leaves in `todo` what it has yet to do (count, store,
choke the others), all in the published table under the tables lock; `Publish` is `carry_over` and
the publication, `PushGraph` the ring, from which the callback takes a graph before it adopts it
(`Waiting`). The callback tests the counter and copies (`Adopt`,
`TestWrites`, `TakeState`, `SwapGraph`), arms what is due, hands discontinuities to the nodes
and advances, each load apart from its store. The fields stored together in one operation
are taken as one. The beat a press waits for may come at any block.

*MidiOutPort.* A tick reads the transport's atomics once, so what they say is free; the wall
clock is how far the estimate moves. `TickStopped`, `TickStarts`, `TickJumps` and `TickRuns`
are the branches of `ClockEngine::step` together with what `NoteOutEngine` does in them.
A route's step is what it releases and then plays; `Emit` is what a device (`synth`) makes of the
steps of all routes, each after the one before it: of a key, what the last message says; every send
arrives. `Refresh` compares the routes of the document with those it has.

*LiveMidiIn.* `Strike`, `Lift`, `Route` and `Forward` are the port's callback, which tests the monitor
flag, then the target, then pushes. `SetTarget` and `MarkDirty` are `set_target_track` up to and with its
flag, `Rebuild`, `Follow`, `ReadTarget` and `StoreSlot` the engine's tick. `Block` is a whole callback:
`Switched`, `Stopped`, `Opening`, `Drained` and `CountedDown` follow `OutputCb::render` in its order.
A node is the set of notes held in it and the blocks its last release still takes; `Rendered` says which
nodes a block renders, `Primed` which it releases first. `odd` is history: what excuses a hanging note.

*SidecarJobs.* One action per await of the supervisor and one for what runs between two; the
registry's lock covers a whole action. A worker is free to print, close its output, exit
or hang, and to ignore SIGTERM. `notify` is the permit that `notify_one` leaves.

*CommitPipeline.* The document is the order of the tracks and a setting of each; gain, pan, mute and
solo are one value, since every write of one rewrites all four. `Transact` is a
transaction of one operation, its effect stays in `work` (`EngineEffect`); `WriteTables` is the
block under the tables lock, `AskRebuild` the message. `Assemble` takes the published image, `PublishTables` is
the block under both locks, `Push` re-keys the rows by track and queues the graph.
`crossed` is history: the knobs at which two changes met.

*CommitHistory.* A document is a value for each of a few properties. `Knobs` have a
coalescing key and may be dragged or merged, `Parts` are structural. A step is
a change of one property. `Edit` is `Session::transact`; until `Record` the thread is in the
window that holds host round-trips and disk writes. Whether two steps merge depends
in the code also on time, label and actor, and whether an edit joins an open drag on its
actor: both may happen or not. `PlanWalk`/`WalkPops`/`WalkEnds` are `undo_to`. `Open`
stands for open and create; `Mint`, `SaveAs`, `Ensure`, `Reread` for the two ways an
unnamed document gets a directory; `Boundary` is `epoch_boundary`. `made`, `dragged` and
`mixed` are history. `Close` takes the drag out of its slot and stamps it in one step; in the code
(control/mod.rs:4712 and 4837) others may run between the two, and the drag's step is then stamped
with a later revision or epoch. The properties cannot tell: those of steps and replays exclude what
was dragged, `UndoLeadsBack` is about structural properties, which no drag moves, and that a late
stamp names another document is what `GesturesAreOfThisDocument` shows already.

*ProjectFiles.* A document is its song and its MIDI; a part's content is the edit that made it
and the project it was made in. `Edit` is a commit; `Snapshot` takes gate and document,
`WriteSong`, `WriteMidi`, `Settle`, `Upgrade` are the writes of a commit or a save, each of which
may fail; `Line` is the mark, `Record` the journal's line. `Mint`, `Ensure`, `Create`,
`SaveAs`, `Load`, `Open`, `Boundary` are the swaps in the order of their locks. `UnsavedTail`
is the reader of the journal: sorted by revision, a mark at the highest revision
before it. `mishaps` is history; the properties name the mishaps they exclude.

*DocumentOps.* Ids are numbers and an index beyond the end is the end. `Apply` is `apply_raw`: an
op gives the document after it and its inverse, or fails. `Transact` runs ops in
order and, where one fails, the inverses backwards; `FoldOps` is `fold_ops`. Above are the
commands: those that read and commit under one lock are `Direct`, those that read
first are `Prepare` and `CommitPlan`. `odd` is history: what `UndoLeadsHome` excludes, listed in
section 6.

*VersionGraph.* A document gives each key the revision that wrote it. `Commit` is
`Session::transact`, after which the batch is in the thread's hand; `Fold`, `GestureEnd`, `Stamp` are a
drag, its taking and the batch made of it; `RecordVersion` is all that the log does with a batch under its
locks: `Insert` (`Place`, `Classify`, and the `Cut` of the eviction) or, for a batch of another epoch, `Drop`.
`SwapDocument` and `ClearVersions` are the two halves of a document swap. What a batch weighs is chosen
from `Sizes`. `Replayed` is `replay_plan` and `run`. `docs`, `nodeless`, `shared` and `recorded` are history.

## 3. What is checked

Every property has a faulty variant of some mapped definition (a dropped
guard, a swapped order, a late index) in its module, listed in `PROJECT.json` under
"mutants", under which TLC finds the property violated in the same configuration.

| run | states | shows |
|---|---|---|
| `shared` | 349 968 | triple buffer: `NoTornRead`, `NoUseAfterRelease`, `NoLeak`, `ImplementsLatestValue`; gains of a slot: `WritesAreSerial`, `CoherentSnapshot`; both: `ValuesArrive`; commits and rebuilds: `TablesFollow`, `GraphFollows` |
| `workers` | 146 000 | graphs: `NoFreeOnAudioThread`, `OneOwner`, `AdoptsForward`, `TablesArrive`; takes: `TakeIsWhole`; jobs: `EndingsAreTrue`; takes and jobs: `WorkIsFinished` |
| `engine` | 880 540 | transport mathematics: `BlockIsItsFrames`, `NeverPastTheLoop`, `CrossingFollowsTheWalk`; playhead: `AutoStopParks`, `SettledSeekStays`; takes: `TakesAreKept`, `StateIsReported`, with a count-in `CountInIsSound`; playhead, takes and clocks: `EndsAreReached`; clocks: `PressWins`, `PlaysOn`; MIDI port: `DeviceIsTold` |
| `commands` | 2 488 885 | undo history: `StepsAreOfThisDocument`, `ReplayIsOwn`, `UndoLeadsBack`; keyboard: `MonitoringIsSound` |
| `document` | 2 040 000 | files: `SongIsItsOwn`, `CleanMidiIsOnDisk`, `SongsAreSavedOrOffered`, `GoesForward`; operations: `UndoLeadsHome`, `DocumentIsSound`, `FailsWhole`; versions: `VersionsAreSound` |
| `playhead_seek`, `record_stop_race`, `history_gesture`, `project_mark`, `project_switch`, `preview_hold`, `clock_cancel` | violation | section 6 |

Some names collect several conjuncts of a part. `ValuesArrive` is `EveryPublicationArrives` and
`EveryAccessReturns`; `MonitoringIsSound` is `NothingHangs`, `TailsRunOut` and `ClipNotesAreKept`.
`TakeIsWhole` is `TakeKeepsTime` and `NothingLeftBehind`; `EndingsAreTrue` is `OneEnding`, `EndingIsEarned` and `WorkersHoldSlots`;
`WorkIsFinished` is `TakeEnds`, `CancelEnds` and `SlotsComeBack`; `EndsAreReached` is `StopsAtTheEnd`,
`CountInEnds` and `CutsAreHeard`; `StateIsReported` is `RecordingIsReported`, without a count-in also
`StoppedIsReported`, and with one sender also `RoutedStopEndsTheTake`; `CountInIsSound` is both of
`TakesAreKept` and `StateIsReported` where there is a count-in; `PressWins` is `PressStands` and `OneOfTheGroup`;
`DeviceIsTold` is
`RoutePlaysTheSong`, `NothingHangs` and `DeviceFollows`; `VersionsAreSound` is `VersionTypes`,
`VersionsAreKept` and `VersionsReadBack`. The type invariants of the parts are
conjuncts of these; where one module alone makes a run its types are proved
(`Types`) or follow from a proved invariant.

### Bounds, and why they are enough

*TripleBuffer*: 2 words, 4 publications. The writer overruns a reader that holds a borrow
twice over, so all three slots are reused, also across a release two publications
old. The theorems remove the bound.

*GraphExchange*: 2 streams, ring 2, retire ring 1, 3 rebuilds, 2 full pushes. Both rings fill
up, a push is refused and retried, and the switch of streams happens with graphs in both
rings and one in the callback's hand. The theorems hold for any capacity.

*GainSeqlock*: 2 writers, 1 reader, counter modulo 8, 3 writes, which advance it by six: a
reader may span all of them, but never a whole cycle, over which it would accept a torn
pair. In the code that takes 2^31 writes within one read; the theorem names it as an
assumption. That writers stay serial across the wrap is proved, for any number of writes.

*TransportWalk*: samples 0 to 8, blocks up to 7 frames. They hold every relation of
position, loop and point: loops of one frame, blocks of several spans, starts on and
past the end. The theorems cover every size.

*Playhead*: a song of 3 frames with blocks of 1 and 2 ends on a block boundary
and inside one; the event ring of one slot may overflow; the three commands of two senders
may be a Play that reaches the end and a Stop and a Seek, one under way with the other, or a change of
policy. The theorems hold for any of these.

*RecordTransport*: once with two senders, slow writers and no count-in, once with one sender and
a count-in of two blocks; 4 commands each. They are enough for a record and two
stops around a time-out, with a Play in between. A count-in of two blocks can be
cancelled before, between and after the callback's count. The theorems hold for any senders, lengths
and numbers of commands.

*CaptureTake*: 2 tracks, rings of 2 frames, buffers of 1 or 2, 4 frames. A ring
overflows, is repaid in part, and overflows again, on one track and not on the
other; the writer sweeps between any two of those. One track would not show tracks
that drift apart, and four frames allow a debt, a frame after it, and a muted one.

*ClockCarry*: 2 clocks in one choke group, one of them looping, a clip of 2 blocks, graph ring
of one, 2 presses, 3 rebuilds and 4 of both together. A second rebuild comes while the graph of
the first is still in the ring; with a third a push fails, and what was built from the dropped graph's
table is adopted after all. Each press may land before, between and after the callback's test of
the counter and its copy. The theorems hold for any clocks, group, clips, ring and bounds; their
invariant (`ClockInv`) was also checked with three clocks.

*MidiOutPort*: one route, two songs (one with a note that ends where another begins),
positions to 4, steps to 2, tolerance 1, tempi of 1 and 2 samples a pulse, 2 pulses a song
position, the last of them 1 (in the code 16 383), burst 1. So a cue may land beyond what a song
position can say. A correction may be inside the tolerance, forward and small, forward
and large, or backward, each across an event or not. Routes do not meet but in the keys they
play and release: the theorem is about any number of them.

*SidecarJobs*: 2 jobs, 1 slot, 2 lines a worker. One waits for the slot while the other
is anywhere; two lines are an error after a done, and the reverse.

*CommitPipeline*: 2 threads, two tracks that sound and an automation track between them, 2
settings, one song to open, 3 changes. A commit is overtaken by another, by one that moves
its track's slot, by a rebuild of an older image, by an open; two rebuilds may be asked for at
once. The theorems remove the bounds.

*CommitHistory*: 3 threads, one knob, one part, 2 values, stacks of 2, 3 transactions, one
swap. That is two edits and an undo, an edit that overlaps a replay, or three edits that overflow the
limit. With three threads two edits may be under way while a third thread replaces the document: one of
them is dropped, the other is not. With one swap a document is before or after it. That a step
is recorded below newer ones needs two edits of one part that arrive in reverse order. The
theorems remove all these bounds.

*LiveMidiIn*: one key, two tracks of which one has clips, in either order; a ring of 3, two events a
block, releases of two blocks; and four stories: a key with a change of track and of port, a key
with a rebuild that swaps the slots while the transport starts or counts in, an audition with a change of
track, a change of track while the song plays. A release takes two blocks, so that a second
switch, a stop or a start may fall into it; the ring fills up with what one command sends.

*ProjectFiles*: 2 threads, 2 directories, two parts of the MIDI of which a new project clears
one, 2 edits, 2 swaps, 1 failing write, 2 journal lines before a last save. Two swaps lead from
one project to another and back to the first while a write to it is pending; two edits
make "older" and "newer" of a file. Any one write of any command may be the one that fails.
In `document` the disk holds at first either no project or two of earlier runs, one of them
without MIDI; the runs that find violations begin with any mixture.

*DocumentOps*: 3 tracks of which two are buses, a plugin, a send, 2 clips, 2 launchers; three
transactions of routing, two of slots, of clips or of the order of tracks, up to four ops in one.
With three tracks a loop may be closed directly, through a bus, and by a send and an output;
one thread's command may be prepared under a document that two other transactions have changed.

*VersionGraph*: 2 threads (`Committers`), a clip, a knob, 3 transactions (`MaxCommits` revisions), one swap
(`MaxSwaps`), three weights: an image below
the threshold, one above it with lighter ops, one with heavier ops. A budget of one and a half large
images and a floor of two nodes: two images exceed the budget and may not go, of three one goes. Two
batches arrive in reverse order and a third is replayed over both, or they are two folds of a drag and an
edit between or behind them.

The violations use the same modules with smaller constants where those suffice.

### Deadlock

TLC checks for deadlock in `commands`: some thread can always move the history (the keyboard's
stories end, and then rest). The other configurations turn the check off, because there a bounded number
of commands, frames or edits, or the arithmetic's edge, lets the model come to rest: all
senders have sent what they may, and the take or the job is over.

## 4. Fairness

| module | assumed | because |
|---|---|---|
| `TripleBuffer` | weak, the reader's steps | the device calls the callback for ever and `read` is a bounded number of instructions; the writer may stop |
| `GraphExchange` | weak, the control thread's steps once begun, the retry, and each callback | the loop ticks every 2 ms, and waits for nothing but the block in flight; a running stream is called. Edits and device switches may stop |
| `GainSeqlock` | weak on each thread's access, strong on a writer's exchange | the loops are of running threads; `compare_exchange_weak` does not fail spuriously for ever, and other writers are finitely many |
| `Playhead` | weak on callback, engine, commands begun | as above; a command that was begun is carried out |
| `RecordTransport` (count-in) | weak on callback, message handling, a take's start and stop, the headless tick and the auto-stop; strong on arming | arming is one branch of a tick that is enabled again and again while messages keep coming |
| `CaptureTake` | weak on the callback's work on a buffer, on the writer, on stopping once the streams are closed, on the answer | threads run; a callback finishes its buffer. How long the take lasts is free |
| `ClockCarry` | weak on the callback, on what a press has begun, on a push | as in `GraphExchange`. Presses and rebuilds may stop, also the one that follows a failed push: nothing here rests on it |
| `SidecarJobs` | weak on what a supervisor does between awaits, strong on each branch of a `select!` that ends a wait | tasks are polled, and tokio's `select!` chooses at random among the branches that are ready, so that a branch ready again and again is taken; the slot semaphore is fair. Nothing is assumed of a worker but that it dies of SIGKILL |

`MCEngine`, `MCWorkers` and `MCShared` state the same fairness for each part while it is the part
that moves. `MidiOutPort`, `LiveMidiIn`, `ProjectFiles`, `DocumentOps`, `VersionGraph`, `CommitPipeline`
and `CommitHistory` state safety only. No
command is ever assumed to be sent.

## 5. What is proved

The proof modules hold no recursive operator and take nothing on trust. Assumptions
are those the modules state about their constants.

**SharedProofs** of `TripleBuffer`, for any non-empty payload and any number of publications.
Invariant: the three indices are a permutation; the two slots out of the writer's hands are
whole (`OthersWhole`); the writer's slot lacks exactly the words not yet stored
(`WriterSlot`); what the current borrow copied is what its slot holds (`CopiesAgree`);
between seeing the dirty bit and swapping, the word is dirty (`SwapIsDirty`); a disposed
version is out of the reader's reach (`Disposed`). The permutation alone says nothing of
contents: `NoTornRead` needs the second and third, the two-step `read` the fifth.
That nothing leaks is not in this: `Overwritten` adds that what the writer's slot still holds was
disposed of before the first word is stored over it.
Theorems: `IndicesStayAPermutation`, `ReadsAreNotTorn`, `ReaderCanGetTheNewest`,
`ReleaseIsSafe`, `NothingLeaks`, and `BufferImplementsRegister`, the refinement: `Publish` is the register's
publish, `Swap` its read, all else a stutter.

Of `GainSeqlock`, for any threads and any even modulus. Invariant (`SerialInv`): at most
one writer is inside; the counter is odd exactly then; memory is the committed pair with
the halves that writer has stored. `GainTypes` and `WritersAreSerial` need nothing else.
`SnapshotsAreCoherent` assumes `InOrder` and 2 * MaxWrites < SeqModulus: a counter that did
not move for the reader has not moved at all, so no write happened in between.

Of `CommitPipeline`, for any threads, tracks, settings and documents and any number of
changes (`KnobsAreKnown`, which TLC evaluates in `MCShared`). The theorems speak of
the time when rebuilds have caught up, so the invariant (`TablesInv`) says who is still to
catch up: unless a rebuild will publish tables, slots and knobs are the document's (`Arrived`); unless
another image will be assembled, the one in hand has the document's tracks, and then the
graph (`Imaged`). The one commit under way to a knob that is not crossed carries the document's
value (`OnTheirWay`), and a thread holds nothing where it should not (`Held`). The tables are
of one numbering (`Shape`), to which the graph's rows keep until the next publication
(`RowsKeyed`). That distinct tracks have distinct slots,
on which a single write rests, is a lemma about cardinalities (`SlotsDiffer`). Theorems: `PipelineTypes`,
`TablesAreTheDocuments`, `GraphIsTheDocuments`.

**TransportProofs** of `TransportWalk`, for every loop, position and block size: `BlocksAreTheirFrames`
(by the uniqueness of remainders, one frame at a time), `LoopsHold`, and `CrossingsAreTrue`. A block's
crossing is computed from where it began and ended; that a frame landed on the song's end is a fact about
the way between. The invariant (`Trail`) says that the walk is its base and the frames walked until it
turns back, and that it has met the song's end when that lies between.

Of `RecordTransport`, for any senders, length of the count-in and number of commands, with and without
a device and slow writers (`DoorsAssumption`, `OtherAssumption`, which TLC evaluates):
* `TakesStayKept`: each step moves a take on by one place, given `Truthful`: a take runs from where the
  engine begins it until the engine is at its stop; the flag `recording` is up all that while but for the
  step that raises it, and afterwards only until `halt`; and a label "recording" without a take is of one
  that is being finished, and about to be replaced.
* `StateIsTold`: `RecordingIsReported` follows from `Truthful`. That a stopped transport is not
  reported as playing needs that whoever labelled last also stores last (`Labelled`), and holds
  without a count-in only (`NoCountIn`; section 6 has the label that a cancelled count-in leaves). That a
  Stop which reached the engine leaves nothing running follows the message: it is in the queue
  (`Sent`), the engine is at it (`Handled`), or the sender finishes what it began (`Stopped`). Here one
  sender is assumed, for another's Record may be in the queue behind the Stop and begin a take.

Of `Playhead`, for any senders, song, block sizes and ring (`SamplesAssumption`, `BlocksAssumption`,
`RingAssumption`): `AutoStopsPark` and `SeeksStay`. That the playhead is on the end of the song at rest
is not inductive, as the block in flight moves it off again. The invariant says that until the stop
the transport plays and the park is in place (`Halting`), and that from then on the end is owed as a
park, in the callback's hand, or where the playhead is with nothing left to move it (`Halted`). Of a
seek it says, from its beginning on, that no park is owed, no auto-stop under way and no other command
(`MadeAtRest`, `Calm`), and once it is made that whatever the callback still carries is from
before (`Settled`).

**CommitHistoryProofs**, for any threads, properties, values, stack limit, and any numbers of
transactions and documents. Neither stack property is inductive: a step is also on its way
in, or in a thread's hand. The invariant says that both stacks are sequences over the
steps sound for the log's epoch, that what a thread carries towards the log is sound for the
epoch it carries with it, and that only gestures are folded into a drag. Closing a drag
stamps it with any epoch, which is why the statements exclude gestures (section 6).
Lemmas: insertion below, trimming, merging and popping stay within the sequences over a
set, for which the maximum that `Below` chooses must exist (`BelowIsAPosition`, from the
well-foundedness of the naturals). Theorems: `Types`, `RecordedStepsStayHome`,
`ReplaysStayHome`.

`UndoLeadsBack` speaks of moments when all has arrived; its invariant (`Home`) says what holds while
it has not. The steps of a structural property that are past are those on the undo stack, those
on their way to the log and the one a replay holds after redoing or before undoing it; by revision
they lead from one to the next and to the document (`LeadsTo`). What is ahead, the redo stack unless
an edit that will clear it is under way, leads on from there (`LeadsOn`). The undo stack rises in revisions,
the redo stack falls, and what is carried lies between them (`Straight`). A full
stack has forgotten what is older than its oldest step (`Floor`), from which an edit that comes
late may also be lost. Around this: no step is newer than the document (`Dated`), a structural edit
that is not recorded yet has its revision to itself (`Distinct`), who carries a step off a stack has
the gate (`Gated`), and drags are of knobs. There is a lemma for each operator on the stacks
(insertion divides at the revision, trimming drops the oldest, merging leaves structural steps alone)
and one for each role that a step may move between. From a state in which nothing is carried,
`LineIsStraight` reads the path off the two stacks. Theorem: `UndoLeadsTheWayBack`.

**ClockPortProofs** of `ClockCarry`, for any clocks, any choke group and looping clips, any length of clip and ring, and any
number of presses and rebuilds (`ClocksAssumption`, `BoundsAssumption`, which TLC evaluates in
`MCEngine`). What is pressed is in the published table, what is heard in an older one, and in between
several tables may queue. The invariant (`ClockCore`, until a press is overwritten) speaks of all of them.
Graphs are adopted in the order of their tables (`InOrder`), and until one is dropped, one after the
other (`NoneMissing`). In every table from the one that plays on, a clock that no later table was pressed
on carries its last press (`PressesStand`): with that of the published table, which is what is
claimed, a copy is harmless, since it happens only where the counter was not moved. The callback's loads
still hold when it stores (`LoadsStand`), and a press that has counted shows it (`CountsStand`).
For the choke group it is not enough that one pad sounds in the table that plays (`PlayAlone`):
in a table on its way, some clocks will yet be copied, so a pad that was pressed there and sounds must have
seen the others of its group off (`WillPlayAlone`), each unless a press is still about to end one
(`Ending`, `PlanIs`). What has been copied so far agrees with the table that retires (`CopiesAgree`), from
which `PlaysOn` follows at the swap.
Theorems: `PressesWin` and `ClipsPlayOn`. Two things came out of this proof. After a dropped
graph neither `OneOfTheGroup` nor `PlaysOn` nor `CutsAreHeard` holds (section 6), which with two rebuilds and
a ring of one a run cannot show. `PressStands` needs no such exception, and is claimed at any time, also
in the middle of a press.

Of `MidiOutPort`, for any routes, songs sorted by sample, tempi, steps and tolerance
(`SortedAssumption`, which the code asserts of every snapshot, and `PulsesAssumption`; TLC evaluates both in
`MCEngine`). What a route has sent is a set of events, where it stands a number; the invariant
(`PortInv`) says that they are one thing: since its last placement a route has sent exactly what lies between that
place and its cursor (`Sent`), nothing of it is ahead of the estimate, and once a tick has come over it the cursor
is past everything before the estimate. Then a small correction, played through, and a large one, which lands and catches
the event under it, are the same argument: `NextAt` cuts a sorted song in two (`NextAtCuts`) and grows
with its bound (`NextAtGrows`). That nothing hangs rests on each route's steps telling the truth of what they leave
sounding (`Truthful`), which `EmitIsKnown` carries from the routes to the device, whoever speaks of a key last;
that the device is not a song position behind on one division (`Quotient`), where the position can be
said (`Said`). Theorem: `PortTellsTheDevice`.

**LiveProofs** of `LiveMidiIn`, for any tracks and keys, any slots (two tracks never share one, as
`ConstantsAreSound` says and TLC evaluates in `MCCommands`), any size of the ring and of a block, any length of a
release and any number of events. The property speaks of moments when all has come to rest, so the
invariant (`IInv`) follows a key, its release and the slot until then. Of the slot: it is the picked track's,
or a flag is up, or the command that will raise it has yet to (`Resolved`). Of keys: a node sounds
only those the callback holds, and only where the callback plays; while stopped it may sound others, and a clip's
note, only as long as the release of everything is owed (`Released`, `ClipEnds`). A key that will sound once the
ring is played, because it is held or struck there with no release behind it (`Rings`), is one whose release was lost
or one that is down, whose release is in the port's callback, that a command is about to silence, or the
audition's (`Heeded`); that a command leaves nobody else's key behind is in `UnderWay`. Of tails: a node in
release is the one played, or has the window of the node that leaves for at least as long (`TailsEnd`, `Counted`).
That no clip's note is cut needs that everything is never owed while the song plays, unless from before (`Owed`). A block
takes any number of events from the ring, and its drain is a recursive function: that it solves its equation is
proved from the least length at which it would not (`DrainingExists`), and what it does to keys and nodes from
the first event after which that would fail (`DrainDoes`). What a whole block does is said once, in predicates
(`BlockDoes`), from which a lemma for each part of the invariant follows.
Theorems: `MonitoringInvariant`, `MonitoringStaysSound`.
This proof corrected the model as well: an earlier `TailsRunOut` did not except nodes whose keys were released on
another (section 6).

**ProjectFilesProofs**, for any threads, directories and MIDI parts, and any numbers of edits,
swaps, failures and journal lines. That files and memory hold their own song is not inductive:
a snapshot is on its way to a file, and a save-as carries the song into a directory that is
only being made. The invariant (`IInv`) adds where a command may be with what
(`Placed`: a swap goes to a directory, and began in this epoch or before), that a snapshot to be
written belongs to the directory it goes to (`WritesHome`), and that the birth of a directory which
nothing overtook finds the session without one (`BirthIsFirst`). From where two swaps overlap, only types and
places are claimed. Theorems: `Types`, `SongsStayHome`.
Three more rest on common ground (`Grounds`: who writes holds the gate, directories and files
stand by what was made, a birth is of a document without a directory):
* `SongsGoForward`: the song on disk, the one a writer or a save-as carries and the session's are each
  at most as new as the next (`FInv`, `Rising`).
* `CleanMidiStaysOnDisk`: a MIDI part is on disk as in memory, or dirty, or an edit that is to mark it
  dirty is under way, or a writer that has it in hand is (`MInv`, `Clean`, `Writing`). It holds while no mishap
  has happened; `elsewhere`, a write to one project that clears the flag of another, came out of this proof.
* `SongsStaySavedOrOffered`: a journal line of a song edit is of an edit that is in the session's song,
  and what the marks claim is on disk; a writer about to mark has written at least the song it took
  (`JInv`: `Logged`, `Held`, `MarksAreTrue`, `MarkHolds`).

**WorkersProofs** of `SidecarJobs`, for any jobs, slots and numbers of lines (`SlotsAssumption`: both are
naturals; TLC evaluates it in `MCWorkers`). The invariant takes a job at a time. A worker
lives exactly while its supervisor is at one of the three awaits that can see it, and then
there is a slot (`Supervised`); what a supervisor has seen has happened (`Seen`); the registry
is behind the supervisor until the last step, and then where `Ending` says (`Registered`).
A step of one job leaves all the others as they are (`StepSpares`), so that it is enough to show each
of them for the job that moves. That no more slots are held than there are is a cardinality
(`Fits`). Theorems: `Types`, `JobsEndOnce`, `EndingsAreEarned`, `SlotsBoundWorkers`, and
together `JobEndingsAreTrue`. Of `CaptureTake`, for any tracks, ring size, buffers and length
(`TakeAssumption`). Whether a frame is in place cannot be read off a file alone: the take of a track is its
file, then its ring, then the silence it is owed. The invariant (`TInv`) says of each track that
these have the length of what its callback has dealt with, and hold every frame at its index or
silence where it was missed or held (`Kept`); that the writer goes past its sweeps only when no callback
runs any more, and closes only empty rings (`Closing`). `SilenceKeepsTime` and `NewsKeepsTime` say what
appending to a ring does to that. Theorem: `TakesAreWhole`.

Of `GraphExchange`, for any streams, ring sizes, and numbers of rebuilds.
Invariant: from the callback's test of the retire ring to its push the ring keeps a
slot, since the control thread only takes out; and what is ahead of a callback (hand, then
ring) is ascending, newer than what it plays and older than the next push.
Theorems: `AudioThreadNeverFrees`, `CallbackAdoptsForward`. `OneOwner` counts the places of a graph;
its invariant (`Own`) says instead that two places that hold one graph are one place (`Apart`,
`Straight`), that every graph built is in some place or freed and never both (`Accounted`), that
no graph is built that was not issued (`Known`), that a callback has nothing in hand between blocks
(`Resting`), and that a stream that is gone left nothing behind (`Gone`, `Switching`).
Theorem: `GraphsHaveOneOwner`.

**VersionProofs** of `VersionGraph`, for any threads, keys, weights, threshold, budget and floor, and any
number of revisions and swaps (`VersionsAssumption`, which TLC evaluates in `MCDocument`). That a version
reads back as the document was is a fact about a chain that has holes: batches arrive late and out of
order, drags fold revisions away, evictions cut the beginning off, and what is carried outside the chain may still
be inserted anywhere in it. The invariant (`IInv`) therefore speaks of carriers: a batch on its way and a node
of the chain are the same to it. A carrier leads from the document of the carrier before it to its own, unless a
revision between the two is accounted for, that is carried itself, folded, lost or shared (`PairsLead`).
So that this survives the next transaction and the closing of a drag, the newest revision and the one before
a drag are accounted for too (`Newest`, `DragsLead`); so that it survives a swap, later revisions are of
later epochs, and what is carried of this epoch is of the document that is open (`InTime`, `Current`). A
revision has one carrier unless it is shared, and what a drag folded is its own (`Distinct`,
`FoldsAreHeld`, `FoldsAreFree`); images are those of their revisions (`Images`). Beside it `Kept` says of
the chain's positions what `VersionsAreKept` says. Sums of weights and replays are recursive functions: what
is needed of them (`WeightIs`, `InsertedWeighs`, `HalvesWeigh`, and that a replay which errs errs first somewhere)
is proved from the least natural at which it fails, which needs no induction over an operator.
Theorems: `VersionsInvariant`, `VersionsStaySound`. This proof corrected the model. The earlier statement did not
except revisions whose node was evicted; with three threads and a floor of one, TLC shows what it missed:
two older batches arrive after a newer node, the eviction takes a node between them, and the second is
replayed over an image that is not the one it was made on. It takes a chain as short as the floor; in the code that
is 200 (`VER_STEPS_FLOOR`), and the claim of vergraph.rs:22-24, that every revision the browser still
offers can be read back, holds but for this and the other exceptions of `VersionsReadBack`.

The permutation of the triple buffer's indices and the reachability of its newest value are proved
and therefore not checked in a run of their own; TLC checked them before they were proved, and
they are parts of the invariant the other theorems rest on.

Only model-checked: liveness (`ValuesArrive`, `TablesArrive`, `WorkIsFinished`, `EndsAreReached`) and
what rests on `ENABLED`, which are beyond this prover; and the properties of
`DocumentOps`, which need induction over the ops of a transaction. `CountInIsSound` is
`TakesAreKept` and `StateIsReported` of `RecordTransport` at another value of `CountIn`: `TakesStayKept` and
`StateIsTold` are proved for every value.

## 6. Where the code and its words disagree

Seven runs state what a comment or document says, and TLC finds it violated by what the
code does. Each has a neighbour that does hold.

* `playhead_seek` (control/mod.rs:2446). A comment (2438-2440) says an explicit command
  drops the pending park so that a stop followed by a seek is not undone a buffer later. The block in
  flight, which loaded `playing` before the Stop, undoes it without any park: its store of
  the advanced position (engine.rs:884) comes after the Seek's. `SettledSeekStays`
  holds: a Seek made while stopped, with no end policy under way, stays once the blocks
  that were in flight when it returned are over.
* `record_stop_race` (control/mod.rs:2517). "Stopping while recording finalizes the take"
  (2493-2494). Stop asks `recording` and `countin_left`; after the callback's last count and
  before the engine arms `pending_record` both are clear. Stop then completes directly, and the
  take starts on a stopped transport. `RoutedStopEndsTheTake` holds: a Stop that saw
  either ends the take.
* `history_gesture` (control/mod.rs:4847). The log promises a gesture the stale-epoch
  guard of a commit (history.rs:772-773). `close_gesture` stamps the batch with the
  session's epoch at the time of closing, not with the one its edits were made in, so a
  drag left open across a project change passes the guard onto the new document's stack.
  `StepsAreOfThisDocument` holds of everything but gestures, and is proved.
* `project_switch` (project.rs:132). midi/mod.rs:27-30 says `loaded_dir` is always current when a
  command runs. `ensure_default_project` installs a directory and leaves `loaded_dir` unset, so
  that the next open of a project without MIDI keeps what is in memory: "B silently inherited A's
  midi document" (224-229). `SongIsItsOwn` holds of the song, and is proved.
* `project_mark` (control/mod.rs:5499). The mark "claims durability for the whole document"
  (5476-5483). MIDI edited before the first project was made is not dirty, since `execute_persist`
  returns at 697 without a directory; after `ensure_default_project` a save writes the song alone
  and marks the journal. `SongsAreSavedOrOffered` holds.
* `preview_hold` (plugins/mod.rs:631). A comment (631-632) says that "a stopped transport still sounds"
  an audition. When another track is picked the note is sent at once (midi_in.rs:238-244), and the
  callback takes it before the engine's thread has moved the target's slot, or within the release of the
  track left, when it discards every event (engine.rs:715-722). The audition is held and its track
  silent. `MonitoringIsSound` holds: what was put down is released where it was put down.
* `clock_cancel` (clock.rs:435). `cancel_pending` is there so that no pad "fires on its own, minutes
  later". It counts no write, so the adoption of a graph built before finds the counter as it was
  carried and copies the retired table's clock, where the press still waits. `PressWins`
  holds of fires and stops, which count, and is proved.

Seen while modelling, without a run of its own.

*Sequence lock.* rt.rs:323 promises a "Coherent snapshot". The data loads (338-339) are
`Relaxed` and the re-check (340) is an `Acquire` load with no fence before it, which orders
what follows it and not what precedes it. On a weakly ordered target the re-check may be
performed first; live and base gain are then of two writes. The constant `InOrder` stands for
program order: with it `CoherentSnapshot` holds, without it TLC finds the torn pair.

*Tables.* control/mod.rs:403-404 says "There is no window where a commit's own write can be
silently lost". Of two commits that set one track and overlap, the one that left the session
lock first may reach the tables last, and its older value stays there until the next rebuild, which
neither asks for. `any_solo`, which every setting of any track recomputes, has the same window
between settings of different tracks; so has a commit that overlaps a create or an open. These knobs
are `crossed`; of all others `TablesFollow` holds, and is proved.

*Undo history.*
* A newer step merges with the top of the undo stack while a revision between the two is
  still on its way. history.rs:249-252 raises the folded step's revision so that such an
  entry sorts below; but the folded step then spans it (240-258, 387-394).
  `UndoLeadsBack` is therefore stated of structural properties, which never merge.
* `push_undo_unchanged` (history.rs:941) returns a step by position. If an edit was recorded
  while the step was replayed, the stack is no longer in order of revisions.
  `UndoLeadsBack` excludes those behaviours.
* An edit of the new document that reaches the log before `epoch_boundary` is dropped (history.rs:724-736),
  or the boundary is drawn twice and clears it (820); an older edit of the same document, which was
  still on its way, is then recorded all the same. Undo goes back past an edit that it does not
  know. `UndoLeadsBack` excludes it (`Outlived`); the attempt to prove the property without that
  found it, and TLC shows it with three threads.
* Two document swaps may reach `epoch_boundary` in the reverse of the order in which they
  took the session lock; and `ensure_project_epoch` reads the session's epoch again after
  its swap (control/mod.rs:5607), so it may log another swap's epoch with its own directory.

*Versions* (what `VersionsReadBack` excepts).
* `close_gesture` stamps the drag's batch with the session's current revision, "the correct ones to
  stamp a history entry describing 'the document as of gesture-close' with" (control/mod.rs, before
  4787). After an edit by someone else during the drag that revision is the other's: two nodes have
  one revision, and `replay_plan` finds the first of them.
* The drag's write is then placed behind edits that came after it. A version kept as ops alone replays in that
  order, so it may read back the drag's value where the document had a later one. Read back
  while the drag is open, it lacks the drag.
* A batch of a new document that is recorded before the log's `epoch_boundary` is dropped
  (history.rs:727). The versions kept as ops after it are replayed without it, or not at all.
* vergraph.rs:75-78 keeps 200 nodes "so browsing never covers less than undo reaches". A step of
  the undo stack that merged many edits has a node for each, so 200 nodes may be fewer than the
  200 steps of the stack.

*Operations* (what `odd` marks, and `UndoLeadsHome`, `DocumentIsSound` and `FailsWhole` exclude).
* Removing a plugin instance that sits in a slot sweeps the slot; undo puts the instance back and
  not the slot. The undo of the earlier insertion then fails, and undo is stuck at it.
* `remove_track` reads the wires into the track under one lock and removes it under another.
  A send or an output made in between is left dangling, against "must not leave dangling wires
  behind" (control/mod.rs, near 3107). A later transaction that fails and rolls back over such a wire
  cannot restore it, and meets the `expect("rollback must not fail")` of session.rs:458.
* `set_track_instrument` checks at control/mod.rs:4077 that the instance is in no slot and commits at
  4080 under another lock.

*Live MIDI* (what `odd` excuses in `MonitoringIsSound`).
* When the transport starts within the release of a track that was left, the release of everything
  that is still owed reaches the node after the song's first notes, and cuts them (engine.rs:630-645).
* A rebuild that renumbers the slots while a key is held lets the release go to another track's node
  (near 508); a block of a count-in takes events from the ring and renders no node (765-788).
* A stop within the release of a track that was left while the song played gives the channel back to that
  track's node (engine.rs:686-688), which then receives the releases of the keys played on the new one, against
  "exactly the keys monitoring put down on it, and nothing else" (704-705). These keys stay down in the new
  node until the release of everything, which is owed, reaches it. If another track is picked before that, they
  stay down in a node that nothing renders; the next Play releases them, and a stop soon after freezes that
  release, which rings on when the track is picked again. The attempt to prove `TailsRunOut`
  without `clipped` covering this found it, and TLC shows it.
* A note struck between `select_port`'s release (midi_input.rs:519) and the end of the old connection
  hangs, as its release never comes.

*Clocks.*
* clock.rs says "the press wins". A press between a callback's load and its store of the same
  clock is overwritten (`raced`), and what follows is not followed in the model.
* A pad armed, or an armed one cut, in a table that is not yet adopted: the discontinuity that
  tells the nodes may be lost with the retired table (`midway`), though stop's comment (clock.rs:517)
  says that not counting such a press "only costs that clock ... one block of stale position".
  `CutsAreHeard` excludes it.
* A graph published but never pushed (a full ring) leaves the next one carried from a table the
  callback never plays: it is swapped in without the reconciliation, as it was built. Its clocks are
  those of a moment that may lie in the middle of an adoption, so that two pads of a choke group may sound
  on; a sounding clip is set back to where it was then; and one that ended or was choked since has lost
  the discontinuity that tells its nodes (`lost`). What was pressed stands all the same (`PressStands`).
* `choke_others` clears `pending_at` before it counts; an adoption in between copies a press that
  is cleared anyway by the store that follows, so nothing comes of it.

*Projects.*
* An open while the MIDI is dirty, or that cannot read it, keeps what is in memory under the new
  project; `create_project_at` clears notes and not chords and meter (control/mod.rs:5068-5082);
  `clear_midi_dirty_if_unchanged` (control/mod.rs:845-855) compares contents and not documents, so that a write
  of one project's MIDI may clear the dirty flag of another (the mishap `elsewhere`).
* Of MIDI, a batch in the journal is not always on disk or offered: a save marks the journal by
  revisions, and a MIDI edit, whose own write comes after the save and fails, may have a lower one
  than a song edit whose line is already there. replay.rs:427 calls the tail "over-wide, never
  under-wide" but for a window that it names; of songs it holds (`SongsAreSavedOrOffered`),
  since a save always writes the song.
* Two births of an unnamed document may overlap (control/mod.rs:5576-5580), and a project may be
  opened while it is being saved; what follows is the mishap `overlap`.

*Takes.* The silence still owed when a take ends is lost with the ring, so the tracks of a take may
differ in length by it; engine.rs says "NEVER shrink a take". `TakeKeepsTime` says that each
file lacks exactly its debt.

*Jobs.* A cancel that was accepted before the worker's exit may still end in `done`. A worker that
closes its output and hangs holds its slot until someone cancels it: there is no time-out.

*MIDI output.* Starved pulses are dropped without a new cue, though the comment on
`MAX_PULSE_BURST` says the clock is "re-anchored"; a clock enabled in mid-song sends pulses to a
device that was told no start; and a cue beyond the last song position (14 bits, midi_out/mod.rs:175)
sends the device to that one (all three are `slipped`). An edit places its route on the engine's
playhead and not on the estimate, so the events between the two may be repeated or skipped once
(`placed`). A failed send loses the rest of its tick's messages though the flags are cleared. Two ports
refresh separately, so a re-routed clip may be sent by both for up to 250 ms.

*Transport.*
* triple_buffer.rs:146-149 counts two publishes until the writer owns a value again.
  A reader that does not read keeps its slot for as long as it likes; the writer then
  alternates between the other two. `NoUseAfterRelease` is what the users need, and holds.
* transport.rs:54-56 says a block that wraps cannot cross a point beyond the loop's end. A block
  that passes a point inside the loop and then wraps past where it started reports nothing
  either (65-67). `CrossingFollowsTheWalk` says what is reported.
* The park that auto-stop leaves for the next stopped block (engine.rs:3413) can be consumed
  by a block that loaded `playing` before a Play that came in between (602).
* The callback's load and store of `countin_left` (engine.rs:782) are a block apart. A cancellation in
  between (3468) is overwritten, and a count-in with no take behind it plays to its end.
* Ending a count-in with Stop in the engine (engine.rs:4171-4178) returns before the commit of a label, so
  "playing" stays in the document until the next command. `StoppedIsReported` is checked
  without a count-in. A Record that timed out may start a count-in without a device, which then
  rests until the next command.
* When the engine's answer is an error, Stop returns at control/mod.rs:2520 and skips
  `clear_launch_audible` (2547): scenes that no longer sound stay marked.
* Between clearing `recording` (engine.rs:4221) and committing the clips, a second Stop
  commits "stopped" while the first still finalises. The take is kept all the same.

## 7. What is not modelled

* **Rendering, voices, effects, MIDI scheduling, tempo maps, modulation, pitch analysis, theory,
  JIT kernels**: functions of samples or notes within one thread, out of a model checker's reach. Of
  the mixer, the routing that must not close a loop is in `DocumentOps`.
* **Plugin hosting, MCP server, import and export, UI, Python workers**: I/O and foreign
  processes. Where they matter to others they appear as time that passes: the window
  of a commit, a request that waits, a worker that hangs. Which instance is in which slot is in
  `DocumentOps`.
* **Loop jam, composer, clipboard**: they compose the operations of `DocumentOps`. What a sequence of
  clip operations may be is taken wider there than they make it.
* **Automation recording**: planned.
* **In `LiveMidiIn`**: seeks and the loop, launched clocks, the launch map, the capture of a take, the tone
  heard when no track is picked, auditions that end by a timer, a change of the output device.
* **In `CommitPipeline`**: sends, players and buses, whose lanes are looked up by id in the same block;
  commits that the engine itself makes, which rebuild in place; rebuilds without an output, which publish
  and build nothing; the retry of a full ring (`GraphExchange`).
* **A torn loop**: `SetLoop` stores three atomics one by one (control/mod.rs:2587-2589) and the
  callback loads them one by one. The loop is off in `Playhead` and fixed in `TransportWalk`.
* **Several capture devices in one take**: a take is one group of tracks; that one of its writers
  fails is a choice.
* **In `ClockCarry`**: clocks keep their identity across rebuilds, so the translation of indices
  when a pad is added or removed is left out, as are the stealing of voices at the cap and the
  position at which a press sounds.
* **In `MidiOutPort`**: a change of the sample rate, ports that cannot be opened.
* **In `ProjectFiles`**: plugin states, which are kept dirty as the MIDI is, automation files, the
  restoration of an unsaved tail (`replay`), journals of earlier runs of the program.
* **In `DocumentOps`**: operations on tempo, harmony, players, notes, automation and plugin state
  blobs; operations that replace a value under a key; the gestures of send knobs; limits of the
  history; the restoration after a closure that panics (session.rs:403-424). What a launcher drives is
  a function of the clip; in the code it is a list, to which an inverse restores at the end.
* **What happens between a commit and its record** in `CommitHistory` other than that other
  threads run: the persist, the host's round-trips and the journal.
* **In `VersionGraph`**: drags of several knobs, the undo's and redo's commits apart from others, the
  list the browser shows, and what is done with a version that was read back.
* **Other fields of a mixer slot** (pan, flags, sends, owner of automation): independent
  atomics without a protocol.

## 8. Plan

Done: the triple buffer with its abstract register, the graph exchange, the gain seqlock, the
transport's arithmetic, playhead, recording, capture, launched clocks, MIDI output and input, sidecar
jobs, undo history, operations, project files, the kept versions, the way from a commit to the tables;
theorems about all of them but the operations.

Next models, in order:

1. A pass of automation: the ends of a touch against Stop and a rebuild.
2. The torn loop within `Playhead`.
3. `ClockCarry` with pads that come and go, so that indices shift.

Next proofs: that each op's inverse leads back, and from it `UndoLeadsHome`, `FailsWhole` and
`DocumentIsSound`.

## 9. Running it

```
tlc -workers 2 -config Shared.cfg MCShared
tlc -workers 2 -config Engine.cfg MCEngine
tlapm SharedProofs.tla
```

Each run's module and configuration, the properties it checks, the faulty variant of
each property, the source lines of each definition, the findings, hazards and theorems are in
`PROJECT.json`. The runs that find violations take seconds, the others one to three minutes. The
longest proofs are those of `CommitHistoryProofs` and `ClockPortProofs`, three minutes each from nothing; the
others take one or two.
