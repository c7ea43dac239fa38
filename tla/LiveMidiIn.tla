----------------------------- MODULE LiveMidiIn -----------------------------
(***************************************************************************)
(* A MIDI keyboard played through a track's instrument.  The port's thread *)
(* hands notes to a ring (midi_input.rs, `handle_incoming`; audio/         *)
(* midi_in.rs, `MidiInHub`); commands pick the track, switch monitoring,   *)
(* open and close the port, and hold a note to audition a plugin; the      *)
(* engine's thread gives the picked track a node and resolves its slot     *)
(* (audio/engine.rs, `follow_live_in_target`); the audio callback drains   *)
(* the ring into the node at that slot and releases what it put down there *)
(* when the slot changes, the transport stops or somebody asks for it      *)
(* (`OutputCb::render`).  The node plays the track's clips as well.        *)
(*                                                                         *)
(* A block is one step: what others do during it comes before or after.    *)
(* Time is counted in blocks.  Left out: seeks and the loop, launched      *)
(* clocks, the launch map that takes pads' notes away, recording, the tone *)
(* heard when no track is picked, a change of the output device.           *)
(***************************************************************************)
EXTENDS Naturals, Sequences

CONSTANTS
  Tracks,       \* MIDI tracks
  Scored,       \* those with clips, which have a node whatever is picked
  NoTrack,      \* no track is picked
  Pitches,      \* the keyboard's keys
  Tried,        \* the key of auditions
  Clip,         \* a clip's note
  Places,       \* the slots the tracks may have, as the song orders them
  RingSlots, PerBlock,  \* LIVE_IN_RING_SLOTS, MAX_LIVE_IN_PER_BLOCK
  Release,      \* RELEASE_SECS
  Budgets       \* bounds: how often each kind of thing may happen in a behaviour

(* What the constants must satisfy: an ASSUME of the modules that set them. *)
ConstantsAreSound ==
  /\ Scored \subseteq Tracks /\ NoTrack \notin Tracks
  /\ Tried \notin Pitches /\ Clip \notin Pitches /\ Clip # Tried
  /\ Places \subseteq [Tracks -> Nat \ {0}] /\ Places # {}
  /\ \A place \in Places : \A s, t \in Tracks : s # t => place[s] # place[t]
  /\ Budgets \subseteq [{"presses", "picks", "holds", "switches", "moves", "rolls"} -> Nat]
  /\ RingSlots \in Nat \ {0} /\ PerBlock \in Nat \ {0} /\ Release \in Nat \ {0}

VARIABLES
  down,     \* keys the player holds
  port,     \* the connection, its monitor flag, and the message in its callback
  ui,       \* the command in progress
  preview,  \* PREVIEW_HOLD_STATE
  hub,      \* MidiInHub: target, target_dirty, target_slot; stale: not resolved in this generation
  ring,
  song,     \* the tracks' slots by the document; asked: a Rebuild is in the mailbox
  engine,   \* Control: its place in the tick, live_in_target, the tables' slots,
            \* the nodes it keeps and how many each track has had, the graph pushed last
  moving,   \* SharedRt: playing, and a count-in
  cb,       \* OutputCb
  graph,    \* the callback's: a row for each track with a node
  nodes,    \* nodes[t]: notes held in t's node, and the blocks a monitored one still decays
  budget,   \* what is left of the bounds
  odd       \* history: what excuses a hanging note (see the properties)

outside == <<down, port, ui, preview, budget>>
liveVars == <<outside, hub, ring, song, engine, moving, cb, graph, nodes, odd>>

NoSlot == 0
Played == Pitches \cup {Tried}
Window == Release + 1    \* release_window

On(k) == [kind |-> "on", key |-> k]
Off(k) == [kind |-> "off", key |-> k]
AllOff == [kind |-> "all", key |-> Clip]

Quiet == [on |-> {}, tail |-> 0]
NoPreview == [track |-> NoTrack, prev |-> NoTrack]

Rows(live, made, place) == [t \in live |-> [slot |-> place[t], node |-> made[t]]]

LiveInit ==
  /\ down = {}
  /\ port = [open |-> TRUE, monitor |-> TRUE, pc |-> "idle", event |-> AllOff]
  /\ ui = [pc |-> "idle", then |-> "idle", track |-> NoTrack]
  /\ preview = NoPreview
  /\ hub = [target |-> NoTrack, dirty |-> FALSE, slot |-> NoSlot, stale |-> FALSE]
  /\ ring = <<>>
  /\ \E place \in Places :
       /\ song = [place |-> place, asked |-> FALSE]
       /\ engine = [pc |-> "idle", live |-> NoTrack, want |-> NoTrack, slots |-> place,
                    kept |-> Scored, made |-> [t \in Tracks |-> IF t \in Scored THEN 1 ELSE 0],
                    ready |-> <<>>]
       /\ graph = Rows(Scored, [t \in Tracks |-> 1], place)
  /\ moving = [playing |-> FALSE, countin |-> FALSE]
  /\ cb = [slot |-> NoSlot, allOff |-> FALSE, held |-> {}, rel |-> NoSlot, left |-> 0,
           hold |-> 0, was |-> FALSE]
  /\ nodes = [t \in Tracks |-> Quiet]
  /\ budget \in Budgets
  /\ odd = [lost |-> {}, astray |-> {}, clipped |-> {}, owed |-> FALSE, cut |-> FALSE]

Spend(b) == budget[b] > 0 /\ budget' = [budget EXCEPT ![b] = @ - 1]

----------------------------------------------------------------------------
(* The ring.  A release that finds it full is lost, and so is the release  *)
(* of a key struck after its last one was asked for.                       *)

Full == Len(ring) >= RingSlots
Releases(e) == CASE e.kind = "off" -> {e.key} [] e.kind = "all" -> Played [] OTHER -> {}
HubPush(e) ==
  IF Full
  THEN odd' = [odd EXCEPT !.lost = @ \cup Releases(e)] /\ UNCHANGED ring
  ELSE ring' = Append(ring, e) /\ UNCHANGED odd

----------------------------------------------------------------------------
(* The player and the port's thread.                                       *)

(* The callback of the connection loads the monitor flag first. *)
Arrives(e) ==
  port' = [port EXCEPT !.pc = IF port.open /\ port.monitor THEN "route" ELSE "idle", !.event = e]

Strike(k) ==
  /\ port.pc = "idle" /\ k \notin down
  /\ Spend("presses")
  /\ down' = down \cup {k}
  /\ Arrives(On(k))
  /\ UNCHANGED <<ui, preview, hub, ring, song, engine, moving, cb, graph, nodes, odd>>

Lift(k) ==
  /\ port.pc = "idle" /\ k \in down
  /\ down' = down \ {k}
  /\ Arrives(Off(k))
  /\ UNCHANGED <<ui, preview, hub, ring, song, engine, moving, cb, graph, nodes, odd, budget>>

(* monitor_route: to the hub when a track is picked. *)
Route ==
  /\ port.pc = "route"
  /\ port' = [port EXCEPT !.pc = IF hub.target = NoTrack THEN "idle" ELSE "push"]
  /\ UNCHANGED <<down, ui, preview, hub, ring, song, engine, moving, cb, graph, nodes, odd, budget>>

TooLate ==
  /\ port.event.kind = "on"
  /\ \/ ui.pc = "drop"
     \/ ~port.monitor /\ ui.pc # "silence"
     \/ hub.target = NoTrack

Forward ==
  /\ port.pc = "push"
  /\ port' = [port EXCEPT !.pc = "idle"]
  /\ IF ~Full /\ TooLate
     THEN ring' = Append(ring, port.event) /\ odd' = [odd EXCEPT !.lost = @ \cup {port.event.key}]
     ELSE HubPush(port.event)
  /\ UNCHANGED <<down, ui, preview, hub, song, engine, moving, cb, graph, nodes, budget>>

----------------------------------------------------------------------------
(* Commands, one after another.                                            *)

rest == <<song, engine, moving, cb, graph, nodes>>
Proceed(l) == ui' = [ui EXCEPT !.pc = l]

(* set_target_track, up to the flag it raises last. *)
SetTarget(t, then) ==
  /\ hub' = [hub EXCEPT !.target = t]
  /\ IF hub.target \notin {NoTrack, t} THEN HubPush(AllOff) ELSE UNCHANGED <<ring, odd>>
  /\ ui' = [ui EXCEPT !.pc = "dirty", !.then = then]

(* select_midi_input_track *)
Pick(t) ==
  /\ ui.pc = "idle" /\ t # hub.target
  /\ Spend("picks")
  /\ SetTarget(t, "idle")
  /\ UNCHANGED <<down, port, preview, rest>>

MarkDirty ==
  /\ ui.pc = "dirty"
  /\ hub' = [hub EXCEPT !.dirty = TRUE]
  /\ Proceed(ui.then)
  /\ UNCHANGED <<down, port, preview, ring, odd, budget, rest>>

(* select_port with the port that is open: the flag, then the release. *)
SwitchMonitor ==
  /\ ui.pc = "idle" /\ port.open
  /\ Spend("switches")
  /\ port' = [port EXCEPT !.monitor = ~@]
  /\ Proceed(IF port.monitor THEN "silence" ELSE "idle")
  /\ UNCHANGED <<down, preview, hub, ring, odd, rest>>

Silence ==
  /\ ui.pc = "silence"
  /\ HubPush(AllOff)
  /\ Proceed("idle")
  /\ UNCHANGED <<down, port, preview, hub, budget, rest>>

(* select_port with another port, or none: the release, then the old       *)
(* connection goes, once its callback has returned.                        *)
ChangePort ==
  /\ ui.pc = "idle"
  /\ Spend("switches")
  /\ HubPush(AllOff)
  /\ Proceed("drop")
  /\ UNCHANGED <<down, port, preview, hub, rest>>

DropPort ==
  /\ ui.pc = "drop" /\ port.pc = "idle"
  /\ \E open \in BOOLEAN : port' = [port EXCEPT !.open = open, !.monitor = TRUE]
  /\ Proceed("idle")
  /\ UNCHANGED <<down, preview, hub, ring, odd, budget, rest>>

(* begin_preview_hold: take the target over, then cut and sound the note. *)
BeginHold(t) ==
  /\ ui.pc = "idle" /\ preview = NoPreview
  /\ Spend("holds")
  /\ preview' = [track |-> t, prev |-> hub.target]
  /\ IF t = hub.target
     THEN Proceed("cut") /\ UNCHANGED <<hub, ring, odd>>
     ELSE SetTarget(t, "cut")
  /\ UNCHANGED <<down, port, rest>>

CutHold ==
  /\ ui.pc = "cut"
  /\ HubPush(AllOff)
  /\ Proceed("sound")
  /\ UNCHANGED <<down, port, preview, hub, budget, rest>>

(* Refused by a full ring: give the target back. *)
SoundHold ==
  /\ ui.pc = "sound"
  /\ IF ~Full
     THEN HubPush(On(Tried)) /\ Proceed("idle") /\ UNCHANGED <<preview, hub>>
     ELSE /\ preview' = NoPreview
          /\ IF preview.prev = preview.track
             THEN Proceed("idle") /\ UNCHANGED <<hub, ring, odd>>
             ELSE SetTarget(preview.prev, "idle")
  /\ UNCHANGED <<down, port, budget, rest>>

(* end_preview_hold *)
EndHold ==
  /\ ui.pc = "idle" /\ preview # NoPreview
  /\ HubPush(Off(Tried))
  /\ ui' = [ui EXCEPT !.pc = IF preview.prev = preview.track THEN "idle" ELSE "restore",
                      !.track = preview.prev]
  /\ preview' = NoPreview
  /\ UNCHANGED <<down, port, hub, budget, rest>>

RestoreTarget ==
  /\ ui.pc = "restore"
  /\ SetTarget(ui.track, "idle")
  /\ UNCHANGED <<down, port, preview, budget, rest>>

(* An edit that gives the tracks other slots. *)
Move ==
  /\ Spend("moves")
  /\ \E place \in Places \ {song.place} : song' = [place |-> place, asked |-> TRUE]
  /\ UNCHANGED <<down, port, ui, preview, hub, ring, engine, moving, cb, graph, nodes, odd>>

----------------------------------------------------------------------------
(* The engine's thread.                                                    *)

(* rebuild: slots, a node for every track with clips and for the target,   *)
(* whose state survives while the track keeps one.                         *)
Live == Scored \cup ({hub.target} \ {NoTrack})
Made == [t \in Tracks |-> engine.made[t] + (IF t \in Live \ engine.kept THEN 1 ELSE 0)]
Rebuild(pc, e) ==
  /\ engine' = [e EXCEPT !.pc = pc, !.slots = song.place, !.kept = Live, !.made = Made,
                         !.ready = <<Rows(Live, Made, song.place)>>]
  /\ hub' = [hub EXCEPT !.stale = TRUE]
  /\ song' = [song EXCEPT !.asked = FALSE]
  /\ odd' = [odd EXCEPT !.astray = @ \cup {t \in Tracks : song.place[t] # engine.slots[t]}]

HandleRebuild ==
  /\ engine.pc = "idle" /\ song.asked
  /\ Rebuild("idle", engine)
  /\ UNCHANGED <<outside, ring, moving, cb, graph, nodes>>

(* follow_live_in_target: rebuild first when the target is another. *)
Follow ==
  /\ engine.pc = "idle"
  /\ IF hub.target # engine.live
     THEN engine' = [engine EXCEPT !.live = hub.target, !.pc = "rebuild"]
     ELSE /\ hub.dirty \/ hub.stale
          /\ engine' = [engine EXCEPT !.pc = "refresh"]
  /\ UNCHANGED <<outside, hub, ring, song, moving, cb, graph, nodes, odd>>

FollowRebuild ==
  /\ engine.pc = "rebuild"
  /\ Rebuild("refresh", engine)
  /\ UNCHANGED <<outside, ring, moving, cb, graph, nodes>>

(* refresh_target, in two steps: the flag and the target, then the slot. *)
ReadTarget ==
  /\ engine.pc = "refresh"
  /\ hub' = [hub EXCEPT !.dirty = FALSE]
  /\ engine' = [engine EXCEPT !.pc = "store", !.want = hub.target]
  /\ UNCHANGED <<outside, ring, song, moving, cb, graph, nodes, odd>>

SlotOf(t) == IF t = NoTrack THEN NoSlot ELSE engine.slots[t]
StoreSlot ==
  /\ engine.pc = "store"
  /\ hub' = [hub EXCEPT !.slot = SlotOf(engine.want), !.stale = FALSE]
  /\ engine' = [engine EXCEPT !.pc = "idle"]
  /\ UNCHANGED <<outside, ring, song, moving, cb, graph, nodes, odd>>

----------------------------------------------------------------------------
(* The transport.                                                          *)

Play ==
  /\ ~moving.playing /\ Spend("rolls")
  /\ moving' = [playing |-> TRUE, countin |-> FALSE]
  /\ UNCHANGED <<down, port, ui, preview, hub, ring, song, engine, cb, graph, nodes, odd>>

Halt ==
  /\ moving.playing \/ moving.countin
  /\ moving' = [playing |-> FALSE, countin |-> FALSE]
  /\ UNCHANGED <<outside, hub, ring, song, engine, cb, graph, nodes, odd>>

CountIn ==
  /\ ~moving.playing /\ ~moving.countin /\ Spend("rolls")
  /\ moving' = [playing |-> FALSE, countin |-> TRUE]
  /\ UNCHANGED <<down, port, ui, preview, hub, ring, song, engine, cb, graph, nodes, odd>>

----------------------------------------------------------------------------
(* A block of the audio callback.                                          *)

(* Faulty: the old target is forgotten at once, nothing is released on it. *)
SwitchedAtOnce(c) ==
  [c EXCEPT !.slot = hub.slot, !.allOff = @ \/ (hub.slot # c.slot /\ ~moving.playing)]

(* The slot has changed: what was played on the old one is to be released, *)
(* and the new one, if nothing plays, as a whole.                          *)
Switched(c) ==
  IF hub.slot = c.slot THEN c
  ELSE LET left == c.slot # NoSlot IN
       [c EXCEPT !.slot = hub.slot,
                 !.rel = IF left THEN c.slot ELSE @,
                 !.left = IF left THEN Window ELSE @,
                 !.hold = IF ~left THEN @ ELSE IF moving.playing THEN 1 ELSE Window,
                 !.allOff = @ \/ ~moving.playing]

(* Faulty: the stop releases nothing. *)
StoppedSilently(c) == c

Stopped(c) ==
  IF c.was /\ ~moving.playing
  THEN [c EXCEPT !.allOff = TRUE, !.hold = IF c.rel # NoSlot THEN c.left ELSE @]
  ELSE c

Outgoing(c) == IF c.hold > 0 THEN c.rel ELSE NoSlot

(* What the block sends to a node: keys put down or released. *)
Down(k) == [on |-> TRUE, keys |-> {k}]
Up(ks) == [on |-> FALSE, keys |-> ks]
Everything == Up(Played \cup {Clip})

(* prime_live and a node's process. *)
Hears(n, e) ==
  IF e.on THEN [n EXCEPT !.on = @ \cup e.keys]
  ELSE [on |-> n.on \ e.keys, tail |-> IF n.on \cap e.keys \cap Played # {} THEN Release ELSE n.tail]
Heard(ns, there, e) == [t \in Tracks |-> IF t \in there THEN Hears(ns[t], e) ELSE ns[t]]
Decays(n) == [n EXCEPT !.tail = IF @ > 0 THEN @ - 1 ELSE 0]

(* The keys held and the nodes ns, after the first thing the block sends   *)
(* to the nodes that are there.                                            *)
Opening(c, there, ns) ==
  IF Outgoing(c) # NoSlot THEN [held |-> {}, nodes |-> Heard(ns, there, Up(c.held))]
  ELSE IF c.allOff THEN [held |-> {}, nodes |-> Heard(ns, there, Everything)]
  ELSE [held |-> c.held, nodes |-> ns]

(* Faulty: a release asked for by others is passed on as it is. *)
TakeWhole(d, there, e) ==
  CASE e.kind = "all" -> [held |-> {}, nodes |-> Heard(d.nodes, there, Everything)]
    [] e.kind = "on" -> [held |-> d.held \cup {e.key}, nodes |-> Heard(d.nodes, there, Down(e.key))]
    [] e.kind = "off" -> [held |-> d.held \ {e.key}, nodes |-> Heard(d.nodes, there, Up({e.key}))]

(* Keys and nodes after another event from the ring, and after all that    *)
(* the block takes from it, which it throws away while a node is leaving.  *)
Take(d, there, e) ==
  CASE e.kind = "all" -> [held |-> {}, nodes |-> Heard(d.nodes, there, Up(d.held))]
    [] e.kind = "on" -> [held |-> d.held \cup {e.key}, nodes |-> Heard(d.nodes, there, Down(e.key))]
    [] e.kind = "off" -> [held |-> d.held \ {e.key}, nodes |-> Heard(d.nodes, there, Up({e.key}))]

Popped == IF Len(ring) < PerBlock THEN Len(ring) ELSE PerBlock
Drained(c, there, ns) ==
  LET taken == IF Outgoing(c) # NoSlot THEN 0 ELSE Popped
      d[i \in 0..taken] == IF i = 0 THEN Opening(c, there, ns) ELSE Take(d[i - 1], there, ring[i])
  IN d[taken]

CountedDown(c) ==
  IF c.rel = NoSlot THEN c
  ELSE LET left == IF moving.playing \/ Outgoing(c) # NoSlot THEN c.left - 1 ELSE c.left
           hold == IF c.hold > 0 THEN c.hold - 1 ELSE 0
       IN IF left = 0
          THEN [c EXCEPT !.rel = NoSlot, !.left = 0, !.hold = 0]
          ELSE [c EXCEPT !.left = left, !.hold = hold]

(* The notes that begin and end in the clips of the block. *)
Unscored == [t \in Tracks |-> "none"]
Scores == {[t \in Tracks |-> IF t \in on THEN "on" ELSE IF t \in off THEN "off" ELSE "none"] :
             on \in SUBSET Scored, off \in SUBSET Scored}
Clips(n, s) == [n EXCEPT !.on = CASE s = "on" -> @ \cup {Clip} [] s = "off" -> @ \ {Clip} [] OTHER -> @]

(* The nodes of rows: those that were there before, or new ones; released  *)
(* by a start; and after a block, in which they heard what is in ns.       *)
Starts == moving.playing /\ ~cb.was
Same(rows) == {t \in DOMAIN rows \cap DOMAIN graph : rows[t].node = graph[t].node}
Before(rows) == [t \in Tracks |-> IF t \in Same(rows) THEN nodes[t] ELSE Quiet]
Primed(rows) == IF Starts THEN Heard(Before(rows), Tracks, Everything) ELSE Before(rows)
Rendered(rows, there, ns, score) ==
  [t \in Tracks |->
     IF moving.countin \/ t \notin DOMAIN rows THEN Before(rows)[t]
     ELSE IF moving.playing THEN Decays(Clips(ns[t], score[t]))
     ELSE IF t \in there THEN Decays(ns[t]) ELSE Before(rows)[t]]

(* History: what the block leaves behind.  A release is cut short by that  *)
(* of another node, or goes to a node that the keys were not played on.    *)
InSlot(rows, slot) == {t \in DOMAIN rows : rows[t].slot = slot}
Replaced(rows) ==
  IF hub.slot # cb.slot /\ cb.slot # NoSlot /\ cb.rel # NoSlot THEN InSlot(rows, cb.rel) ELSE {}
Missed(c, rows) == IF Outgoing(c) \notin {NoSlot, cb.slot} THEN InSlot(rows, cb.slot) ELSE {}
Restless(n) == n.tail > 0 \/ n.on \cap Played # {}

Block ==
  \E adopts \in {FALSE, engine.ready # <<>>}, score \in (IF moving.playing THEN Scores ELSE {Unscored}) :
  LET rows == IF adopts THEN engine.ready[1] ELSE graph
      c == Stopped(Switched(cb))
      there == InSlot(rows, IF Outgoing(c) # NoSlot THEN Outgoing(c) ELSE hub.slot)
      primed == Primed(rows)
      drained == Drained(c, there, primed)
  IN /\ graph' = rows
     /\ engine' = [engine EXCEPT !.ready = IF adopts THEN <<>> ELSE @]
     /\ ring' = SubSeq(ring, Popped + 1, Len(ring))
     /\ cb' = [CountedDown(c) EXCEPT
                 !.held = drained.held,
                 !.allOff = IF Outgoing(c) # NoSlot THEN @ ELSE FALSE,
                 !.was = moving.playing]
     /\ nodes' = Rendered(rows, there, drained.nodes, score)
     /\ odd' = [odd EXCEPT
          !.astray = {t \in @ \cup (IF moving.countin THEN there ELSE {}) :
                        nodes'[t] # Quiet \/ rows # Rows(DOMAIN rows, engine.made, engine.slots)
                          \/ hub.slot # SlotOf(hub.target)},
          !.clipped = {t \in @ \cup Replaced(rows) \cup Missed(c, rows) : Restless(nodes'[t])},
          !.lost = {k \in @ : ring' # <<>> \/ \E t \in Tracks : k \in nodes'[t].on},
          !.owed = moving.playing /\ (Starts \/ @) /\ cb'.allOff,
          !.cut = @ \/ (moving.playing /\ ~odd.owed
                          /\ \E t \in there : Clip \in primed[t].on \ drained.nodes[t].on)]
     /\ UNCHANGED <<outside, hub, song, moving>>

LiveNext ==
  \/ \E k \in Pitches : Strike(k) \/ Lift(k)
  \/ Route \/ Forward
  \/ \E t \in Tracks \cup {NoTrack} : Pick(t)
  \/ MarkDirty \/ SwitchMonitor \/ Silence \/ ChangePort \/ DropPort
  \/ \E t \in Tracks : BeginHold(t)
  \/ CutHold \/ SoundHold \/ EndHold \/ RestoreTarget
  \/ Move
  \/ HandleRebuild \/ Follow \/ FollowRebuild \/ ReadTarget \/ StoreSlot
  \/ Play \/ Halt \/ CountIn
  \/ Block

LiveSpec == LiveInit /\ [][LiveNext]_liveVars

----------------------------------------------------------------------------
LiveTypeOK ==
  /\ down \subseteq Pitches
  /\ port.pc \in {"idle", "route", "push"}
  /\ ui.pc \in {"idle", "dirty", "silence", "drop", "cut", "sound", "restore"}
  /\ hub.target \in Tracks \cup {NoTrack} /\ hub.dirty \in BOOLEAN /\ hub.stale \in BOOLEAN
  /\ Len(ring) <= RingSlots
  /\ engine.pc \in {"idle", "rebuild", "refresh", "store"}
  /\ cb.held \subseteq Played /\ cb.left <= Window /\ cb.hold <= cb.left
  /\ nodes \in [Tracks -> [on : SUBSET (Played \cup {Clip}), tail : 0 .. Release]]

(* Nobody is in the middle of anything, and the callback has caught up.    *)
AtRest ==
  /\ port.pc = "idle" /\ ui.pc = "idle" /\ ring = <<>>
  /\ engine.pc = "idle" /\ engine.live = hub.target /\ engine.ready = <<>>
  /\ ~song.asked /\ ~hub.dirty /\ ~hub.stale
  /\ ~moving.countin /\ cb.was = moving.playing
  /\ cb.slot = hub.slot /\ cb.rel = NoSlot /\ ~cb.allOff

Wanted(t) ==
  (IF port.open /\ port.monitor /\ t = hub.target THEN down ELSE {})
    \cup (IF t = preview.track THEN {Tried} ELSE {})

(* At rest, of the notes put down by the keyboard or by an audition only   *)
(* those whose key is down are heard, on the picked track; and of a        *)
(* clip's, none while stopped.  Excused are keys whose release was lost,   *)
(* and nodes the releases missed: slots were renumbered, or a count-in     *)
(* swallowed them (OutputCb::render and its releases).                     *)
NothingHangs ==
  AtRest => \A t \in Tracks \ odd.astray :
    moving.playing \/ t = hub.target =>
      /\ nodes[t].on \cap Played \subseteq Wanted(t) \cup odd.lost
      /\ Clip \in nodes[t].on => moving.playing

(* At rest and stopped, no node but the picked one is left in the middle   *)
(* of a release, which it would sound when it is picked again; but for a   *)
(* node whose release was cut short by that of another, or whose keys were *)
(* released on another.                                                    *)
TailsRunOut ==
  AtRest /\ ~moving.playing =>
    \A t \in Tracks \ (odd.astray \cup odd.clipped \cup {hub.target}) : nodes[t].tail = 0

(* No release of monitoring's cuts a note of a clip while the song plays,  *)
(* but for one still owed from before it began to.                         *)
ClipNotesAreKept == ~odd.cut

(* What a user hears of it: no note hangs, no release is left over, and    *)
(* the keyboard cuts no note of a clip; and the part is well typed.        *)
MonitoringIsSound == LiveTypeOK /\ NothingHangs /\ TailsRunOut /\ ClipNotesAreKept

(* Violated (plugins/mod.rs, plugin_preview_note: "a stopped transport     *)
(* still sounds it"): once all is delivered, an audition that is held      *)
(* sounds on its track.                                                    *)
PreviewSounds ==
  AtRest /\ preview # NoPreview /\ preview.track = hub.target => Tried \in nodes[preview.track].on
=============================================================================
