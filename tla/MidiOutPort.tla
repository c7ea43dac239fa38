---------------------------- MODULE MidiOutPort ----------------------------
(***************************************************************************)
(* The thread of one hardware MIDI output port (midi_out/mod.rs): a clock  *)
(* that estimates where the song is from its own wall clock and re-cues    *)
(* the device when the engine's playhead disagrees (ClockEngine::step), a  *)
(* cursor and the sounding notes of every route (NoteOutEngine), and a     *)
(* refresh of routes, notes and tempo from the document.                   *)
(*                                                                         *)
(* A tick reads the transport's atomics once, so what they say is free.    *)
(* The wall clock shows as the samples a tick advances the estimate by.    *)
(* Every send arrives.                                                     *)
(***************************************************************************)
EXTENDS Integers, Sequences, FiniteSets, SequencesExt

CONSTANTS
  Scopes,     \* routes this port may have
  PortKeys,   \* keys, each on a channel
  Contents,   \* what a route may have to play: events sorted by sample
  MaxPos,     \* bound: positions
  MaxStep,    \* bound: samples between two ticks
  Tolerance,  \* drift_tolerance
  Lengths,    \* samples of a pulse, by tempo
  PerSpp,     \* pulses of a song position (6)
  MaxSpp,     \* the last song position (16 383)
  MaxBurst    \* pulses of a tick (24)

Events == [at : Nat, key : PortKeys, on : BOOLEAN]

SortedAssumption ==
  /\ Contents \subseteq Seq(Events)
  /\ \A c \in Contents : \A i, j \in DOMAIN c : i < j => c[i].at <= c[j].at
PulsesAssumption ==
  /\ {MaxPos, MaxStep, Tolerance, MaxBurst, MaxSpp} \subseteq Nat
  /\ Lengths \subseteq Nat \ {0} /\ PerSpp \in Nat \ {0}

VARIABLES
  live,     \* the thread runs
  enabled,  \* clock_enabled
  running,  \* ClockEngine.running
  est,      \* estimated_sample, what the anchor makes of now
  pulse,    \* last_pulse
  length,   \* the tempo map
  routes,   \* per scope: its NoteOutEngine and events, or NoRoute
  synth,    \* the device: the keys it sounds, whether it runs, and its pulse
  heard,    \* history: per scope, events sent since it was last placed
  from,     \* history: per scope, where that was
  placed,   \* history: scopes placed on the engine's playhead since the last tick
  slipped   \* history: the device's last cue could not say where the song is, or pulses
            \* were skipped or withheld since

portVars ==
  <<live, enabled, running, est, pulse, length, routes, synth, heard, from, placed, slipped>>

Positions == 0..MaxPos
NoRoute == [on |-> FALSE, events |-> <<>>, cursor |-> 0, sounding |-> {}]
Mute == [keys |-> {}, runs |-> FALSE, pulse |-> 0]
PulseOf(s) == s \div length

PortInit ==
  /\ live = TRUE /\ enabled \in BOOLEAN
  /\ running = FALSE /\ est = 0 /\ pulse = 0 /\ length \in Lengths
  /\ routes = [s \in Scopes |-> NoRoute] /\ synth = Mute
  /\ heard = [s \in Scopes |-> {}] /\ from = [s \in Scopes |-> 0]
  /\ placed = {} /\ slipped = FALSE

----------------------------------------------------------------------------
(* NoteOutEngine.  A route's step: the route after it, the keys it         *)
(* releases, and then the events it sends.                                 *)

NextAt(events, to) == Cardinality({i \in DOMAIN events : events[i].at < to})

KeysOf(play) == {play[i].key : i \in DOMAIN play}

(* What sounds, of these keys, once the events have played. *)
Hear(keys, play) ==
  (keys \ KeysOf(play)) \cup
    {k \in KeysOf(play) :
       \E i \in DOMAIN play : /\ play[i].key = k /\ play[i].on
                              /\ \A j \in DOMAIN play : i < j => play[j].key # k}

(* Half-open: to is the bound, and the cursor never goes back. *)
AdvanceRoute(r, to) ==
  LET hi == IF NextAt(r.events, to) > r.cursor THEN NextAt(r.events, to) ELSE r.cursor
      play == SubSeq(r.events, r.cursor + 1, hi)
  IN  [route |-> [r EXCEPT !.cursor = hi, !.sounding = Hear(@, play)],
       off |-> {}, play |-> play, sent |-> (r.cursor + 1)..hi]

Released(r, after) == [route |-> after, off |-> r.sounding, play |-> <<>>, sent |-> {}]
AllOff(r) == Released(r, [r EXCEPT !.sounding = {}])

Placed(events, to) ==
  [on |-> TRUE, events |-> events, cursor |-> NextAt(events, to), sounding |-> {}]

(* Faulty variant. *)
ReseekSilently(r, events, to) == [Released(r, Placed(events, to)) EXCEPT !.off = {}]

Reseek(r, events, to) == Released(r, Placed(events, to))

(* A landing catches the event on the very sample it lands on. *)
Land(r, to) ==
  LET sought == Reseek(r, r.events, to)
  IN  [AdvanceRoute(sought.route, to + 1) EXCEPT !.off = sought.off]

Rests(r) == [route |-> r, off |-> {}, play |-> <<>>, sent |-> {}]

(* The routes step one after another, and the device hears it all.  What   *)
(* it makes of a key the last route says that speaks of it.                *)
Emit(do) ==
  LET order == SetToSeq(Scopes)
      Spoken(s) == do[s].off \cup KeysOf(do[s].play)
      Later(s) == UNION {Spoken(order[j]) : j \in {j \in DOMAIN order : \E i \in DOMAIN order :
                                                                          i < j /\ order[i] = s}}
  IN  (synth.keys \ UNION {Spoken(s) : s \in Scopes})
        \cup UNION {Hear({}, do[s].play) \ Later(s) : s \in Scopes}

Step(do) == routes' = [s \in Scopes |-> do[s].route]

(* History: what was sent since the routes in afresh were placed at at. *)
Remember(do, afresh, at) ==
  /\ heard' = [s \in Scopes |-> do[s].sent \cup (IF s \in afresh THEN {} ELSE heard[s])]
  /\ from' = [s \in Scopes |-> IF s \in afresh THEN at ELSE from[s]]

----------------------------------------------------------------------------
(* The refresh: routes that are gone, that are new, and whose notes have   *)
(* changed; the latter two are placed where the engine's playhead is.      *)
Refresh ==
  /\ live
  /\ \E new \in [Scopes -> Contents \cup {NoRoute.events}], at \in Positions, l \in Lengths :
       LET stays == {s \in Scopes : routes[s].events = new[s]}
           gone == {s \in Scopes \ stays : new[s] = NoRoute.events}
           do == [s \in Scopes |->
                    IF s \in stays THEN Rests(routes[s])
                    ELSE IF s \in gone THEN Released(routes[s], NoRoute)
                    ELSE Reseek(routes[s], new[s], at)]
       IN  /\ Step(do) /\ Remember(do, Scopes \ stays, at)
           /\ synth' = [synth EXCEPT !.keys = Emit(do)]
           /\ placed' = placed \cup (Scopes \ stays)
           /\ length' = l /\ slipped' = (slipped \/ l # length)
  /\ UNCHANGED <<live, enabled, running, est, pulse>>

----------------------------------------------------------------------------
(* ClockEngine.  A cue says where the song is and starts the device; Spp   *)
(* counts sixteenths, cuts off what is between two, and goes no further    *)
(* than MaxSpp.                                                            *)

Least(a, b) == IF a <= b THEN a ELSE b

(* Faulty variant. *)
SppUp(p) == Least((p + PerSpp - 1) \div PerSpp, MaxSpp)

Spp(p) == Least(p \div PerSpp, MaxSpp)

(* History: a song position says it. *)
Said(p) == p \div PerSpp <= MaxSpp

Cued(p) == [runs |-> TRUE, pulse |-> PerSpp * Spp(p)]
Halted == [runs |-> FALSE, pulse |-> synth.pulse]
Clocked(n) == [runs |-> synth.runs,
               pulse |-> IF synth.runs THEN Least(synth.pulse + n, MaxPos) ELSE synth.pulse]

Distance(a, b) == IF a > b THEN a - b ELSE b - a

(* out_tick: the routes and the clock step over one span; with the clock   *)
(* disabled it steps and none of its bytes is sent.                        *)
PortTick(do, clock) ==
  /\ live /\ Step(do)
  /\ synth' = IF enabled THEN [keys |-> Emit(do), runs |-> clock.runs, pulse |-> clock.pulse]
               ELSE [synth EXCEPT !.keys = Emit(do)]
  /\ placed' = {}
  /\ UNCHANGED <<live, enabled, length>>

TickStopped ==
  LET do == [s \in Scopes |-> IF running THEN AllOff(routes[s]) ELSE Rests(routes[s])] IN
  /\ PortTick(do, Halted) /\ Remember(do, {}, 0)
  /\ running' = FALSE
  /\ slipped' = IF running THEN ~enabled ELSE slipped
  /\ UNCHANGED <<est, pulse>>

Lands(at) == [s \in Scopes |-> IF routes[s].on THEN Land(routes[s], at) ELSE Rests(routes[s])]
Advances(to) == [s \in Scopes |-> AdvanceRoute(routes[s], to)]

TickStarts ==
  /\ ~running
  /\ \E at \in Positions :
       /\ PortTick(Lands(at), Cued(PulseOf(at))) /\ Remember(Lands(at), Scopes, at)
       /\ est' = at /\ pulse' = PulseOf(at)
  /\ running' = TRUE /\ slipped' = (~enabled \/ ~Said(pulse'))

(* Faulty variant. *)
PlaysThroughNever(old, new) == FALSE

(* A small step forward is the clock's lag and is played through. *)
PlaysThrough(old, new) == new >= old /\ new - old <= 2 * Tolerance

TickJumps ==
  /\ running
  /\ \E d \in 0..MaxStep, at \in Positions :
       /\ Distance(at, est + d) > Tolerance
       /\ LET do == IF PlaysThrough(est, at) THEN Advances(at + 1) ELSE Lands(at)
              far == at < est \/ at - est > 2 * Tolerance
          IN  PortTick(do, Cued(PulseOf(at))) /\ Remember(do, IF far THEN Scopes ELSE {}, at)
       /\ est' = at /\ pulse' = PulseOf(at)
  /\ slipped' = (~enabled \/ ~Said(pulse'))
  /\ UNCHANGED running

(* Pulses that are too many at once are not sent at all. *)
TickRuns ==
  /\ running
  /\ \E d \in 0..MaxStep :
       /\ est + d \in Positions
       /\ \E at \in Positions : Distance(at, est + d) <= Tolerance
       /\ est' = est + d /\ pulse' = PulseOf(est + d)
       /\ LET n == IF pulse' > pulse THEN pulse' - pulse ELSE 0 IN
            /\ PortTick(Advances(est'), Clocked(IF n > MaxBurst THEN 0 ELSE n))
            /\ slipped' = (slipped \/ n > MaxBurst \/ pulse' < pulse \/ (n > 0 /\ ~enabled))
       /\ Remember(Advances(est'), {}, 0)
  /\ UNCHANGED running

----------------------------------------------------------------------------
(* set_clock_enabled. *)
SetClock ==
  /\ live /\ enabled' = ~enabled
  /\ UNCHANGED <<live, running, est, pulse, length, routes, synth, heard, from, placed, slipped>>

(* shutdown_release_and_stop: the notes, and a Stop whatever was enabled. *)
Close ==
  /\ live /\ live' = FALSE
  /\ LET do == [s \in Scopes |-> AllOff(routes[s])] IN
       /\ Step(do) /\ Remember(do, {}, 0)
       /\ synth' = [synth EXCEPT !.keys = Emit(do), !.runs = FALSE]
  /\ UNCHANGED <<enabled, running, est, pulse, length, placed, slipped>>

PortNext ==
  \/ Refresh \/ TickStopped \/ TickStarts \/ TickJumps \/ TickRuns
  \/ SetClock \/ Close

PortSpec == PortInit /\ [][PortNext]_portVars

----------------------------------------------------------------------------
(* Properties.                                                             *)

Route ==
  [on : BOOLEAN, events : Contents \cup {NoRoute.events}, cursor : Nat, sounding : SUBSET PortKeys]
Synth == [keys : SUBSET PortKeys, runs : BOOLEAN, pulse : Positions]

(* Types. *)
PortTypeOK ==
  /\ live \in BOOLEAN /\ enabled \in BOOLEAN /\ running \in BOOLEAN /\ slipped \in BOOLEAN
  /\ est \in Positions /\ pulse \in Positions /\ length \in Lengths
  /\ routes \in [Scopes -> Route] /\ synth \in Synth
  /\ \A s \in Scopes : routes[s].cursor <= Len(routes[s].events)
  /\ from \in [Scopes -> Positions] /\ placed \subseteq Scopes
  /\ heard \in [Scopes -> SUBSET Nat]

(* No note is left hanging on the device: what it sounds, a route still    *)
(* knows to release; and nothing sounds when the song stands still or the  *)
(* port is closed, whatever was edited, un-routed or sought while it       *)
(* sounded.                                                                *)
NothingHangs ==
  /\ synth.keys \subseteq UNION {routes[s].sounding : s \in Scopes}
  /\ ~live \/ ~running => synth.keys = {}

(* A route plays the song: since it was last placed, by a start, a jump or *)
(* an edit, every event up to the estimate has been sent and none from     *)
(* beyond it.  A small correction swallows no note.                        *)
RoutePlaysTheSong ==
  live /\ running =>
    \A s \in Scopes \ placed :
      /\ {i \in DOMAIN routes[s].events : routes[s].events[i].at \in from[s]..(est - 1)} \subseteq heard[s]
      /\ \A i \in heard[s] : routes[s].events[i].at \in from[s]..est

(* The device follows: it runs when the song does, and is less than a      *)
(* sixteenth behind, the part of it that a song position cannot say; until *)
(* pulses are withheld from it, by a disabled clock, a starved thread or   *)
(* a change of tempo, or it is cued beyond the last song position.         *)
DeviceFollows ==
  live /\ ~slipped =>
    /\ synth.runs = running
    /\ running => pulse - synth.pulse \in 0..(PerSpp - 1)

(* All three: the device is told what it has to know. *)
DeviceIsTold == RoutePlaysTheSong /\ NothingHangs /\ DeviceFollows
=============================================================================
