----------------------------- MODULE LiveProofs -----------------------------
(***************************************************************************)
(* Theorems about LiveMidiIn, for any tracks, keys, sizes of the ring and  *)
(* of a block, length of a release and number of events.                   *)
(***************************************************************************)
EXTENDS LiveMidiIn, NaturalsInduction, WellFoundedInduction, SequenceTheorems, TLAPS

----------------------------------------------------------------------------
(* The inductive invariant.                                                *)

Somewhere == Tracks \cup {NoTrack}
Note == [kind : {"on", "off"}, key : Played]
Message == Note \cup {AllOff}
Tables == {Rows(l, m, p) : l \in SUBSET Tracks, m \in [Tracks -> Nat], p \in Places}
NodeState == [on : SUBSET (Played \cup {Clip}), tail : 0..Release]
CbState ==
  [slot : Nat, allOff : BOOLEAN, held : SUBSET Played, rel : Nat, left : Nat, hold : Nat, was : BOOLEAN]

Typed ==
  /\ down \subseteq Pitches
  /\ port \in [open : BOOLEAN, monitor : BOOLEAN, pc : {"idle", "route", "push"},
               event : [kind : {"on", "off"}, key : Pitches] \cup {AllOff}]
  /\ ui \in [pc : {"idle", "dirty", "silence", "drop", "cut", "sound", "restore"},
             then : {"idle", "cut"}, track : Somewhere]
  /\ preview \in [track : Somewhere, prev : Somewhere]
  /\ hub \in [target : Somewhere, dirty : BOOLEAN, slot : Nat, stale : BOOLEAN]
  /\ ring \in Seq(Message) /\ Len(ring) <= RingSlots
  /\ song \in [place : Places, asked : BOOLEAN]
  /\ engine \in [pc : {"idle", "rebuild", "refresh", "store"}, live : Somewhere, want : Somewhere,
                 slots : Places, kept : SUBSET Tracks, made : [Tracks -> Nat],
                 ready : {<<>>} \cup {<<r>> : r \in Tables}]
  /\ moving \in [playing : BOOLEAN, countin : BOOLEAN] /\ ~(moving.playing /\ moving.countin)
  /\ cb \in CbState
  /\ graph \in Tables
  /\ nodes \in [Tracks -> NodeState]
  /\ odd \in [lost : SUBSET Played, astray : SUBSET Tracks, clipped : SUBSET Tracks,
              owed : BOOLEAN, cut : BOOLEAN]

(* The windows of the node that leaves: while stopped it holds the channel *)
(* as long as it may sound, and while it holds the channel no key is held. *)
Counted ==
  /\ cb.hold <= cb.left /\ cb.left <= Window
  /\ cb.rel = NoSlot <=> cb.left = 0
  /\ ~cb.was => cb.hold = cb.left
  /\ cb.hold > 0 => cb.held = {}

(* Who has no node is silent, and the graphs are of the tables' numbering. *)
Absent == \A t \in Tracks : t \notin DOMAIN graph => nodes[t] = Quiet
Agreed ==
  /\ engine.ready \in {<<>>, <<Rows(engine.kept, engine.made, engine.slots)>>}
  /\ \A t \in DOMAIN graph : t \notin odd.astray => graph[t].slot = engine.slots[t]

(* The hub's slot is the picked track's, unless somebody is yet to see to it. *)
Unread == hub.dirty \/ ui.pc = "dirty"
Resolved ==
  IF engine.pc = "store" THEN engine.want = hub.target \/ Unread
  ELSE hub.slot = SlotOf(hub.target) \/ hub.stale \/ Unread

(* A node sounds keys only where the callback plays, and those it holds;   *)
(* but while stopped others may hang until all is released.                *)
There(t) == t \in DOMAIN graph /\ graph[t].slot = cb.slot
KeysOf(t) == nodes[t].on \cap Played
Released ==
  \A t \in Tracks : t \notin odd.astray =>
    IF There(t) THEN KeysOf(t) \subseteq cb.held \/ (~cb.was /\ cb.allOff)
    ELSE KeysOf(t) = {} \/ ~cb.was
Remembered ==
  \A t \in Tracks : t \notin odd.astray \cup odd.clipped =>
    KeysOf(t) \subseteq (IF There(t) THEN cb.held ELSE {})

(* A clip's note left sounding by a stop is about to be released.          *)
ClipEnds ==
  \A t \in Tracks : t \notin odd.astray /\ There(t) /\ ~cb.was /\ Clip \in nodes[t].on => cb.allOff

(* A release runs out before its node is left alone.                       *)
TailsEnd ==
  \A t \in Tracks : t \notin odd.astray \cup odd.clipped /\ nodes[t].tail > 0 =>
    /\ t \in DOMAIN graph
    /\ graph[t].slot # cb.slot => graph[t].slot = cb.rel /\ nodes[t].tail <= cb.left

(* While the song plays all is released only if it was owed before.        *)
Owed == ~odd.cut /\ (cb.was /\ cb.allOff => odd.owed)

(* Key k sounds once the ring is played, and will be released, or should   *)
(* sound.                                                                  *)
Ends(e, k) == e \in {Off(k), AllOff}
Rings(k) ==
  \/ /\ k \in cb.held /\ \E t \in Tracks : k \in nodes[t].on
     /\ \A j \in DOMAIN ring : ~Ends(ring[j], k)
  \/ \E i \in DOMAIN ring : ring[i] = On(k) /\ \A j \in DOMAIN ring : j > i => ~Ends(ring[j], k)
Excused(k) ==
  /\ hub.target # NoTrack
  /\ \/ ui.pc = "silence"
     \/ k \in down /\ port.open /\ port.monitor
     \/ port.pc # "idle" /\ port.event = Off(k)
     \/ k = Tried /\ preview.track = hub.target
Heeded == \A k \in Played : Rings(k) => k \in odd.lost \/ (ui.pc # "drop" /\ Excused(k))

(* Messages and commands under way.                                        *)
Holding == ui.pc \in {"cut", "sound"} \/ (ui.pc = "dirty" /\ ui.then = "cut")
UnderWay ==
  /\ port.pc # "idle" => port.open /\ port.event # AllOff
  /\ port.pc # "idle" /\ port.event.kind = "on" => port.event.key \in down
  /\ ui.pc = "sound" /\ Rings(Tried) => Tried \in odd.lost
  /\ Holding => preview.track = hub.target /\ hub.target # NoTrack
  /\ ui.pc = "silence" => ~port.monitor

Playing == Counted /\ Absent /\ Agreed /\ Released /\ Remembered /\ ClipEnds /\ TailsEnd /\ Owed
IInv == Typed /\ Playing /\ Resolved /\ Heeded /\ UnderWay

----------------------------------------------------------------------------
(* Recursion: a nonempty set of naturals has a least element.              *)

LEMMA LeastNatural ==
  ASSUME NEW D \in SUBSET Nat, D # {}
  PROVE  \E n \in D : \A m \in D : n <= m
<1> DEFINE Less == OpToRel(<, Nat)
<1>1. IsWellFoundedOn(Less, Nat)
  BY NatLessThanWellFounded
<1>2. \A m, n \in Nat : <<m, n>> \in Less <=> m < n
  BY DEF OpToRel
<1> HIDE DEF Less
<1>3. PICK n \in D : \A m \in D : ~(<<m, n>> \in Less)
  BY <1>1, WFMin
<1>4. ASSUME NEW m \in D PROVE n <= m
  <2>1. m \in Nat /\ n \in Nat /\ ~(<<m, n>> \in Less)
    BY <1>3
  <2>2. ~(m < n)
    BY <1>2, <2>1
  <2> QED
    BY <2>1, <2>2
<1> QED
  BY <1>4

(* The equation that Drained's recursion solves. *)
Draining(d, n, c, there, ns) ==
  d = [i \in 0..n |-> IF i = 0 THEN Opening(c, there, ns) ELSE Take(d[i - 1], there, ring[i])]

(* What it has taken after i events. *)
Drains(d, n, c, there, ns) ==
  d[0] = Opening(c, there, ns) /\ \A i \in 1..n : d[i] = Take(d[i - 1], there, ring[i])

LEMMA DrainingExists ==
  ASSUME NEW n \in Nat, NEW c, NEW there, NEW ns
  PROVE  \E d : Draining(d, n, c, there, ns)
<1> DEFINE Bad == {m \in 0..n : \A d : ~Draining(d, m, c, there, ns)}
<1> SUFFICES ASSUME Bad # {} PROVE FALSE
  OBVIOUS
<1>0. Bad \in SUBSET Nat
  OBVIOUS
<1> HIDE DEF Bad
<1>1. PICK m \in Bad : \A l \in Bad : m <= l
  BY <1>0, LeastNatural
<1> USE DEF Bad
<1>2. CASE m = 0
  <2> DEFINE x == [i \in 0..0 |-> Opening(c, there, ns)]
  <2>1. x = [i \in 0..0 |-> IF i = 0 THEN Opening(c, there, ns) ELSE Take(x[i - 1], there, ring[i])]
    <3> HIDE DEF Bad
    <3> QED
      OBVIOUS
  <2> QED
    BY <1>1, <1>2, <2>1 DEF Draining
<1>3. CASE m # 0
  <2>1. m \in 1..n /\ m - 1 \in 0..n /\ m - 1 \notin Bad
    BY <1>1, <1>3
  <2>2. PICK d : Draining(d, m - 1, c, there, ns)
    BY <2>1
  <2> DEFINE x == [i \in 0..m |-> IF i = m THEN Take(d[m - 1], there, ring[m]) ELSE d[i]]
  <2> HIDE DEF Bad
  <2>3. \A i \in 0..(m - 1) : d[i] = IF i = 0 THEN Opening(c, there, ns) ELSE Take(d[i - 1], there, ring[i])
    BY <2>2 DEF Draining
  <2>4. \A i \in 0..m : x[i] = IF i = 0 THEN Opening(c, there, ns) ELSE Take(x[i - 1], there, ring[i])
    <3> TAKE i \in 0..m
    <3>1. CASE i = m
      <4>1. x[m] = Take(d[m - 1], there, ring[m]) /\ x[m - 1] = d[m - 1]
        BY <2>1
      <4> QED
        BY <1>3, <3>1, <4>1
    <3>2. CASE i # m
      <4>1. x[i] = d[i] /\ i \in 0..(m - 1)
        BY <2>1, <3>2
      <4>2. i # 0 => i - 1 \in 0..m /\ i - 1 # m /\ x[i - 1] = d[i - 1]
        BY <2>1, <3>2
      <4> QED
        BY <2>3, <4>1, <4>2
    <3> QED
      BY <3>1, <3>2
  <2>5. x = [i \in 0..m |-> x[i]]
    OBVIOUS
  <2> HIDE DEF x
  <2>6. Draining(x, m, c, there, ns)
    BY <2>4, <2>5 DEF Draining
  <2> QED
    BY <1>1, <2>6 DEF Bad
<1> QED
  BY <1>2, <1>3

Taken(c) == IF Outgoing(c) # NoSlot THEN 0 ELSE Popped

LEMMA DrainedIs ==
  ASSUME NEW c, NEW there, NEW ns, Taken(c) \in Nat
  PROVE  \E d : Drains(d, Taken(c), c, there, ns) /\ Drained(c, there, ns) = d[Taken(c)]
<1> DEFINE n == Taken(c)
           d == CHOOSE x : Draining(x, n, c, there, ns)
<1>1. Drained(c, there, ns) = d[n]
  BY DEF Drained, Taken, Draining
<1>2. Draining(d, n, c, there, ns)
  BY DrainingExists
<1> HIDE DEF n, d
<1>3. n \in Nat
  BY DEF n
<1>4. Drains(d, n, c, there, ns)
  BY <1>2, <1>3 DEF Draining, Drains
<1> QED
  BY <1>1, <1>4 DEF n


----------------------------------------------------------------------------
(* What a block does to keys and nodes.                                    *)

(* Keys held, and nodes, while a block goes on. *)
Doing == [held : SUBSET Played, nodes : [Tracks -> NodeState]]
KeysIn(x, t) == x.nodes[t].on \cap Played
Sounds(x, k) == \E t \in Tracks : k \in x.nodes[t].on

LEMMA KeysAreApart ==
  ASSUME ConstantsAreSound
  PROVE  /\ Clip \notin Played /\ Tried \in Played /\ Pitches \subseteq Played /\ Tried \notin Pitches
         /\ Release \in Nat /\ Release > 0 /\ Window \in Nat /\ Window = Release + 1
         /\ PerBlock \in Nat /\ PerBlock > 0 /\ RingSlots \in Nat
BY DEF ConstantsAreSound, Played, Window

(* The nodes h have heard what ns have not: a key put down, or keys released. *)
Apart(h, ns, there) ==
  h \in [Tracks -> NodeState] /\ \A t \in Tracks : t \notin there => h[t] = ns[t]
Pressed(h, ns, there, k) ==
  \A t \in there : h[t].on = ns[t].on \cup {k} /\ h[t].tail = ns[t].tail
Lifted(h, ns, there, ks) ==
  \A t \in there : /\ h[t].on = ns[t].on \ ks
                   /\ h[t].tail = IF ns[t].on \cap ks \cap Played # {} THEN Release ELSE ns[t].tail

LEMMA DownDoes ==
  ASSUME ConstantsAreSound, NEW ns \in [Tracks -> NodeState], NEW there \in SUBSET Tracks,
         NEW k \in Played, NEW h, h = Heard(ns, there, Down(k))
  PROVE  Apart(h, ns, there) /\ Pressed(h, ns, there, k)
<1>1. \A n : Hears(n, Down(k)) = [n EXCEPT !.on = @ \cup {k}]
  BY DEF Hears, Down
<1>2. \A t \in Tracks : h[t] = IF t \in there THEN [ns[t] EXCEPT !.on = @ \cup {k}] ELSE ns[t]
  BY <1>1 DEF Heard
<1>3. h = [t \in Tracks |-> h[t]]
  BY DEF Heard
<1>4. ASSUME NEW t \in Tracks
      PROVE  /\ h[t] \in NodeState
             /\ t \notin there => h[t] = ns[t]
             /\ t \in there => h[t].on = ns[t].on \cup {k} /\ h[t].tail = ns[t].tail
  <2>1. ns[t] \in NodeState /\ h[t] = IF t \in there THEN [ns[t] EXCEPT !.on = @ \cup {k}] ELSE ns[t]
    BY <1>2
  <2> QED
    BY <2>1 DEF NodeState
<1>5. Apart(h, ns, there)
  BY <1>3, <1>4 DEF Apart
<1>6. Pressed(h, ns, there, k)
  <2> SUFFICES ASSUME NEW t \in there
               PROVE  h[t].on = ns[t].on \cup {k} /\ h[t].tail = ns[t].tail
    BY DEF Pressed
  <2>1. t \in Tracks
    OBVIOUS
  <2> QED
    BY <1>4, <2>1
<1> QED
  BY <1>5, <1>6

LEMMA UpDoes ==
  ASSUME ConstantsAreSound, NEW ns \in [Tracks -> NodeState], NEW there \in SUBSET Tracks,
         NEW ks \in SUBSET (Played \cup {Clip}), NEW h, h = Heard(ns, there, Up(ks))
  PROVE  Apart(h, ns, there) /\ Lifted(h, ns, there, ks)
<1>0. Release \in Nat
  BY KeysAreApart
<1> DEFINE Off1(n) == [on |-> n.on \ ks, tail |-> IF n.on \cap ks \cap Played # {} THEN Release ELSE n.tail]
<1>1. \A n : Hears(n, Up(ks)) = Off1(n)
  BY DEF Hears, Up
<1>2. \A t \in Tracks : h[t] = IF t \in there THEN Off1(ns[t]) ELSE ns[t]
  BY <1>1 DEF Heard
<1>3. h = [t \in Tracks |-> h[t]]
  BY DEF Heard
<1>4. ASSUME NEW t \in Tracks
      PROVE  /\ h[t] \in NodeState
             /\ t \notin there => h[t] = ns[t]
             /\ t \in there => /\ h[t].on = ns[t].on \ ks
                              /\ h[t].tail = IF ns[t].on \cap ks \cap Played # {} THEN Release ELSE ns[t].tail
  <2>1. ns[t] \in NodeState /\ h[t] = IF t \in there THEN Off1(ns[t]) ELSE ns[t]
    BY <1>2
  <2>2. CASE t \in there
    BY <1>0, <2>1, <2>2 DEF NodeState
  <2>3. CASE t \notin there
    BY <2>1, <2>3
  <2> QED
    BY <2>2, <2>3
<1>5. Apart(h, ns, there)
  BY <1>3, <1>4 DEF Apart
<1>6. \A t \in there : t \in Tracks
  OBVIOUS
<1>7. Lifted(h, ns, there, ks)
  BY <1>4, <1>6 DEF Lifted
<1> QED
  BY <1>5, <1>7

(* An event taken keeps what a node sounds among the keys held, and leaves *)
(* clips' notes and other nodes alone; what is held after it, and what     *)
(* sounds, was held or sounded before it or is struck by it.               *)
Handled(x, y, there, e) ==
  /\ y \in Doing
  /\ \A t \in Tracks : t \notin there => y.nodes[t] = x.nodes[t]
  /\ \A t \in there : KeysIn(x, t) \subseteq x.held => KeysIn(y, t) \subseteq y.held
  /\ \A t \in there : Clip \in y.nodes[t].on <=> Clip \in x.nodes[t].on
  /\ \A k \in Played : k \in y.held => ~Ends(e, k) /\ (e = On(k) \/ k \in x.held)
  /\ \A t \in there : \A k \in Played : k \in y.nodes[t].on => e = On(k) \/ k \in x.nodes[t].on

LEMMA TakeDoes ==
  ASSUME ConstantsAreSound, NEW x \in Doing, NEW there \in SUBSET Tracks, NEW e \in Message,
         NEW y, y = Take(x, there, e)
  PROVE  Handled(x, y, there, e)
<1>0. /\ x.held \subseteq Played /\ x.nodes \in [Tracks -> NodeState] /\ Clip \notin Played
      /\ x.held \in SUBSET (Played \cup {Clip})
  BY KeysAreApart DEF Doing
<1>1. CASE e.kind = "all"
  <2> DEFINE h == Heard(x.nodes, there, Up(x.held))
  <2>1. y = [held |-> {}, nodes |-> h] /\ h = Heard(x.nodes, there, Up(x.held))
    BY <1>1 DEF Take
  <2> HIDE DEF h
  <2>2. Apart(h, x.nodes, there) /\ Lifted(h, x.nodes, there, x.held)
    BY <1>0, <2>1, UpDoes
  <2>3. y.held = {} /\ y.nodes = h /\ y \in Doing
    BY <2>1, <2>2 DEF Doing, Apart
  <2> QED
    BY <1>0, <2>2, <2>3 DEF Handled, KeysIn, Apart, Lifted
<1>2. CASE e.kind # "all"
  <2>1. e \in Note /\ e.key \in Played /\ e.kind \in {"on", "off"}
    BY <1>2 DEF Message, AllOff, Note
  <2>2. CASE e.kind = "on"
    <3> DEFINE h == Heard(x.nodes, there, Down(e.key))
    <3>1. y = [held |-> x.held \cup {e.key}, nodes |-> h] /\ h = Heard(x.nodes, there, Down(e.key))
      BY <2>2 DEF Take
    <3> HIDE DEF h
    <3>2. Apart(h, x.nodes, there) /\ Pressed(h, x.nodes, there, e.key)
      BY <1>0, <2>1, <3>1, DownDoes
    <3>3. y.held = x.held \cup {e.key} /\ y.nodes = h /\ y \in Doing
      BY <1>0, <2>1, <3>1, <3>2 DEF Doing, Apart
    <3>4. e = On(e.key) /\ \A k \in Played : ~Ends(e, k)
      BY <2>1, <2>2 DEF Note, On, Off, AllOff, Ends
    <3> QED
      BY <1>0, <2>1, <3>2, <3>3, <3>4 DEF Handled, KeysIn, Apart, Pressed
  <2>3. CASE e.kind = "off"
    <3> DEFINE h == Heard(x.nodes, there, Up({e.key}))
    <3>1. y = [held |-> x.held \ {e.key}, nodes |-> h] /\ h = Heard(x.nodes, there, Up({e.key}))
      BY <2>3 DEF Take
    <3> HIDE DEF h
    <3>2. {e.key} \in SUBSET (Played \cup {Clip})
      BY <2>1
    <3>3. Apart(h, x.nodes, there) /\ Lifted(h, x.nodes, there, {e.key})
      BY <1>0, <3>1, <3>2, UpDoes
    <3>4. y.held = x.held \ {e.key} /\ y.nodes = h /\ y \in Doing
      BY <1>0, <2>1, <3>1, <3>3 DEF Doing, Apart
    <3>5. \A k \in Played : k # e.key => ~Ends(e, k)
      BY <2>1, <2>3 DEF Note, Off, AllOff, Ends
    <3> QED
      BY <1>0, <2>1, <3>3, <3>4, <3>5 DEF Handled, KeysIn, Apart, Lifted
  <2> QED
    BY <2>1, <2>2, <2>3
<1> QED
  BY <1>1, <1>2

(* Key k is struck by one of the first i messages and not released since. *)
Struck(k, i) == \E j \in 1..i : ring[j] = On(k) /\ \A l \in 1..i : l > j => ~Ends(ring[l], k)

(* How keys and nodes y come from x by the first i messages, sent to nodes *)
(* that are there.                                                         *)
After(x, y, there, i) ==
  /\ y \in Doing
  /\ \A t \in Tracks : t \notin there => y.nodes[t] = x.nodes[t]
  /\ \A t \in there : KeysIn(x, t) \subseteq x.held => KeysIn(y, t) \subseteq y.held
  /\ \A t \in there : Clip \in y.nodes[t].on <=> Clip \in x.nodes[t].on
  /\ \A k \in Played : k \in y.held =>
       (k \in x.held /\ \A l \in 1..i : ~Ends(ring[l], k)) \/ Struck(k, i)
  /\ \A t \in there : \A k \in Played :
       k \in y.nodes[t].on => k \in x.nodes[t].on \/ \E j \in 1..i : ring[j] = On(k)

LEMMA AfterNothing ==
  ASSUME NEW x \in Doing, NEW there
  PROVE  After(x, x, there, 0)
BY DEF After

LEMMA AfterAnother ==
  ASSUME ConstantsAreSound, ring \in Seq(Message), NEW there \in SUBSET Tracks, NEW x \in Doing,
         NEW i \in Nat, i < Len(ring), NEW y, After(x, y, there, i), NEW z, z = Take(y, there, ring[i + 1])
  PROVE  After(x, z, there, i + 1)
<1>1. ring[i + 1] \in Message /\ y \in Doing
  BY DEF After
<1> DEFINE e == ring[i + 1]
<1>2. /\ z \in Doing
      /\ \A t \in Tracks : t \notin there => z.nodes[t] = y.nodes[t]
      /\ \A t \in there : KeysIn(y, t) \subseteq y.held => KeysIn(z, t) \subseteq z.held
      /\ \A t \in there : Clip \in z.nodes[t].on <=> Clip \in y.nodes[t].on
      /\ \A k \in Played : k \in z.held => ~Ends(e, k) /\ (e = On(k) \/ k \in y.held)
      /\ \A t \in there : \A k \in Played : k \in z.nodes[t].on => e = On(k) \/ k \in y.nodes[t].on
  <2>1. Handled(y, z, there, e)
    BY <1>1, TakeDoes
  <2> QED
    BY <2>1 DEF Handled
<1>3. 1..(i + 1) = (1..i) \cup {i + 1} /\ i + 1 \in 1..(i + 1)
  OBVIOUS
<1>4. ASSUME NEW k \in Played, k \in z.held
      PROVE  (k \in x.held /\ \A l \in 1..(i + 1) : ~Ends(ring[l], k)) \/ Struck(k, i + 1)
  <2>1. ~Ends(e, k)
    BY <1>2, <1>4
  <2>2. CASE e = On(k)
    <3>1. \A l \in 1..(i + 1) : ~(l > i + 1)
      OBVIOUS
    <3> QED
      BY <1>3, <2>2, <3>1 DEF Struck
  <2>3. CASE e # On(k)
    <3>1. (k \in x.held /\ \A l \in 1..i : ~Ends(ring[l], k)) \/ Struck(k, i)
      BY <1>2, <1>4, <2>3 DEF After
    <3> QED
      BY <1>3, <2>1, <3>1 DEF Struck
  <2> QED
    BY <2>2, <2>3
<1>5. ASSUME NEW t \in there, NEW k \in Played, k \in z.nodes[t].on
      PROVE  k \in x.nodes[t].on \/ \E j \in 1..(i + 1) : ring[j] = On(k)
  BY <1>2, <1>3, <1>5 DEF After
<1>6. \A t \in Tracks : t \notin there => z.nodes[t] = x.nodes[t]
  BY <1>2 DEF After
<1>7. \A t \in there : KeysIn(x, t) \subseteq x.held => KeysIn(z, t) \subseteq z.held
  BY <1>2 DEF After
<1>8. \A t \in there : Clip \in z.nodes[t].on <=> Clip \in x.nodes[t].on
  BY <1>2 DEF After
<1> QED
  BY <1>2, <1>4, <1>5, <1>6, <1>7, <1>8 DEF After

LEMMA DrainDoes ==
  ASSUME ConstantsAreSound, ring \in Seq(Message), NEW there \in SUBSET Tracks, NEW c, NEW ns,
         NEW n \in 0..Len(ring), NEW d, Drains(d, n, c, there, ns), Opening(c, there, ns) \in Doing
  PROVE  After(Opening(c, there, ns), d[n], there, n)
<1> DEFINE x == Opening(c, there, ns)
           Bad == {i \in 0..n : ~After(x, d[i], there, i)}
<1> SUFFICES ASSUME Bad # {} PROVE FALSE
  BY DEF Bad
<1>1. Bad \in SUBSET Nat /\ Len(ring) \in Nat /\ n \in Nat
  OBVIOUS
<1> HIDE DEF Bad
<1>2. PICK m \in Bad : \A l \in Bad : m <= l
  BY <1>1, LeastNatural
<1> USE DEF Bad
<1>3. CASE m = 0
  <2>1. d[0] = x /\ x \in Doing
    BY DEF Drains
  <2> QED
    BY <1>2, <1>3, <2>1, AfterNothing
<1>4. CASE m # 0
  <2>1. m \in 1..n /\ m - 1 \in 0..n /\ m - 1 \notin Bad /\ m - 1 < Len(ring) /\ (m - 1) + 1 = m
    BY <1>1, <1>2, <1>4
  <2>2. After(x, d[m - 1], there, m - 1)
    BY <2>1
  <2>3. d[m] = Take(d[m - 1], there, ring[m])
    BY <2>1 DEF Drains
  <2> DEFINE y == d[m - 1]
             z == d[m]
             i == m - 1
  <2>4. /\ x \in Doing /\ i \in Nat /\ i < Len(ring) /\ After(x, y, there, i)
        /\ z = Take(y, there, ring[i + 1]) /\ i + 1 = m
    BY <2>1, <2>2, <2>3
  <2>5. ~After(x, z, there, m)
    BY <1>2
  <2> HIDE DEF x, y, z, i, Bad
  <2> QED
    BY <2>4, <2>5, AfterAnother
<1> QED
  BY <1>3, <1>4

(* The first thing a block sends. *)
LEMMA OpeningDoes ==
  ASSUME ConstantsAreSound, NEW c \in CbState, NEW there \in SUBSET Tracks,
         NEW ns \in [Tracks -> NodeState], NEW x, x = Opening(c, there, ns)
  PROVE  /\ x \in Doing /\ Apart(x.nodes, ns, there)
         /\ Outgoing(c) # NoSlot => x.held = {} /\ Lifted(x.nodes, ns, there, c.held)
         /\ Outgoing(c) = NoSlot /\ c.allOff =>
              x.held = {} /\ Lifted(x.nodes, ns, there, Played \cup {Clip})
         /\ Outgoing(c) = NoSlot /\ ~c.allOff => x.held = c.held /\ x.nodes = ns
<1>0. c.held \subseteq Played /\ c.held \in SUBSET (Played \cup {Clip})
      /\ (Played \cup {Clip}) \in SUBSET (Played \cup {Clip})
  BY DEF CbState
<1>1. CASE Outgoing(c) # NoSlot
  <2> DEFINE h == Heard(ns, there, Up(c.held))
  <2>1. x = [held |-> {}, nodes |-> h] /\ h = Heard(ns, there, Up(c.held))
    BY <1>1 DEF Opening
  <2> HIDE DEF h
  <2>2. Apart(h, ns, there) /\ Lifted(h, ns, there, c.held)
    BY <1>0, <2>1, UpDoes
  <2>3. x.held = {} /\ x.nodes = h /\ x \in Doing
    BY <2>1, <2>2 DEF Doing, Apart
  <2> QED
    BY <1>1, <2>2, <2>3
<1>2. CASE Outgoing(c) = NoSlot /\ c.allOff
  <2> DEFINE ks == Played \cup {Clip}
             h == Heard(ns, there, Up(ks))
  <2>1. x = [held |-> {}, nodes |-> h] /\ h = Heard(ns, there, Up(ks))
    BY <1>2 DEF Opening, Everything
  <2>a. ks \in SUBSET (Played \cup {Clip}) /\ ks = Played \cup {Clip}
    OBVIOUS
  <2> HIDE DEF h, ks
  <2>b. Apart(h, ns, there) /\ Lifted(h, ns, there, ks)
    BY <2>1, <2>a, UpDoes
  <2>2. Apart(h, ns, there) /\ Lifted(h, ns, there, Played \cup {Clip})
    BY <2>a, <2>b
  <2>3. x.held = {} /\ x.nodes = h /\ x \in Doing
    BY <2>1, <2>2 DEF Doing, Apart
  <2> QED
    BY <1>2, <2>2, <2>3
<1>3. CASE Outgoing(c) = NoSlot /\ ~c.allOff
  <2>1. x = [held |-> c.held, nodes |-> ns]
    BY <1>3 DEF Opening
  <2> QED
    BY <1>0, <1>3, <2>1 DEF Doing, Apart
<1> QED
  BY <1>1, <1>2, <1>3 DEF CbState

(* All that a block sends. *)
LEMMA DrainedDoes ==
  ASSUME ConstantsAreSound, ring \in Seq(Message), NEW c \in CbState, NEW there \in SUBSET Tracks,
         NEW ns \in [Tracks -> NodeState], NEW y, y = Drained(c, there, ns)
  PROVE  /\ Taken(c) \in 0..Popped /\ Popped \in 0..Len(ring)
         /\ After(Opening(c, there, ns), y, there, Taken(c))
         /\ Outgoing(c) # NoSlot => y = Opening(c, there, ns)
<1>1. Taken(c) \in 0..Popped /\ Popped \in 0..Len(ring) /\ Taken(c) \in 0..Len(ring)
  BY KeysAreApart DEF Taken, Popped
<1>2. Opening(c, there, ns) \in Doing
  BY OpeningDoes
<1>3. PICK d : Drains(d, Taken(c), c, there, ns) /\ y = d[Taken(c)]
  BY <1>1, DrainedIs
<1>4. After(Opening(c, there, ns), d[Taken(c)], there, Taken(c))
  BY <1>1, <1>2, <1>3, DrainDoes
<1>5. Outgoing(c) # NoSlot => y = Opening(c, there, ns)
  BY <1>3 DEF Drains, Taken
<1> QED
  BY <1>1, <1>3, <1>4, <1>5

----------------------------------------------------------------------------
(* What a block does to the callback's state before and after it plays.    *)

Leaves == hub.slot # cb.slot /\ cb.slot # NoSlot
Stops == cb.was /\ ~moving.playing

(* The state c in which a block plays. *)
Turned(c) ==
  /\ c \in CbState /\ c.slot = hub.slot /\ c.held = cb.held
  /\ c.rel = IF Leaves THEN cb.slot ELSE cb.rel
  /\ c.left = IF Leaves THEN Window ELSE cb.left
  /\ c.hold <= c.left /\ c.left <= Window
  /\ c.rel = NoSlot <=> c.left = 0
  /\ ~moving.playing => c.hold = c.left
  /\ ~Stops => c.hold = IF ~Leaves THEN cb.hold ELSE IF moving.playing THEN 1 ELSE Window
  /\ c.allOff <=> cb.allOff \/ (hub.slot # cb.slot /\ ~moving.playing) \/ Stops
  /\ Outgoing(c) = IF c.hold > 0 THEN c.rel ELSE NoSlot
  /\ Outgoing(c) # NoSlot <=> c.hold > 0

LEMMA TurnedIs ==
  ASSUME ConstantsAreSound, Typed, Counted, NEW c, c = Stopped(Switched(cb))
  PROVE  Turned(c)
<1>1. /\ cb \in CbState /\ hub.slot \in Nat /\ moving.playing \in BOOLEAN
      /\ cb.hold <= cb.left /\ cb.left <= Window
      /\ cb.rel = NoSlot <=> cb.left = 0
      /\ ~cb.was => cb.hold = cb.left
      /\ Window \in Nat /\ Window > 0
  BY KeysAreApart DEF Typed, Counted
<1> DEFINE b == Switched(cb)
<1>2. /\ b \in CbState /\ b.slot = hub.slot /\ b.held = cb.held /\ b.was = cb.was
      /\ b.rel = IF Leaves THEN cb.slot ELSE cb.rel
      /\ b.left = IF Leaves THEN Window ELSE cb.left
      /\ b.hold = IF ~Leaves THEN cb.hold ELSE IF moving.playing THEN 1 ELSE Window
      /\ b.allOff <=> cb.allOff \/ (hub.slot # cb.slot /\ ~moving.playing)
  <2>1. CASE hub.slot = cb.slot
    BY <1>1, <2>1 DEF Switched, Leaves
  <2>2. CASE hub.slot # cb.slot /\ cb.slot = NoSlot
    BY <1>1, <2>2 DEF Switched, Leaves, CbState
  <2>3. CASE hub.slot # cb.slot /\ cb.slot # NoSlot
    BY <1>1, <2>3 DEF Switched, Leaves, CbState
  <2> QED
    BY <2>1, <2>2, <2>3
<1>3. c = Stopped(b)
  OBVIOUS
<1> HIDE DEF b
<1>4. /\ c \in CbState /\ c.slot = b.slot /\ c.held = b.held /\ c.rel = b.rel /\ c.left = b.left
      /\ c.hold = IF Stops /\ b.rel # NoSlot THEN b.left ELSE b.hold
      /\ c.allOff <=> b.allOff \/ Stops
  <2>1. CASE Stops
    BY <1>2, <1>3, <2>1 DEF Stopped, Stops, CbState
  <2>2. CASE ~Stops
    BY <1>2, <1>3, <2>2 DEF Stopped, Stops, CbState
  <2> QED
    BY <2>1, <2>2
<1>5. /\ cb.slot \in Nat /\ cb.rel \in Nat /\ cb.left \in Nat /\ cb.hold \in Nat
      /\ c.slot \in Nat /\ c.rel \in Nat /\ c.left \in Nat /\ c.hold \in Nat /\ cb.was \in BOOLEAN
      /\ NoSlot = 0
  BY <1>1, <1>4 DEF CbState, NoSlot
<1>6. /\ c.rel = IF Leaves THEN cb.slot ELSE cb.rel
      /\ c.left = IF Leaves THEN Window ELSE cb.left
      /\ c.rel = NoSlot <=> c.left = 0
      /\ c.left <= Window
  BY <1>1, <1>2, <1>4, <1>5 DEF Leaves
<1>7. /\ c.hold <= c.left
      /\ ~moving.playing => c.hold = c.left
      /\ ~Stops => c.hold = IF ~Leaves THEN cb.hold ELSE IF moving.playing THEN 1 ELSE Window
  BY <1>1, <1>2, <1>4, <1>5, <1>6 DEF Leaves, Stops
<1>8. Outgoing(c) = (IF c.hold > 0 THEN c.rel ELSE NoSlot) /\ (Outgoing(c) # NoSlot <=> c.hold > 0)
  BY <1>5, <1>6, <1>7 DEF Outgoing
<1>9. c.allOff <=> cb.allOff \/ (hub.slot # cb.slot /\ ~moving.playing) \/ Stops
  BY <1>2, <1>4
<1>10. c.slot = hub.slot /\ c.held = cb.held /\ c \in CbState
  BY <1>2, <1>4
<1> QED
  BY <1>6, <1>7, <1>8, <1>9, <1>10 DEF Turned

LEMMA CountedDownIs ==
  ASSUME ConstantsAreSound, moving.playing \in BOOLEAN, NEW c, Turned(c), NEW r, r = CountedDown(c)
  PROVE  /\ r \in CbState /\ r.slot = hub.slot /\ r.allOff = c.allOff
         /\ r.rel = IF c.left > 1 THEN c.rel ELSE NoSlot
         /\ r.left = IF c.left > 0 THEN c.left - 1 ELSE 0
         /\ r.hold <= r.left /\ r.left <= Window
         /\ r.rel = NoSlot <=> r.left = 0
         /\ ~moving.playing => r.hold = r.left
         /\ r.hold > 0 => c.hold > 0
<1>1. /\ c \in CbState /\ c.slot = hub.slot /\ c.hold <= c.left /\ c.left <= Window
      /\ c.rel = NoSlot <=> c.left = 0
      /\ ~moving.playing => c.hold = c.left
      /\ Outgoing(c) # NoSlot <=> c.hold > 0
      /\ c.rel \in Nat /\ c.left \in Nat /\ c.hold \in Nat /\ NoSlot = 0
      /\ Window \in Nat
  BY KeysAreApart DEF Turned, CbState, NoSlot
<1>2. CASE c.rel = NoSlot
  BY <1>1, <1>2 DEF CountedDown
<1>3. CASE c.rel # NoSlot
  <2>1. c.left >= 1 /\ (moving.playing \/ Outgoing(c) # NoSlot)
    BY <1>1, <1>3
  <2> DEFINE h == IF c.hold > 0 THEN c.hold - 1 ELSE 0
  <2>2. r = IF c.left - 1 = 0 THEN [c EXCEPT !.rel = NoSlot, !.left = 0, !.hold = 0]
            ELSE [c EXCEPT !.left = c.left - 1, !.hold = h]
    BY <1>3, <2>1 DEF CountedDown
  <2>3. h \in Nat /\ h <= c.left - 1 /\ (h > 0 => c.hold > 0) /\ (~moving.playing => h = c.left - 1)
    BY <1>1, <2>1
  <2> HIDE DEF h
  <2>4. CASE c.left = 1
    <3>1. r = [c EXCEPT !.rel = NoSlot, !.left = 0, !.hold = 0]
      BY <2>2, <2>4
    <3>2. /\ r.slot = c.slot /\ r.allOff = c.allOff /\ r.held = c.held /\ r.was = c.was
          /\ r.rel = NoSlot /\ r.left = 0 /\ r.hold = 0
      BY <1>1, <3>1 DEF CbState
    <3>3. r \in CbState
      <4>1. NoSlot \in Nat /\ 0 \in Nat
        BY <1>1
      <4> QED
        BY <1>1, <3>1, <4>1 DEF CbState
    <3> QED
      BY <1>1, <2>4, <3>2, <3>3
  <2>5. CASE c.left > 1
    <3>1. r = [c EXCEPT !.left = c.left - 1, !.hold = h]
      BY <1>1, <2>2, <2>5
    <3>2. /\ r.slot = c.slot /\ r.allOff = c.allOff /\ r.held = c.held /\ r.was = c.was
          /\ r.rel = c.rel /\ r.left = c.left - 1 /\ r.hold = h
      BY <1>1, <3>1 DEF CbState
    <3>3. c.left - 1 \in Nat
      BY <1>1, <2>5
    <3>4. r \in CbState
      BY <1>1, <2>3, <3>1, <3>3 DEF CbState
    <3> QED
      BY <1>1, <1>3, <2>3, <2>5, <3>2, <3>4
  <2> QED
    BY <1>1, <2>1, <2>4, <2>5
<1> QED
  BY <1>2, <1>3

----------------------------------------------------------------------------
(* What a block does to a node, from what it was to what it is after it.   *)

Primes(rows, p) ==
  /\ p \in [Tracks -> NodeState]
  /\ \A t \in Tracks : ~Starts => p[t] = Before(rows)[t]
  /\ \A t \in Tracks : Starts =>
       /\ p[t].on = {}
       /\ p[t].tail = IF Before(rows)[t].on \cap Played # {} THEN Release ELSE Before(rows)[t].tail

Sends(c, there, p, y) ==
  /\ y \in Doing
  /\ \A t \in Tracks : t \notin there => y.nodes[t] = p[t]
  /\ c.hold > 0 =>
       /\ y.held = {}
       /\ \A t \in there :
            /\ y.nodes[t].on = p[t].on \ cb.held
            /\ y.nodes[t].tail = IF p[t].on \cap cb.held \cap Played # {} THEN Release ELSE p[t].tail
  /\ c.hold = 0 => \A t \in there :
       /\ c.allOff \/ p[t].on \cap Played \subseteq cb.held => KeysIn(y, t) \subseteq y.held
       /\ Clip \in y.nodes[t].on <=> Clip \in p[t].on /\ ~c.allOff
  /\ \A k \in Played : k \in y.held =>
       \/ k \in cb.held /\ \A l \in 1..Popped : ~Ends(ring[l], k)
       \/ Struck(k, Popped)
  /\ \A t \in Tracks : \A k \in Played :
       k \in y.nodes[t].on => k \in p[t].on \/ \E j \in 1..Popped : ring[j] = On(k)

OneLess(n) == IF n > 0 THEN n - 1 ELSE 0
Renders(rows, there, ns, new) ==
  /\ new \in [Tracks -> NodeState]
  /\ \A t \in Tracks : moving.countin \/ t \notin DOMAIN rows => new[t] = Before(rows)[t]
  /\ \A t \in Tracks : moving.playing /\ t \in DOMAIN rows =>
       new[t].on \cap Played = ns[t].on \cap Played /\ new[t].tail = OneLess(ns[t].tail)
  /\ \A t \in Tracks : ~moving.playing /\ ~moving.countin /\ t \in DOMAIN rows =>
       IF t \in there THEN new[t].on = ns[t].on /\ new[t].tail = OneLess(ns[t].tail)
       ELSE new[t] = Before(rows)[t]

LEMMA BeforeIs ==
  ASSUME ConstantsAreSound, Typed, NEW rows
  PROVE  /\ Before(rows) \in [Tracks -> NodeState]
         /\ \A t \in Tracks : Before(rows)[t] = IF t \in Same(rows) THEN nodes[t] ELSE Quiet
<1>1. Quiet \in NodeState
  BY KeysAreApart DEF Quiet, NodeState
<1>2. nodes \in [Tracks -> NodeState]
  BY DEF Typed
<1> QED
  BY <1>1, <1>2 DEF Before

LEMMA PrimedIs ==
  ASSUME ConstantsAreSound, Typed, NEW rows, NEW p, p = Primed(rows)
  PROVE  Primes(rows, p)
<1> DEFINE b == Before(rows)
           ks == Played \cup {Clip}
<1>1. b \in [Tracks -> NodeState] /\ ks \in SUBSET (Played \cup {Clip}) /\ Tracks \in SUBSET Tracks
  BY BeforeIs
<1>2. p = IF Starts THEN Heard(b, Tracks, Up(ks)) ELSE b
  BY DEF Primed, Everything
<1>3. \A t \in Tracks : b[t].on \subseteq ks /\ b[t].on \cap ks \cap Played = b[t].on \cap Played
  BY <1>1 DEF NodeState
<1>4. b = Before(rows)
  OBVIOUS
<1>9. ks = Played \cup {Clip}
  OBVIOUS
<1> HIDE DEF b, ks
<1>5. CASE ~Starts
  BY <1>1, <1>2, <1>4, <1>5 DEF Primes
<1>6. CASE Starts
  <2>1. p = Heard(b, Tracks, Up(ks))
    BY <1>2, <1>6
  <2>2. Apart(p, b, Tracks) /\ Lifted(p, b, Tracks, ks)
    BY <1>1, <2>1, UpDoes
  <2>3. p \in [Tracks -> NodeState]
    BY <2>2 DEF Apart
  <2>4. \A t \in Tracks : p[t].on = {} /\ p[t].tail = IF b[t].on \cap Played # {} THEN Release ELSE b[t].tail
    BY <1>3, <2>2 DEF Lifted
  <2> QED
    BY <1>4, <1>6, <2>3, <2>4 DEF Primes
<1> QED
  BY <1>5, <1>6

LEMMA DrainedIsSent ==
  ASSUME ConstantsAreSound, ring \in Seq(Message), NEW c, Turned(c), NEW there \in SUBSET Tracks,
         NEW p \in [Tracks -> NodeState], NEW y, y = Drained(c, there, p)
  PROVE  Sends(c, there, p, y)
<1> DEFINE x == Opening(c, there, p)
<1>1. c \in CbState /\ c.held = cb.held /\ (Outgoing(c) # NoSlot <=> c.hold > 0) /\ c.hold \in Nat
  BY DEF Turned, CbState
<1>2. /\ Taken(c) \in 0..Popped /\ Popped \in 0..Len(ring)
      /\ After(x, y, there, Taken(c))
      /\ Outgoing(c) # NoSlot => y = x
  BY <1>1, DrainedDoes
<1>3. /\ x \in Doing /\ Apart(x.nodes, p, there)
      /\ Outgoing(c) # NoSlot => x.held = {} /\ Lifted(x.nodes, p, there, c.held)
      /\ Outgoing(c) = NoSlot /\ c.allOff =>
           x.held = {} /\ Lifted(x.nodes, p, there, Played \cup {Clip})
      /\ Outgoing(c) = NoSlot /\ ~c.allOff => x.held = c.held /\ x.nodes = p
  BY <1>1, OpeningDoes
<1> HIDE DEF x
<1>4. y \in Doing
  BY <1>2 DEF After
<1>5. \A t \in Tracks : t \notin there => y.nodes[t] = p[t]
  BY <1>2, <1>3 DEF After, Apart
<1>6. c.hold > 0 =>
        /\ y.held = {}
        /\ \A t \in there :
             /\ y.nodes[t].on = p[t].on \ cb.held
             /\ y.nodes[t].tail = IF p[t].on \cap cb.held \cap Played # {} THEN Release ELSE p[t].tail
  BY <1>1, <1>2, <1>3 DEF Lifted
<1>7. ASSUME c.hold = 0, NEW t \in there
      PROVE  /\ c.allOff \/ p[t].on \cap Played \subseteq cb.held => KeysIn(y, t) \subseteq y.held
             /\ Clip \in y.nodes[t].on <=> Clip \in p[t].on /\ ~c.allOff
  <2>1. Outgoing(c) = NoSlot /\ c.allOff \in BOOLEAN /\ p[t].on \subseteq Played \cup {Clip}
    BY <1>1, <1>7 DEF CbState, NodeState
  <2>2. /\ KeysIn(x, t) \subseteq x.held => KeysIn(y, t) \subseteq y.held
        /\ Clip \in y.nodes[t].on <=> Clip \in x.nodes[t].on
    BY <1>2 DEF After
  <2>3. CASE c.allOff
    <3>1. x.nodes[t].on = {}
      BY <1>3, <2>1, <2>3 DEF Lifted
    <3> QED
      BY <2>2, <2>3, <3>1 DEF KeysIn
  <2>4. CASE ~c.allOff
    <3>1. x.held = cb.held /\ x.nodes[t] = p[t]
      BY <1>1, <1>3, <2>1, <2>4
    <3> QED
      BY <2>2, <2>4, <3>1 DEF KeysIn
  <2> QED
    BY <2>1, <2>3, <2>4
<1>8. ASSUME NEW k \in Played, k \in y.held
      PROVE  (k \in cb.held /\ \A l \in 1..Popped : ~Ends(ring[l], k)) \/ Struck(k, Popped)
  <2>1. Outgoing(c) = NoSlot
    BY <1>2, <1>3, <1>8
  <2>2. Taken(c) = Popped
    BY <2>1 DEF Taken
  <2>3. (k \in x.held /\ \A l \in 1..Popped : ~Ends(ring[l], k)) \/ Struck(k, Popped)
    BY <1>2, <1>8, <2>2 DEF After
  <2>4. k \in x.held => k \in cb.held
    BY <1>1, <1>3, <2>1
  <2> QED
    BY <2>3, <2>4
<1>9. ASSUME NEW t \in Tracks, NEW k \in Played, k \in y.nodes[t].on
      PROVE  k \in p[t].on \/ \E j \in 1..Popped : ring[j] = On(k)
  <2>1. CASE t \notin there
    BY <1>5, <1>9, <2>1
  <2>2. CASE t \in there
    <3>1. k \in x.nodes[t].on \/ \E j \in 1..Taken(c) : ring[j] = On(k)
      BY <1>2, <1>9, <2>2 DEF After
    <3>2. 1..Taken(c) \subseteq 1..Popped
      BY <1>2
    <3>3. x.nodes[t].on \subseteq p[t].on
      BY <1>1, <1>3, <2>2 DEF Lifted, CbState
    <3> QED
      BY <3>1, <3>2, <3>3
  <2> QED
    BY <2>1, <2>2
<1> QED
  BY <1>4, <1>5, <1>6, <1>7, <1>8, <1>9 DEF Sends

LEMMA RenderedIs ==
  ASSUME ConstantsAreSound, Typed, NEW rows, NEW there, NEW ns \in [Tracks -> NodeState], NEW score,
         NEW new, new = Rendered(rows, there, ns, score)
  PROVE  Renders(rows, there, ns, new)
<1>1. Before(rows) \in [Tracks -> NodeState] /\ Release \in Nat /\ Clip \notin Played
      /\ moving.playing \in BOOLEAN /\ moving.countin \in BOOLEAN /\ ~(moving.playing /\ moving.countin)
  BY BeforeIs, KeysAreApart DEF Typed
<1>2. ASSUME NEW n \in NodeState
      PROVE  Decays(n) \in NodeState /\ Decays(n).on = n.on /\ Decays(n).tail = OneLess(n.tail)
  BY <1>1 DEF Decays, OneLess, NodeState
<1>3. ASSUME NEW n \in NodeState, NEW s
      PROVE  /\ Clips(n, s) \in NodeState /\ Clips(n, s).on \cap Played = n.on \cap Played
             /\ Clips(n, s).tail = n.tail
  <2>1. \/ Clips(n, s) = [n EXCEPT !.on = n.on \cup {Clip}]
        \/ Clips(n, s) = [n EXCEPT !.on = n.on \ {Clip}]
        \/ Clips(n, s) = [n EXCEPT !.on = n.on]
    BY DEF Clips
  <2> QED
    BY <1>1, <2>1 DEF NodeState
<1>4. /\ new = [t \in Tracks |-> new[t]]
      /\ \A t \in Tracks : new[t] =
           IF moving.countin \/ t \notin DOMAIN rows THEN Before(rows)[t]
           ELSE IF moving.playing THEN Decays(Clips(ns[t], score[t]))
           ELSE IF t \in there THEN Decays(ns[t]) ELSE Before(rows)[t]
  BY DEF Rendered
<1>5. ASSUME NEW t \in Tracks
      PROVE  /\ new[t] \in NodeState
             /\ moving.countin \/ t \notin DOMAIN rows => new[t] = Before(rows)[t]
             /\ moving.playing /\ t \in DOMAIN rows =>
                  new[t].on \cap Played = ns[t].on \cap Played /\ new[t].tail = OneLess(ns[t].tail)
             /\ ~moving.playing /\ ~moving.countin /\ t \in DOMAIN rows =>
                  IF t \in there THEN new[t].on = ns[t].on /\ new[t].tail = OneLess(ns[t].tail)
                  ELSE new[t] = Before(rows)[t]
  <2>1. ns[t] \in NodeState /\ Before(rows)[t] \in NodeState
    BY <1>1
  <2>2. CASE moving.countin \/ t \notin DOMAIN rows
    BY <1>1, <1>4, <2>1, <2>2
  <2>3. CASE ~(moving.countin \/ t \notin DOMAIN rows) /\ moving.playing
    <3> DEFINE m == Clips(ns[t], score[t])
    <3>1. m \in NodeState /\ m.on \cap Played = ns[t].on \cap Played /\ m.tail = ns[t].tail
      BY <1>3, <2>1
    <3>2. new[t] = Decays(m)
      BY <1>4, <2>3
    <3> HIDE DEF m
    <3>3. Decays(m) \in NodeState /\ Decays(m).on = m.on /\ Decays(m).tail = OneLess(m.tail)
      BY <1>2, <3>1
    <3> QED
      BY <2>3, <3>1, <3>2, <3>3
  <2>4. CASE ~(moving.countin \/ t \notin DOMAIN rows) /\ ~moving.playing
    BY <1>2, <1>4, <2>1, <2>4
  <2> QED
    BY <2>2, <2>3, <2>4
<1> QED
  BY <1>4, <1>5 DEF Renders

----------------------------------------------------------------------------
(* A block: its rows, the state c it plays in, the nodes there it sends    *)
(* to, as they are before p, and the keys and nodes y after that.          *)

Blocked(rows, c, there, p, y) ==
  /\ rows \in Tables /\ (rows = graph \/ engine.ready = <<rows>>)
  /\ Turned(c)
  /\ there = InSlot(rows, IF c.hold > 0 THEN c.rel ELSE hub.slot) /\ there \subseteq Tracks
  /\ Primes(rows, p) /\ Sends(c, there, p, y) /\ Renders(rows, there, y.nodes, nodes')
  /\ graph' = rows
  /\ engine' = [engine EXCEPT !.ready = engine'.ready] /\ engine'.ready \in {<<>>, engine.ready}
  /\ cb' \in CbState /\ cb'.slot = hub.slot /\ cb'.held = y.held /\ cb'.was = moving.playing
  /\ cb'.allOff <=> c.hold > 0 /\ c.allOff
  /\ cb'.rel = IF c.left > 1 THEN c.rel ELSE NoSlot
  /\ cb'.left = IF c.left > 0 THEN c.left - 1 ELSE 0
  /\ cb'.hold <= cb'.left /\ cb'.left <= Window
  /\ cb'.rel = NoSlot <=> cb'.left = 0
  /\ ~moving.playing => cb'.hold = cb'.left
  /\ cb'.hold > 0 => c.hold > 0
  /\ ring' = SubSeq(ring, Popped + 1, Len(ring))
  /\ odd'.astray = {t \in odd.astray \cup (IF moving.countin THEN there ELSE {}) :
                      nodes'[t] # Quiet \/ rows # Rows(DOMAIN rows, engine.made, engine.slots)
                        \/ hub.slot # SlotOf(hub.target)}
  /\ odd'.clipped = {t \in odd.clipped \cup Replaced(rows) \cup Missed(c, rows) : Restless(nodes'[t])}
  /\ odd'.lost = {k \in odd.lost : ring' # <<>> \/ \E t \in Tracks : k \in nodes'[t].on}
  /\ odd'.owed <=> moving.playing /\ (Starts \/ odd.owed) /\ cb'.allOff
  /\ odd'.cut <=> odd.cut \/ (moving.playing /\ ~odd.owed
                               /\ \E t \in there : Clip \in p[t].on \ y.nodes[t].on)
  /\ odd' = [lost |-> odd'.lost, astray |-> odd'.astray, clipped |-> odd'.clipped,
             owed |-> odd'.owed, cut |-> odd'.cut]
  /\ odd'.owed \in BOOLEAN /\ odd'.cut \in BOOLEAN
  /\ UNCHANGED <<outside, hub, song, moving>>

LEMMA TablesAre ==
  ASSUME ConstantsAreSound, NEW rows \in Tables
  PROVE  /\ DOMAIN rows \subseteq Tracks
         /\ \A t \in DOMAIN rows : rows[t].slot \in Nat \ {0} /\ rows[t].node \in Nat
         /\ \A s, t \in DOMAIN rows : rows[s].slot = rows[t].slot => s = t
<1>1. PICK l \in SUBSET Tracks, m \in [Tracks -> Nat], place \in Places : rows = Rows(l, m, place)
  BY DEF Tables
<1>2. /\ place \in [Tracks -> Nat \ {0}]
      /\ \A s, t \in Tracks : s # t => place[s] # place[t]
  BY DEF ConstantsAreSound
<1>3. DOMAIN rows = l /\ \A t \in l : rows[t].slot = place[t] /\ rows[t].node = m[t]
  BY <1>1 DEF Rows
<1> QED
  BY <1>2, <1>3

LEMMA BlockDoes ==
  ASSUME ConstantsAreSound, Typed, Counted, Block
  PROVE  \E rows, c, there, p, y : Blocked(rows, c, there, p, y)
<1>1. PICK adopts \in {FALSE, engine.ready # <<>>}, score \in (IF moving.playing THEN Scores ELSE {Unscored}) :
        LET rows == IF adopts THEN engine.ready[1] ELSE graph
            c == Stopped(Switched(cb))
            there == InSlot(rows, IF Outgoing(c) # NoSlot THEN Outgoing(c) ELSE hub.slot)
            primed == Primed(rows)
            drained == Drained(c, there, primed)
        IN /\ graph' = rows
           /\ engine' = [engine EXCEPT !.ready = IF adopts THEN <<>> ELSE @]
           /\ ring' = SubSeq(ring, Popped + 1, Len(ring))
           /\ cb' = [CountedDown(c) EXCEPT
                       !.held = drained.held,
                       !.allOff = IF Outgoing(c) # NoSlot THEN @ ELSE FALSE,
                       !.was = moving.playing]
           /\ nodes' = Rendered(rows, there, drained.nodes, score)
           /\ odd' = [odd EXCEPT
                !.astray = {t \in @ \cup (IF moving.countin THEN there ELSE {}) :
                              nodes'[t] # Quiet \/ rows # Rows(DOMAIN rows, engine.made, engine.slots)
                                \/ hub.slot # SlotOf(hub.target)},
                !.clipped = {t \in @ \cup Replaced(rows) \cup Missed(c, rows) : Restless(nodes'[t])},
                !.lost = {k \in @ : ring' # <<>> \/ \E t \in Tracks : k \in nodes'[t].on},
                !.owed = moving.playing /\ (Starts \/ @) /\ cb'.allOff,
                !.cut = @ \/ (moving.playing /\ ~odd.owed
                                /\ \E t \in there : Clip \in primed[t].on \ drained.nodes[t].on)]
           /\ UNCHANGED <<outside, hub, song, moving>>
  BY DEF Block
<1> DEFINE rows == IF adopts THEN engine.ready[1] ELSE graph
           c == Stopped(Switched(cb))
           there == InSlot(rows, IF Outgoing(c) # NoSlot THEN Outgoing(c) ELSE hub.slot)
           p == Primed(rows)
           y == Drained(c, there, p)
           astray == {t \in odd.astray \cup (IF moving.countin THEN there ELSE {}) :
                        nodes'[t] # Quiet \/ rows # Rows(DOMAIN rows, engine.made, engine.slots)
                          \/ hub.slot # SlotOf(hub.target)}
           clipped == {t \in odd.clipped \cup Replaced(rows) \cup Missed(c, rows) : Restless(nodes'[t])}
           lost == {k \in odd.lost : ring' # <<>> \/ \E t \in Tracks : k \in nodes'[t].on}
           owed == moving.playing /\ (Starts \/ odd.owed) /\ cb'.allOff
           cut == odd.cut \/ (moving.playing /\ ~odd.owed
                               /\ \E t \in there : Clip \in p[t].on \ y.nodes[t].on)
           r == CountedDown(c)
<1>2. /\ graph' = rows
      /\ engine' = [engine EXCEPT !.ready = IF adopts THEN <<>> ELSE engine.ready]
      /\ ring' = SubSeq(ring, Popped + 1, Len(ring))
      /\ cb' = [r EXCEPT !.held = y.held, !.allOff = IF Outgoing(c) # NoSlot THEN r.allOff ELSE FALSE,
                         !.was = moving.playing]
      /\ nodes' = Rendered(rows, there, y.nodes, score)
      /\ odd' = [odd EXCEPT !.astray = astray, !.clipped = clipped, !.lost = lost, !.owed = owed, !.cut = cut]
      /\ UNCHANGED <<outside, hub, song, moving>>
  BY <1>1
<1>3. /\ engine.ready \in {<<>>} \cup {<<x>> : x \in Tables} /\ graph \in Tables
      /\ ring \in Seq(Message) /\ moving.playing \in BOOLEAN /\ DOMAIN engine = DOMAIN engine'
      /\ engine = [engine EXCEPT !.ready = engine.ready]
  BY <1>2 DEF Typed
<1>4. rows \in Tables /\ (rows = graph \/ engine.ready = <<rows>>)
  <2>1. CASE adopts
    <3>1. engine.ready # <<>>
      BY <2>1
    <3>2. PICK x \in Tables : engine.ready = <<x>>
      BY <1>3, <3>1
    <3> QED
      BY <2>1, <3>2
  <2>2. CASE ~adopts
    BY <1>3, <2>2
  <2> QED
    BY <2>1, <2>2
<1>5. engine' = [engine EXCEPT !.ready = engine'.ready] /\ engine'.ready \in {<<>>, engine.ready}
  BY <1>2, <1>3 DEF Typed
<1>6. c = Stopped(Switched(cb)) /\ there = InSlot(rows, IF Outgoing(c) # NoSlot THEN Outgoing(c) ELSE hub.slot)
      /\ p = Primed(rows) /\ y = Drained(c, there, p) /\ r = CountedDown(c)
  OBVIOUS
<1>7. /\ odd'.astray = astray /\ odd'.clipped = clipped /\ odd'.lost = lost
      /\ (odd'.owed <=> owed) /\ (odd'.cut <=> cut)
      /\ odd' = [lost |-> odd'.lost, astray |-> odd'.astray, clipped |-> odd'.clipped,
                 owed |-> odd'.owed, cut |-> odd'.cut]
      /\ odd'.owed \in BOOLEAN /\ odd'.cut \in BOOLEAN
  <2>1. odd = [lost |-> odd.lost, astray |-> odd.astray, clipped |-> odd.clipped,
               owed |-> odd.owed, cut |-> odd.cut]
    BY DEF Typed
  <2>2. owed \in BOOLEAN /\ cut \in BOOLEAN
    OBVIOUS
  <2> HIDE DEF astray, clipped, lost, owed, cut
  <2> QED
    BY <1>2, <2>1, <2>2
<1>8. /\ astray = {t \in odd.astray \cup (IF moving.countin THEN there ELSE {}) :
                     nodes'[t] # Quiet \/ rows # Rows(DOMAIN rows, engine.made, engine.slots)
                       \/ hub.slot # SlotOf(hub.target)}
      /\ clipped = {t \in odd.clipped \cup Replaced(rows) \cup Missed(c, rows) : Restless(nodes'[t])}
      /\ lost = {k \in odd.lost : ring' # <<>> \/ \E t \in Tracks : k \in nodes'[t].on}
      /\ owed <=> moving.playing /\ (Starts \/ odd.owed) /\ cb'.allOff
      /\ cut <=> odd.cut \/ (moving.playing /\ ~odd.owed
                               /\ \E t \in there : Clip \in p[t].on \ y.nodes[t].on)
  OBVIOUS
<1> HIDE DEF rows, c, there, p, y, r, astray, clipped, lost, owed, cut
<1>9. Turned(c) /\ c.hold \in Nat
  <2>1. Turned(c)
    BY <1>6, TurnedIs
  <2> QED
    BY <2>1 DEF Turned, CbState
<1>10. (Outgoing(c) # NoSlot <=> c.hold > 0) /\ Outgoing(c) = IF c.hold > 0 THEN c.rel ELSE NoSlot
  BY <1>9 DEF Turned
<1>11. there = InSlot(rows, IF c.hold > 0 THEN c.rel ELSE hub.slot) /\ there \subseteq Tracks
  <2>1. there = InSlot(rows, IF c.hold > 0 THEN c.rel ELSE hub.slot)
    BY <1>6, <1>10
  <2>2. there \subseteq DOMAIN rows
    BY <2>1 DEF InSlot
  <2> QED
    BY <1>4, <2>1, <2>2, TablesAre
<1>12. Primes(rows, p)
  BY <1>6, PrimedIs
<1>13. Sends(c, there, p, y)
  <2>1. p \in [Tracks -> NodeState]
    BY <1>12 DEF Primes
  <2> QED
    BY <1>3, <1>6, <1>9, <1>11, <2>1, DrainedIsSent
<1>14. Renders(rows, there, y.nodes, nodes')
  <2>1. y.nodes \in [Tracks -> NodeState]
    BY <1>13 DEF Sends, Doing
  <2> DEFINE new == nodes'
             ns == y.nodes
  <2>2. new = Rendered(rows, there, ns, score) /\ ns \in [Tracks -> NodeState]
    BY <1>2, <2>1
  <2> HIDE DEF new, ns
  <2>3. Renders(rows, there, ns, new)
    BY <2>2, RenderedIs
  <2> QED
    BY <2>3 DEF new, ns
<1>15. /\ r \in CbState /\ r.slot = hub.slot /\ r.allOff = c.allOff
       /\ r.rel = IF c.left > 1 THEN c.rel ELSE NoSlot
       /\ r.left = IF c.left > 0 THEN c.left - 1 ELSE 0
       /\ r.hold <= r.left /\ r.left <= Window
       /\ r.rel = NoSlot <=> r.left = 0
       /\ ~moving.playing => r.hold = r.left
       /\ r.hold > 0 => c.hold > 0
  BY <1>3, <1>6, <1>9, CountedDownIs
<1>16. /\ cb' \in CbState /\ cb'.slot = r.slot /\ cb'.held = y.held /\ cb'.was = moving.playing
       /\ cb'.allOff <=> c.hold > 0 /\ r.allOff
       /\ cb'.rel = r.rel /\ cb'.left = r.left /\ cb'.hold = r.hold
  <2>1. y.held \subseteq Played /\ r.allOff \in BOOLEAN
    BY <1>13, <1>15 DEF Sends, Doing, CbState
  <2> QED
    BY <1>2, <1>3, <1>10, <1>15, <2>1 DEF CbState
<1>17. Blocked(rows, c, there, p, y)
  BY <1>2, <1>4, <1>5, <1>7, <1>8, <1>9, <1>11, <1>12, <1>13, <1>14, <1>15, <1>16 DEF Blocked
<1> QED
  BY <1>17

(* What the invariant says of track t, whose slot is s, with its node as b. *)
Seen(t, b, s) ==
  /\ b \in NodeState /\ s \in Nat \ {0}
  /\ IF s = cb.slot THEN b.on \cap Played \subseteq cb.held \/ (~cb.was /\ cb.allOff)
     ELSE b.on \cap Played = {} \/ ~cb.was
  /\ t \notin odd.clipped => b.on \cap Played \subseteq (IF s = cb.slot THEN cb.held ELSE {})
  /\ s = cb.slot /\ ~cb.was /\ Clip \in b.on => cb.allOff
  /\ t \notin odd.clipped /\ b.tail > 0 /\ s # cb.slot => s = cb.rel /\ b.tail <= cb.left

(* The node in a block: b before it, q primed, d when all was sent, n      *)
(* after it; sent, whether the block sends to it.                          *)
Story(c, held, s, b, q, d, n, sent) ==
  /\ sent <=> s = IF c.hold > 0 THEN c.rel ELSE hub.slot
  /\ q \in NodeState /\ d \in NodeState /\ n \in NodeState
  /\ ~Starts => q = b
  /\ Starts => q.on = {} /\ q.tail = IF b.on \cap Played # {} THEN Release ELSE b.tail
  /\ ~sent => d = q
  /\ c.hold > 0 => held = {}
  /\ c.hold > 0 /\ sent => /\ d.on = q.on \ cb.held
                           /\ d.tail = IF q.on \cap cb.held \cap Played # {} THEN Release ELSE q.tail
  /\ c.hold = 0 /\ sent =>
       /\ (c.allOff \/ q.on \cap Played \subseteq cb.held) => d.on \cap Played \subseteq held
       /\ Clip \in d.on <=> Clip \in q.on /\ ~c.allOff
  /\ ~(moving.countin /\ sent)
  /\ moving.countin => n = b
  /\ moving.playing => n.on \cap Played = d.on \cap Played /\ n.tail = OneLess(d.tail)
  /\ ~moving.playing /\ ~moving.countin =>
       IF sent THEN n.on = d.on /\ n.tail = OneLess(d.tail) ELSE n = b

LEMMA SeenAt ==
  ASSUME ConstantsAreSound, Typed, Playing, NEW rows \in Tables, rows = graph \/ engine.ready = <<rows>>,
         NEW t \in DOMAIN rows, t \notin odd.astray
  PROVE  Seen(t, Before(rows)[t], rows[t].slot)
<1> DEFINE b == Before(rows)[t]
           s == rows[t].slot
<1>1. t \in Tracks /\ s \in Nat \ {0}
  BY TablesAre
<1>2. b \in NodeState /\ b = IF t \in Same(rows) THEN nodes[t] ELSE Quiet
  BY <1>1, BeforeIs
<1>3. CASE t \notin Same(rows)
  <2>1. b.on = {} /\ b.tail = 0
    BY <1>2, <1>3 DEF Quiet
  <2> HIDE DEF b, s
  <2>2. Seen(t, b, s)
    BY <1>1, <1>2, <2>1 DEF Seen
  <2> QED
    BY <2>2 DEF b, s
<1>4. CASE t \in Same(rows)
  <2>1. t \in DOMAIN graph /\ b = nodes[t]
    BY <1>2, <1>4 DEF Same
  <2>2. graph[t].slot = s
    <3>1. CASE rows = graph
      BY <3>1
    <3>2. CASE engine.ready = <<rows>>
      <4>1. engine.ready \in {<<>>, <<Rows(engine.kept, engine.made, engine.slots)>>}
            /\ graph[t].slot = engine.slots[t]
        BY <2>1 DEF Playing, Agreed
      <4>2. rows = Rows(engine.kept, engine.made, engine.slots)
        BY <3>2, <4>1
      <4>3. t \in engine.kept
        BY <4>2 DEF Rows
      <4>4. s = engine.slots[t]
        BY <4>2, <4>3 DEF Rows
      <4> QED
        BY <4>1, <4>4
    <3> QED
      BY <3>1, <3>2
  <2>3. There(t) <=> s = cb.slot
    BY <2>1, <2>2 DEF There
  <2>4. KeysOf(t) = b.on \cap Played
    BY <2>1 DEF KeysOf
  <2> HIDE DEF b, s
  <2>5. IF s = cb.slot THEN b.on \cap Played \subseteq cb.held \/ (~cb.was /\ cb.allOff)
        ELSE b.on \cap Played = {} \/ ~cb.was
    BY <1>1, <2>3, <2>4 DEF Playing, Released
  <2>6. t \notin odd.clipped => b.on \cap Played \subseteq (IF s = cb.slot THEN cb.held ELSE {})
    BY <1>1, <2>3, <2>4 DEF Playing, Remembered
  <2>7. s = cb.slot /\ ~cb.was /\ Clip \in b.on => cb.allOff
    BY <1>1, <2>1, <2>3 DEF Playing, ClipEnds
  <2>8. t \notin odd.clipped /\ b.tail > 0 /\ s # cb.slot => s = cb.rel /\ b.tail <= cb.left
    BY <1>1, <2>1, <2>2 DEF Playing, TailsEnd
  <2>9. Seen(t, b, s)
    BY <1>1, <1>2, <2>5, <2>6, <2>7, <2>8 DEF Seen
  <2> QED
    BY <2>9 DEF b, s
<1> QED
  BY <1>3, <1>4

(* A node that is not excused after the block, and not quiet.              *)
LEMMA StoryAt ==
  ASSUME ConstantsAreSound, Typed, Playing, NEW rows, NEW c, NEW there, NEW p, NEW y,
         Blocked(rows, c, there, p, y), NEW t \in Tracks, t \notin odd'.astray, nodes'[t] # Quiet
  PROVE  /\ t \notin odd.astray /\ t \in DOMAIN rows
         /\ Seen(t, Before(rows)[t], rows[t].slot)
         /\ Story(c, y.held, rows[t].slot, Before(rows)[t], p[t], y.nodes[t], nodes'[t], t \in there)
<1>1. t \notin odd.astray /\ ~(moving.countin /\ t \in there)
  BY DEF Blocked
<1>2. /\ rows \in Tables /\ (rows = graph \/ engine.ready = <<rows>>)
      /\ there = InSlot(rows, IF c.hold > 0 THEN c.rel ELSE hub.slot)
      /\ Primes(rows, p) /\ Sends(c, there, p, y) /\ Renders(rows, there, y.nodes, nodes')
  BY DEF Blocked
<1>3. t \in DOMAIN rows
  <2> SUFFICES ASSUME t \notin DOMAIN rows PROVE FALSE
    OBVIOUS
  <2>1. t \notin Same(rows)
    BY DEF Same
  <2>2. nodes'[t] = Before(rows)[t] /\ Before(rows)[t] = Quiet
    BY <1>2, <2>1, BeforeIs DEF Renders
  <2> QED
    BY <2>2
<1>4. Seen(t, Before(rows)[t], rows[t].slot)
  BY <1>1, <1>2, <1>3, SeenAt
<1>5. t \in there <=> rows[t].slot = IF c.hold > 0 THEN c.rel ELSE hub.slot
  BY <1>2, <1>3 DEF InSlot
<1>6. p[t] \in NodeState /\ y.nodes[t] \in NodeState /\ nodes'[t] \in NodeState
  BY <1>2 DEF Primes, Sends, Doing, Renders
<1>7. /\ ~Starts => p[t] = Before(rows)[t]
      /\ Starts => /\ p[t].on = {}
                   /\ p[t].tail = IF Before(rows)[t].on \cap Played # {} THEN Release ELSE Before(rows)[t].tail
  BY <1>2 DEF Primes
<1>8. /\ t \notin there => y.nodes[t] = p[t]
      /\ c.hold > 0 => y.held = {}
      /\ c.hold > 0 /\ t \in there =>
           /\ y.nodes[t].on = p[t].on \ cb.held
           /\ y.nodes[t].tail = IF p[t].on \cap cb.held \cap Played # {} THEN Release ELSE p[t].tail
      /\ c.hold = 0 /\ t \in there =>
           /\ (c.allOff \/ p[t].on \cap Played \subseteq cb.held) => y.nodes[t].on \cap Played \subseteq y.held
           /\ Clip \in y.nodes[t].on <=> Clip \in p[t].on /\ ~c.allOff
  BY <1>2 DEF Sends, KeysIn
<1>9. /\ moving.countin => nodes'[t] = Before(rows)[t]
      /\ moving.playing => /\ nodes'[t].on \cap Played = y.nodes[t].on \cap Played
                           /\ nodes'[t].tail = OneLess(y.nodes[t].tail)
      /\ ~moving.playing /\ ~moving.countin =>
           IF t \in there
           THEN nodes'[t].on = y.nodes[t].on /\ nodes'[t].tail = OneLess(y.nodes[t].tail)
           ELSE nodes'[t] = Before(rows)[t]
  BY <1>2, <1>3 DEF Renders
<1>10. Story(c, y.held, rows[t].slot, Before(rows)[t], p[t], y.nodes[t], nodes'[t], t \in there)
  BY <1>1, <1>5, <1>6, <1>7, <1>8, <1>9 DEF Story
<1> QED
  BY <1>1, <1>3, <1>4, <1>10

(* The numbers and flags these facts are about. *)
LEMMA TurnedFacts ==
  ASSUME ConstantsAreSound, Typed, Counted, NEW c, Turned(c)
  PROVE  /\ cb.slot \in Nat /\ cb.rel \in Nat /\ cb.left \in Nat /\ cb.hold \in Nat /\ hub.slot \in Nat
         /\ c.rel \in Nat /\ c.left \in Nat /\ c.hold \in Nat /\ NoSlot = 0
         /\ Window \in Nat /\ Window = Release + 1 /\ Release \in Nat /\ Release > 0
         /\ moving.playing \in BOOLEAN /\ moving.countin \in BOOLEAN /\ cb.was \in BOOLEAN
         /\ ~(moving.playing /\ moving.countin)
         /\ c.rel = IF Leaves THEN cb.slot ELSE cb.rel
         /\ c.left = IF Leaves THEN Window ELSE cb.left
         /\ c.hold <= c.left /\ c.left <= Window
         /\ c.rel = NoSlot <=> c.left = 0
         /\ ~moving.playing => c.hold = c.left
         /\ ~Stops => c.hold = IF ~Leaves THEN cb.hold ELSE IF moving.playing THEN 1 ELSE Window
         /\ c.allOff <=> cb.allOff \/ (hub.slot # cb.slot /\ ~moving.playing) \/ Stops
         /\ cb.hold > 0 => cb.held = {}
         /\ Leaves <=> hub.slot # cb.slot /\ cb.slot # NoSlot
         /\ Stops <=> cb.was /\ ~moving.playing
         /\ Starts <=> moving.playing /\ ~cb.was
         /\ cb.held \subseteq Played /\ Clip \notin Played
<1>1. /\ cb.slot \in Nat /\ cb.rel \in Nat /\ cb.left \in Nat /\ cb.hold \in Nat /\ hub.slot \in Nat
      /\ c.rel \in Nat /\ c.left \in Nat /\ c.hold \in Nat
      /\ moving.playing \in BOOLEAN /\ moving.countin \in BOOLEAN /\ cb.was \in BOOLEAN
      /\ ~(moving.playing /\ moving.countin) /\ cb.held \subseteq Played
  BY DEF Typed, CbState, Turned
<1>2. NoSlot = 0
  BY DEF NoSlot
<1>3. /\ Leaves <=> hub.slot # cb.slot /\ cb.slot # NoSlot
      /\ Stops <=> cb.was /\ ~moving.playing
      /\ Starts <=> moving.playing /\ ~cb.was
  BY DEF Leaves, Stops, Starts
<1> QED
  BY <1>1, <1>2, <1>3, KeysAreApart DEF Turned, Counted

LEMMA ReleasedStep ==
  ASSUME ConstantsAreSound, Typed, Counted, NEW c, Turned(c), NEW t, NEW held, NEW s, NEW b, NEW q,
         NEW d, NEW n, NEW sent \in BOOLEAN, Seen(t, b, s), Story(c, held, s, b, q, d, n, sent)
  PROVE  IF s = hub.slot THEN n.on \cap Played \subseteq held \/ (~moving.playing /\ c.hold > 0 /\ c.allOff)
         ELSE n.on \cap Played = {} \/ ~moving.playing
<1>1. /\ s \in Nat \ {0}
      /\ IF s = cb.slot THEN b.on \cap Played \subseteq cb.held \/ (~cb.was /\ cb.allOff)
         ELSE b.on \cap Played = {} \/ ~cb.was
  BY DEF Seen
<1>2. CASE moving.playing
  <2>1. c.hold = (IF ~Leaves THEN cb.hold ELSE 1) /\ n.on \cap Played = d.on \cap Played
    BY <1>2, TurnedFacts DEF Story
  <2>2. q.on \cap Played \subseteq (IF s = cb.slot THEN cb.held ELSE {})
    <3>1. CASE Starts
      BY <3>1 DEF Story
    <3>2. CASE ~Starts
      <4>1. cb.was /\ q = b
        BY <1>2, <3>2, TurnedFacts DEF Story
      <4> QED
        BY <1>1, <4>1
    <3> QED
      BY <3>1, <3>2
  <2>3. CASE s = hub.slot
    <3>1. CASE c.hold = 0
      <4>1. sent /\ ~Leaves
        BY <2>1, <2>3, <3>1 DEF Story
      <4>2. q.on \cap Played \subseteq cb.held
        BY <2>2
      <4>3. d.on \cap Played \subseteq held
        BY <3>1, <4>1, <4>2 DEF Story
      <4> QED
        BY <2>1, <2>3, <4>3
    <3>2. CASE c.hold > 0
      <4>1. CASE sent
        <5>1. d.on = q.on \ cb.held
          BY <3>2, <4>1 DEF Story
        <5>2. d.on \cap Played = {}
          BY <2>2, <5>1
        <5> QED
          BY <2>1, <2>3, <5>2
      <4>2. CASE ~sent
        <5>1. d = q
          BY <4>2 DEF Story
        <5>2. s = cb.slot => cb.held = {}
          BY <2>1, <2>3, <3>2, TurnedFacts
        <5>3. d.on \cap Played = {}
          BY <2>2, <5>1, <5>2
        <5> QED
          BY <2>1, <2>3, <5>3
      <4> QED
        BY <4>1, <4>2
    <3> QED
      BY <3>1, <3>2, TurnedFacts
  <2>4. CASE s # hub.slot
    <3>1. CASE sent
      <4>1. c.hold > 0
        BY <2>4, <3>1 DEF Story
      <4>2. d.on = q.on \ cb.held
        BY <3>1, <4>1 DEF Story
      <4>3. d.on \cap Played = {}
        BY <2>2, <4>2
      <4> QED
        BY <2>1, <2>4, <4>3
    <3>2. CASE ~sent
      <4>1. d = q
        BY <3>2 DEF Story
      <4>2. s # cb.slot
        <5> SUFFICES ASSUME s = cb.slot PROVE FALSE
          OBVIOUS
        <5>1. Leaves
          BY <1>1, <2>4, TurnedFacts
        <5>2. c.hold > 0 /\ c.rel = s
          BY <2>1, <5>1, TurnedFacts
        <5> QED
          BY <3>2, <5>2 DEF Story
      <4>3. d.on \cap Played = {}
        BY <2>2, <4>1, <4>2
      <4> QED
        BY <2>1, <2>4, <4>3
    <3> QED
      BY <3>1, <3>2
  <2> QED
    BY <2>3, <2>4
<1>3. CASE ~moving.playing
  <2> SUFFICES ASSUME s = hub.slot, ~(c.hold > 0 /\ c.allOff)
               PROVE  n.on \cap Played \subseteq held
    BY <1>3
  <2>1. q = b /\ (moving.countin => n = b) /\ (~moving.countin => IF sent THEN n.on = d.on ELSE n = b)
        /\ ~(moving.countin /\ sent)
    BY <1>3, TurnedFacts DEF Story
  <2>2. CASE c.allOff
    <3>1. c.hold = 0
      BY <2>2, TurnedFacts
    <3>2. sent
      BY <3>1 DEF Story
    <3>3. d.on \cap Played \subseteq held
      BY <2>2, <3>1, <3>2 DEF Story
    <3> QED
      BY <2>1, <3>2, <3>3
  <2>3. CASE ~c.allOff
    <3>1. hub.slot = cb.slot /\ ~cb.allOff /\ ~cb.was
      BY <1>3, <2>3, TurnedFacts
    <3>2. b.on \cap Played \subseteq cb.held
      BY <1>1, <3>1
    <3>3. CASE c.hold = 0
      <4>1. sent
        BY <3>3 DEF Story
      <4>2. d.on \cap Played \subseteq held
        BY <2>1, <3>2, <3>3, <4>1 DEF Story
      <4> QED
        BY <2>1, <4>1, <4>2
    <3>4. CASE c.hold > 0
      <4>1. cb.held = {}
        BY <1>3, <3>1, <3>4, TurnedFacts
      <4>2. b.on \cap Played = {}
        BY <3>2, <4>1
      <4>3. sent => d.on = q.on \ cb.held
        BY <3>4 DEF Story
      <4> QED
        BY <2>1, <4>2, <4>3
    <3> QED
      BY <3>3, <3>4, TurnedFacts
  <2> QED
    BY <2>2, <2>3
<1> QED
  BY <1>2, <1>3

LEMMA RememberedStep ==
  ASSUME ConstantsAreSound, Typed, Counted, NEW c, Turned(c), NEW t, NEW held, NEW s, NEW b, NEW q,
         NEW d, NEW n, NEW sent \in BOOLEAN, Seen(t, b, s), Story(c, held, s, b, q, d, n, sent),
         t \notin odd.clipped, ~(c.hold > 0 /\ c.rel # cb.slot /\ s = cb.slot)
  PROVE  n.on \cap Played \subseteq (IF s = hub.slot THEN held ELSE {})
<1>1. s \in Nat \ {0} /\ b.on \cap Played \subseteq (IF s = cb.slot THEN cb.held ELSE {})
  BY DEF Seen
<1>2. CASE moving.playing
  BY <1>2, ReleasedStep
<1>3. CASE ~moving.playing
  <2>1. q = b /\ (moving.countin => n = b) /\ (~moving.countin => IF sent THEN n.on = d.on ELSE n = b)
        /\ ~(moving.countin /\ sent) /\ c.hold = c.left
    BY <1>3, TurnedFacts DEF Story
  <2>2. CASE c.hold = 0
    <3>1. sent <=> s = hub.slot
      BY <2>2 DEF Story
    <3>2. ~Leaves
      BY <2>1, <2>2, TurnedFacts
    <3>3. CASE s = hub.slot
      <4>1. c.allOff \/ q.on \cap Played \subseteq cb.held
        BY <1>1, <2>1
      <4>2. d.on \cap Played \subseteq held
        BY <2>2, <3>1, <3>3, <4>1 DEF Story
      <4> QED
        BY <2>1, <3>1, <3>3, <4>2
    <3>4. CASE s # hub.slot
      <4>1. s # cb.slot
        BY <1>1, <3>2, <3>4, TurnedFacts
      <4> QED
        BY <1>1, <2>1, <3>1, <3>4, <4>1
    <3> QED
      BY <3>3, <3>4
  <2>3. CASE c.hold > 0
    <3>1. sent <=> s = c.rel
      BY <2>3 DEF Story
    <3>2. sent => d.on = q.on \ cb.held
      BY <2>3 DEF Story
    <3>3. CASE sent
      <4>1. d.on \cap Played = {}
        BY <1>1, <2>1, <3>2, <3>3
      <4> QED
        BY <2>1, <3>3, <4>1
    <3>4. CASE ~sent
      <4>1. s # cb.slot
        BY <2>3, <3>1, <3>4
      <4> QED
        BY <1>1, <2>1, <3>4, <4>1
    <3> QED
      BY <3>3, <3>4
  <2> QED
    BY <2>2, <2>3, TurnedFacts
<1> QED
  BY <1>2, <1>3

LEMMA ClipEndsStep ==
  ASSUME ConstantsAreSound, Typed, Counted, NEW c, Turned(c), NEW t, NEW held, NEW s, NEW b, NEW q,
         NEW d, NEW n, NEW sent \in BOOLEAN, Seen(t, b, s), Story(c, held, s, b, q, d, n, sent),
         s = hub.slot, ~moving.playing, Clip \in n.on
  PROVE  c.hold > 0 /\ c.allOff
<1>1. q = b /\ (moving.countin => n = b) /\ (~moving.countin => IF sent THEN n.on = d.on ELSE n = b)
      /\ ~(moving.countin /\ sent)
  BY TurnedFacts DEF Story
<1>2. s = cb.slot /\ ~cb.was /\ Clip \in b.on => cb.allOff
  BY DEF Seen
<1>3. c.hold = 0 => sent /\ (Clip \in d.on <=> Clip \in q.on /\ ~c.allOff)
  BY DEF Story
<1>4. c.hold > 0 /\ sent => d.on = q.on \ cb.held
  BY DEF Story
<1>5. Clip \in b.on
  <2>1. CASE c.hold = 0
    BY <1>1, <1>3, <2>1
  <2>2. CASE c.hold > 0
    BY <1>1, <1>4, <2>2
  <2> QED
    BY <2>1, <2>2, TurnedFacts
<1>6. c.allOff
  BY <1>2, <1>5, TurnedFacts
<1>7. c.hold # 0
  <2> SUFFICES ASSUME c.hold = 0 PROVE FALSE
    OBVIOUS
  <2>1. sent /\ Clip \notin d.on
    BY <1>3, <1>6
  <2> QED
    BY <1>1, <2>1
<1> QED
  BY <1>6, <1>7, TurnedFacts

LEMMA TailsEndStep ==
  ASSUME ConstantsAreSound, Typed, Counted, NEW c, Turned(c), NEW t, NEW held, NEW s, NEW b, NEW q,
         NEW d, NEW n, NEW sent \in BOOLEAN, Seen(t, b, s), Story(c, held, s, b, q, d, n, sent),
         t \notin odd.clipped, ~(Leaves /\ cb.rel # NoSlot /\ s = cb.rel), n.tail > 0, s # hub.slot
  PROVE  s = c.rel /\ c.left > 1 /\ n.tail <= c.left - 1
<1>1. /\ s \in Nat \ {0} /\ b.on \cap Played \subseteq (IF s = cb.slot THEN cb.held ELSE {})
      /\ b.tail > 0 /\ s # cb.slot => s = cb.rel /\ b.tail <= cb.left
      /\ b.tail \in 0..Release
  BY DEF Seen, NodeState
<1>2. q.tail \in 0..Release /\ d.tail \in 0..Release /\ n.tail \in 0..Release
  BY DEF Story, NodeState
<1>3. s # cb.slot => q.tail = b.tail /\ q.on \cap Played = {}
  <2> SUFFICES ASSUME s # cb.slot PROVE q.tail = b.tail /\ q.on \cap Played = {}
    OBVIOUS
  <2>1. b.on \cap Played = {}
    BY <1>1
  <2>2. CASE Starts
    BY <2>1, <2>2 DEF Story
  <2>3. CASE ~Starts
    BY <2>1, <2>3 DEF Story
  <2> QED
    BY <2>2, <2>3
<1>4. s = cb.slot => Leaves
  BY <1>1, TurnedFacts
<1>5. CASE sent
  <2>1. c.hold > 0 /\ s = c.rel
    BY <1>5 DEF Story
  <2>2. n.tail = OneLess(d.tail)
    BY <1>5, TurnedFacts DEF Story
  <2>3. n.tail = d.tail - 1
    BY <1>2, <2>2 DEF OneLess
  <2>4. CASE Leaves
    <3>1. c.left = Release + 1
      BY <2>4, TurnedFacts
    <3> QED
      BY <1>2, <2>1, <2>3, <3>1, TurnedFacts
  <2>5. CASE ~Leaves
    <3>1. s # cb.slot /\ s = cb.rel /\ c.left = cb.left
      BY <1>4, <2>1, <2>5, TurnedFacts
    <3>2. d.tail = q.tail
      <4>1. q.on \cap cb.held \cap Played = {}
        BY <1>3, <3>1
      <4> QED
        BY <1>5, <2>1, <4>1 DEF Story
    <3>3. d.tail <= c.left
      BY <1>1, <1>2, <1>3, <2>3, <3>1, <3>2
    <3> QED
      BY <1>2, <2>1, <2>3, <3>3, TurnedFacts
  <2> QED
    BY <2>4, <2>5
<1>6. CASE ~sent
  <2>1. d = q /\ s # (IF c.hold > 0 THEN c.rel ELSE hub.slot)
    BY <1>6 DEF Story
  <2>2. s # cb.slot
    <3> SUFFICES ASSUME s = cb.slot PROVE FALSE
      OBVIOUS
    <3>1. Leaves
      BY <1>4
    <3>2. c.rel = s /\ c.hold > 0
      BY <3>1, TurnedFacts
    <3> QED
      BY <2>1, <3>2
  <2>3. b.tail > 0 /\ n.tail <= b.tail /\ (moving.playing => n.tail = b.tail - 1)
    <3>1. CASE moving.playing
      <4>1. n.tail = OneLess(b.tail)
        BY <1>3, <2>1, <2>2, <3>1 DEF Story
      <4> QED
        BY <1>1, <1>2, <4>1 DEF OneLess
    <3>2. CASE ~moving.playing
      <4>1. n = b
        BY <1>6, <3>2 DEF Story
      <4> QED
        BY <1>1, <3>2, <4>1
    <3> QED
      BY <3>1, <3>2
  <2>4. s = cb.rel /\ b.tail <= cb.left
    BY <1>1, <2>2, <2>3
  <2>5. ~Leaves
    BY <1>1, <2>4, TurnedFacts
  <2>6. c.rel = s /\ c.left = cb.left
    BY <2>4, <2>5, TurnedFacts
  <2>7. c.hold = 0
    BY <2>1, <2>6, TurnedFacts
  <2>8. moving.playing
    BY <1>1, <2>6, <2>7, TurnedFacts
  <2> QED
    BY <1>1, <1>2, <2>3, <2>4, <2>6, <2>8, TurnedFacts
<1> QED
  BY <1>5, <1>6

----------------------------------------------------------------------------
(* A block keeps the invariant.                                            *)

LEMMA BlockKeepsNodes ==
  ASSUME ConstantsAreSound, Typed, Playing, NEW rows, NEW c, NEW there, NEW p, NEW y,
         Blocked(rows, c, there, p, y)
  PROVE  Released' /\ Remembered' /\ ClipEnds' /\ TailsEnd'
<1>1. /\ Turned(c) /\ graph' = rows /\ cb'.slot = hub.slot /\ cb'.held = y.held /\ cb'.was = moving.playing
      /\ cb'.allOff <=> c.hold > 0 /\ c.allOff
      /\ cb'.rel = IF c.left > 1 THEN c.rel ELSE NoSlot
      /\ cb'.left = IF c.left > 0 THEN c.left - 1 ELSE 0
      /\ odd'.clipped = {t \in odd.clipped \cup Replaced(rows) \cup Missed(c, rows) : Restless(nodes'[t])}
      /\ nodes' \in [Tracks -> NodeState]
      /\ Counted
  BY DEF Blocked, Renders, Playing
<1>2. \A t : There(t)' <=> t \in DOMAIN rows /\ rows[t].slot = hub.slot
  BY <1>1 DEF There
<1>3. \A t : KeysOf(t)' = nodes'[t].on \cap Played
  BY DEF KeysOf
<1>4. Quiet.on = {} /\ Quiet.tail = 0
  BY DEF Quiet
<1>5. ASSUME NEW t \in Tracks, t \notin odd'.astray, nodes'[t] # Quiet
      PROVE  /\ t \in DOMAIN rows
             /\ IF rows[t].slot = hub.slot
                THEN KeysOf(t)' \subseteq cb'.held \/ (~cb'.was /\ cb'.allOff)
                ELSE KeysOf(t)' = {} \/ ~cb'.was
             /\ rows[t].slot = hub.slot /\ ~cb'.was /\ Clip \in nodes'[t].on => cb'.allOff
  <2>1. /\ t \in DOMAIN rows /\ Seen(t, Before(rows)[t], rows[t].slot)
        /\ Story(c, y.held, rows[t].slot, Before(rows)[t], p[t], y.nodes[t], nodes'[t], t \in there)
    BY <1>5, StoryAt
  <2> DEFINE s == rows[t].slot
             b == Before(rows)[t]
             q == p[t]
             d == y.nodes[t]
             n == nodes'[t]
             held == y.held
             sent == t \in there
  <2>2. sent \in BOOLEAN /\ Seen(t, b, s) /\ Story(c, held, s, b, q, d, n, sent)
    BY <2>1
  <2>3. s = rows[t].slot /\ n = nodes'[t] /\ held = cb'.held
    BY <1>1
  <2> HIDE DEF s, b, q, d, n, held, sent
  <2>4. IF s = hub.slot THEN n.on \cap Played \subseteq held \/ (~moving.playing /\ c.hold > 0 /\ c.allOff)
        ELSE n.on \cap Played = {} \/ ~moving.playing
    BY <1>1, <2>2, ReleasedStep
  <2>5. s = hub.slot /\ ~moving.playing /\ Clip \in n.on => c.hold > 0 /\ c.allOff
    BY <1>1, <2>2, ClipEndsStep
  <2> QED
    BY <1>1, <1>3, <2>1, <2>3, <2>4, <2>5
<1>6. ASSUME NEW t \in Tracks, t \notin odd'.astray, t \notin odd'.clipped, nodes'[t] # Quiet,
             Restless(nodes'[t])
      PROVE  /\ t \in DOMAIN rows
             /\ KeysOf(t)' \subseteq (IF rows[t].slot = hub.slot THEN cb'.held ELSE {})
             /\ nodes'[t].tail > 0 /\ rows[t].slot # hub.slot =>
                  rows[t].slot = cb'.rel /\ nodes'[t].tail <= cb'.left
  <2>1. /\ t \in DOMAIN rows /\ Seen(t, Before(rows)[t], rows[t].slot)
        /\ Story(c, y.held, rows[t].slot, Before(rows)[t], p[t], y.nodes[t], nodes'[t], t \in there)
    BY <1>6, StoryAt
  <2>2. t \notin odd.clipped /\ t \notin Replaced(rows) /\ t \notin Missed(c, rows)
    BY <1>1, <1>6
  <2> DEFINE s == rows[t].slot
             b == Before(rows)[t]
             q == p[t]
             d == y.nodes[t]
             n == nodes'[t]
             held == y.held
             sent == t \in there
  <2>3. ~(c.hold > 0 /\ c.rel # cb.slot /\ s = cb.slot)
    <3>1. Outgoing(c) = (IF c.hold > 0 THEN c.rel ELSE NoSlot) /\ (Outgoing(c) # NoSlot <=> c.hold > 0)
      BY <1>1 DEF Turned
    <3> QED
      BY <2>1, <2>2, <3>1 DEF Missed, InSlot
  <2>4. ~(Leaves /\ cb.rel # NoSlot /\ s = cb.rel)
    BY <2>1, <2>2 DEF Replaced, InSlot, Leaves
  <2>5. sent \in BOOLEAN /\ Seen(t, b, s) /\ Story(c, held, s, b, q, d, n, sent)
    BY <2>1
  <2>6. s = rows[t].slot /\ n = nodes'[t] /\ held = cb'.held
    BY <1>1
  <2> HIDE DEF s, b, q, d, n, held, sent
  <2>7. n.on \cap Played \subseteq (IF s = hub.slot THEN held ELSE {})
    BY <1>1, <2>2, <2>3, <2>5, RememberedStep
  <2>8. n.tail > 0 /\ s # hub.slot => s = c.rel /\ c.left > 1 /\ n.tail <= c.left - 1
    BY <1>1, <2>2, <2>4, <2>5, TailsEndStep
  <2>9. c.left \in Nat
    BY <1>1 DEF Turned, CbState
  <2> QED
    BY <1>1, <1>3, <2>1, <2>6, <2>7, <2>8, <2>9
<1>7. Released'
  <2> SUFFICES ASSUME NEW t \in Tracks, t \notin odd'.astray
               PROVE  IF There(t)' THEN KeysOf(t)' \subseteq cb'.held \/ (~cb'.was /\ cb'.allOff)
                      ELSE KeysOf(t)' = {} \/ ~cb'.was
    BY DEF Released
  <2>1. CASE nodes'[t] = Quiet
    BY <1>3, <1>4, <2>1
  <2>2. CASE nodes'[t] # Quiet
    BY <1>2, <1>5, <2>2
  <2> QED
    BY <2>1, <2>2
<1>8. ClipEnds'
  <2> SUFFICES ASSUME NEW t \in Tracks, t \notin odd'.astray, There(t)', ~cb'.was, Clip \in nodes'[t].on
               PROVE  cb'.allOff
    BY DEF ClipEnds
  <2>1. nodes'[t] # Quiet
    BY <1>4
  <2> QED
    BY <1>2, <1>5, <2>1
<1>9. \A t \in Tracks : t \notin odd'.astray \cup odd'.clipped /\ ~Restless(nodes'[t]) =>
        KeysOf(t)' = {} /\ ~(nodes'[t].tail > 0)
  BY <1>3 DEF Restless
<1>10. Remembered'
  <2> SUFFICES ASSUME NEW t \in Tracks, t \notin odd'.astray \cup odd'.clipped
               PROVE  KeysOf(t)' \subseteq (IF There(t)' THEN cb'.held ELSE {})
    BY DEF Remembered
  <2>1. CASE nodes'[t] = Quiet \/ ~Restless(nodes'[t])
    BY <1>3, <1>4, <1>9, <2>1
  <2>2. CASE nodes'[t] # Quiet /\ Restless(nodes'[t])
    BY <1>2, <1>6, <2>2
  <2> QED
    BY <2>1, <2>2
<1>11. TailsEnd'
  <2> SUFFICES ASSUME NEW t \in Tracks, t \notin odd'.astray \cup odd'.clipped, nodes'[t].tail > 0
               PROVE  /\ t \in DOMAIN rows
                      /\ rows[t].slot # hub.slot => rows[t].slot = cb'.rel /\ nodes'[t].tail <= cb'.left
    BY <1>1 DEF TailsEnd
  <2>1. nodes'[t] # Quiet /\ Restless(nodes'[t])
    BY <1>4 DEF Restless
  <2> QED
    BY <1>6, <2>1
<1> QED
  BY <1>7, <1>8, <1>10, <1>11

LEMMA BlockKeepsPlaying ==
  ASSUME ConstantsAreSound, Typed, Playing, NEW rows, NEW c, NEW there, NEW p, NEW y,
         Blocked(rows, c, there, p, y)
  PROVE  Playing'
<1>1. Counted'
  <2>1. /\ cb'.hold <= cb'.left /\ cb'.left <= Window /\ (cb'.rel = NoSlot <=> cb'.left = 0)
        /\ cb'.was = moving.playing /\ (~moving.playing => cb'.hold = cb'.left)
        /\ cb'.held = y.held /\ (cb'.hold > 0 => c.hold > 0) /\ (c.hold > 0 => y.held = {})
    BY DEF Blocked, Sends
  <2> QED
    BY <2>1 DEF Counted, NoSlot, Window
<1>2. Absent'
  <2> SUFFICES ASSUME NEW t \in Tracks, t \notin DOMAIN rows PROVE nodes'[t] = Quiet
    BY DEF Absent, Blocked, Quiet
  <2>1. t \notin Same(rows)
    BY DEF Same
  <2>2. Before(rows)[t] = Quiet /\ nodes'[t] = Before(rows)[t]
    BY <2>1, BeforeIs DEF Blocked, Renders
  <2> QED
    BY <2>2
<1>3. Agreed'
  <2>1. /\ engine'.kept = engine.kept /\ engine'.made = engine.made /\ engine'.slots = engine.slots
        /\ engine'.ready \in {<<>>, engine.ready} /\ graph' = rows
        /\ rows = graph \/ engine.ready = <<rows>>
        /\ engine.ready \in {<<>>, <<Rows(engine.kept, engine.made, engine.slots)>>}
        /\ rows \in Tables
    BY DEF Blocked, Playing, Agreed, Typed
  <2>2. engine'.ready \in {<<>>, <<Rows(engine'.kept, engine'.made, engine'.slots)>>}
    BY <2>1
  <2>3. ASSUME NEW t \in DOMAIN rows, t \notin odd'.astray
        PROVE  rows[t].slot = engine.slots[t]
    <3>1. CASE rows = graph /\ t \notin odd.astray
      BY <2>3, <3>1 DEF Playing, Agreed
    <3>2. CASE engine.ready = <<rows>>
      <4>1. rows = Rows(engine.kept, engine.made, engine.slots)
        BY <2>1, <3>2
      <4>2. t \in engine.kept
        BY <4>1 DEF Rows
      <4> QED
        BY <4>1, <4>2 DEF Rows
    <3>3. CASE t \in odd.astray
      <4>1. rows = Rows(DOMAIN rows, engine.made, engine.slots)
        BY <2>3, <3>3 DEF Blocked
      <4> QED
        BY <4>1 DEF Rows
    <3> QED
      BY <2>1, <3>1, <3>2, <3>3
  <2> QED
    BY <2>1, <2>2, <2>3 DEF Agreed, Rows
<1>4. Owed'
  <2>1. /\ Owed /\ moving.playing \in BOOLEAN /\ cb.was \in BOOLEAN /\ odd.owed \in BOOLEAN
        /\ Turned(c) /\ Counted
        /\ cb'.was = moving.playing /\ (cb'.allOff <=> c.hold > 0 /\ c.allOff)
        /\ odd'.owed <=> moving.playing /\ (Starts \/ odd.owed) /\ cb'.allOff
        /\ odd'.cut <=> odd.cut \/ (moving.playing /\ ~odd.owed
                                     /\ \E t \in there : Clip \in p[t].on \ y.nodes[t].on)
        /\ there \subseteq Tracks
    BY DEF Blocked, Playing, Typed, CbState
  <2>2. /\ moving.playing => (c.allOff <=> cb.allOff)
        /\ Starts <=> moving.playing /\ ~cb.was
        /\ c.hold \in Nat /\ Clip \notin Played /\ cb.held \subseteq Played
    BY <2>1, TurnedFacts
  <2>3. cb'.was /\ cb'.allOff => odd'.owed
    BY <2>1, <2>2 DEF Owed
  <2>4. ASSUME moving.playing, ~odd.owed, NEW t \in there, Clip \in p[t].on, Clip \notin y.nodes[t].on
        PROVE  FALSE
    <3>1. t \in Tracks /\ ~Starts
      <4>1. t \in Tracks
        BY <2>1
      <4>2. Starts => p[t].on = {}
        BY <4>1 DEF Blocked, Primes
      <4> QED
        BY <2>4, <4>1, <4>2
    <3>2. ~cb.allOff /\ ~c.allOff
      BY <2>1, <2>2, <2>4, <3>1 DEF Owed
    <3>3. CASE c.hold = 0
      <4>1. Clip \in y.nodes[t].on <=> Clip \in p[t].on /\ ~c.allOff
        BY <3>3 DEF Blocked, Sends
      <4> QED
        BY <2>4, <3>2, <4>1
    <3>4. CASE c.hold > 0
      <4>1. y.nodes[t].on = p[t].on \ cb.held
        BY <3>4 DEF Blocked, Sends
      <4> QED
        BY <2>2, <2>4, <4>1
    <3> QED
      BY <2>2, <3>3, <3>4
  <2>5. ~odd'.cut
    BY <2>1, <2>4 DEF Owed
  <2> QED
    BY <2>3, <2>5 DEF Owed
<1> QED
  BY <1>1, <1>2, <1>3, <1>4, BlockKeepsNodes DEF Playing

LEMMA RestOfRing ==
  ASSUME ConstantsAreSound, ring \in Seq(Message), NEW rest1, rest1 = SubSeq(ring, Popped + 1, Len(ring))
  PROVE  /\ Popped \in 0..Len(ring) /\ Len(ring) \in Nat /\ DOMAIN ring = 1..Len(ring)
         /\ rest1 \in Seq(Message) /\ Len(rest1) = Len(ring) - Popped
         /\ DOMAIN rest1 = 1..(Len(ring) - Popped)
         /\ \A i \in 1..(Len(ring) - Popped) : rest1[i] = ring[i + Popped]
<1>1. Popped \in 0..Len(ring) /\ Len(ring) \in Nat /\ DOMAIN ring = 1..Len(ring)
  BY KeysAreApart DEF Popped
<1> DEFINE m == Popped + 1
           n == Len(ring)
<1>2. m \in 1..(Len(ring) + 1) /\ n \in (m - 1)..Len(ring) /\ n - m + 1 = Len(ring) - Popped
      /\ \A i \in 1..(Len(ring) - Popped) : m + i - 1 = i + Popped
  BY <1>1
<1>3. rest1 = SubSeq(ring, m, n) /\ m \in Int /\ n \in Int /\ (IF m <= n THEN n - m + 1 ELSE 0) = n - m + 1
      /\ \A i \in m..n : ring[i] \in Message
  <2>1. rest1 = SubSeq(ring, m, n)
    OBVIOUS
  <2>2. m \in Int /\ n \in Int /\ n = Len(ring) /\ 1 <= m /\ m <= n + 1
    BY <1>1
  <2>3. \A i \in 1..Len(ring) : ring[i] \in Message
    OBVIOUS
  <2> HIDE DEF m, n
  <2>4. (IF m <= n THEN n - m + 1 ELSE 0) = n - m + 1
    BY <2>2
  <2>5. \A i \in m..n : i \in 1..Len(ring)
    BY <2>2
  <2> QED
    BY <2>1, <2>2, <2>3, <2>4, <2>5
<1> HIDE DEF m, n
<1>4. /\ rest1 \in Seq(Message) /\ Len(rest1) = n - m + 1
      /\ \A i \in 1..(n - m + 1) : rest1[i] = ring[m + i - 1]
  <2>1. /\ SubSeq(ring, m, n) \in Seq(Message)
        /\ Len(SubSeq(ring, m, n)) = IF m <= n THEN n - m + 1 ELSE 0
        /\ \A i \in 1..(n - m + 1) : SubSeq(ring, m, n)[i] = ring[m + i - 1]
    BY <1>3, SubSeqProperties
  <2> QED
    BY <1>3, <2>1
<1>5. DOMAIN rest1 = 1..Len(rest1)
  BY <1>4
<1> QED
  BY <1>1, <1>2, <1>4, <1>5

LEMMA BlockKeepsRings ==
  ASSUME ConstantsAreSound, Typed, NEW rows, NEW c, NEW there, NEW p, NEW y,
         Blocked(rows, c, there, p, y), NEW k \in Played, Rings(k)'
  PROVE  Rings(k) /\ (k \in odd.lost => k \in odd'.lost)
<1>1. /\ ring \in Seq(Message) /\ ring' = SubSeq(ring, Popped + 1, Len(ring)) /\ cb'.held = y.held
      /\ odd'.lost = {x \in odd.lost : ring' # <<>> \/ \E t \in Tracks : x \in nodes'[t].on}
      /\ nodes \in [Tracks -> NodeState]
  BY DEF Typed, Blocked
<1> DEFINE later == ring'
           n == Len(ring)
           m == Popped
<1>2. /\ m \in 0..n /\ n \in Nat /\ DOMAIN ring = 1..n
      /\ later \in Seq(Message) /\ Len(later) = n - m /\ DOMAIN later = 1..(n - m)
      /\ \A i \in 1..(n - m) : later[i] = ring[i + m]
  BY <1>1, RestOfRing
<1>3. \/ /\ k \in y.held /\ \E t \in Tracks : k \in nodes'[t].on
         /\ \A j \in DOMAIN later : ~Ends(later[j], k)
      \/ \E i \in DOMAIN later : later[i] = On(k) /\ \A j \in DOMAIN later : j > i => ~Ends(later[j], k)
  BY <1>1 DEF Rings, Ends, On
<1>4. k \in odd.lost => k \in odd'.lost
  <2>1. ring' # <<>> \/ \E t \in Tracks : k \in nodes'[t].on
    BY <1>3
  <2> QED
    BY <1>1, <2>1
<1> HIDE DEF later, n, m
<1>5. CASE \E i \in DOMAIN later : later[i] = On(k) /\ \A j \in DOMAIN later : j > i => ~Ends(later[j], k)
  <2>1. PICK i \in 1..(n - m) : later[i] = On(k) /\ \A j \in 1..(n - m) : j > i => ~Ends(later[j], k)
    BY <1>2, <1>5
  <2>2. i + m \in 1..n /\ ring[i + m] = On(k)
    BY <1>2, <2>1
  <2>3. ASSUME NEW j \in 1..n, j > i + m PROVE ~Ends(ring[j], k)
    <3>1. j - m \in 1..(n - m) /\ j - m > i /\ (j - m) + m = j
      BY <1>2, <2>3
    <3> QED
      BY <1>2, <2>1, <3>1
  <2> QED
    BY <1>2, <1>4, <2>2, <2>3 DEF Rings
<1>6. CASE /\ k \in y.held /\ \E t \in Tracks : k \in nodes'[t].on
           /\ \A j \in DOMAIN later : ~Ends(later[j], k)
  <2>1. \A j \in 1..n : j > m => ~Ends(ring[j], k)
    <3> TAKE j \in 1..n
    <3> HAVE j > m
    <3>1. j - m \in 1..(n - m) /\ (j - m) + m = j
      BY <1>2
    <3> QED
      BY <1>2, <1>6, <3>1
  <2>2. \/ k \in cb.held /\ \A l \in 1..m : ~Ends(ring[l], k)
        \/ Struck(k, m)
    BY <1>6 DEF Blocked, Sends, m
  <2>3. CASE Struck(k, m)
    <3>1. PICK i \in 1..m : ring[i] = On(k) /\ \A l \in 1..m : l > i => ~Ends(ring[l], k)
      BY <2>3 DEF Struck
    <3>2. \A l \in 1..n : l > i => ~Ends(ring[l], k)
      BY <1>2, <2>1, <3>1
    <3> QED
      BY <1>2, <1>4, <3>1, <3>2 DEF Rings
  <2>4. CASE k \in cb.held /\ \A l \in 1..m : ~Ends(ring[l], k)
    <3>1. \A l \in 1..n : ~Ends(ring[l], k)
      <4> TAKE l \in 1..n
      <4>1. CASE l > m
        BY <2>1, <4>1
      <4>2. CASE ~(l > m)
        <5>1. l \in 1..m
          BY <1>2, <4>2
        <5> QED
          BY <2>4, <5>1
      <4> QED
        BY <4>1, <4>2
    <3>2. CASE \E j \in 1..m : ring[j] = On(k)
      BY <1>2, <1>4, <3>1, <3>2 DEF Rings
    <3>3. CASE \A j \in 1..m : ring[j] # On(k)
      <4>1. PICK t \in Tracks : k \in nodes'[t].on
        BY <1>6
      <4>2. k \in y.nodes[t].on => k \in p[t].on
        BY <3>3 DEF Blocked, Sends, m
      <4>3. k \in p[t].on => k \in Before(rows)[t].on
        BY DEF Blocked, Primes
      <4>4. k \in y.nodes[t].on \/ k \in Before(rows)[t].on
        <5>1. /\ moving.countin \/ t \notin DOMAIN rows => nodes'[t] = Before(rows)[t]
              /\ moving.playing /\ t \in DOMAIN rows =>
                   nodes'[t].on \cap Played = y.nodes[t].on \cap Played
              /\ ~moving.playing /\ ~moving.countin /\ t \in DOMAIN rows =>
                   IF t \in there THEN nodes'[t].on = y.nodes[t].on ELSE nodes'[t] = Before(rows)[t]
          BY DEF Blocked, Renders
        <5> QED
          BY <4>1, <5>1
      <4>5. k \in Before(rows)[t].on
        BY <4>2, <4>3, <4>4
      <4>6. Before(rows)[t] = IF t \in Same(rows) THEN nodes[t] ELSE Quiet
        BY BeforeIs
      <4>7. k \in nodes[t].on
        BY <4>5, <4>6 DEF Quiet
      <4> QED
        BY <1>2, <1>4, <2>4, <3>1, <4>7 DEF Rings
    <3> QED
      BY <3>2, <3>3
  <2> QED
    BY <2>2, <2>3, <2>4
<1> QED
  BY <1>3, <1>5, <1>6

LEMMA BlockKeepsTypes ==
  ASSUME ConstantsAreSound, Typed, Playing, NEW rows, NEW c, NEW there, NEW p, NEW y,
         Blocked(rows, c, there, p, y)
  PROVE  Typed'
<1>1. /\ rows \in Tables /\ graph' = rows /\ there \subseteq Tracks
      /\ UNCHANGED <<down, port, ui, preview, hub, song, moving>>
      /\ ring' = SubSeq(ring, Popped + 1, Len(ring)) /\ cb' \in CbState
      /\ nodes' \in [Tracks -> NodeState]
      /\ engine' = [engine EXCEPT !.ready = engine'.ready] /\ engine'.ready \in {<<>>, engine.ready}
  BY DEF Blocked, Renders, outside
<1>2. ring' \in Seq(Message) /\ Len(ring') <= RingSlots
  <2>1. ring \in Seq(Message) /\ Len(ring) <= RingSlots /\ RingSlots \in Nat
    BY KeysAreApart DEF Typed
  <2>2. ring' \in Seq(Message) /\ Len(ring') = Len(ring) - Popped /\ Popped \in 0..Len(ring)
    BY <1>1, <2>1, RestOfRing
  <2> QED
    BY <2>1, <2>2
<1>3. odd' \in [lost : SUBSET Played, astray : SUBSET Tracks, clipped : SUBSET Tracks,
                owed : BOOLEAN, cut : BOOLEAN]
  <2>1. odd.lost \subseteq Played /\ odd.astray \subseteq Tracks /\ odd.clipped \subseteq Tracks
        /\ moving.playing \in BOOLEAN /\ odd.cut \in BOOLEAN
    BY DEF Typed
  <2>2. Replaced(rows) \subseteq Tracks /\ Missed(c, rows) \subseteq Tracks
    BY <1>1, TablesAre DEF Replaced, Missed, InSlot
  <2>3. odd'.lost \subseteq Played /\ odd'.astray \subseteq Tracks /\ odd'.clipped \subseteq Tracks
    BY <1>1, <2>1, <2>2 DEF Blocked
  <2>4. odd' = [lost |-> odd'.lost, astray |-> odd'.astray, clipped |-> odd'.clipped,
                owed |-> odd'.owed, cut |-> odd'.cut]
    BY DEF Blocked
  <2>5. odd'.owed \in BOOLEAN /\ odd'.cut \in BOOLEAN
    BY DEF Blocked
  <2> QED
    BY <2>3, <2>4, <2>5
<1>4. engine' \in [pc : {"idle", "rebuild", "refresh", "store"}, live : Somewhere, want : Somewhere,
                   slots : Places, kept : SUBSET Tracks, made : [Tracks -> Nat],
                   ready : {<<>>} \cup {<<r>> : r \in Tables}]
  <2>1. engine \in [pc : {"idle", "rebuild", "refresh", "store"}, live : Somewhere, want : Somewhere,
                    slots : Places, kept : SUBSET Tracks, made : [Tracks -> Nat],
                    ready : {<<>>} \cup {<<r>> : r \in Tables}]
    BY DEF Typed
  <2>2. engine'.ready \in {<<>>} \cup {<<r>> : r \in Tables}
    BY <1>1, <2>1
  <2> HIDE DEF Tables
  <2> QED
    BY <1>1, <2>1, <2>2
<1> QED
  BY <1>1, <1>2, <1>3, <1>4 DEF Typed

LEMMA BlockKeeps ==
  ASSUME ConstantsAreSound, IInv, Block
  PROVE  IInv'
<1>1. Typed /\ Playing /\ Counted
  BY DEF IInv, Playing
<1>2. PICK rows, c, there, p, y : Blocked(rows, c, there, p, y)
  BY <1>1, BlockDoes
<1>3. UNCHANGED <<down, port, ui, preview, hub, song, moving>>
  BY <1>2 DEF Blocked, outside
<1>4. Typed' /\ Playing'
  BY <1>1, <1>2, BlockKeepsTypes, BlockKeepsPlaying
<1>5. Resolved'
  <2>1. engine'.pc = engine.pc /\ engine'.want = engine.want /\ engine'.slots = engine.slots
    BY <1>1, <1>2 DEF Blocked, Typed
  <2> QED
    BY <1>3, <2>1 DEF IInv, Resolved, SlotOf, Unread
<1>6. \A k \in Played : Rings(k)' => Rings(k) /\ (k \in odd.lost => k \in odd'.lost)
  BY <1>1, <1>2, BlockKeepsRings
<1>7. \A k : Excused(k)' <=> Excused(k)
  BY <1>3 DEF Excused, Off
<1>8. Heeded'
  <2> SUFFICES ASSUME NEW k \in Played, Rings(k)'
               PROVE  k \in odd'.lost \/ (ui'.pc # "drop" /\ Excused(k)')
    BY DEF Heeded, Played
  <2> QED
    BY <1>3, <1>6, <1>7 DEF IInv, Heeded
<1>9. UnderWay'
  <2>1. ui.pc = "sound" /\ Rings(Tried)' => Tried \in odd'.lost
    BY <1>6, KeysAreApart DEF IInv, UnderWay
  <2> QED
    BY <1>3, <2>1 DEF IInv, UnderWay, Holding, AllOff
<1> QED
  BY <1>4, <1>5, <1>8, <1>9 DEF IInv

----------------------------------------------------------------------------
(* The other steps keep the invariant: what all of them leave alone.       *)

LEMMA PlayingStays ==
  ASSUME Playing, UNCHANGED <<cb, graph, nodes>>,
         engine'.slots = engine.slots, engine'.kept = engine.kept, engine'.made = engine.made,
         engine'.ready = engine.ready, odd'.astray = odd.astray, odd'.clipped = odd.clipped,
         odd'.owed = odd.owed, odd'.cut = odd.cut
  PROVE  Playing'
<1>1. Counted' /\ Absent' /\ Owed'
  BY DEF Playing, Counted, Absent, Owed, Window, Quiet, NoSlot
<1>2. Agreed'
  BY DEF Playing, Agreed, Rows
<1>3. \A t : (There(t)' <=> There(t)) /\ KeysOf(t)' = KeysOf(t)
  BY DEF There, KeysOf, Played
<1>4. Released' /\ Remembered'
  BY <1>3 DEF Playing, Released, Remembered
<1>5. ClipEnds' /\ TailsEnd'
  BY <1>3 DEF Playing, ClipEnds, TailsEnd
<1> QED
  BY <1>1, <1>2, <1>4, <1>5 DEF Playing

LEMMA RingsStay ==
  ASSUME UNCHANGED <<ring, cb, nodes>>
  PROVE  \A k : Rings(k)' <=> Rings(k)
BY DEF Rings, Ends, On, Off, AllOff

(* What a message pushed does: what it ends does not ring, or was lost.    *)
Pushed(e) ==
  /\ ring' \in Seq(Message) /\ Len(ring') <= RingSlots
  /\ odd' = [odd EXCEPT !.lost = odd'.lost] /\ odd.lost \subseteq odd'.lost /\ odd'.lost \subseteq Played
  /\ \A k \in Played : Rings(k)' => k \in odd'.lost \/ (Rings(k) /\ ~Ends(e, k)) \/ (~Full /\ e = On(k))

LEMMA AppendRings ==
  ASSUME ring \in Seq(Message), NEW e \in Message, ring' = Append(ring, e), UNCHANGED <<cb, nodes>>,
         NEW k \in Played, Rings(k)'
  PROVE  (Rings(k) /\ ~Ends(e, k)) \/ e = On(k)
<1> DEFINE n == Len(ring)
           m == n + 1
<1>1. /\ n \in Nat /\ DOMAIN ring = 1..n /\ DOMAIN ring' = 1..m /\ m \in 1..m /\ m > n
      /\ \A i \in 1..n : ring'[i] = ring[i] /\ i \in 1..m /\ m > i
      /\ ring'[m] = e
      /\ \A i \in 1..m : i \in 1..n \/ i = m
  OBVIOUS
<1>2. \/ /\ k \in cb.held /\ \E t \in Tracks : k \in nodes[t].on
         /\ \A j \in DOMAIN ring' : ~Ends(ring'[j], k)
      \/ \E i \in DOMAIN ring' : ring'[i] = On(k) /\ \A j \in DOMAIN ring' : j > i => ~Ends(ring'[j], k)
  BY DEF Rings, Ends, On, Off, AllOff
<1> HIDE DEF n, m
<1>3. CASE /\ k \in cb.held /\ \E t \in Tracks : k \in nodes[t].on
           /\ \A j \in DOMAIN ring' : ~Ends(ring'[j], k)
  <2>1. ~Ends(e, k) /\ \A j \in 1..n : ~Ends(ring[j], k)
    BY <1>1, <1>3
  <2> QED
    BY <1>1, <1>3, <2>1 DEF Rings
<1>4. CASE \E i \in DOMAIN ring' : ring'[i] = On(k) /\ \A j \in DOMAIN ring' : j > i => ~Ends(ring'[j], k)
  <2>1. PICK i \in 1..m : ring'[i] = On(k) /\ \A j \in 1..m : j > i => ~Ends(ring'[j], k)
    BY <1>1, <1>4
  <2>2. CASE i = m
    BY <1>1, <2>1, <2>2
  <2>3. CASE i \in 1..n
    <3>1. ring[i] = On(k) /\ ~Ends(e, k)
      BY <1>1, <2>1, <2>3
    <3>2. \A j \in 1..n : j > i => ~Ends(ring[j], k)
      BY <1>1, <2>1, <2>3
    <3> QED
      BY <1>1, <2>3, <3>1, <3>2 DEF Rings
  <2> QED
    BY <1>1, <2>1, <2>2, <2>3
<1> QED
  BY <1>2, <1>3, <1>4

LEMMA PushDoes ==
  ASSUME ConstantsAreSound, Typed, NEW e \in Message, HubPush(e), UNCHANGED <<cb, nodes>>
  PROVE  Pushed(e)
<1>1. /\ ring \in Seq(Message) /\ Len(ring) \in Nat /\ Len(ring) <= RingSlots /\ RingSlots \in Nat
      /\ odd \in [lost : SUBSET Played, astray : SUBSET Tracks, clipped : SUBSET Tracks,
                  owed : BOOLEAN, cut : BOOLEAN]
  BY KeysAreApart DEF Typed
<1>2. Releases(e) \subseteq Played /\ \A k \in Played : Ends(e, k) => k \in Releases(e)
  <2>1. CASE e = AllOff
    BY <2>1 DEF AllOff, Releases
  <2>2. CASE e \in Note /\ e.kind = "off"
    <3>1. Releases(e) = {e.key} /\ e.key \in Played
      BY <2>2 DEF Releases, Note
    <3>2. \A k \in Played : Ends(e, k) => k = e.key
      BY <2>2 DEF Ends, Off, AllOff, Note
    <3> QED
      BY <3>1, <3>2
  <2>3. CASE e \in Note /\ e.kind = "on"
    <3>1. Releases(e) = {}
      BY <2>3 DEF Releases, Note
    <3>2. \A k \in Played : ~Ends(e, k)
      BY <2>3 DEF Ends, Off, AllOff, Note
    <3> QED
      BY <3>1, <3>2
  <2> QED
    BY <2>1, <2>2, <2>3 DEF Message, Note
<1>3. CASE Full
  <2>1. ring' = ring /\ odd' = [odd EXCEPT !.lost = odd.lost \cup Releases(e)]
    BY <1>3 DEF HubPush
  <2>2. odd'.lost = odd.lost \cup Releases(e)
    BY <1>1, <2>1
  <2>3. \A k : Rings(k)' <=> Rings(k)
    BY <2>1, RingsStay
  <2> QED
    BY <1>1, <1>2, <2>1, <2>2, <2>3 DEF Pushed
<1>4. CASE ~Full
  <2>1. ring' = Append(ring, e) /\ odd' = odd
    BY <1>4 DEF HubPush
  <2>2. ring' \in Seq(Message) /\ Len(ring') = Len(ring) + 1 /\ Len(ring) < RingSlots
    BY <1>1, <1>4, <2>1 DEF Full
  <2>3. odd' = [odd EXCEPT !.lost = odd'.lost]
    BY <1>1, <2>1
  <2>4. \A k \in Played : Rings(k)' => (Rings(k) /\ ~Ends(e, k)) \/ e = On(k)
    BY <1>1, <2>1, AppendRings
  <2> QED
    BY <1>1, <1>4, <2>1, <2>2, <2>3, <2>4 DEF Pushed
<1> QED
  BY <1>3, <1>4

(* All is lost that a release of everything does not end.                  *)
LEMMA PushedAllOff ==
  ASSUME ConstantsAreSound, Pushed(AllOff), NEW k \in Played, Rings(k)'
  PROVE  k \in odd'.lost
BY DEF Pushed, Ends, AllOff, On

LEMMA AllOffIsMessage == AllOff \in Message
BY DEF Message

LEMMA SetTargetDoes ==
  ASSUME ConstantsAreSound, Typed, Heeded, NEW t \in Somewhere, NEW then \in {"idle", "cut"},
         SetTarget(t, then), UNCHANGED <<cb, nodes>>
  PROVE  /\ ring' \in Seq(Message) /\ Len(ring') <= RingSlots
         /\ odd' = [odd EXCEPT !.lost = odd'.lost] /\ odd'.lost \subseteq Played
         /\ hub' = [hub EXCEPT !.target = t] /\ hub'.target = t
         /\ ui' = [ui EXCEPT !.pc = "dirty", !.then = then] /\ ui'.pc = "dirty" /\ ui'.then = then
         /\ t # hub.target => \A k \in Played : Rings(k)' => k \in odd'.lost
         /\ t = hub.target => ring' = ring /\ odd' = odd /\ hub' = hub
<1>1. /\ hub' = [hub EXCEPT !.target = t] /\ hub'.target = t
      /\ ui' = [ui EXCEPT !.pc = "dirty", !.then = then] /\ ui'.pc = "dirty" /\ ui'.then = then
  BY DEF SetTarget, Typed
<1>2. CASE hub.target \notin {NoTrack, t}
  <2>1. HubPush(AllOff)
    BY <1>2 DEF SetTarget
  <2>2. Pushed(AllOff)
    BY <2>1, PushDoes, AllOffIsMessage
  <2>3. \A k \in Played : Rings(k)' => k \in odd'.lost
    BY <2>2, PushedAllOff
  <2> QED
    BY <1>1, <1>2, <2>2, <2>3 DEF Pushed
<1>3. CASE hub.target \in {NoTrack, t}
  <2>1. ring' = ring /\ odd' = odd
    BY <1>3 DEF SetTarget
  <2>2. \A k : Rings(k)' <=> Rings(k)
    BY <2>1, RingsStay
  <2>3. hub.target = NoTrack => \A k \in Played : Rings(k) => k \in odd.lost
    BY DEF Heeded, Excused
  <2>4. /\ ring \in Seq(Message) /\ Len(ring) <= RingSlots /\ odd.lost \subseteq Played
        /\ odd = [odd EXCEPT !.lost = odd.lost]
    BY DEF Typed
  <2>5. t = hub.target => hub' = hub
    BY <1>1 DEF Typed
  <2> QED
    BY <1>1, <1>3, <2>1, <2>2, <2>3, <2>4, <2>5
<1> QED
  BY <1>2, <1>3

----------------------------------------------------------------------------
(* The player, the port's thread and the commands.                         *)

LEMMA StrikeKeeps ==
  ASSUME ConstantsAreSound, IInv, NEW k \in Pitches, Strike(k)
  PROVE  IInv'
<1>1. /\ Typed /\ port.pc = "idle" /\ down' = down \cup {k}
      /\ port' = [port EXCEPT !.pc = IF port.open /\ port.monitor THEN "route" ELSE "idle", !.event = On(k)]
      /\ UNCHANGED <<ui, preview, hub, ring, song, engine, moving, cb, graph, nodes, odd>>
  BY DEF Strike, Arrives, IInv
<1>2. port'.open = port.open /\ port'.monitor = port.monitor /\ port'.event = On(k)
      /\ port'.pc = IF port.open /\ port.monitor THEN "route" ELSE "idle"
  BY <1>1 DEF Typed
<1>3. Typed'
  <2>1. On(k) \in [kind : {"on", "off"}, key : Pitches]
    BY DEF On
  <2>2. port' \in [open : BOOLEAN, monitor : BOOLEAN, pc : {"idle", "route", "push"},
                  event : [kind : {"on", "off"}, key : Pitches] \cup {AllOff}]
    BY <1>1, <2>1 DEF Typed
  <2> QED
    BY <1>1, <2>2 DEF Typed
<1>4. Playing'
  BY <1>1, PlayingStays DEF IInv
<1>5. Resolved'
  BY <1>1 DEF IInv, Resolved, SlotOf, Unread
<1>6. \A j : Rings(j)' <=> Rings(j)
  BY <1>1, RingsStay
<1>7. \A j : Excused(j) => Excused(j)'
  BY <1>1, <1>2 DEF Excused, Off
<1>8. Heeded'
  BY <1>1, <1>6, <1>7 DEF IInv, Heeded, Played
<1>9. UnderWay'
  BY <1>1, <1>2, <1>6 DEF IInv, UnderWay, Holding, On, AllOff
<1> QED
  BY <1>3, <1>4, <1>5, <1>8, <1>9 DEF IInv

LEMMA LiftKeeps ==
  ASSUME ConstantsAreSound, IInv, NEW k \in Pitches, Lift(k)
  PROVE  IInv'
<1>1. /\ Typed /\ port.pc = "idle" /\ down' = down \ {k}
      /\ port' = [port EXCEPT !.pc = IF port.open /\ port.monitor THEN "route" ELSE "idle", !.event = Off(k)]
      /\ UNCHANGED <<ui, preview, hub, ring, song, engine, moving, cb, graph, nodes, odd>>
  BY DEF Lift, Arrives, IInv
<1>2. port'.open = port.open /\ port'.monitor = port.monitor /\ port'.event = Off(k)
      /\ port'.pc = IF port.open /\ port.monitor THEN "route" ELSE "idle"
  BY <1>1 DEF Typed
<1>3. Typed'
  <2>1. Off(k) \in [kind : {"on", "off"}, key : Pitches]
    BY DEF Off
  <2>2. port' \in [open : BOOLEAN, monitor : BOOLEAN, pc : {"idle", "route", "push"},
                  event : [kind : {"on", "off"}, key : Pitches] \cup {AllOff}]
    BY <1>1, <2>1 DEF Typed
  <2> QED
    BY <1>1, <2>2 DEF Typed
<1>4. Playing'
  BY <1>1, PlayingStays DEF IInv
<1>5. Resolved'
  BY <1>1 DEF IInv, Resolved, SlotOf, Unread
<1>6. \A j : Rings(j)' <=> Rings(j)
  BY <1>1, RingsStay
<1>7. \A j : Excused(j) => Excused(j)'
  BY <1>1, <1>2 DEF Excused, Off
<1>8. Heeded'
  BY <1>1, <1>6, <1>7 DEF IInv, Heeded, Played
<1>9. UnderWay'
  BY <1>1, <1>2, <1>6 DEF IInv, UnderWay, Holding, Off, AllOff
<1> QED
  BY <1>3, <1>4, <1>5, <1>8, <1>9 DEF IInv

LEMMA RouteKeeps ==
  ASSUME ConstantsAreSound, IInv, Route
  PROVE  IInv'
<1>1. /\ Typed /\ port.pc = "route"
      /\ port' = [port EXCEPT !.pc = IF hub.target = NoTrack THEN "idle" ELSE "push"]
      /\ UNCHANGED <<down, ui, preview, hub, ring, song, engine, moving, cb, graph, nodes, odd>>
  BY DEF Route, IInv
<1>2. port'.open = port.open /\ port'.monitor = port.monitor /\ port'.event = port.event
      /\ port'.pc = IF hub.target = NoTrack THEN "idle" ELSE "push"
  BY <1>1 DEF Typed
<1>3. Typed'
  <2>1. port' \in [open : BOOLEAN, monitor : BOOLEAN, pc : {"idle", "route", "push"},
                  event : [kind : {"on", "off"}, key : Pitches] \cup {AllOff}]
    BY <1>1 DEF Typed
  <2> QED
    BY <1>1, <2>1 DEF Typed
<1>4. Playing'
  BY <1>1, PlayingStays DEF IInv
<1>5. Resolved'
  BY <1>1 DEF IInv, Resolved, SlotOf, Unread
<1>6. \A j : Rings(j)' <=> Rings(j)
  BY <1>1, RingsStay
<1>7. \A j : Excused(j) => Excused(j)'
  BY <1>1, <1>2 DEF Excused, Off
<1>8. Heeded'
  BY <1>1, <1>6, <1>7 DEF IInv, Heeded, Played
<1>9. UnderWay'
  BY <1>1, <1>2, <1>6 DEF IInv, UnderWay, Holding, AllOff
<1> QED
  BY <1>3, <1>4, <1>5, <1>8, <1>9 DEF IInv

LEMMA ForwardKeeps ==
  ASSUME ConstantsAreSound, IInv, Forward
  PROVE  IInv'
<1> DEFINE e == port.event
<1>1. /\ Typed /\ port.pc = "push" /\ port' = [port EXCEPT !.pc = "idle"]
      /\ UNCHANGED <<down, ui, preview, hub, song, engine, moving, cb, graph, nodes>>
  BY DEF Forward, IInv
<1>2. port'.open = port.open /\ port'.monitor = port.monitor /\ port'.event = port.event /\ port'.pc = "idle"
  BY <1>1 DEF Typed
<1>3. /\ e \in [kind : {"on", "off"}, key : Pitches] /\ e \in Message /\ Tried \notin Pitches
      /\ port.open /\ (e.kind = "on" => e.key \in down)
  <2>1. e \in [kind : {"on", "off"}, key : Pitches] \cup {AllOff} /\ e # AllOff
    BY <1>1 DEF Typed, IInv, UnderWay
  <2> QED
    BY <1>1, <2>1, KeysAreApart DEF Message, Note, IInv, UnderWay
<1>4. CASE ~Full /\ TooLate
  <2>1. ring' = Append(ring, e) /\ odd' = [odd EXCEPT !.lost = odd.lost \cup {e.key}] /\ e.kind = "on"
    BY <1>4 DEF Forward, TooLate
  <2>2. /\ ring \in Seq(Message) /\ Len(ring) < RingSlots /\ Len(ring) \in Nat /\ RingSlots \in Nat
    BY <1>1, <1>4, KeysAreApart DEF Typed, Full
  <2>3. odd'.lost = odd.lost \cup {e.key} /\ odd'.astray = odd.astray /\ odd'.clipped = odd.clipped
        /\ odd'.owed = odd.owed /\ odd'.cut = odd.cut
    BY <1>1, <2>1 DEF Typed
  <2>4. \A k \in Played : Rings(k)' => Rings(k) \/ (e = On(k) /\ k = e.key)
    <3>1. \A k : e = On(k) => k = e.key
      BY DEF On
    <3> QED
      BY <1>1, <1>3, <2>1, <2>2, <3>1, AppendRings
  <2>5. ring' \in Seq(Message) /\ Len(ring') <= RingSlots
    BY <1>3, <2>1, <2>2
  <2>6. Typed'
    <3>1. port' \in [open : BOOLEAN, monitor : BOOLEAN, pc : {"idle", "route", "push"},
                    event : [kind : {"on", "off"}, key : Pitches] \cup {AllOff}]
      BY <1>1 DEF Typed
    <3>2. odd' \in [lost : SUBSET Played, astray : SUBSET Tracks, clipped : SUBSET Tracks,
                   owed : BOOLEAN, cut : BOOLEAN]
      <4>1. e.key \in Played
        BY <1>3, KeysAreApart
      <4> QED
        BY <1>1, <2>1, <4>1 DEF Typed
    <3> HIDE DEF e
    <3> QED
      BY <1>1, <2>5, <3>1, <3>2 DEF Typed
  <2>7. Playing'
    BY <1>1, <2>3, PlayingStays DEF IInv
  <2>8. Resolved'
    BY <1>1 DEF IInv, Resolved, SlotOf, Unread
  <2>9. \A k : Excused(k) => Excused(k)'
    BY <1>1, <1>2, <2>1 DEF Excused, Off
  <2>10. Heeded'
    BY <1>1, <2>3, <2>4, <2>9 DEF IInv, Heeded, Played
  <2>11. UnderWay'
    <3>1. ui.pc = "sound" /\ Rings(Tried)' => Tried \in odd'.lost
      BY <1>3, <2>3, <2>4, KeysAreApart DEF IInv, UnderWay
    <3> QED
      BY <1>1, <1>2, <3>1 DEF IInv, UnderWay, Holding
  <2> QED
    BY <2>6, <2>7, <2>8, <2>10, <2>11 DEF IInv
<1>5. CASE ~(~Full /\ TooLate)
  <2>1. Pushed(e)
    <3>1. HubPush(e)
      BY <1>5 DEF Forward
    <3> QED
      BY <1>1, <1>3, <3>1, PushDoes
  <2>2. /\ ring' \in Seq(Message) /\ Len(ring') <= RingSlots
        /\ odd' = [odd EXCEPT !.lost = odd'.lost] /\ odd.lost \subseteq odd'.lost /\ odd'.lost \subseteq Played
        /\ \A k \in Played : Rings(k)' =>
             k \in odd'.lost \/ (Rings(k) /\ ~Ends(e, k)) \/ (~Full /\ e = On(k))
    BY <2>1 DEF Pushed
  <2>3. odd'.astray = odd.astray /\ odd'.clipped = odd.clipped
        /\ odd'.owed = odd.owed /\ odd'.cut = odd.cut
    BY <1>1, <2>2 DEF Typed
  <2>4. Typed'
    BY <1>1, <2>2 DEF Typed
  <2>5. Playing'
    BY <1>1, <2>3, PlayingStays DEF IInv
  <2>6. Resolved'
    BY <1>1 DEF IInv, Resolved, SlotOf, Unread
  <2>7. ASSUME NEW k \in Played, Rings(k)', k \notin odd'.lost
        PROVE  ui'.pc # "drop" /\ Excused(k)'
    <3>1. CASE Rings(k) /\ ~Ends(e, k)
      <4>1. ui.pc # "drop" /\ Excused(k)
        BY <2>2, <2>7, <3>1 DEF IInv, Heeded
      <4>2. e # Off(k)
        BY <3>1 DEF Ends
      <4> QED
        BY <1>1, <1>2, <4>1, <4>2 DEF Excused
    <3>2. CASE ~Full /\ e = On(k)
      <4>1. e.kind = "on" /\ e.key = k
        BY <3>2 DEF On
      <4>2. ~TooLate
        BY <1>5, <3>2
      <4>3. ui.pc # "drop" /\ (port.monitor \/ ui.pc = "silence") /\ hub.target # NoTrack
        BY <4>1, <4>2 DEF TooLate
      <4> QED
        BY <1>1, <1>2, <1>3, <4>1, <4>3 DEF Excused
    <3> QED
      BY <2>2, <2>7, <3>1, <3>2
  <2>8. Heeded'
    BY <2>7 DEF Heeded, Played
  <2>9. UnderWay'
    <3>1. ui.pc = "sound" /\ Rings(Tried)' => Tried \in odd'.lost
      <4>1. e # On(Tried)
        BY <1>3 DEF On
      <4> QED
        BY <2>2, <4>1, KeysAreApart DEF IInv, UnderWay
    <3> QED
      BY <1>1, <1>2, <3>1 DEF IInv, UnderWay, Holding
  <2> QED
    BY <2>4, <2>5, <2>6, <2>8, <2>9 DEF IInv
<1> QED
  BY <1>4, <1>5

(* The engine and the callback know nothing of a command.                  *)
LEMMA CommandKeeps ==
  ASSUME ConstantsAreSound, Typed, Playing, Resolved, UNCHANGED rest, UNCHANGED down,
         odd' = [odd EXCEPT !.lost = odd'.lost], odd'.lost \subseteq Played,
         ring' \in Seq(Message), Len(ring') <= RingSlots,
         port' \in [open : BOOLEAN, monitor : BOOLEAN, pc : {"idle", "route", "push"},
                   event : [kind : {"on", "off"}, key : Pitches] \cup {AllOff}],
         ui' \in [pc : {"idle", "dirty", "silence", "drop", "cut", "sound", "restore"},
                  then : {"idle", "cut"}, track : Somewhere],
         preview' \in [track : Somewhere, prev : Somewhere],
         hub' \in [target : Somewhere, dirty : BOOLEAN, slot : Nat, stale : BOOLEAN],
         hub'.slot = hub.slot, hub'.stale = hub.stale,
         Unread' \/ (hub'.target = hub.target /\ ~Unread)
  PROVE  Typed' /\ Playing' /\ Resolved'
<1>1. odd'.astray = odd.astray /\ odd'.clipped = odd.clipped /\ odd'.owed = odd.owed /\ odd'.cut = odd.cut
      /\ odd' \in [lost : SUBSET Played, astray : SUBSET Tracks, clipped : SUBSET Tracks,
                   owed : BOOLEAN, cut : BOOLEAN]
  BY DEF Typed
<1>2. UNCHANGED <<song, engine, moving, cb, graph, nodes>>
  BY DEF rest
<1>3. Typed'
  BY <1>1, <1>2 DEF Typed
<1>4. Playing'
  BY <1>1, <1>2, PlayingStays
<1>5. Resolved'
  <2>1. CASE Unread'
    BY <2>1 DEF Resolved
  <2>2. CASE hub'.target = hub.target /\ ~Unread
    BY <1>2, <2>2 DEF Resolved, SlotOf
  <2> QED
    BY <2>1, <2>2
<1> QED
  BY <1>3, <1>4, <1>5

(* What the state has before a command.                                    *)
LEMMA BeforeCommand ==
  ASSUME ConstantsAreSound, IInv
  PROVE  /\ Typed /\ Playing /\ Resolved /\ Heeded /\ UnderWay
         /\ port \in [open : BOOLEAN, monitor : BOOLEAN, pc : {"idle", "route", "push"},
                   event : [kind : {"on", "off"}, key : Pitches] \cup {AllOff}]
         /\ ui \in [pc : {"idle", "dirty", "silence", "drop", "cut", "sound", "restore"},
                    then : {"idle", "cut"}, track : Somewhere]
         /\ preview \in [track : Somewhere, prev : Somewhere]
         /\ hub \in [target : Somewhere, dirty : BOOLEAN, slot : Nat, stale : BOOLEAN]
         /\ ring \in Seq(Message) /\ Len(ring) <= RingSlots
         /\ odd = [odd EXCEPT !.lost = odd.lost] /\ odd.lost \subseteq Played
         /\ NoTrack \in Somewhere /\ Tracks \subseteq Somewhere /\ NoTrack \notin Tracks
         /\ NoPreview \in [track : Somewhere, prev : Somewhere] /\ NoPreview.track = NoTrack
         /\ Tried \in Played
BY KeysAreApart DEF IInv, Typed, Somewhere, NoPreview, ConstantsAreSound

(* When all that rings was lost, nothing more is owed.                     *)
LEMMA NothingRings ==
  ASSUME ConstantsAreSound, \A k \in Played : Rings(k)' => k \in odd'.lost
  PROVE  Heeded' /\ (Rings(Tried)' => Tried \in odd'.lost)
BY KeysAreApart DEF Heeded, Played

LEMMA PickKeeps ==
  ASSUME ConstantsAreSound, IInv, NEW t \in Somewhere, Pick(t)
  PROVE  IInv'
<1>1. /\ ui.pc = "idle" /\ t # hub.target /\ SetTarget(t, "idle")
      /\ UNCHANGED <<down, port, preview>> /\ UNCHANGED rest /\ UNCHANGED <<cb, nodes>>
  BY DEF Pick, rest
<1>2. /\ ring' \in Seq(Message) /\ Len(ring') <= RingSlots
      /\ odd' = [odd EXCEPT !.lost = odd'.lost] /\ odd'.lost \subseteq Played
      /\ hub' = [hub EXCEPT !.target = t] /\ hub'.target = t
      /\ ui' = [ui EXCEPT !.pc = "dirty", !.then = "idle"] /\ ui'.pc = "dirty" /\ ui'.then = "idle"
      /\ \A k \in Played : Rings(k)' => k \in odd'.lost
  BY <1>1, BeforeCommand, SetTargetDoes
<1>3. Typed' /\ Playing' /\ Resolved'
  <2>1. Unread'
    BY <1>2 DEF Unread
  <2>2. /\ hub' \in [target : Somewhere, dirty : BOOLEAN, slot : Nat, stale : BOOLEAN]
        /\ hub'.slot = hub.slot /\ hub'.stale = hub.stale
        /\ ui' \in [pc : {"idle", "dirty", "silence", "drop", "cut", "sound", "restore"},
                    then : {"idle", "cut"}, track : Somewhere]
    BY <1>2, BeforeCommand
  <2> QED
    BY <1>1, <1>2, <2>1, <2>2, BeforeCommand, CommandKeeps
<1>4. Heeded'
  BY <1>2, NothingRings
<1>5. UnderWay'
  BY <1>1, <1>2, BeforeCommand DEF UnderWay, Holding, AllOff
<1> QED
  BY <1>3, <1>4, <1>5 DEF IInv

LEMMA MarkDirtyKeeps ==
  ASSUME ConstantsAreSound, IInv, MarkDirty
  PROVE  IInv'
<1>1. /\ ui.pc = "dirty" /\ hub' = [hub EXCEPT !.dirty = TRUE] /\ ui' = [ui EXCEPT !.pc = ui.then]
      /\ UNCHANGED <<down, port, preview, ring, odd, cb, nodes>> /\ UNCHANGED rest
  BY DEF MarkDirty, Proceed, rest
<1>2. /\ hub' \in [target : Somewhere, dirty : BOOLEAN, slot : Nat, stale : BOOLEAN]
      /\ hub'.target = hub.target /\ hub'.slot = hub.slot /\ hub'.stale = hub.stale /\ hub'.dirty = TRUE
      /\ ui' \in [pc : {"idle", "dirty", "silence", "drop", "cut", "sound", "restore"},
                  then : {"idle", "cut"}, track : Somewhere]
      /\ ui'.pc = ui.then /\ ui.then \in {"idle", "cut"}
  BY <1>1, BeforeCommand
<1>3. Typed' /\ Playing' /\ Resolved'
  <2>1. Unread'
    BY <1>2 DEF Unread
  <2> QED
    BY <1>1, <1>2, <2>1, BeforeCommand, CommandKeeps
<1>4. \A k : (Rings(k)' <=> Rings(k)) /\ (Excused(k) => Excused(k)')
  <2>1. \A k : Rings(k)' <=> Rings(k)
    BY <1>1, RingsStay
  <2>2. \A k : Excused(k) => Excused(k)'
    BY <1>1, <1>2 DEF Excused, Off
  <2> QED
    BY <2>1, <2>2
<1>5. Heeded'
  BY <1>1, <1>2, <1>4, BeforeCommand DEF Heeded, Played
<1>6. UnderWay'
  BY <1>1, <1>2, BeforeCommand DEF UnderWay, Holding, AllOff
<1> QED
  BY <1>3, <1>5, <1>6 DEF IInv

LEMMA SwitchMonitorKeeps ==
  ASSUME ConstantsAreSound, IInv, SwitchMonitor
  PROVE  IInv'
<1>1. /\ ui.pc = "idle" /\ port.open /\ port' = [port EXCEPT !.monitor = ~port.monitor]
      /\ ui' = [ui EXCEPT !.pc = IF port.monitor THEN "silence" ELSE "idle"]
      /\ UNCHANGED <<down, preview, hub, ring, odd, cb, nodes>> /\ UNCHANGED rest
  BY DEF SwitchMonitor, Proceed, rest
<1>2. /\ port' \in [open : BOOLEAN, monitor : BOOLEAN, pc : {"idle", "route", "push"},
                   event : [kind : {"on", "off"}, key : Pitches] \cup {AllOff}]
      /\ port'.open = port.open /\ port'.monitor = ~port.monitor /\ port'.pc = port.pc
      /\ port'.event = port.event
      /\ ui' \in [pc : {"idle", "dirty", "silence", "drop", "cut", "sound", "restore"},
                  then : {"idle", "cut"}, track : Somewhere]
      /\ ui'.pc = (IF port.monitor THEN "silence" ELSE "idle") /\ port.monitor \in BOOLEAN
  BY <1>1, BeforeCommand
<1>3. Typed' /\ Playing' /\ Resolved'
  <2>1. Unread' \/ (hub'.target = hub.target /\ ~Unread)
    BY <1>1, <1>2 DEF Unread
  <2>2. hub' = hub /\ preview' = preview /\ ring' = ring /\ odd' = odd
    BY <1>1
  <2> QED
    BY <1>1, <1>2, <2>1, <2>2, BeforeCommand, CommandKeeps
<1>4. \A k : (Rings(k)' <=> Rings(k)) /\ (Excused(k) => Excused(k)')
  <2>1. \A k : Rings(k)' <=> Rings(k)
    BY <1>1, RingsStay
  <2>2. \A k : Excused(k) => Excused(k)'
    BY <1>1, <1>2 DEF Excused, Off
  <2> QED
    BY <2>1, <2>2
<1>5. Heeded'
  BY <1>1, <1>2, <1>4, BeforeCommand DEF Heeded, Played
<1>6. UnderWay'
  BY <1>1, <1>2, BeforeCommand DEF UnderWay, Holding, AllOff
<1> QED
  BY <1>3, <1>5, <1>6 DEF IInv

LEMMA SilenceKeeps ==
  ASSUME ConstantsAreSound, IInv, Silence
  PROVE  IInv'
<1>1. /\ ui.pc = "silence" /\ HubPush(AllOff) /\ ui' = [ui EXCEPT !.pc = "idle"]
      /\ UNCHANGED <<down, port, preview, hub, cb, nodes>> /\ UNCHANGED rest
  BY DEF Silence, Proceed, rest
<1>2. Pushed(AllOff)
  BY <1>1, BeforeCommand, PushDoes, AllOffIsMessage
<1>3. /\ ring' \in Seq(Message) /\ Len(ring') <= RingSlots
      /\ odd' = [odd EXCEPT !.lost = odd'.lost] /\ odd'.lost \subseteq Played
  BY <1>2 DEF Pushed
<1>4. \A k \in Played : Rings(k)' => k \in odd'.lost
  BY <1>2, PushedAllOff
<1>5. ui' \in [pc : {"idle", "dirty", "silence", "drop", "cut", "sound", "restore"},
                  then : {"idle", "cut"}, track : Somewhere]
      /\ ui'.pc = "idle"
  BY <1>1, BeforeCommand
<1>6. Typed' /\ Playing' /\ Resolved'
  <2>1. Unread' \/ (hub'.target = hub.target /\ ~Unread)
    BY <1>1, <1>5 DEF Unread
  <2>2. hub' = hub /\ preview' = preview /\ port' = port
    BY <1>1
  <2> QED
    BY <1>1, <1>3, <1>5, <2>1, <2>2, BeforeCommand, CommandKeeps
<1>7. Heeded' /\ (Rings(Tried)' => Tried \in odd'.lost)
  BY <1>4, NothingRings
<1>8. UnderWay'
  BY <1>1, <1>5, <1>7, BeforeCommand DEF UnderWay, Holding, AllOff
<1> QED
  BY <1>6, <1>7, <1>8 DEF IInv

LEMMA ChangePortKeeps ==
  ASSUME ConstantsAreSound, IInv, ChangePort
  PROVE  IInv'
<1>1. /\ ui.pc = "idle" /\ HubPush(AllOff) /\ ui' = [ui EXCEPT !.pc = "drop"]
      /\ UNCHANGED <<down, port, preview, hub, cb, nodes>> /\ UNCHANGED rest
  BY DEF ChangePort, Proceed, rest
<1>2. Pushed(AllOff)
  BY <1>1, BeforeCommand, PushDoes, AllOffIsMessage
<1>3. /\ ring' \in Seq(Message) /\ Len(ring') <= RingSlots
      /\ odd' = [odd EXCEPT !.lost = odd'.lost] /\ odd'.lost \subseteq Played
  BY <1>2 DEF Pushed
<1>4. \A k \in Played : Rings(k)' => k \in odd'.lost
  BY <1>2, PushedAllOff
<1>5. ui' \in [pc : {"idle", "dirty", "silence", "drop", "cut", "sound", "restore"},
                  then : {"idle", "cut"}, track : Somewhere]
      /\ ui'.pc = "drop"
  BY <1>1, BeforeCommand
<1>6. Typed' /\ Playing' /\ Resolved'
  <2>1. Unread' \/ (hub'.target = hub.target /\ ~Unread)
    BY <1>1, <1>5 DEF Unread
  <2>2. hub' = hub /\ preview' = preview /\ port' = port
    BY <1>1
  <2> QED
    BY <1>1, <1>3, <1>5, <2>1, <2>2, BeforeCommand, CommandKeeps
<1>7. Heeded' /\ (Rings(Tried)' => Tried \in odd'.lost)
  BY <1>4, NothingRings
<1>8. UnderWay'
  BY <1>1, <1>5, <1>7, BeforeCommand DEF UnderWay, Holding, AllOff
<1> QED
  BY <1>6, <1>7, <1>8 DEF IInv

LEMMA CutHoldKeeps ==
  ASSUME ConstantsAreSound, IInv, CutHold
  PROVE  IInv'
<1>1. /\ ui.pc = "cut" /\ HubPush(AllOff) /\ ui' = [ui EXCEPT !.pc = "sound"]
      /\ UNCHANGED <<down, port, preview, hub, cb, nodes>> /\ UNCHANGED rest
  BY DEF CutHold, Proceed, rest
<1>2. Pushed(AllOff)
  BY <1>1, BeforeCommand, PushDoes, AllOffIsMessage
<1>3. /\ ring' \in Seq(Message) /\ Len(ring') <= RingSlots
      /\ odd' = [odd EXCEPT !.lost = odd'.lost] /\ odd'.lost \subseteq Played
  BY <1>2 DEF Pushed
<1>4. \A k \in Played : Rings(k)' => k \in odd'.lost
  BY <1>2, PushedAllOff
<1>5. ui' \in [pc : {"idle", "dirty", "silence", "drop", "cut", "sound", "restore"},
                  then : {"idle", "cut"}, track : Somewhere]
      /\ ui'.pc = "sound"
  BY <1>1, BeforeCommand
<1>6. Typed' /\ Playing' /\ Resolved'
  <2>1. Unread' \/ (hub'.target = hub.target /\ ~Unread)
    BY <1>1, <1>5 DEF Unread
  <2>2. hub' = hub /\ preview' = preview /\ port' = port
    BY <1>1
  <2> QED
    BY <1>1, <1>3, <1>5, <2>1, <2>2, BeforeCommand, CommandKeeps
<1>7. Heeded' /\ (Rings(Tried)' => Tried \in odd'.lost)
  BY <1>4, NothingRings
<1>8. UnderWay'
  BY <1>1, <1>5, <1>7, BeforeCommand DEF UnderWay, Holding, AllOff
<1> QED
  BY <1>6, <1>7, <1>8 DEF IInv

LEMMA DropPortKeeps ==
  ASSUME ConstantsAreSound, IInv, DropPort
  PROVE  IInv'
<1>1. /\ ui.pc = "drop" /\ port.pc = "idle"
      /\ \E open \in BOOLEAN : port' = [port EXCEPT !.open = open, !.monitor = TRUE]
      /\ ui' = [ui EXCEPT !.pc = "idle"]
      /\ UNCHANGED <<down, preview, hub, ring, odd, cb, nodes>> /\ UNCHANGED rest
  BY DEF DropPort, Proceed, rest
<1>2. /\ port' \in [open : BOOLEAN, monitor : BOOLEAN, pc : {"idle", "route", "push"},
                   event : [kind : {"on", "off"}, key : Pitches] \cup {AllOff}]
      /\ port'.pc = "idle"
      /\ ui' \in [pc : {"idle", "dirty", "silence", "drop", "cut", "sound", "restore"},
                  then : {"idle", "cut"}, track : Somewhere]
      /\ ui'.pc = "idle"
  BY <1>1, BeforeCommand
<1>3. Typed' /\ Playing' /\ Resolved'
  <2>1. Unread' \/ (hub'.target = hub.target /\ ~Unread)
    BY <1>1, <1>2 DEF Unread
  <2>2. hub' = hub /\ preview' = preview /\ ring' = ring /\ odd' = odd
    BY <1>1
  <2> QED
    BY <1>1, <1>2, <2>1, <2>2, BeforeCommand, CommandKeeps
<1>4. \A k : Rings(k)' <=> Rings(k)
  BY <1>1, RingsStay
<1>5. Heeded'
  BY <1>1, <1>2, <1>4, BeforeCommand DEF Heeded, Played
<1>6. UnderWay'
  BY <1>1, <1>2, BeforeCommand DEF UnderWay, Holding, AllOff
<1> QED
  BY <1>3, <1>5, <1>6 DEF IInv

LEMMA BeginHoldKeeps ==
  ASSUME ConstantsAreSound, IInv, NEW t \in Tracks, BeginHold(t)
  PROVE  IInv'
<1>1. /\ ui.pc = "idle" /\ preview = NoPreview /\ preview' = [track |-> t, prev |-> hub.target]
      /\ UNCHANGED <<down, port, cb, nodes>> /\ UNCHANGED rest
  BY DEF BeginHold, rest
<1>2. preview' \in [track : Somewhere, prev : Somewhere] /\ preview'.track = t /\ t \in Somewhere
  BY <1>1, BeforeCommand
<1>3. CASE t = hub.target
  <2>1. ui' = [ui EXCEPT !.pc = "cut"] /\ UNCHANGED <<hub, ring, odd>>
    BY <1>3 DEF BeginHold, Proceed
  <2>2. ui' \in [pc : {"idle", "dirty", "silence", "drop", "cut", "sound", "restore"},
                  then : {"idle", "cut"}, track : Somewhere]
        /\ ui'.pc = "cut"
    BY <2>1, BeforeCommand
  <2>3. Typed' /\ Playing' /\ Resolved'
    <3>1. Unread' \/ (hub'.target = hub.target /\ ~Unread)
      BY <1>1, <2>1, <2>2 DEF Unread
    <3>2. hub' = hub /\ port' = port /\ ring' = ring /\ odd' = odd
      BY <1>1, <2>1
    <3> QED
      BY <1>1, <1>2, <2>2, <3>1, <3>2, BeforeCommand, CommandKeeps
  <2>4. \A k : Rings(k)' <=> Rings(k)
    BY <1>1, <2>1, RingsStay
  <2>5. \A k : Excused(k) => Excused(k)'
    BY <1>1, <1>2, <1>3, <2>1, <2>2 DEF Excused, Off
  <2>6. Heeded'
    BY <2>1, <2>2, <2>4, <2>5, BeforeCommand DEF Heeded, Played
  <2>7. UnderWay'
    BY <1>1, <1>2, <1>3, <2>1, <2>2, BeforeCommand DEF UnderWay, Holding, AllOff
  <2> QED
    BY <2>3, <2>6, <2>7 DEF IInv
<1>4. CASE t # hub.target
  <2>1. SetTarget(t, "cut")
    BY <1>4 DEF BeginHold
  <2>2. /\ ring' \in Seq(Message) /\ Len(ring') <= RingSlots
        /\ odd' = [odd EXCEPT !.lost = odd'.lost] /\ odd'.lost \subseteq Played
        /\ hub' = [hub EXCEPT !.target = t] /\ hub'.target = t
        /\ ui' = [ui EXCEPT !.pc = "dirty", !.then = "cut"] /\ ui'.pc = "dirty" /\ ui'.then = "cut"
        /\ \A k \in Played : Rings(k)' => k \in odd'.lost
    BY <1>1, <1>2, <1>4, <2>1, BeforeCommand, SetTargetDoes
  <2>3. Typed' /\ Playing' /\ Resolved'
    <3>1. Unread'
      BY <2>2 DEF Unread
    <3>2. /\ hub' \in [target : Somewhere, dirty : BOOLEAN, slot : Nat, stale : BOOLEAN]
          /\ hub'.slot = hub.slot /\ hub'.stale = hub.stale
          /\ ui' \in [pc : {"idle", "dirty", "silence", "drop", "cut", "sound", "restore"},
                  then : {"idle", "cut"}, track : Somewhere]
      BY <1>2, <2>2, BeforeCommand
    <3> QED
      BY <1>1, <1>2, <2>2, <3>1, <3>2, BeforeCommand, CommandKeeps
  <2>4. Heeded'
    BY <2>2, NothingRings
  <2>5. UnderWay'
    BY <1>1, <1>2, <2>2, BeforeCommand DEF UnderWay, Holding, AllOff
  <2> QED
    BY <2>3, <2>4, <2>5 DEF IInv
<1> QED
  BY <1>3, <1>4

LEMMA RestoreTargetKeeps ==
  ASSUME ConstantsAreSound, IInv, RestoreTarget
  PROVE  IInv'
<1> DEFINE t == ui.track
<1>1. /\ ui.pc = "restore" /\ SetTarget(t, "idle") /\ t \in Somewhere
      /\ UNCHANGED <<down, port, preview, cb, nodes>> /\ UNCHANGED rest
  BY BeforeCommand DEF RestoreTarget, rest
<1> HIDE DEF t
<1>2. /\ ring' \in Seq(Message) /\ Len(ring') <= RingSlots
      /\ odd' = [odd EXCEPT !.lost = odd'.lost] /\ odd'.lost \subseteq Played
      /\ hub' = [hub EXCEPT !.target = t] /\ hub'.target = t
      /\ ui' = [ui EXCEPT !.pc = "dirty", !.then = "idle"] /\ ui'.pc = "dirty" /\ ui'.then = "idle"
      /\ t # hub.target => \A k \in Played : Rings(k)' => k \in odd'.lost
      /\ t = hub.target => ring' = ring /\ odd' = odd /\ hub' = hub
  BY <1>1, BeforeCommand, SetTargetDoes
<1>3. Typed' /\ Playing' /\ Resolved'
  <2>1. Unread'
    BY <1>2 DEF Unread
  <2>2. /\ hub' \in [target : Somewhere, dirty : BOOLEAN, slot : Nat, stale : BOOLEAN]
        /\ hub'.slot = hub.slot /\ hub'.stale = hub.stale
        /\ ui' \in [pc : {"idle", "dirty", "silence", "drop", "cut", "sound", "restore"},
                  then : {"idle", "cut"}, track : Somewhere]
    BY <1>1, <1>2, BeforeCommand
  <2> QED
    BY <1>1, <1>2, <2>1, <2>2, BeforeCommand, CommandKeeps
<1>4. Heeded'
  <2>1. CASE t # hub.target
    BY <1>2, <2>1, NothingRings
  <2>2. CASE t = hub.target
    <3>1. ring' = ring /\ odd' = odd /\ hub' = hub
      BY <1>2, <2>2
    <3>2. \A k : Rings(k)' <=> Rings(k)
      BY <1>1, <3>1, RingsStay
    <3>3. \A k : Excused(k) => Excused(k)'
      BY <1>1, <3>1 DEF Excused, Off
    <3> QED
      BY <1>1, <1>2, <3>1, <3>2, <3>3, BeforeCommand DEF Heeded, Played
  <2> QED
    BY <2>1, <2>2
<1>5. UnderWay'
  BY <1>1, <1>2, BeforeCommand DEF UnderWay, Holding, AllOff
<1> QED
  BY <1>3, <1>4, <1>5 DEF IInv

LEMMA EndHoldKeeps ==
  ASSUME ConstantsAreSound, IInv, EndHold
  PROVE  IInv'
<1>1. /\ ui.pc = "idle" /\ HubPush(Off(Tried)) /\ preview' = NoPreview
      /\ ui' = [ui EXCEPT !.pc = IF preview.prev = preview.track THEN "idle" ELSE "restore",
                          !.track = preview.prev]
      /\ UNCHANGED <<down, port, hub, cb, nodes>> /\ UNCHANGED rest
  BY DEF EndHold, rest
<1>2. Off(Tried) \in Message
  BY KeysAreApart DEF Message, Note, Off
<1>3. Pushed(Off(Tried))
  BY <1>1, <1>2, BeforeCommand, PushDoes
<1>4. /\ ring' \in Seq(Message) /\ Len(ring') <= RingSlots
      /\ odd' = [odd EXCEPT !.lost = odd'.lost] /\ odd'.lost \subseteq Played /\ odd.lost \subseteq odd'.lost
      /\ \A k \in Played : Rings(k)' => k \in odd'.lost \/ (Rings(k) /\ k # Tried)
  <2>1. \A k \in Played : Off(Tried) # On(k) /\ (k = Tried => Ends(Off(Tried), k))
    BY DEF On, Off, Ends
  <2> QED
    BY <1>3, <2>1 DEF Pushed
<1>5. ui' \in [pc : {"idle", "dirty", "silence", "drop", "cut", "sound", "restore"},
                  then : {"idle", "cut"}, track : Somewhere]
      /\ ui'.pc \in {"idle", "restore"}
  BY <1>1, BeforeCommand
<1>6. Typed' /\ Playing' /\ Resolved'
  <2>1. Unread' \/ (hub'.target = hub.target /\ ~Unread)
    BY <1>1, <1>5 DEF Unread
  <2>2. hub' = hub /\ port' = port
    BY <1>1
  <2> QED
    BY <1>1, <1>4, <1>5, <2>1, <2>2, BeforeCommand, CommandKeeps
<1>7. \A k : Excused(k) /\ k # Tried => Excused(k)'
  BY <1>1, <1>5 DEF Excused, Off
<1>8. Heeded'
  <2> SUFFICES ASSUME NEW k \in Played, Rings(k)' PROVE k \in odd'.lost \/ (ui'.pc # "drop" /\ Excused(k)')
    BY DEF Heeded, Played
  <2> QED
    BY <1>1, <1>4, <1>5, <1>7, BeforeCommand DEF Heeded
<1>9. UnderWay'
  BY <1>1, <1>5, BeforeCommand DEF UnderWay, Holding, AllOff
<1> QED
  BY <1>6, <1>8, <1>9 DEF IInv

LEMMA SoundHoldKeeps ==
  ASSUME ConstantsAreSound, IInv, SoundHold
  PROVE  IInv'
<1>1. /\ ui.pc = "sound" /\ UNCHANGED <<down, port, cb, nodes>> /\ UNCHANGED rest
      /\ preview.track = hub.target /\ hub.target # NoTrack
      /\ Rings(Tried) => Tried \in odd.lost
  BY BeforeCommand DEF SoundHold, rest, UnderWay, Holding
<1>2. CASE ~Full
  <2>1. HubPush(On(Tried)) /\ ui' = [ui EXCEPT !.pc = "idle"] /\ UNCHANGED <<preview, hub>>
    BY <1>2 DEF SoundHold, Proceed
  <2>2. On(Tried) \in Message
    BY KeysAreApart DEF Message, Note, On
  <2>3. Pushed(On(Tried))
    BY <1>1, <2>1, <2>2, BeforeCommand, PushDoes
  <2>4. /\ ring' \in Seq(Message) /\ Len(ring') <= RingSlots
        /\ odd' = [odd EXCEPT !.lost = odd'.lost] /\ odd'.lost \subseteq Played /\ odd.lost \subseteq odd'.lost
        /\ \A k \in Played : Rings(k)' => k \in odd'.lost \/ Rings(k) \/ k = Tried
    <3>1. \A k : On(Tried) = On(k) => k = Tried
      BY DEF On
    <3> QED
      BY <2>3, <3>1 DEF Pushed
  <2>5. ui' \in [pc : {"idle", "dirty", "silence", "drop", "cut", "sound", "restore"},
                  then : {"idle", "cut"}, track : Somewhere]
        /\ ui'.pc = "idle"
    BY <2>1, BeforeCommand
  <2>6. Typed' /\ Playing' /\ Resolved'
    <3>1. Unread' \/ (hub'.target = hub.target /\ ~Unread)
      BY <1>1, <2>1, <2>5 DEF Unread
    <3>2. hub' = hub /\ port' = port /\ preview' = preview
      BY <1>1, <2>1
    <3> QED
      BY <1>1, <2>4, <2>5, <3>1, <3>2, BeforeCommand, CommandKeeps
  <2>7. \A k : Excused(k) \/ k = Tried => Excused(k)'
    BY <1>1, <2>1, <2>5 DEF Excused, Off
  <2>8. Heeded'
    <3> SUFFICES ASSUME NEW k \in Played, Rings(k)' PROVE k \in odd'.lost \/ (ui'.pc # "drop" /\ Excused(k)')
      BY DEF Heeded, Played
    <3> QED
      BY <2>4, <2>5, <2>7, BeforeCommand DEF Heeded
  <2>9. UnderWay'
    BY <1>1, <2>1, <2>5, BeforeCommand DEF UnderWay, Holding, AllOff
  <2> QED
    BY <2>6, <2>8, <2>9 DEF IInv
<1>3. CASE Full /\ preview.prev = preview.track
  <2>1. preview' = NoPreview /\ ui' = [ui EXCEPT !.pc = "idle"] /\ UNCHANGED <<hub, ring, odd>>
    BY <1>3 DEF SoundHold, Proceed
  <2>2. ui' \in [pc : {"idle", "dirty", "silence", "drop", "cut", "sound", "restore"},
                  then : {"idle", "cut"}, track : Somewhere]
        /\ ui'.pc = "idle"
    BY <2>1, BeforeCommand
  <2>3. Typed' /\ Playing' /\ Resolved'
    <3>1. Unread' \/ (hub'.target = hub.target /\ ~Unread)
      BY <1>1, <2>1, <2>2 DEF Unread
    <3>2. hub' = hub /\ port' = port /\ ring' = ring /\ odd' = odd
      BY <1>1, <2>1
    <3> QED
      BY <1>1, <2>1, <2>2, <3>1, <3>2, BeforeCommand, CommandKeeps
  <2>4. \A k : Rings(k)' <=> Rings(k)
    BY <1>1, <2>1, RingsStay
  <2>5. \A k : Excused(k) /\ k # Tried => Excused(k)'
    BY <1>1, <2>1, <2>2 DEF Excused, Off
  <2>6. Heeded'
    <3> SUFFICES ASSUME NEW k \in Played, Rings(k)' PROVE k \in odd'.lost \/ (ui'.pc # "drop" /\ Excused(k)')
      BY DEF Heeded, Played
    <3> QED
      BY <1>1, <2>1, <2>2, <2>4, <2>5, BeforeCommand DEF Heeded
  <2>7. UnderWay'
    BY <1>1, <2>1, <2>2, BeforeCommand DEF UnderWay, Holding, AllOff
  <2> QED
    BY <2>3, <2>6, <2>7 DEF IInv
<1>4. CASE Full /\ preview.prev # preview.track
  <2> DEFINE t == preview.prev
  <2>1. preview' = NoPreview /\ SetTarget(t, "idle") /\ t \in Somewhere /\ t # hub.target
    BY <1>1, <1>4, BeforeCommand DEF SoundHold
  <2> HIDE DEF t
  <2>2. /\ ring' \in Seq(Message) /\ Len(ring') <= RingSlots
        /\ odd' = [odd EXCEPT !.lost = odd'.lost] /\ odd'.lost \subseteq Played
        /\ hub' = [hub EXCEPT !.target = t] /\ hub'.target = t
        /\ ui' = [ui EXCEPT !.pc = "dirty", !.then = "idle"] /\ ui'.pc = "dirty" /\ ui'.then = "idle"
        /\ \A k \in Played : Rings(k)' => k \in odd'.lost
    BY <1>1, <2>1, BeforeCommand, SetTargetDoes
  <2>3. Typed' /\ Playing' /\ Resolved'
    <3>1. Unread'
      BY <2>2 DEF Unread
    <3>2. /\ hub' \in [target : Somewhere, dirty : BOOLEAN, slot : Nat, stale : BOOLEAN]
          /\ hub'.slot = hub.slot /\ hub'.stale = hub.stale
          /\ ui' \in [pc : {"idle", "dirty", "silence", "drop", "cut", "sound", "restore"},
                  then : {"idle", "cut"}, track : Somewhere]
      BY <2>1, <2>2, BeforeCommand
    <3> QED
      BY <1>1, <2>1, <2>2, <3>1, <3>2, BeforeCommand, CommandKeeps
  <2>4. Heeded'
    BY <2>2, NothingRings
  <2>5. UnderWay'
    BY <1>1, <2>1, <2>2, BeforeCommand DEF UnderWay, Holding, AllOff
  <2> QED
    BY <2>3, <2>4, <2>5 DEF IInv
<1> QED
  BY <1>2, <1>3, <1>4

----------------------------------------------------------------------------
(* The engine's thread and the transport.                                  *)

(* Nothing of it concerns a message or a command.                          *)
LEMMA ElsewhereKeeps ==
  ASSUME Heeded, UnderWay, UNCHANGED <<outside, ring, cb, nodes>>, hub'.target = hub.target,
         odd'.lost = odd.lost
  PROVE  Heeded' /\ UnderWay'
<1>1. UNCHANGED <<down, port, ui, preview, ring, cb, nodes>>
  BY DEF outside
<1>2. \A k : (Rings(k)' <=> Rings(k)) /\ (Excused(k)' <=> Excused(k))
  <2>1. \A k : Rings(k)' <=> Rings(k)
    BY <1>1, RingsStay
  <2>2. \A k : Excused(k)' <=> Excused(k)
    BY <1>1 DEF Excused, Off
  <2> QED
    BY <2>1, <2>2
<1>3. Heeded'
  BY <1>1, <1>2 DEF Heeded, Played
<1>4. UnderWay'
  BY <1>1, <1>2 DEF UnderWay, Holding, AllOff
<1> QED
  BY <1>3, <1>4

LEMMA EngineTyped ==
  ASSUME Typed
  PROVE  /\ engine.pc \in {"idle", "rebuild", "refresh", "store"} /\ engine.live \in Somewhere
         /\ engine.want \in Somewhere /\ engine.slots \in Places /\ engine.kept \in SUBSET Tracks
         /\ engine.made \in [Tracks -> Nat] /\ engine.ready \in {<<>>} \cup {<<r>> : r \in Tables}
         /\ engine = [pc |-> engine.pc, live |-> engine.live, want |-> engine.want, slots |-> engine.slots,
                      kept |-> engine.kept, made |-> engine.made, ready |-> engine.ready]
         /\ hub \in [target : Somewhere, dirty : BOOLEAN, slot : Nat, stale : BOOLEAN]
         /\ song \in [place : Places, asked : BOOLEAN]
         /\ odd = [odd EXCEPT !.astray = odd.astray]
BY DEF Typed

LEMMA RebuildKeeps ==
  ASSUME ConstantsAreSound, IInv, NEW pc \in {"idle", "refresh"}, NEW e,
         e = [engine EXCEPT !.pc = e.pc, !.live = e.live], e.live \in Somewhere, e.pc = engine.pc,
         Rebuild(pc, e), engine.pc # "store",
         UNCHANGED <<outside, ring, moving, cb, graph, nodes>>
  PROVE  IInv'
<1>0. Typed /\ Playing /\ Resolved /\ Heeded /\ UnderWay
  BY DEF IInv
<1> DEFINE row == Rows(Live, Made, song.place)
           renumbered == {t \in Tracks : song.place[t] # engine.slots[t]}
<1>1. /\ Live \in SUBSET Tracks /\ Made \in [Tracks -> Nat] /\ song.place \in Places /\ row \in Tables
      /\ renumbered \subseteq Tracks
  <2>1. Live \in SUBSET Tracks
    BY <1>0, EngineTyped DEF Live, Somewhere, ConstantsAreSound
  <2>2. Made \in [Tracks -> Nat]
    BY <1>0, EngineTyped DEF Made
  <2>3. song.place \in Places
    BY <1>0, EngineTyped
  <2> QED
    BY <2>1, <2>2, <2>3 DEF Tables
<1>2. /\ engine' = [e EXCEPT !.pc = pc, !.slots = song.place, !.kept = Live, !.made = Made,
                             !.ready = <<row>>]
      /\ hub' = [hub EXCEPT !.stale = TRUE]
      /\ song' = [song EXCEPT !.asked = FALSE]
      /\ odd' = [odd EXCEPT !.astray = odd.astray \cup renumbered]
  BY DEF Rebuild
<1>3. \A t \in Tracks : t \notin renumbered => engine.slots[t] = song.place[t]
  OBVIOUS
<1>9. row = Rows(Live, Made, song.place)
  OBVIOUS
<1> HIDE DEF row, renumbered
<1>4. /\ engine'.pc = pc /\ engine'.slots = song.place /\ engine'.kept = Live /\ engine'.made = Made
      /\ engine'.ready = <<row>> /\ engine'.live = e.live /\ engine'.want = engine.want
      /\ engine' = [pc |-> pc, live |-> e.live, want |-> engine.want, slots |-> song.place,
                    kept |-> Live, made |-> Made, ready |-> <<row>>]
  <2>1. e = [pc |-> e.pc, live |-> e.live, want |-> engine.want, slots |-> engine.slots,
             kept |-> engine.kept, made |-> engine.made, ready |-> engine.ready]
    BY <1>0, EngineTyped
  <2> QED
    BY <1>2, <2>1
<1>5. /\ hub'.target = hub.target /\ hub'.slot = hub.slot /\ hub'.stale = TRUE
      /\ hub' \in [target : Somewhere, dirty : BOOLEAN, slot : Nat, stale : BOOLEAN]
      /\ song' \in [place : Places, asked : BOOLEAN]
      /\ odd'.astray = odd.astray \cup renumbered /\ odd'.clipped = odd.clipped /\ odd'.owed = odd.owed
      /\ odd'.cut = odd.cut /\ odd'.lost = odd.lost
      /\ odd' \in [lost : SUBSET Played, astray : SUBSET Tracks, clipped : SUBSET Tracks,
                   owed : BOOLEAN, cut : BOOLEAN]
  <2>1. hub'.target = hub.target /\ hub'.slot = hub.slot /\ hub'.stale = TRUE
        /\ hub' \in [target : Somewhere, dirty : BOOLEAN, slot : Nat, stale : BOOLEAN]
        /\ song' \in [place : Places, asked : BOOLEAN]
    BY <1>0, <1>2, EngineTyped
  <2>2. /\ odd'.astray = odd.astray \cup renumbered /\ odd'.clipped = odd.clipped
        /\ odd'.owed = odd.owed /\ odd'.cut = odd.cut /\ odd'.lost = odd.lost
        /\ odd' \in [lost : SUBSET Played, astray : SUBSET Tracks, clipped : SUBSET Tracks,
                     owed : BOOLEAN, cut : BOOLEAN]
    BY <1>0, <1>1, <1>2 DEF Typed
  <2> QED
    BY <2>1, <2>2
<1>6. Typed'
  <2>1. engine'.ready \in {<<>>} \cup {<<r>> : r \in Tables}
    BY <1>1, <1>4
  <2>2. engine' \in [pc : {"idle", "rebuild", "refresh", "store"}, live : Somewhere, want : Somewhere,
                     slots : Places, kept : SUBSET Tracks, made : [Tracks -> Nat],
                     ready : {<<>>} \cup {<<r>> : r \in Tables}]
    BY <1>0, <1>1, <1>4, <2>1, EngineTyped
  <2>3. UNCHANGED <<down, port, ui, preview, ring, moving, cb, graph, nodes>>
    BY DEF outside
  <2> QED
    BY <1>0, <1>5, <2>2, <2>3 DEF Typed
<1>7. Playing'
  <2>1. Counted' /\ Absent' /\ Owed'
    BY <1>0, <1>5 DEF Playing, Counted, Absent, Owed, Window, Quiet, NoSlot
  <2>2. Agreed'
    <3>1. engine'.ready = <<Rows(engine'.kept, engine'.made, engine'.slots)>>
      BY <1>4, <1>9
    <3>2. \A t \in DOMAIN graph : t \notin odd'.astray => graph[t].slot = engine'.slots[t]
      <4>1. DOMAIN graph \subseteq Tracks
        BY <1>0, TablesAre DEF Typed
      <4> QED
        BY <1>0, <1>3, <1>4, <1>5, <4>1 DEF Playing, Agreed
    <3> QED
      BY <3>1, <3>2 DEF Agreed, Rows
  <2>3. \A t : (There(t)' <=> There(t)) /\ KeysOf(t)' = KeysOf(t)
    BY DEF There, KeysOf, Played
  <2>4. Released' /\ Remembered'
    BY <1>0, <1>5, <2>3 DEF Playing, Released, Remembered
  <2>5. ClipEnds' /\ TailsEnd'
    BY <1>0, <1>5, <2>3 DEF Playing, ClipEnds, TailsEnd
  <2> QED
    BY <2>1, <2>2, <2>4, <2>5 DEF Playing
<1>8. Resolved'
  BY <1>4, <1>5 DEF Resolved
<1>10. Heeded' /\ UnderWay'
  BY <1>0, <1>5, ElsewhereKeeps
<1> QED
  BY <1>6, <1>7, <1>8, <1>10 DEF IInv

(* The other steps of the engine's thread, and a change of the song. *)
LEMMA EngineKeeps ==
  ASSUME ConstantsAreSound, IInv, UNCHANGED <<down, port, ui, preview, ring, cb, graph, nodes, odd>>,
         engine' \in [pc : {"idle", "rebuild", "refresh", "store"}, live : Somewhere, want : Somewhere,
                      slots : {engine.slots}, kept : {engine.kept}, made : {engine.made},
                      ready : {engine.ready}],
         hub' \in [target : {hub.target}, dirty : BOOLEAN, slot : Nat, stale : BOOLEAN],
         song' \in [place : Places, asked : BOOLEAN],
         moving' \in [playing : BOOLEAN, countin : BOOLEAN], ~(moving'.playing /\ moving'.countin),
         Resolved'
  PROVE  IInv'
<1>0. Typed /\ Playing /\ Heeded /\ UnderWay
  BY DEF IInv
<1>1. Typed'
  <2>1. engine' \in [pc : {"idle", "rebuild", "refresh", "store"}, live : Somewhere, want : Somewhere,
                     slots : Places, kept : SUBSET Tracks, made : [Tracks -> Nat],
                     ready : {<<>>} \cup {<<r>> : r \in Tables}]
    BY <1>0, EngineTyped
  <2>2. hub' \in [target : Somewhere, dirty : BOOLEAN, slot : Nat, stale : BOOLEAN]
    BY <1>0, EngineTyped
  <2> QED
    BY <1>0, <2>1, <2>2 DEF Typed
<1>2. Playing'
  BY <1>0, PlayingStays
<1>3. Heeded' /\ UnderWay'
  <2>1. \A k : Rings(k)' <=> Rings(k)
    BY RingsStay
  <2>2. \A k : Excused(k)' <=> Excused(k)
    BY DEF Excused, Off
  <2>3. hub'.target = hub.target
    OBVIOUS
  <2> QED
    BY <1>0, <2>1, <2>2, <2>3 DEF Heeded, UnderWay, Holding, AllOff, Played
<1> QED
  BY <1>1, <1>2, <1>3 DEF IInv

LEMMA HandleRebuildKeeps ==
  ASSUME ConstantsAreSound, IInv, HandleRebuild
  PROVE  IInv'
<1>1. engine = [engine EXCEPT !.pc = engine.pc, !.live = engine.live] /\ engine.live \in Somewhere
  BY EngineTyped DEF IInv
<1>2. Rebuild("idle", engine) /\ engine.pc # "store" /\ UNCHANGED <<outside, ring, moving, cb, graph, nodes>>
  BY DEF HandleRebuild
<1> QED
  BY <1>1, <1>2, RebuildKeeps

LEMMA FollowRebuildKeeps ==
  ASSUME ConstantsAreSound, IInv, FollowRebuild
  PROVE  IInv'
<1>1. engine = [engine EXCEPT !.pc = engine.pc, !.live = engine.live] /\ engine.live \in Somewhere
  BY EngineTyped DEF IInv
<1>2. Rebuild("refresh", engine) /\ engine.pc # "store" /\ UNCHANGED <<outside, ring, moving, cb, graph, nodes>>
  BY DEF FollowRebuild
<1> QED
  BY <1>1, <1>2, RebuildKeeps

(* What the other steps find. *)
LEMMA EngineStands ==
  ASSUME IInv
  PROVE  /\ engine \in [pc : {"idle", "rebuild", "refresh", "store"}, live : Somewhere, want : Somewhere,
                        slots : {engine.slots}, kept : {engine.kept}, made : {engine.made},
                        ready : {engine.ready}]
         /\ hub \in [target : {hub.target}, dirty : BOOLEAN, slot : Nat, stale : BOOLEAN]
         /\ hub.target \in Somewhere
         /\ song \in [place : Places, asked : BOOLEAN]
         /\ moving \in [playing : BOOLEAN, countin : BOOLEAN] /\ ~(moving.playing /\ moving.countin)
         /\ Resolved
<1>1. Typed /\ Resolved
  BY DEF IInv
<1> QED
  BY <1>1, EngineTyped DEF Typed

LEMMA FollowKeeps ==
  ASSUME ConstantsAreSound, IInv, Follow
  PROVE  IInv'
<1>1. /\ UNCHANGED <<down, port, ui, preview, ring, cb, graph, nodes, odd>>
      /\ UNCHANGED <<hub, song, moving>> /\ engine.pc = "idle"
  BY DEF Follow, outside
<1>2. \/ engine' = [engine EXCEPT !.live = hub.target, !.pc = "rebuild"]
      \/ engine' = [engine EXCEPT !.pc = "refresh"]
  BY DEF Follow
<1>3. /\ engine' \in [pc : {"idle", "rebuild", "refresh", "store"}, live : Somewhere, want : Somewhere,
                        slots : {engine.slots}, kept : {engine.kept}, made : {engine.made},
                        ready : {engine.ready}]
      /\ engine'.pc # "store" /\ engine'.slots = engine.slots
  BY <1>2, EngineStands
<1>4. Resolved'
  BY <1>1, <1>3, EngineStands DEF Resolved, SlotOf, Unread
<1> QED
  BY <1>1, <1>3, <1>4, EngineStands, EngineKeeps

LEMMA ReadTargetKeeps ==
  ASSUME ConstantsAreSound, IInv, ReadTarget
  PROVE  IInv'
<1>1. /\ UNCHANGED <<down, port, ui, preview, ring, cb, graph, nodes, odd>>
      /\ UNCHANGED <<song, moving>>
      /\ hub' = [hub EXCEPT !.dirty = FALSE] /\ engine' = [engine EXCEPT !.pc = "store", !.want = hub.target]
  BY DEF ReadTarget, outside
<1>2. /\ engine' \in [pc : {"idle", "rebuild", "refresh", "store"}, live : Somewhere, want : Somewhere,
                        slots : {engine.slots}, kept : {engine.kept}, made : {engine.made},
                        ready : {engine.ready}]
      /\ engine'.pc = "store" /\ engine'.want = hub.target
      /\ hub' \in [target : {hub.target}, dirty : BOOLEAN, slot : Nat, stale : BOOLEAN]
      /\ hub'.target = hub.target
  BY <1>1, EngineStands
<1>3. Resolved'
  BY <1>2 DEF Resolved
<1> QED
  BY <1>1, <1>2, <1>3, EngineStands, EngineKeeps

(* The target may have changed since it was read: then its flag is raised. *)
LEMMA StoreSlotKeeps ==
  ASSUME ConstantsAreSound, IInv, StoreSlot
  PROVE  IInv'
<1>1. /\ UNCHANGED <<down, port, ui, preview, ring, cb, graph, nodes, odd>>
      /\ UNCHANGED <<song, moving>> /\ engine.pc = "store"
      /\ hub' = [hub EXCEPT !.slot = SlotOf(engine.want), !.stale = FALSE]
      /\ engine' = [engine EXCEPT !.pc = "idle"]
  BY DEF StoreSlot, outside
<1>2. /\ engine' \in [pc : {"idle", "rebuild", "refresh", "store"}, live : Somewhere, want : Somewhere,
                        slots : {engine.slots}, kept : {engine.kept}, made : {engine.made},
                        ready : {engine.ready}]
      /\ engine'.pc = "idle" /\ engine'.slots = engine.slots
  BY <1>1, EngineStands
<1>3. SlotOf(engine.want) \in Nat
  <2>1. engine.want \in Somewhere /\ engine.slots \in [Tracks -> Nat]
    BY EngineTyped DEF IInv, ConstantsAreSound
  <2> QED
    BY <2>1 DEF SlotOf, Somewhere, NoSlot
<1>4. /\ hub' \in [target : {hub.target}, dirty : BOOLEAN, slot : Nat, stale : BOOLEAN]
      /\ hub'.target = hub.target /\ hub'.dirty = hub.dirty /\ hub'.slot = SlotOf(engine.want)
  BY <1>1, <1>3, EngineStands
<1>5. Resolved'
  BY <1>1, <1>2, <1>4, EngineStands DEF Resolved, SlotOf, Unread
<1> QED
  BY <1>1, <1>2, <1>4, <1>5, EngineStands, EngineKeeps

(* An edit, or the transport. *)
LEMMA OthersKeep ==
  ASSUME ConstantsAreSound, IInv, Move \/ Play \/ Halt \/ CountIn
  PROVE  IInv'
<1>1. UNCHANGED <<down, port, ui, preview, ring, cb, graph, nodes, odd>> /\ UNCHANGED <<hub, engine>>
  BY DEF Move, Play, Halt, CountIn, outside
<1>2. song' \in [place : Places, asked : BOOLEAN]
  <2>1. CASE Move
    <3>1. \E place \in Places : song' = [place |-> place, asked |-> TRUE]
      BY <2>1 DEF Move
    <3> QED
      BY <3>1
  <2>2. CASE ~Move
    BY <2>2, EngineStands DEF Play, Halt, CountIn
  <2> QED
    BY <2>1, <2>2
<1>3. moving' \in [playing : BOOLEAN, countin : BOOLEAN] /\ ~(moving'.playing /\ moving'.countin)
  <2>1. CASE Play
    BY <2>1 DEF Play
  <2>2. CASE Halt
    BY <2>2 DEF Halt
  <2>3. CASE CountIn
    BY <2>3 DEF CountIn
  <2>4. CASE Move
    BY <2>4, EngineStands DEF Move
  <2> QED
    BY <2>1, <2>2, <2>3, <2>4
<1>4. Resolved'
  BY <1>1, EngineStands DEF Resolved, SlotOf, Unread
<1> QED
  BY <1>1, <1>2, <1>3, <1>4, EngineStands, EngineKeeps

----------------------------------------------------------------------------
(* The invariant.                                                          *)

LEMMA InitStands ==
  ASSUME ConstantsAreSound, LiveInit
  PROVE  IInv
<1>1. PICK place \in Places :
        /\ song = [place |-> place, asked |-> FALSE]
        /\ engine = [pc |-> "idle", live |-> NoTrack, want |-> NoTrack, slots |-> place,
                     kept |-> Scored, made |-> [t \in Tracks |-> IF t \in Scored THEN 1 ELSE 0],
                     ready |-> <<>>]
        /\ graph = Rows(Scored, [t \in Tracks |-> 1], place)
  BY DEF LiveInit
<1>2. /\ down = {} /\ port.open /\ port.monitor /\ port.pc = "idle"
      /\ ui = [pc |-> "idle", then |-> "idle", track |-> NoTrack] /\ preview = NoPreview
      /\ hub = [target |-> NoTrack, dirty |-> FALSE, slot |-> NoSlot, stale |-> FALSE]
      /\ ring = <<>>
      /\ moving = [playing |-> FALSE, countin |-> FALSE]
      /\ cb = [slot |-> NoSlot, allOff |-> FALSE, held |-> {}, rel |-> NoSlot, left |-> 0,
               hold |-> 0, was |-> FALSE]
      /\ nodes = [t \in Tracks |-> Quiet]
      /\ odd = [lost |-> {}, astray |-> {}, clipped |-> {}, owed |-> FALSE, cut |-> FALSE]
  BY DEF LiveInit
<1>3. DOMAIN graph = Scored /\ Scored \subseteq Tracks /\ \A t \in Scored : graph[t].slot = place[t]
  BY <1>1 DEF Rows, ConstantsAreSound
<1>4. \A t \in Tracks : nodes[t].on = {} /\ nodes[t].tail = 0 /\ nodes[t] = Quiet
  BY <1>2 DEF Quiet
<1>5. Typed
  <2>1. port \in [open : BOOLEAN, monitor : BOOLEAN, pc : {"idle", "route", "push"},
                  event : [kind : {"on", "off"}, key : Pitches] \cup {AllOff}]
    BY DEF LiveInit
  <2>2. preview \in [track : Somewhere, prev : Somewhere]
    BY <1>2 DEF NoPreview, Somewhere
  <2>3. ring \in Seq(Message) /\ Len(ring) <= RingSlots
    BY <1>2 DEF ConstantsAreSound
  <2>4. graph \in Tables
    <3>1. [t \in Tracks |-> 1] \in [Tracks -> Nat]
      OBVIOUS
    <3> QED
      BY <1>1, <1>3, <3>1 DEF Tables
  <2>5. engine \in [pc : {"idle", "rebuild", "refresh", "store"}, live : Somewhere, want : Somewhere,
                    slots : Places, kept : SUBSET Tracks, made : [Tracks -> Nat],
                    ready : {<<>>} \cup {<<r>> : r \in Tables}]
    <3>1. [t \in Tracks |-> IF t \in Scored THEN 1 ELSE 0] \in [Tracks -> Nat]
      OBVIOUS
    <3> QED
      BY <1>1, <1>3, <3>1 DEF Somewhere
  <2>6. nodes \in [Tracks -> NodeState]
    BY <1>2 DEF Quiet, NodeState, ConstantsAreSound
  <2>7. cb \in CbState
    BY <1>2 DEF CbState, NoSlot
  <2>8. song \in [place : Places, asked : BOOLEAN]
    BY <1>1
  <2>9. /\ ui \in [pc : {"idle", "dirty", "silence", "drop", "cut", "sound", "restore"},
                   then : {"idle", "cut"}, track : Somewhere]
        /\ hub \in [target : Somewhere, dirty : BOOLEAN, slot : Nat, stale : BOOLEAN]
    BY <1>2 DEF Somewhere, NoSlot
  <2>10. /\ moving \in [playing : BOOLEAN, countin : BOOLEAN] /\ ~(moving.playing /\ moving.countin)
         /\ odd \in [lost : SUBSET Played, astray : SUBSET Tracks, clipped : SUBSET Tracks,
                     owed : BOOLEAN, cut : BOOLEAN]
         /\ down \subseteq Pitches
    BY <1>2
  <2> QED
    BY <2>1, <2>2, <2>3, <2>4, <2>5, <2>6, <2>7, <2>8, <2>9, <2>10 DEF Typed
<1>6. Playing
  <2>1. Counted /\ Owed
    BY <1>2 DEF Counted, Owed, NoSlot, Window, ConstantsAreSound
  <2>2. Absent /\ Released /\ Remembered /\ ClipEnds /\ TailsEnd
    BY <1>4 DEF Absent, Released, Remembered, ClipEnds, TailsEnd, KeysOf
  <2>3. Agreed
    BY <1>1, <1>3 DEF Agreed
  <2> QED
    BY <2>1, <2>2, <2>3 DEF Playing
<1>7. Resolved
  BY <1>1, <1>2 DEF Resolved, SlotOf
<1>8. \A k \in Played : ~Rings(k)
  BY <1>2 DEF Rings
<1>9. Heeded /\ UnderWay
  <2>1. Tried \in Played
    BY DEF Played
  <2> QED
    BY <1>2, <1>8, <2>1 DEF Heeded, UnderWay, Holding
<1> QED
  BY <1>5, <1>6, <1>7, <1>9 DEF IInv

LEMMA StutterKeeps ==
  ASSUME ConstantsAreSound, IInv, UNCHANGED liveVars
  PROVE  IInv'
<1>1. /\ UNCHANGED <<down, port, ui, preview, ring, cb, graph, nodes, odd>>
      /\ UNCHANGED <<hub, engine, song, moving>>
  BY DEF liveVars, outside
<1>2. Resolved'
  BY <1>1, EngineStands DEF Resolved, SlotOf, Unread
<1> QED
  BY <1>1, <1>2, EngineStands, EngineKeeps

LEMMA NextKeeps ==
  ASSUME ConstantsAreSound, IInv, [LiveNext]_liveVars
  PROVE  IInv'
<1>1. CASE \E k \in Pitches : Strike(k) \/ Lift(k)
  BY <1>1, StrikeKeeps, LiftKeeps
<1>2. CASE Route \/ Forward
  BY <1>2, RouteKeeps, ForwardKeeps
<1>3. CASE \E t \in Tracks \cup {NoTrack} : Pick(t)
  BY <1>3, PickKeeps DEF Somewhere
<1>4. CASE MarkDirty \/ SwitchMonitor \/ Silence \/ ChangePort \/ DropPort
  BY <1>4, MarkDirtyKeeps, SwitchMonitorKeeps, SilenceKeeps, ChangePortKeeps, DropPortKeeps
<1>5. CASE \E t \in Tracks : BeginHold(t)
  BY <1>5, BeginHoldKeeps
<1>6. CASE CutHold \/ SoundHold \/ EndHold \/ RestoreTarget
  BY <1>6, CutHoldKeeps, SoundHoldKeeps, EndHoldKeeps, RestoreTargetKeeps
<1>7. CASE Move \/ Play \/ Halt \/ CountIn
  BY <1>7, OthersKeep
<1>8. CASE HandleRebuild \/ Follow \/ FollowRebuild \/ ReadTarget \/ StoreSlot
  BY <1>8, HandleRebuildKeeps, FollowKeeps, FollowRebuildKeeps, ReadTargetKeeps, StoreSlotKeeps
<1>9. CASE Block
  BY <1>9, BlockKeeps
<1>10. CASE UNCHANGED liveVars
  BY <1>10, StutterKeeps
<1> QED
  BY <1>1, <1>2, <1>3, <1>4, <1>5, <1>6, <1>7, <1>8, <1>9, <1>10 DEF LiveNext

----------------------------------------------------------------------------
(* What it promises.                                                       *)

(* At rest the callback plays on the picked track, whose slot is its own. *)
LEMMA RestingSlot ==
  ASSUME ConstantsAreSound, IInv, AtRest
  PROVE  /\ cb.slot = SlotOf(hub.target) /\ hub.target \in Somewhere
         /\ engine.slots \in [Tracks -> Nat \ {0}]
         /\ DOMAIN graph \subseteq Tracks
         /\ \A t \in DOMAIN graph : t \notin odd.astray => graph[t].slot = engine.slots[t]
         /\ \A t \in Tracks : t \notin odd.astray /\ There(t) => t = hub.target
<1>1. cb.slot = SlotOf(hub.target)
  BY DEF IInv, Resolved, Unread, AtRest
<1>2. hub.target \in Somewhere /\ engine.slots \in Places
  BY EngineTyped DEF IInv, Typed
<1>3. engine.slots \in [Tracks -> Nat \ {0}] /\ \A s, t \in Tracks : s # t => engine.slots[s] # engine.slots[t]
  BY <1>2 DEF ConstantsAreSound
<1>4. DOMAIN graph \subseteq Tracks
  BY TablesAre DEF IInv, Typed
<1>5. \A t \in DOMAIN graph : t \notin odd.astray => graph[t].slot = engine.slots[t]
  BY DEF IInv, Playing, Agreed
<1>6. ASSUME NEW t \in Tracks, t \notin odd.astray, There(t) PROVE t = hub.target
  <2>1. engine.slots[t] = SlotOf(hub.target)
    BY <1>1, <1>5, <1>6 DEF There
  <2>2. hub.target # NoTrack
    BY <1>3, <2>1 DEF SlotOf, NoSlot
  <2> QED
    BY <1>2, <1>3, <2>1, <2>2 DEF SlotOf, Somewhere
<1> QED
  BY <1>1, <1>2, <1>3, <1>4, <1>5, <1>6

LEMMA InvariantTypes ==
  ASSUME ConstantsAreSound, IInv
  PROVE  LiveTypeOK
<1>1. Typed /\ Counted
  BY DEF IInv, Playing
<1> QED
  BY <1>1 DEF LiveTypeOK, Typed, Counted, Somewhere, NodeState, CbState

LEMMA InvariantReleases ==
  ASSUME ConstantsAreSound, IInv
  PROVE  NothingHangs
<1> SUFFICES ASSUME AtRest, NEW t \in Tracks, t \notin odd.astray, moving.playing \/ t = hub.target
             PROVE  /\ \A k \in nodes[t].on \cap Played : k \in Wanted(t) \cup odd.lost
                    /\ Clip \in nodes[t].on => moving.playing
  BY DEF NothingHangs
<1>1. Playing /\ Heeded
  BY DEF IInv
<1>2. cb.was = moving.playing /\ ~cb.allOff /\ ring = <<>> /\ ui.pc = "idle" /\ port.pc = "idle"
  BY DEF AtRest
<1>3. There(t) \/ (nodes[t].on = {}) \/ (moving.playing /\ KeysOf(t) = {})
  <2>1. CASE t \notin DOMAIN graph
    BY <1>1, <2>1 DEF Playing, Absent, Quiet
  <2>2. CASE t \in DOMAIN graph /\ t = hub.target
    <3>1. graph[t].slot = cb.slot
      BY <2>2, RestingSlot DEF SlotOf, ConstantsAreSound
    <3> QED
      BY <2>2, <3>1 DEF There
  <2>3. CASE t # hub.target
    BY <1>1, <1>2, <2>3 DEF Playing, Released
  <2> QED
    BY <2>1, <2>2, <2>3
<1>4. ASSUME NEW k \in nodes[t].on \cap Played PROVE k \in Wanted(t) \cup odd.lost
  <2>1. There(t)
    BY <1>3 DEF KeysOf
  <2>2. k \in cb.held
    BY <1>1, <1>2, <2>1 DEF Playing, Released, KeysOf
  <2>3. Rings(k)
    BY <1>2, <2>2 DEF Rings
  <2>4. k \in odd.lost \/ Excused(k)
    BY <1>1, <2>3 DEF Heeded, Played
  <2>5. t = hub.target
    BY <2>1, RestingSlot
  <2> QED
    BY <1>2, <2>4, <2>5 DEF Excused, Wanted
<1>5. ASSUME Clip \in nodes[t].on PROVE moving.playing
  BY <1>1, <1>2, <1>3, <1>5 DEF Playing, ClipEnds
<1> QED
  BY <1>4, <1>5

LEMMA InvariantRunsOut ==
  ASSUME ConstantsAreSound, IInv
  PROVE  TailsRunOut
<1> SUFFICES ASSUME AtRest, NEW t \in Tracks, t \notin odd.astray \cup odd.clipped, t # hub.target
             PROVE  nodes[t].tail = 0
  BY DEF TailsRunOut
<1>1. Typed /\ TailsEnd
  BY DEF IInv, Playing
<1>2. nodes[t].tail \in 0..Release
  BY <1>1 DEF Typed, NodeState
<1> SUFFICES ASSUME nodes[t].tail > 0 PROVE FALSE
  BY <1>2 DEF ConstantsAreSound
<1>3. t \in DOMAIN graph /\ (graph[t].slot # cb.slot => graph[t].slot = cb.rel)
  BY <1>1 DEF TailsEnd
<1>4. graph[t].slot # cb.slot
  BY <1>3, RestingSlot DEF There
<1>5. graph[t].slot = engine.slots[t] /\ engine.slots[t] # 0 /\ cb.rel = 0
  BY <1>3, RestingSlot DEF AtRest, NoSlot
<1> QED
  BY <1>3, <1>4, <1>5

(* What the monitoring path remembers, from the port's thread to the       *)
(* callback, is an invariant of LiveMidiIn: the callback holds every key   *)
(* that a node sounds, every held key is excused or its release is on the  *)
(* way, the hub's slot is the picked track's or somebody is about to see   *)
(* to it, a node that leaves has its window.                               *)
THEOREM MonitoringInvariant ==
  ASSUME ConstantsAreSound
  PROVE  LiveSpec => []IInv
<1>1. LiveInit => IInv
  BY InitStands
<1>2. IInv /\ [LiveNext]_liveVars => IInv'
  BY NextKeeps
<1> QED
  BY <1>1, <1>2, PTL DEF LiveSpec

(* Notes played through a track (OutputCb::render and follow_live_in_target *)
(* in audio/engine.rs, midi_in.rs, midi_input.rs): at rest only keys that  *)
(* are down sound, and only on the picked track; no release is left over   *)
(* in a node nobody plays; no release of the keyboard's cuts a clip's note *)
(* while the song plays.  The exceptions are those of the definitions.     *)
THEOREM MonitoringStaysSound ==
  ASSUME ConstantsAreSound
  PROVE  LiveSpec => []MonitoringIsSound
<1>1. IInv => MonitoringIsSound
  <2> SUFFICES ASSUME IInv PROVE MonitoringIsSound
    OBVIOUS
  <2>1. ClipNotesAreKept
    BY DEF IInv, Playing, Owed, ClipNotesAreKept
  <2> QED
    BY <2>1, InvariantTypes, InvariantReleases, InvariantRunsOut DEF MonitoringIsSound
<1> QED
  BY <1>1, MonitoringInvariant, PTL

=============================================================================
