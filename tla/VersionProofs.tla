--------------------------- MODULE VersionProofs ---------------------------
(***************************************************************************)
(* Theorems about VersionGraph, for any number of threads, any sizes,      *)
(* budget, floor and bounds.                                               *)
(***************************************************************************)
EXTENDS VersionGraph, NaturalsInduction, WellFoundedInduction, SequenceTheorems, TLAPS

----------------------------------------------------------------------------
(* The inductive invariant.                                                *)

Carries(t) == verThread[t].pc = "record"
Closes(t) == verThread[t].pc = "closing"
Clears(t) == verThread[t].pc = "boundary"

AnyDrag ==
  [open : BOOLEAN, op : Op \cup {NoOp}, folds : SUBSET (1..MaxCommits), made : 0..MaxSwaps]
Written == {d \in AnyDrag : d.op \in Op /\ d.folds # {}}
Sent == {b \in Committed : b.rev \in 1..MaxCommits}
ThreadState ==
  {AtRest} \cup {Closing(d) : d \in Written} \cup {Recording(b) : b \in Sent}
    \cup {Swapped(e) : e \in 0..MaxSwaps}

Typed ==
  /\ verDoc \in Image /\ verRev \in 1..MaxCommits /\ verEpoch \in 0..MaxSwaps
  /\ drag \in AnyDrag /\ (drag.op = NoOp <=> drag.folds = {})
  /\ verLogEpoch \in 0..MaxSwaps
  /\ chain \in Seq(Node) /\ \A i \in DOMAIN chain : chain[i].rev \in 1..MaxCommits
  /\ recorded \in Nat
  /\ verThread \in [Committers -> ThreadState]
  /\ docs \in Seq(Image) /\ Len(docs) = verRev
  /\ nodeless \cup shared \subseteq 1..MaxCommits

(* The chain is as VersionsAreKept says, said of positions.                *)
Kept ==
  /\ \A i, j \in DOMAIN chain : i < j => chain[i].rev <= chain[j].rev
  /\ chain # <<>> => chain[1].materialized
  /\ retained = Weight(chain)
  /\ retained > Budget => Cuts(chain) = {}
  /\ Len(chain) >= Floor \/ Len(chain) >= recorded

(* What is known of revisions: batches on their way, and nodes.            *)
FoldsOf(t) ==
  IF Closes(t) THEN verThread[t].drag.folds
  ELSE IF Carries(t) THEN verThread[t].batch.folds ELSE {}
AsBatch(b) == [rev |-> b.rev, op |-> b.op, at |-> b.at, folds |-> b.folds]
AsNode(n, e) == [rev |-> n.rev, op |-> n.op, at |-> e, folds |-> {}]
Batches == {AsBatch(verThread[t].batch) : t \in {s \in Committers : Carries(s)}}
Nodes == {AsNode(chain[i], verLogEpoch) : i \in DOMAIN chain}
Carriers == Batches \cup Nodes

(* Revisions and epochs are those there have been; epochs that the log is  *)
(* still to be told of are different ones; knobs are always there.         *)
Known ==
  /\ verLogEpoch <= verEpoch /\ drag.made <= verEpoch
  /\ \A c \in Carriers : c.rev \in 2..verRev /\ c.at <= verEpoch
  /\ \A t \in Committers : Closes(t) => verThread[t].drag.made <= verEpoch
  /\ \A t \in Committers : Clears(t) => verThread[t].at <= verEpoch /\ verThread[t].at # verLogEpoch
  /\ \A s, t \in Committers : s # t /\ Clears(s) /\ Clears(t) => verThread[t].at # verThread[s].at
KnobsStay ==
  \A k \in Knobs : verDoc[k] # Nothing /\ \A u \in 1..verRev : docs[u][k] # Nothing

(* A revision has one carrier, unless it is shared. *)
Distinct ==
  /\ \A i, j \in DOMAIN chain : i < j /\ chain[i].rev = chain[j].rev => chain[i].rev \in shared
  /\ \A s, t \in Committers :
       s # t /\ Carries(s) /\ Carries(t) /\ verThread[s].batch.rev = verThread[t].batch.rev =>
         verThread[t].batch.rev \in shared
  /\ \A t \in Committers, i \in DOMAIN chain :
       Carries(t) /\ verThread[t].batch.rev = chain[i].rev => chain[i].rev \in shared

(* Images are those of their revisions. *)
Images ==
  /\ \A t \in Committers : Carries(t) /\ verThread[t].batch.rev \notin shared =>
       verThread[t].batch.image = docs[verThread[t].batch.rev]
  /\ \A i \in DOMAIN chain : chain[i].materialized /\ chain[i].rev \notin shared =>
       chain[i].image = docs[chain[i].rev]

(* The revisions folded into a drag have no node, belong to this drag and  *)
(* to no other, and the last may be that of its batch.                     *)
FoldsAreHeld ==
  /\ drag.folds \subseteq nodeless \cap (2..verRev)
  /\ \A t \in Committers :
       /\ FoldsOf(t) \subseteq nodeless \cap (2..verRev)
       /\ FoldsOf(t) \cap drag.folds = {}
       /\ \A s \in Committers : s # t => FoldsOf(t) \cap FoldsOf(s) = {}
       /\ Carries(t) => FoldsOf(t) = {} \/ \E m \in 2..verRev : FoldsOf(t) = m..verThread[t].batch.rev
FoldsAreFree ==
  \A c \in Carriers :
    /\ c.rev \in drag.folds => c.rev \in shared
    /\ \A t \in Committers : c.rev \in FoldsOf(t) =>
         c.rev \in shared \/ (Carries(t) /\ c.rev = verThread[t].batch.rev)

(* Later revisions are of later epochs. *)
InTime == \A x, y \in Carriers : x.rev < y.rev => x.at <= y.at

(* The log may still take, or does take, batches of epoch e. *)
Live(e) == e = verLogEpoch \/ \E t \in Committers : Clears(t) /\ verThread[t].at = e

(* Revision u has a carrier, or is one that versions are not replayed over.*)
Carried(u) == \E c \in Carriers : c.rev = u
Stops(u) == u \in nodeless \cup shared \/ Carried(u)

(* op leads from revision p to revision r. *)
Leads(p, r, op) == Applies(docs[p], op) /\ docs[r] = Apply(docs[p], op)

(* What is carried of this epoch is of the document that is open, and its  *)
(* newest revision is accounted for.                                       *)
Ours(c) == c \in Carriers /\ c.at = verEpoch /\ c.rev \notin shared
Current == \A c \in Carriers : Ours(c) => verDoc = docs[verRev]
Newest == \A c \in Carriers, r \in {verRev} : Ours(c) /\ Live(c.at) => Stops(r)

(* A drag that nothing else came between leads from the revision before it,*)
(* and that is accounted for.                                              *)
DragLeads(d) ==
  d.op # NoOp /\ d.made = verEpoch =>
    /\ verDoc = docs[verRev]
    /\ \A r \in {verRev}, m \in 2..verRev, x \in Carriers :
         d.folds = m..r /\ Ours(x) /\ x.rev < m /\ Live(x.at) =>
           Leads(m - 1, r, d.op) /\ (x.rev = m - 1 \/ Stops(m - 1))
Drags == {drag} \cup {verThread[t].drag : t \in {s \in Committers : Closes(s)}}
DragsLead == \A d \in Drags : DragLeads(d)

(* A carrier leads from the one before it, unless a revision between them  *)
(* is accounted for.                                                       *)
PairLeads(x, y) ==
  x.at = y.at /\ Live(x.at) /\ x.rev \notin shared /\ y.rev \notin shared /\ x.rev < y.rev =>
    Leads(x.rev, y.rev, y.op) \/ \E u \in (x.rev + 1)..(y.rev - 1) : u \notin y.folds /\ Stops(u)
PairsLead == \A x, y \in Carriers : PairLeads(x, y)

Linked ==
  /\ Known /\ KnobsStay /\ Distinct /\ Images
  /\ FoldsAreHeld /\ FoldsAreFree /\ InTime /\ Current /\ Newest /\ DragsLead /\ PairsLead

IInv == Typed /\ Kept /\ Linked

----------------------------------------------------------------------------
(* Least and greatest elements.                                            *)

(* A nonempty set of naturals has a least element. *)
LEMMA LeastNatural ==
  ASSUME NEW D \in SUBSET Nat, D # {}
  PROVE  \E n \in D : \A m \in D : n <= m
<1> DEFINE Less == OpToRel(<, Nat)
<1>1. IsWellFoundedOn(Less, Nat)
  BY NatLessThanWellFounded
<1>2. \A m, n \in Nat : <<m, n>> \in Less <=> m < n
  BY DEF OpToRel
<1> HIDE DEF Less
<1>3. PICK n \in D : \A m \in D : ~(<<m, n>> \in Less)
  BY <1>1, WFMin
<1>4. ASSUME NEW m \in D PROVE n <= m
  <2>1. m \in Nat /\ n \in Nat /\ ~(<<m, n>> \in Less)
    BY <1>3
  <2>2. ~(m < n)
    BY <1>2, <2>1
  <2> QED
    BY <2>1, <2>2
<1> QED
  BY <1>4

LEMMA MinIs ==
  ASSUME NEW D \in SUBSET Nat, D # {}
  PROVE  Min(D) \in D /\ \A m \in D : Min(D) <= m
BY LeastNatural DEF Min

LEMMA MaxIs ==
  ASSUME NEW n \in Nat, NEW D \in SUBSET (0..n), D # {}
  PROVE  Max(D) \in D /\ \A m \in D : m <= Max(D)
<1> DEFINE Below == {n - m : m \in D}
<1>1. Below \in SUBSET Nat /\ Below # {}
  OBVIOUS
<1>2. PICK k \in Below : \A m \in Below : k <= m
  BY <1>1, LeastNatural
<1>3. PICK a \in D : k = n - a
  BY <1>2
<1>4. ASSUME NEW m \in D PROVE m <= a
  <2>1. n - m \in Below
    OBVIOUS
  <2>2. n - a <= n - m
    BY <1>2, <1>3, <2>1
  <2> QED
    BY <2>2
<1> QED
  BY <1>4 DEF Max

----------------------------------------------------------------------------
(* Weights.                                                                *)

(* w adds up the charges of c. *)
AddsUp(w, c) ==
  /\ w \in [0..Len(c) -> Int]
  /\ w[0] = 0
  /\ \A i \in 1..Len(c) : w[i] = w[i - 1] + c[i].charge

(* The equation that Weight's recursion solves. *)
Totals(v, c) == v = [i \in 0..Len(c) |-> IF i = 0 THEN 0 ELSE v[i - 1] + c[i].charge]

LEMMA TotalsAddUp ==
  ASSUME NEW c \in Seq(Node), NEW v, Totals(v, c)
  PROVE  AddsUp(v, c)
<1> DEFINE Wrong == {i \in 0..Len(c) : v[i] \notin Int}
<1>1. v = [i \in 0..Len(c) |-> v[i]] /\ Len(c) \in Nat
  BY DEF Totals
<1>2. v[0] = 0
  BY DEF Totals
<1>3. \A i \in 1..Len(c) : v[i] = v[i - 1] + c[i].charge /\ c[i].charge \in Nat
  <2> TAKE i \in 1..Len(c)
  <2>1. i \in 0..Len(c) /\ i # 0 /\ c[i] \in Node
    OBVIOUS
  <2>2. v[i] = v[i - 1] + c[i].charge
    BY <2>1 DEF Totals
  <2> QED
    BY <2>1, <2>2 DEF Node
<1>4. Wrong = {}
  <2> SUFFICES ASSUME Wrong # {} PROVE FALSE
    OBVIOUS
  <2>0. Wrong \in SUBSET Nat
    OBVIOUS
  <2> HIDE DEF Wrong
  <2>1. PICK i \in Wrong : \A j \in Wrong : i <= j
    BY <2>0, LeastNatural
  <2> USE DEF Wrong
  <2>2. i \in 1..Len(c)
    BY <1>2, <2>1
  <2>3. v[i - 1] \in Int
    BY <2>1, <2>2
  <2> QED
    BY <1>3, <2>1, <2>2, <2>3
<1>5. v \in [0..Len(c) -> Int]
  BY <1>1, <1>4
<1> QED
  BY <1>2, <1>3, <1>5 DEF AddsUp

(* Up to every position there is a sum. *)
LEMMA SumExists ==
  ASSUME NEW c \in Seq(Node)
  PROVE  \E v : AddsUp(v, c)
<1> DEFINE Sums(v, n) == v \in [0..n -> Int] /\ v[0] = 0 /\ \A i \in 1..n : v[i] = v[i - 1] + c[i].charge
           Bad == {n \in 0..Len(c) : \A v : ~Sums(v, n)}
<1>1. Bad = {}
  <2> SUFFICES ASSUME Bad # {} PROVE FALSE
    OBVIOUS
  <2>0. Bad \in SUBSET Nat
    OBVIOUS
  <2> HIDE DEF Bad
  <2>1. PICK n \in Bad : \A m \in Bad : n <= m
    BY <2>0, LeastNatural
  <2> USE DEF Bad
  <2>2. CASE n = 0
    <3>1. Sums([i \in 0..0 |-> 0], 0)
      OBVIOUS
    <3> QED
      BY <2>1, <2>2, <3>1
  <2>3. CASE n # 0
    <3>1. n \in 1..Len(c) /\ n - 1 \in 0..Len(c) /\ n - 1 \notin Bad
      BY <2>1, <2>3
    <3>2. PICK v : Sums(v, n - 1)
      BY <3>1
    <3>3. c[n].charge \in Nat
      <4> HIDE DEF Bad
      <4>1. c[n] \in Node
        BY <3>1
      <4> QED
        BY <4>1 DEF Node
    <3> DEFINE x == [i \in 0..n |-> IF i = n THEN v[n - 1] + c[n].charge ELSE v[i]]
    <3>4. v \in [0..(n - 1) -> Int] /\ v[n - 1] \in Int
      BY <3>1, <3>2
    <3>5. x \in [0..n -> Int] /\ x[0] = 0
      BY <3>1, <3>2, <3>3, <3>4
    <3>6. \A i \in 1..n : x[i] = x[i - 1] + c[i].charge
      BY <3>1, <3>2
    <3> QED
      BY <2>1, <3>5, <3>6
  <2> QED
    BY <2>2, <2>3
<1>2. Len(c) \in 0..Len(c)
  OBVIOUS
<1>3. PICK v : Sums(v, Len(c))
  BY <1>1, <1>2
<1> QED
  BY <1>3 DEF AddsUp

(* And only one. *)
LEMMA SumIsOne ==
  ASSUME NEW c \in Seq(Node), NEW v, AddsUp(v, c), NEW w, AddsUp(w, c)
  PROVE  v[Len(c)] = w[Len(c)]
<1> DEFINE Apart == {i \in 0..Len(c) : v[i] # w[i]}
<1>1. Apart = {}
  <2> SUFFICES ASSUME Apart # {} PROVE FALSE
    OBVIOUS
  <2>0. Apart \in SUBSET Nat
    OBVIOUS
  <2> HIDE DEF Apart
  <2>1. PICK i \in Apart : \A j \in Apart : i <= j
    BY <2>0, LeastNatural
  <2> USE DEF Apart
  <2>2. i \in 1..Len(c) /\ i - 1 \in 0..Len(c)
    BY <2>1 DEF AddsUp
  <2>3. v[i - 1] = w[i - 1]
    BY <2>1, <2>2
  <2> QED
    BY <2>1, <2>2, <2>3 DEF AddsUp
<1> QED
  BY <1>1

(* The weight is the sum of the charges. *)
LEMMA WeightIs ==
  ASSUME NEW c \in Seq(Node), NEW w, AddsUp(w, c)
  PROVE  Weight(c) = w[Len(c)] /\ Weight(c) \in Int
<1> DEFINE v == CHOOSE x : x = [i \in 0..Len(c) |-> IF i = 0 THEN 0 ELSE x[i - 1] + c[i].charge]
<1>1. Weight(c) = v[Len(c)]
  BY DEF Weight
<1>2. \E x : x = [i \in 0..Len(c) |-> IF i = 0 THEN 0 ELSE x[i - 1] + c[i].charge]
  BY DEF AddsUp
<1>3. Totals(v, c)
  BY <1>2 DEF Totals
<1> HIDE DEF v
<1>4. AddsUp(v, c)
  BY <1>3, TotalsAddUp
<1>5. v[Len(c)] = w[Len(c)]
  BY <1>4, SumIsOne
<1>6. w[Len(c)] \in Int
  BY DEF AddsUp
<1> QED
  BY <1>1, <1>5, <1>6

----------------------------------------------------------------------------
(* What insertion and eviction do to the nodes.                            *)

LEMMA ChargesAreNumbers ==
  ASSUME NEW c \in Seq(Node)
  PROVE  Len(c) \in Nat /\ \A j \in 1..Len(c) : c[j] \in Node /\ c[j].charge \in Int
<1>1. \A j \in 1..Len(c) : c[j] \in Node
  OBVIOUS
<1> QED
  BY <1>1 DEF Node

LEMMA Inserted ==
  ASSUME NEW c \in Seq(Node), NEW i \in 1..(Len(c) + 1), NEW n \in Node
  PROVE  /\ InsertAt(c, i, n) \in Seq(Node)
         /\ Len(InsertAt(c, i, n)) = Len(c) + 1
         /\ \A j \in 1..(Len(c) + 1) :
              InsertAt(c, i, n)[j] = IF j < i THEN c[j] ELSE IF j = i THEN n ELSE c[j - 1]
<1> DEFINE low == SubSeq(c, 1, i - 1)
           high == SubSeq(c, i, Len(c))
<1>1. low \in Seq(Node) /\ Len(low) = i - 1 /\ \A j \in 1..(i - 1) : low[j] = c[j]
  OBVIOUS
<1>2. high \in Seq(Node) /\ Len(high) = Len(c) - i + 1 /\ \A j \in 1..(Len(c) - i + 1) : high[j] = c[i + j - 1]
  OBVIOUS
<1>3. InsertAt(c, i, n) = low \o <<n>> \o high
  BY DEF InsertAt
<1> HIDE DEF low, high
<1>4. /\ low \o <<n>> \in Seq(Node) /\ Len(low \o <<n>>) = i
      /\ \A j \in 1..i : (low \o <<n>>)[j] = IF j < i THEN c[j] ELSE n
  BY <1>1
<1> DEFINE front == low \o <<n>>
           all == front \o high
<1> HIDE DEF front
<1>5. front \in Seq(Node) /\ Len(front) = i /\ \A j \in 1..i : front[j] = IF j < i THEN c[j] ELSE n
  BY <1>4 DEF front
<1>6. all \in Seq(Node) /\ Len(all) = Len(c) + 1
  BY <1>2, <1>5
<1>7. ASSUME NEW j \in 1..(Len(c) + 1)
      PROVE  all[j] = IF j < i THEN c[j] ELSE IF j = i THEN n ELSE c[j - 1]
  <2>1. CASE j <= i
    <3>1. j \in 1..i /\ all[j] = front[j]
      BY <1>2, <1>5, <2>1
    <3> QED
      BY <1>5, <3>1
  <2>2. CASE j > i
    <3>1. j - i \in 1..(Len(c) - i + 1) /\ all[j] = high[j - i]
      BY <1>2, <1>5, <2>2
    <3>2. high[j - i] = c[i + (j - i) - 1]
      BY <1>2, <3>1
    <3> QED
      BY <2>2, <3>1, <3>2
  <2>3. j <= i \/ j > i
    OBVIOUS
  <2> QED
    BY <2>1, <2>2, <2>3
<1>8. InsertAt(c, i, n) = all
  BY <1>3 DEF front
<1> QED
  BY <1>6, <1>7, <1>8

LEMMA Halves ==
  ASSUME NEW c \in Seq(Node), NEW k \in 0..Len(c)
  PROVE  /\ SubSeq(c, 1, k) \in Seq(Node) /\ Len(SubSeq(c, 1, k)) = k
         /\ \A j \in 1..k : SubSeq(c, 1, k)[j] = c[j]
         /\ SubSeq(c, k + 1, Len(c)) \in Seq(Node) /\ Len(SubSeq(c, k + 1, Len(c))) = Len(c) - k
         /\ \A j \in 1..(Len(c) - k) : SubSeq(c, k + 1, Len(c))[j] = c[k + j]
  OBVIOUS

LEMMA WeightIsNumber ==
  ASSUME NEW c \in Seq(Node)
  PROVE  Weight(c) \in Int
BY SumExists, WeightIs

(* A node more weighs its charge more. *)
LEMMA InsertedWeighs ==
  ASSUME NEW c \in Seq(Node), NEW i \in 1..(Len(c) + 1), NEW n \in Node
  PROVE  Weight(InsertAt(c, i, n)) = Weight(c) + n.charge
<1>1. PICK w : AddsUp(w, c)
  BY SumExists
<1> DEFINE d == InsertAt(c, i, n)
           v == [j \in 0..(Len(c) + 1) |-> IF j < i THEN w[j] ELSE w[j - 1] + n.charge]
<1>2. d \in Seq(Node) /\ Len(d) = Len(c) + 1
  BY Inserted
<1>3. \A j \in 1..(Len(c) + 1) : d[j] = IF j < i THEN c[j] ELSE IF j = i THEN n ELSE c[j - 1]
  BY Inserted
<1> HIDE DEF d
<1>4. w \in [0..Len(c) -> Int] /\ w[0] = 0 /\ n.charge \in Int /\ Len(c) \in Nat
  BY <1>1 DEF AddsUp, Node
<1>5. \A j \in 1..Len(c) : w[j] = w[j - 1] + c[j].charge
  BY <1>1 DEF AddsUp
<1>6. \A j \in 1..Len(c) : c[j].charge \in Int
  BY ChargesAreNumbers
<1>7. v \in [0..(Len(c) + 1) -> Int] /\ v[0] = 0
  BY <1>4
<1>8. ASSUME NEW j \in 1..(Len(c) + 1)
      PROVE  v[j] = v[j - 1] + d[j].charge
  <2>1. CASE j < i
    <3>1. d[j] = c[j] /\ j \in 1..Len(c) /\ v[j] = w[j] /\ v[j - 1] = w[j - 1]
      BY <1>3, <2>1
    <3> QED
      BY <1>5, <3>1
  <2>2. CASE j = i
    <3>1. d[j] = n /\ v[j] = w[j - 1] + n.charge /\ v[j - 1] = w[j - 1]
      BY <1>3, <2>2
    <3> QED
      BY <3>1
  <2>3. CASE j > i
    <3>1. d[j] = c[j - 1] /\ j - 1 \in 1..Len(c) /\ v[j] = w[j - 1] + n.charge /\ v[j - 1] = w[j - 2] + n.charge
      BY <1>3, <2>3
    <3>2. w[j - 1] = w[j - 2] + c[j - 1].charge
      BY <1>5, <3>1
    <3>3. j - 2 \in 0..Len(c)
      BY <1>4, <2>3
    <3>4. w[j - 2] \in Int
      BY <1>4, <3>3
    <3>5. c[j - 1].charge \in Int
      BY <1>6, <3>1
    <3> HIDE DEF v
    <3> QED
      BY <1>4, <3>1, <3>2, <3>4, <3>5
  <2> QED
    BY <2>1, <2>2, <2>3
<1>9. v[Len(c) + 1] = w[Len(c)] + n.charge
  OBVIOUS
<1> HIDE DEF v
<1>10. AddsUp(v, d)
  BY <1>2, <1>7, <1>8 DEF AddsUp
<1>11. Weight(d) = v[Len(c) + 1] /\ Weight(c) = w[Len(c)]
  BY <1>1, <1>2, <1>10, WeightIs
<1> QED
  BY <1>9, <1>11 DEF d

(* What goes and what stays weigh together what there was. *)
LEMMA HalvesWeigh ==
  ASSUME NEW c \in Seq(Node), NEW k \in 0..Len(c)
  PROVE  Weight(SubSeq(c, k + 1, Len(c))) = Weight(c) - Weight(SubSeq(c, 1, k))
<1>1. PICK w : AddsUp(w, c)
  BY SumExists
<1> DEFINE a == SubSeq(c, 1, k)
           b == SubSeq(c, k + 1, Len(c))
           v == [j \in 0..k |-> w[j]]
           x == [j \in 0..(Len(c) - k) |-> w[k + j] - w[k]]
<1>2. /\ a \in Seq(Node) /\ Len(a) = k /\ \A j \in 1..k : a[j] = c[j]
      /\ b \in Seq(Node) /\ Len(b) = Len(c) - k /\ \A j \in 1..(Len(c) - k) : b[j] = c[k + j]
  BY Halves
<1> HIDE DEF a, b
<1>3. w \in [0..Len(c) -> Int] /\ w[0] = 0 /\ Len(c) \in Nat
  BY <1>1 DEF AddsUp
<1>4. \A j \in 1..Len(c) : w[j] = w[j - 1] + c[j].charge /\ c[j].charge \in Int
  BY <1>1, ChargesAreNumbers DEF AddsUp
<1>5. AddsUp(v, a)
  <2>1. v \in [0..k -> Int] /\ v[0] = 0
    BY <1>3
  <2>2. ASSUME NEW j \in 1..k PROVE v[j] = v[j - 1] + a[j].charge
    <3>1. j \in 1..Len(c) /\ v[j] = w[j] /\ v[j - 1] = w[j - 1] /\ a[j] = c[j]
      BY <1>2
    <3> QED
      BY <1>4, <3>1
  <2> HIDE DEF v
  <2> QED
    BY <1>2, <2>1, <2>2 DEF AddsUp
<1>6. AddsUp(x, b)
  <2>1. x \in [0..(Len(c) - k) -> Int] /\ x[0] = 0
    BY <1>3
  <2>2. ASSUME NEW j \in 1..(Len(c) - k) PROVE x[j] = x[j - 1] + b[j].charge
    <3>1. k + j \in 1..Len(c) /\ x[j] = w[k + j] - w[k] /\ x[j - 1] = w[k + j - 1] - w[k] /\ b[j] = c[k + j]
      BY <1>2
    <3>2. w[k + j] = w[k + j - 1] + c[k + j].charge /\ c[k + j].charge \in Int
      BY <1>4, <3>1
    <3>3. w[k + j - 1] \in Int /\ w[k] \in Int
      BY <1>3, <3>1
    <3> HIDE DEF x
    <3> QED
      BY <3>1, <3>2, <3>3
  <2> HIDE DEF x
  <2> QED
    BY <1>2, <2>1, <2>2 DEF AddsUp
<1>7. v[k] = w[k] /\ x[Len(c) - k] = w[Len(c)] - w[k]
  BY <1>3
<1> HIDE DEF v, x
<1>8. Weight(a) = v[k] /\ Weight(b) = x[Len(c) - k] /\ Weight(c) = w[Len(c)]
  BY <1>1, <1>2, <1>5, <1>6, WeightIs
<1> QED
  BY <1>7, <1>8 DEF a, b

----------------------------------------------------------------------------
(* Types.                                                                  *)

LEMMA AtEachPc ==
  ASSUME NEW s \in ThreadState
  PROVE  \/ s.pc = "idle" /\ s = AtRest
         \/ s.pc = "closing" /\ s.drag \in Written /\ s = Closing(s.drag)
         \/ s.pc = "record" /\ s.batch \in Sent /\ s = Recording(s.batch)
         \/ s.pc = "boundary" /\ s.at \in 0..MaxSwaps /\ s = Swapped(s.at)
<1>1. CASE s = AtRest
  BY <1>1 DEF AtRest
<1>2. CASE \E d \in Written : s = Closing(d)
  BY <1>2 DEF Closing
<1>3. CASE \E b \in Sent : s = Recording(b)
  BY <1>3 DEF Recording
<1>4. CASE \E e \in 0..MaxSwaps : s = Swapped(e)
  BY <1>4 DEF Swapped
<1> QED
  BY <1>1, <1>2, <1>3, <1>4 DEF ThreadState

(* A thread goes on, and the others stay where they are. *)
LEMMA OneMoves ==
  ASSUME NEW t \in Committers, NEW s \in ThreadState,
         verThread \in [Committers -> ThreadState], verThread' = [verThread EXCEPT ![t] = s]
  PROVE  /\ verThread' \in [Committers -> ThreadState]
         /\ verThread'[t] = s
         /\ \A u \in Committers : u # t => verThread'[u] = verThread[u]
  OBVIOUS

LEMMA OpHasKey ==
  ASSUME NEW op \in Op
  PROVE  op.key \in Keys /\ op.had \in BOOLEAN /\ op.to \in 0..MaxCommits
BY DEF Op

LEMMA AppliedIsImage ==
  ASSUME NEW d \in Image, NEW op \in Op
  PROVE  /\ Apply(d, op) \in Image
         /\ Apply(d, op)[op.key] = op.to
         /\ \A k \in Keys : k # op.key => Apply(d, op)[k] = d[k]
BY OpHasKey DEF Image, Apply

LEMMA NoOpIsNone ==
  ASSUME VersionsAssumption
  PROVE  NoOp \notin Op /\ NoOp.key \notin Keys
BY DEF VersionsAssumption, NoOp, Op

LEMMA EmptyIsImage ==
  ASSUME VersionsAssumption
  PROVE  Empty \in Image
BY DEF VersionsAssumption, Empty, Image, Nothing

(* What a transaction leads to. *)
LEMMA TransactTypes ==
  ASSUME VersionsAssumption, Typed, NEW op \in Op, Transact(op)
  PROVE  /\ verDoc' \in Image /\ verRev' = verRev + 1 /\ verRev' \in 1..MaxCommits
         /\ docs' \in Seq(Image) /\ Len(docs') = verRev'
         /\ docs'[verRev'] = verDoc'
         /\ \A u \in 1..verRev : docs'[u] = docs[u] /\ docs[u] \in Image
         /\ verEpoch' = verEpoch
<1>1. verDoc \in Image /\ verRev \in 1..MaxCommits /\ MaxCommits \in Nat /\ docs \in Seq(Image) /\ Len(docs) = verRev
  BY DEF Typed, VersionsAssumption
<1>2. verDoc' \in Image
  BY <1>1, AppliedIsImage DEF Transact
<1>3. docs' = Append(docs, verDoc') /\ verRev' = verRev + 1 /\ verRev < MaxCommits /\ verEpoch' = verEpoch
  BY DEF Transact
<1> QED
  BY <1>1, <1>2, <1>3

LEMMA InitTyped == ASSUME VersionsAssumption PROVE VersionInit => Typed
<1> SUFFICES ASSUME VersionInit PROVE Typed
  OBVIOUS
<1>1. Empty \in Image /\ MaxCommits \in Nat \ {0} /\ MaxSwaps \in Nat
  BY EmptyIsImage DEF VersionsAssumption
<1>2. drag \in AnyDrag /\ (drag.op = NoOp <=> drag.folds = {})
  <2>1. drag = [open |-> FALSE, op |-> NoOp, folds |-> {}, made |-> 0]
    BY DEF VersionInit, NoDrag
  <2>2. 0 \in 0..MaxSwaps
    BY <1>1
  <2> QED
    BY <2>1, <2>2 DEF AnyDrag
<1>3. verThread \in [Committers -> ThreadState]
  BY DEF VersionInit, ThreadState
<1>4. docs \in Seq(Image) /\ Len(docs) = 1
  BY <1>1 DEF VersionInit
<1> QED
  BY <1>1, <1>2, <1>3, <1>4 DEF Typed, VersionInit

LEMMA CommitTyped ==
  ASSUME VersionsAssumption, Typed, NEW t \in Committers, Commit(t)
  PROVE  Typed'
<1>1. PICK op \in Op, size \in Sizes :
        /\ Transact(op)
        /\ verThread' = [verThread EXCEPT ![t] = Recording(
             [rev |-> verRev', at |-> verEpoch, image |-> verDoc', op |-> op, size |-> size, folds |-> {}])]
  BY DEF Commit
<1> DEFINE b == [rev |-> verRev + 1, at |-> verEpoch, image |-> verDoc', op |-> op, size |-> size, folds |-> {}]
<1>2. /\ verDoc' \in Image /\ verRev' = verRev + 1 /\ verRev' \in 1..MaxCommits
      /\ docs' \in Seq(Image) /\ Len(docs') = verRev' /\ verEpoch' = verEpoch
  BY <1>1, TransactTypes
<1>3. b \in Sent
  <2>1. verRev + 1 \in 1..MaxCommits /\ verEpoch \in Nat /\ verRev + 1 \in Nat
    BY <1>2 DEF Typed, VersionsAssumption
  <2> QED
    BY <1>2, <2>1 DEF Sent, Committed
<1>4. verThread' = [verThread EXCEPT ![t] = Recording(b)]
  BY <1>1, <1>2
<1> HIDE DEF b
<1>5. verThread' \in [Committers -> ThreadState]
  <2>1. Recording(b) \in ThreadState
    BY <1>3 DEF ThreadState
  <2> QED
    BY <1>4, <2>1 DEF Typed
<1>6. UNCHANGED <<drag, verLogEpoch, chain, retained, recorded, nodeless, shared>>
  BY DEF Commit, verLog
<1> QED
  BY <1>2, <1>5, <1>6 DEF Typed

LEMMA FoldTyped ==
  ASSUME VersionsAssumption, Typed, NEW t \in Committers, Fold(t)
  PROVE  Typed'
<1>1. PICK op \in Op :
        /\ Transact(op)
        /\ drag' = [drag EXCEPT !.op = op, !.folds = @ \cup {verRev'},
                                !.made = IF drag.op = NoOp THEN verEpoch ELSE @]
  BY DEF Fold
<1>2. /\ verDoc' \in Image /\ verRev' = verRev + 1 /\ verRev' \in 1..MaxCommits
      /\ docs' \in Seq(Image) /\ Len(docs') = verRev' /\ verEpoch' = verEpoch
  BY <1>1, TransactTypes
<1>3. drag' \in AnyDrag /\ drag'.op = op /\ drag'.folds # {}
  <2>1. drag \in AnyDrag /\ verEpoch \in 0..MaxSwaps
    BY DEF Typed
  <2>2. drag'.folds = drag.folds \cup {verRev'} /\ drag'.op = op /\ drag'.made \in {verEpoch, drag.made} /\ drag'.open = drag.open
    BY <1>1, <2>1 DEF AnyDrag
  <2>3. drag' = [open |-> drag'.open, op |-> drag'.op, folds |-> drag'.folds, made |-> drag'.made]
    BY <1>1, <2>1 DEF AnyDrag
  <2>4. drag'.open \in BOOLEAN /\ drag'.op \in Op \cup {NoOp} /\ drag'.folds \in SUBSET (1..MaxCommits) /\ drag'.made \in 0..MaxSwaps
    BY <1>2, <2>1, <2>2 DEF AnyDrag
  <2> QED
    BY <2>2, <2>3, <2>4 DEF AnyDrag
<1>4. drag'.op # NoOp
  BY <1>3, NoOpIsNone
<1>5. UNCHANGED <<verThread, verLogEpoch, chain, retained, recorded, shared>> /\ nodeless' = nodeless \cup {verRev'}
  BY DEF Fold, verLog
<1> QED
  BY <1>2, <1>3, <1>4, <1>5 DEF Typed

LEMMA TakeTyped ==
  ASSUME VersionsAssumption, Typed, NEW t \in Committers, GestureBegin(t) \/ GestureEnd(t)
  PROVE  Typed'
<1>1. TakeDrag(t) /\ drag' \in {[NoDrag EXCEPT !.open = TRUE], NoDrag}
  BY DEF GestureBegin, GestureEnd
<1>2. drag' \in AnyDrag /\ drag'.op = NoOp /\ drag'.folds = {}
  <2>1. 0 \in 0..MaxSwaps
    BY DEF VersionsAssumption
  <2>2. PICK o \in BOOLEAN : drag' = [open |-> o, op |-> NoOp, folds |-> {}, made |-> 0]
    BY <1>1 DEF NoDrag
  <2> QED
    BY <2>1, <2>2 DEF AnyDrag
<1>3. verThread' \in [Committers -> ThreadState]
  <2>1. (IF drag.op = NoOp THEN AtRest ELSE Closing(drag)) \in ThreadState
    <3>1. drag.op # NoOp => drag \in Written
      <4>1. drag \in AnyDrag /\ (drag.op # NoOp => drag.folds # {})
        BY DEF Typed
      <4>2. drag.op \in Op \cup {NoOp}
        BY <4>1 DEF AnyDrag
      <4> QED
        BY <4>1, <4>2 DEF Written
    <3> QED
      BY <3>1 DEF ThreadState
  <2> QED
    BY <1>1, <2>1 DEF TakeDrag, Typed
<1>4. UNCHANGED <<verDoc, verRev, verEpoch, verLogEpoch, chain, retained, recorded, docs, nodeless, shared>>
  BY <1>1 DEF TakeDrag, verSession, verLog, verHistory
<1> QED
  BY <1>2, <1>3, <1>4 DEF Typed

LEMMA StampTyped ==
  ASSUME VersionsAssumption, Typed, NEW t \in Committers, Stamp(t)
  PROVE  Typed'
<1> DEFINE d == verThread[t].drag
           F == IF Alone(d) THEN d.folds ELSE {}
<1>1. d \in Written
  BY AtEachPc DEF Stamp, Typed
<1>2. PICK size \in Sizes :
        verThread' = [verThread EXCEPT ![t] = Recording(
          [rev |-> verRev, at |-> verEpoch, image |-> verDoc, op |-> d.op, size |-> size, folds |-> F])]
  BY DEF Stamp
<1> DEFINE b == [rev |-> verRev, at |-> verEpoch, image |-> verDoc, op |-> d.op, size |-> size, folds |-> F]
<1>3. b \in Sent
  <2>1. F \in SUBSET Nat /\ d.op \in Op
    BY <1>1 DEF Written, AnyDrag
  <2>2. verRev \in 1..MaxCommits /\ verRev \in Nat /\ verEpoch \in Nat /\ verDoc \in Image
    BY DEF Typed
  <2> HIDE DEF d, F
  <2> QED
    BY <2>1, <2>2 DEF Sent, Committed
<1>4. verThread' = [verThread EXCEPT ![t] = Recording(b)]
  BY <1>2
<1> HIDE DEF b
<1>5. verThread' \in [Committers -> ThreadState]
  <2>1. Recording(b) \in ThreadState
    BY <1>3 DEF ThreadState
  <2> QED
    BY <1>4, <2>1 DEF Typed
<1>6. shared' \subseteq 1..MaxCommits
  BY DEF Stamp, Typed
<1>7. UNCHANGED <<verDoc, verRev, verEpoch, drag, verLogEpoch, chain, retained, recorded, docs, nodeless>>
  BY DEF Stamp, verSession, verLog
<1> QED
  BY <1>5, <1>6, <1>7 DEF Typed

LEMMA SwapTyped ==
  ASSUME VersionsAssumption, Typed, NEW t \in Committers, SwapDocument(t)
  PROVE  Typed'
<1>1. verEpoch' \in 0..MaxSwaps /\ verDoc' \in Image
  BY EmptyIsImage DEF SwapDocument, Typed, VersionsAssumption
<1>2. verThread' \in [Committers -> ThreadState]
  BY <1>1 DEF SwapDocument, Typed, ThreadState
<1>3. UNCHANGED <<verRev, drag, verLogEpoch, chain, retained, recorded, docs, nodeless, shared>>
  BY DEF SwapDocument, verLog, verHistory
<1> QED
  BY <1>1, <1>2, <1>3 DEF Typed

LEMMA ClearTyped ==
  ASSUME VersionsAssumption, Typed, NEW t \in Committers, ClearVersions(t)
  PROVE  Typed'
<1>1. verLogEpoch' \in 0..MaxSwaps
  BY AtEachPc DEF ClearVersions, Typed
<1>2. verThread' \in [Committers -> ThreadState]
  BY DEF ClearVersions, Typed, ThreadState
<1>3. UNCHANGED <<verDoc, verRev, verEpoch, drag, docs, nodeless, shared>>
  BY DEF ClearVersions, verSession, verHistory
<1>4. chain' = <<>> /\ recorded' = 0
  BY DEF ClearVersions
<1> QED
  BY <1>1, <1>2, <1>3, <1>4 DEF Typed

----------------------------------------------------------------------------
(* Recording a batch: where its node goes, and how many of the oldest go.  *)

LEMMA PlaceIs ==
  ASSUME Typed, NEW r \in Nat
  PROVE  /\ Place(chain, r) \in 1..(Len(chain) + 1)
         /\ \A j \in 1..Len(chain) : j < Place(chain, r) => chain[j].rev < r
         /\ Place(chain, r) <= Len(chain) => chain[Place(chain, r)].rev >= r
<1> DEFINE D == {Len(chain) + 1} \cup {i \in DOMAIN chain : chain[i].rev >= r}
<1>1. chain \in Seq(Node) /\ Len(chain) \in Nat /\ DOMAIN chain = 1..Len(chain)
  BY DEF Typed
<1>2. \A j \in 1..Len(chain) : chain[j].rev \in Nat
  BY <1>1 DEF Typed
<1>3. D \in SUBSET (1..(Len(chain) + 1)) /\ Len(chain) + 1 \in D
  BY <1>1
<1>4. D \in SUBSET Nat /\ D # {}
  BY <1>1, <1>3
<1>5. Place(chain, r) = Min(D)
  BY DEF Place
<1>6. \A j \in 1..Len(chain) : j \notin D => chain[j].rev < r
  BY <1>1, <1>2
<1>7. \A j \in 1..Len(chain) : j \in D => chain[j].rev >= r
  BY <1>1
<1> HIDE DEF D
<1>8. Min(D) \in D /\ \A m \in D : Min(D) <= m
  BY <1>4, MinIs
<1>9. Min(D) \in 1..(Len(chain) + 1)
  BY <1>3, <1>8
<1>10. ASSUME NEW j \in 1..Len(chain), j < Min(D) PROVE chain[j].rev < r
  <2>1. j \notin D
    BY <1>8, <1>9, <1>10
  <2> QED
    BY <1>6, <2>1
<1>11. ASSUME Min(D) <= Len(chain) PROVE chain[Min(D)].rev >= r
  BY <1>1, <1>7, <1>8, <1>9, <1>11
<1> QED
  BY <1>5, <1>9, <1>10, <1>11

LEMMA CutIs ==
  ASSUME VersionsAssumption, NEW c \in Seq(Node), c # <<>>
  PROVE  /\ Cut(c) \in 0..(Len(c) - 1)
         /\ Cut(c) # 0 => Cut(c) \in Cuts(c)
         /\ Cut(c) = 0 => Weight(c) <= Budget \/ Cuts(c) = {}
         /\ Cut(c) # 0 => Weight(SubSeq(c, Cut(c) + 1, Len(c))) <= Budget
                          \/ \A n \in Cuts(c) : n <= Cut(c)
<1>1. Len(c) \in Nat \ {0} /\ Floor \in Nat /\ Budget \in Nat
  BY DEF VersionsAssumption
<1>2. Cuts(c) \in SUBSET (1..(Len(c) - 1))
  BY <1>1 DEF Cuts
<1>3. Cuts(c) \in SUBSET Nat /\ Cuts(c) \in SUBSET (0..Len(c))
  BY <1>1, <1>2
<1>4. Enough(c) \subseteq Cuts(c) /\ \A n \in Enough(c) : Weight(SubSeq(c, n + 1, Len(c))) <= Budget
  BY DEF Enough
<1>5. CASE Weight(c) <= Budget \/ Cuts(c) = {}
  <2>1. Cut(c) = 0
    BY <1>5 DEF Cut
  <2> QED
    BY <1>1, <1>5, <2>1
<1>6. CASE ~(Weight(c) <= Budget \/ Cuts(c) = {}) /\ Enough(c) # {}
  <2>1. Cut(c) = Min(Enough(c))
    BY <1>6 DEF Cut
  <2>2. Enough(c) \in SUBSET Nat
    BY <1>3, <1>4
  <2>3. Min(Enough(c)) \in Enough(c)
    BY <1>6, <2>2, MinIs
  <2>4. Cut(c) \in 1..(Len(c) - 1)
    BY <1>2, <1>4, <2>1, <2>3
  <2> QED
    BY <1>1, <1>4, <2>1, <2>3, <2>4
<1>7. CASE ~(Weight(c) <= Budget \/ Cuts(c) = {}) /\ Enough(c) = {}
  <2>1. Cut(c) = Max(Cuts(c))
    BY <1>7 DEF Cut
  <2>2. Max(Cuts(c)) \in Cuts(c) /\ \A m \in Cuts(c) : m <= Max(Cuts(c))
    BY <1>1, <1>3, <1>7, MaxIs
  <2>3. Cut(c) \in 1..(Len(c) - 1)
    BY <1>2, <2>1, <2>2
  <2> QED
    BY <1>1, <2>1, <2>2, <2>3
<1> QED
  BY <1>5, <1>6, <1>7

(* Batch b became node n, at position i of nodes c, of which k went.       *)
InsertedAs(b, n, i, c, k) ==
  /\ n \in Node /\ n.rev = b.rev /\ n.op = b.op
  /\ n.materialized => n.image = b.image
  /\ i = 1 => n.materialized
  /\ i \in 1..(Len(chain) + 1)
  /\ \A j \in 1..Len(chain) : j < i => chain[j].rev < b.rev
  /\ i <= Len(chain) => chain[i].rev >= b.rev
  /\ c \in Seq(Node) /\ Len(c) = Len(chain) + 1
  /\ \A j \in 1..(Len(chain) + 1) : c[j] = IF j < i THEN chain[j] ELSE IF j = i THEN n ELSE chain[j - 1]
  /\ Weight(c) = Weight(chain) + n.charge
  /\ k \in 0..Len(chain)
  /\ k # 0 => k <= Len(c) - Floor /\ c[k + 1].materialized
  /\ k = 0 => Weight(c) <= Budget \/ Cuts(c) = {}
  /\ k # 0 => Weight(SubSeq(c, k + 1, Len(c))) <= Budget \/ \A m \in Cuts(c) : m <= k
  /\ chain' = SubSeq(c, k + 1, Len(c)) /\ chain' \in Seq(Node)
  /\ Len(chain') = Len(chain) + 1 - k
  /\ \A j \in 1..(Len(chain) + 1 - k) : chain'[j] = c[k + j]
  /\ retained' = retained + n.charge - Weight(SubSeq(c, 1, k))
  /\ recorded' = recorded + 1
  /\ nodeless' = (nodeless \ b.folds) \cup {c[j].rev : j \in 1..k}

LEMMA ClassifyIs ==
  ASSUME VersionsAssumption, NEW b \in Sent, NEW i \in Nat
  PROVE  /\ Classify(b, i) \in Node
         /\ Classify(b, i).rev = b.rev /\ Classify(b, i).op = b.op
         /\ Classify(b, i).materialized => Classify(b, i).image = b.image
         /\ i = 1 => Classify(b, i).materialized
<1>1. b.rev \in Nat /\ b.image \in Image /\ b.op \in Op /\ b.size \in Sizes
  BY DEF Sent, Committed
<1>2. b.size.image \in Nat /\ b.size.ops \in Nat /\ Threshold \in Nat
  BY <1>1 DEF VersionsAssumption
<1>3. Empty \in Image
  BY EmptyIsImage
<1>4. Stays(b, i) \in BOOLEAN /\ (i = 1 => Stays(b, i))
  BY <1>2 DEF Stays
<1>5. (IF Stays(b, i) THEN b.image ELSE Empty) \in Image /\ (IF Stays(b, i) THEN b.size.image ELSE b.size.ops) \in Nat
  BY <1>1, <1>2, <1>3
<1> QED
  BY <1>1, <1>4, <1>5 DEF Classify, Node

LEMMA InsertDoes ==
  ASSUME VersionsAssumption, Typed, NEW b \in Sent, Insert(b)
  PROVE  \E n, i, c, k : InsertedAs(b, n, i, c, k)
<1> DEFINE i == Place(chain, b.rev)
           n == Classify(b, i)
           c == InsertAt(chain, i, n)
           k == Cut(c)
<1>1. b.rev \in Nat /\ chain \in Seq(Node) /\ Len(chain) \in Nat
  BY DEF Sent, Committed, Typed
<1>2. /\ chain' = SubSeq(c, k + 1, Len(c))
      /\ retained' = retained + n.charge - Weight(SubSeq(c, 1, k))
      /\ recorded' = recorded + 1
      /\ nodeless' = (nodeless \ b.folds) \cup {c[j].rev : j \in 1..k}
  BY DEF Insert
<1>3. /\ i \in 1..(Len(chain) + 1)
      /\ \A j \in 1..Len(chain) : j < i => chain[j].rev < b.rev
      /\ i <= Len(chain) => chain[i].rev >= b.rev
  BY <1>1, PlaceIs
<1> HIDE DEF i
<1>4. /\ n \in Node /\ n.rev = b.rev /\ n.op = b.op
      /\ n.materialized => n.image = b.image
      /\ i = 1 => n.materialized
  BY <1>3, ClassifyIs
<1> HIDE DEF n
<1>5. /\ c \in Seq(Node) /\ Len(c) = Len(chain) + 1
      /\ \A j \in 1..(Len(chain) + 1) : c[j] = IF j < i THEN chain[j] ELSE IF j = i THEN n ELSE chain[j - 1]
      /\ Weight(c) = Weight(chain) + n.charge
  BY <1>1, <1>3, <1>4, Inserted, InsertedWeighs
<1> HIDE DEF c
<1>6. /\ k \in 0..(Len(c) - 1)
      /\ k # 0 => k \in Cuts(c)
      /\ k = 0 => Weight(c) <= Budget \/ Cuts(c) = {}
      /\ k # 0 => Weight(SubSeq(c, k + 1, Len(c))) <= Budget \/ \A m \in Cuts(c) : m <= k
  <2>1. c # <<>>
    BY <1>1, <1>5
  <2> QED
    BY <1>5, <2>1, CutIs
<1> HIDE DEF k
<1>7. k # 0 => k <= Len(c) - Floor /\ c[k + 1].materialized
  BY <1>1, <1>5, <1>6 DEF Cuts, VersionsAssumption
<1>8. k \in 0..Len(chain) /\ k \in 0..Len(c)
  BY <1>1, <1>5, <1>6
<1>9. chain' \in Seq(Node) /\ Len(chain') = Len(chain) + 1 - k /\ \A j \in 1..(Len(chain) + 1 - k) : chain'[j] = c[k + j]
  BY <1>2, <1>5, <1>8, Halves
<1>10. InsertedAs(b, n, i, c, k)
  BY <1>2, <1>3, <1>4, <1>5, <1>6, <1>7, <1>8, <1>9 DEF InsertedAs
<1> QED
  BY <1>10

(* A node of what is left was there, or is the new one.                    *)
LEMMA NodesStay ==
  ASSUME Typed, NEW b, NEW n, NEW i, NEW c, NEW k, InsertedAs(b, n, i, c, k)
  PROVE  /\ \A j \in 1..(Len(chain) + 1) : c[j] = n \/ \E m \in 1..Len(chain) : c[j] = chain[m]
         /\ \A m \in 1..Len(chain) : \E j \in 1..(Len(chain) + 1) : c[j] = chain[m]
         /\ c[i] = n
<1>1. Len(chain) \in Nat /\ i \in 1..(Len(chain) + 1)
  BY DEF InsertedAs, Typed
<1>2. \A j \in 1..(Len(chain) + 1) : c[j] = IF j < i THEN chain[j] ELSE IF j = i THEN n ELSE chain[j - 1]
  BY DEF InsertedAs
<1>3. ASSUME NEW j \in 1..(Len(chain) + 1)
      PROVE  c[j] = n \/ \E m \in 1..Len(chain) : c[j] = chain[m]
  <2>1. CASE j < i
    BY <1>1, <1>2, <2>1
  <2>2. CASE j = i
    BY <1>2, <2>2
  <2>3. CASE j > i
    <3>1. j - 1 \in 1..Len(chain) /\ c[j] = chain[j - 1]
      BY <1>1, <1>2, <2>3
    <3> QED
      BY <3>1
  <2> QED
    BY <1>1, <2>1, <2>2, <2>3
<1>4. ASSUME NEW m \in 1..Len(chain)
      PROVE  \E j \in 1..(Len(chain) + 1) : c[j] = chain[m]
  <2>1. CASE m < i
    BY <1>1, <1>2, <2>1
  <2>2. CASE m >= i
    <3>1. m + 1 \in 1..(Len(chain) + 1) /\ c[m + 1] = chain[m]
      BY <1>1, <1>2, <2>2
    <3> QED
      BY <3>1
  <2> QED
    BY <1>1, <2>1, <2>2
<1> QED
  BY <1>1, <1>2, <1>3, <1>4

LEMMA RecordTyped ==
  ASSUME VersionsAssumption, Typed, NEW t \in Committers, RecordVersion(t)
  PROVE  Typed'
<1> DEFINE b == verThread[t].batch
<1>1. b \in Sent /\ b.rev \in 1..MaxCommits
  BY AtEachPc DEF RecordVersion, Typed, Sent
<1>2. verThread' \in [Committers -> ThreadState]
  BY DEF RecordVersion, Typed, ThreadState
<1>3. UNCHANGED <<verDoc, verRev, verEpoch, drag, verLogEpoch, docs, shared>>
  BY DEF RecordVersion, verSession
<1>4. CASE ~SameEpoch(b)
  <2>1. Drop(b)
    BY <1>4 DEF RecordVersion
  <2> QED
    BY <1>1, <1>2, <1>3, <2>1 DEF Typed, Drop
<1>5. CASE SameEpoch(b)
  <2>1. Insert(b)
    BY <1>5 DEF RecordVersion
  <2> HIDE DEF b
  <2>2. PICK n, i, c, k : InsertedAs(b, n, i, c, k)
    BY <1>1, <2>1, InsertDoes
  <2>3. /\ k \in 0..Len(chain) /\ Len(chain) \in Nat /\ chain' \in Seq(Node) /\ Len(chain') = Len(chain) + 1 - k
        /\ \A j \in 1..(Len(chain) + 1 - k) : chain'[j] = c[k + j]
    BY <2>2 DEF InsertedAs, Typed
  <2>4. \A j \in 1..(Len(chain) + 1) : c[j].rev \in 1..MaxCommits
    <3>1. n.rev = b.rev /\ \A j \in 1..Len(chain) : chain[j].rev \in 1..MaxCommits
      BY <2>2 DEF InsertedAs, Typed
    <3> QED
      BY <1>1, <2>2, <3>1, NodesStay
  <2>5. \A j \in DOMAIN chain' : chain'[j].rev \in 1..MaxCommits
    <3>1. \A j \in 1..(Len(chain) + 1 - k) : k + j \in 1..(Len(chain) + 1)
      BY <2>3
    <3> QED
      BY <2>3, <2>4, <3>1
  <2>6. nodeless' \subseteq 1..MaxCommits
    <3>1. nodeless' = (nodeless \ b.folds) \cup {c[j].rev : j \in 1..k}
      BY <2>2 DEF InsertedAs
    <3>2. \A j \in 1..k : c[j].rev \in 1..MaxCommits
      BY <2>3, <2>4
    <3> QED
      BY <3>1, <3>2 DEF Typed
  <2>7. recorded' \in Nat
    BY <2>2 DEF InsertedAs, Typed
  <2> QED
    BY <1>2, <1>3, <2>3, <2>5, <2>6, <2>7 DEF Typed
<1> QED
  BY <1>4, <1>5

LEMMA NextTyped ==
  ASSUME VersionsAssumption, Typed, [VersionNext]_verVars
  PROVE  Typed'
<1>1. CASE UNCHANGED verVars
  BY <1>1 DEF Typed, verVars, verSession, verLog, verHistory
<1>2. CASE VersionNext
  BY <1>2, CommitTyped, FoldTyped, TakeTyped, StampTyped, RecordTyped, SwapTyped, ClearTyped DEF VersionNext
<1> QED
  BY <1>1, <1>2

(* The chain is as it was, but for a node inserted and the oldest cut off: *)
(* it stays in order and rooted, weighs what is said, and as little as may *)
(* be.                                                                     *)
LEMMA InsertKeeps ==
  ASSUME VersionsAssumption, Typed, Kept, NEW b \in Sent, Insert(b)
  PROVE  Kept'
<1>1. PICK n, i, c, k : InsertedAs(b, n, i, c, k)
  BY InsertDoes
<1> DEFINE L == Len(chain)
<1>2. /\ L \in Nat /\ i \in 1..(L + 1) /\ k \in 0..L /\ Len(c) = L + 1 /\ c \in Seq(Node)
      /\ Floor \in Nat /\ Budget \in Nat /\ recorded \in Nat
  BY <1>1 DEF InsertedAs, Typed, VersionsAssumption
<1>3. /\ chain' = SubSeq(c, k + 1, Len(c)) /\ chain' \in Seq(Node) /\ Len(chain') = L + 1 - k
      /\ \A j \in 1..(L + 1 - k) : chain'[j] = c[k + j]
  BY <1>1 DEF InsertedAs
<1>4. /\ \A j \in 1..(L + 1) : c[j] = IF j < i THEN chain[j] ELSE IF j = i THEN n ELSE chain[j - 1]
      /\ \A j \in 1..L : j < i => chain[j].rev < b.rev
      /\ i <= L => chain[i].rev >= b.rev
      /\ n.rev = b.rev /\ (i = 1 => n.materialized)
  BY <1>1 DEF InsertedAs
<1>5. /\ b.rev \in Nat /\ \A j \in 1..L : chain[j].rev \in Nat
      /\ \A x, y \in 1..L : x < y => chain[x].rev <= chain[y].rev
  BY DEF Sent, Committed, Typed, Kept
<1>6. \A j \in 1..L : j >= i => chain[j].rev >= b.rev
  <2> SUFFICES ASSUME NEW j \in 1..L, j >= i PROVE chain[j].rev >= b.rev
    OBVIOUS
  <2>1. i \in 1..L
    BY <1>2
  <2>2. chain[i].rev <= chain[j].rev
    BY <1>2, <1>5, <2>1
  <2> QED
    BY <1>2, <1>4, <1>5, <2>1, <2>2
<1>7. ASSUME NEW x \in 1..(L + 1), NEW y \in 1..(L + 1), x < y
      PROVE  c[x].rev <= c[y].rev
  <2>1. CASE y < i
    <3>1. c[x] = chain[x] /\ c[y] = chain[y] /\ x \in 1..L /\ y \in 1..L
      BY <1>2, <1>4, <1>7, <2>1
    <3> QED
      BY <1>5, <1>7, <3>1
  <2>2. CASE y = i
    <3>1. c[x] = chain[x] /\ c[y] = n /\ x \in 1..L /\ x < i
      BY <1>2, <1>4, <1>7, <2>2
    <3> QED
      BY <1>4, <1>5, <3>1
  <2>3. CASE y > i /\ x < i
    <3>1. c[x] = chain[x] /\ c[y] = chain[y - 1] /\ x \in 1..L /\ y - 1 \in 1..L /\ y - 1 >= i
      BY <1>2, <1>4, <1>7, <2>3
    <3>2. chain[x].rev < b.rev /\ chain[y - 1].rev >= b.rev
      BY <1>4, <1>6, <2>3, <3>1
    <3> QED
      BY <1>5, <3>1, <3>2
  <2>4. CASE y > i /\ x = i
    <3>1. c[x] = n /\ c[y] = chain[y - 1] /\ y - 1 \in 1..L /\ y - 1 >= i
      BY <1>2, <1>4, <1>7, <2>4
    <3>2. chain[y - 1].rev >= b.rev
      BY <1>6, <3>1
    <3> QED
      BY <1>4, <1>5, <3>1, <3>2
  <2>5. CASE y > i /\ x > i
    <3>1. c[x] = chain[x - 1] /\ c[y] = chain[y - 1] /\ x - 1 \in 1..L /\ y - 1 \in 1..L /\ x - 1 < y - 1
      BY <1>2, <1>4, <1>7, <2>5
    <3> QED
      BY <1>5, <3>1
  <2> QED
    BY <1>2, <2>1, <2>2, <2>3, <2>4, <2>5
<1>8. \A x, y \in DOMAIN chain' : x < y => chain'[x].rev <= chain'[y].rev
  <2> SUFFICES ASSUME NEW x \in DOMAIN chain', NEW y \in DOMAIN chain', x < y
               PROVE  chain'[x].rev <= chain'[y].rev
    OBVIOUS
  <2>1. x \in 1..(L + 1 - k) /\ y \in 1..(L + 1 - k)
    BY <1>3
  <2>2. k + x \in 1..(L + 1) /\ k + y \in 1..(L + 1) /\ k + x < k + y
    BY <1>2, <2>1
  <2> QED
    BY <1>3, <1>7, <2>1, <2>2
<1>9. chain'[1].materialized
  <2>1. chain'[1] = c[k + 1]
    BY <1>2, <1>3
  <2>2. CASE k # 0
    BY <1>1, <2>1, <2>2 DEF InsertedAs
  <2>3. CASE k = 0 /\ i = 1
    <3>1. c[1] = n
      BY <1>2, <1>4, <2>3
    <3> QED
      BY <1>4, <2>1, <2>3, <3>1
  <2>4. CASE k = 0 /\ i # 1
    <3>1. c[1] = chain[1] /\ chain # <<>>
      BY <1>2, <1>4, <2>4
    <3> QED
      BY <2>1, <2>4, <3>1 DEF Kept
  <2> QED
    BY <1>2, <2>2, <2>3, <2>4
<1>10. retained' = Weight(chain')
  <2>1. /\ retained' = retained + n.charge - Weight(SubSeq(c, 1, k)) /\ Weight(c) = Weight(chain) + n.charge
        /\ n.charge \in Int
    BY <1>1 DEF InsertedAs, Node
  <2>2. retained = Weight(chain) /\ Weight(chain) \in Int
    BY WeightIsNumber DEF Kept, Typed
  <2>3. k \in 0..Len(c)
    BY <1>2
  <2>4. Weight(chain') = Weight(c) - Weight(SubSeq(c, 1, k))
    BY <1>2, <1>3, <2>3, HalvesWeigh
  <2>5. Weight(SubSeq(c, 1, k)) \in Int
    <3>1. SubSeq(c, 1, k) \in Seq(Node)
      BY <1>2, <2>3, Halves
    <3> QED
      BY <3>1, WeightIsNumber
  <2> QED
    BY <2>1, <2>2, <2>4, <2>5
<1>11. retained' > Budget => Cuts(chain') = {}
  <2> SUFFICES ASSUME retained' > Budget, NEW m \in Cuts(chain') PROVE FALSE
    OBVIOUS
  <2>0. Weight(chain') \in Int
    BY <1>3, WeightIsNumber
  <2>1. m \in 1..(Len(chain') - Floor) /\ m < Len(chain') /\ chain'[m + 1].materialized
    BY DEF Cuts
  <2>2. k + m \in 1..(Len(c) - Floor) /\ k + m < Len(c) /\ c[(k + m) + 1].materialized
    <3>1. m + 1 \in 1..(L + 1 - k) /\ chain'[m + 1] = c[k + (m + 1)] /\ k + (m + 1) = (k + m) + 1
      BY <1>2, <1>3, <2>1
    <3> QED
      BY <1>2, <1>3, <2>1, <3>1
  <2>3. k + m \in Cuts(c)
    BY <2>2 DEF Cuts
  <2>4. CASE k = 0
    <3>1. Weight(c) <= Budget
      BY <1>1, <2>3, <2>4 DEF InsertedAs
    <3>2. chain' = c
      BY <1>2, <1>3, <2>4
    <3> QED
      BY <1>2, <1>10, <2>0, <3>1, <3>2
  <2>5. CASE k # 0
    <3>1. Weight(SubSeq(c, k + 1, Len(c))) <= Budget \/ k + m <= k
      BY <1>1, <2>3, <2>5 DEF InsertedAs
    <3>2. ~(k + m <= k)
      BY <1>2, <2>1
    <3> QED
      BY <1>2, <1>3, <1>10, <2>0, <3>1, <3>2
  <2> QED
    BY <2>4, <2>5
<1>12. Len(chain') >= Floor \/ Len(chain') >= recorded'
  <2>1. recorded' = recorded + 1 /\ (k # 0 => k <= Len(c) - Floor) /\ (L >= Floor \/ L >= recorded)
    BY <1>1 DEF InsertedAs, Kept
  <2> QED
    BY <1>2, <1>3, <2>1
<1> QED
  BY <1>8, <1>9, <1>10, <1>11, <1>12 DEF Kept

LEMMA NextKeeps ==
  ASSUME VersionsAssumption, Typed, Kept, [VersionNext]_verVars
  PROVE  Kept'
<1>1. ASSUME UNCHANGED <<chain, retained, recorded>> PROVE Kept'
  BY <1>1 DEF Kept, Weight, Cuts
<1>2. ASSUME chain' = <<>>, retained' = 0, recorded' = 0 PROVE Kept'
  <2>1. AddsUp([i \in 0..0 |-> 0], <<>>)
    BY DEF AddsUp
  <2>2. Weight(<<>>) = 0
    BY <2>1, WeightIs
  <2>3. Cuts(<<>>) = {}
    BY DEF Cuts, VersionsAssumption
  <2> QED
    BY <1>2, <2>2, <2>3 DEF Kept
<1>3. CASE UNCHANGED verVars
  BY <1>1, <1>3 DEF verVars, verLog
<1>4. CASE VersionNext
  <2>1. PICK t \in Committers :
          \/ Commit(t) \/ Fold(t) \/ GestureBegin(t) \/ GestureEnd(t) \/ Stamp(t)
          \/ RecordVersion(t) \/ SwapDocument(t) \/ ClearVersions(t)
    BY <1>4 DEF VersionNext
  <2>2. CASE Commit(t) \/ Fold(t) \/ GestureBegin(t) \/ GestureEnd(t) \/ Stamp(t) \/ SwapDocument(t)
    BY <1>1, <2>2 DEF Commit, Fold, GestureBegin, GestureEnd, TakeDrag, Stamp, SwapDocument, verLog
  <2>3. CASE ClearVersions(t)
    BY <1>2, <2>3 DEF ClearVersions
  <2>4. CASE RecordVersion(t)
    <3> DEFINE b == verThread[t].batch
    <3>1. b \in Sent
      BY <2>4, AtEachPc DEF RecordVersion, Typed
    <3>2. (Insert(b) \/ Drop(b))
      BY <2>4 DEF RecordVersion
    <3> QED
      BY <1>1, <3>1, <3>2, InsertKeeps DEF Drop
  <2> QED
    BY <2>1, <2>2, <2>3, <2>4
<1> QED
  BY <1>3, <1>4

----------------------------------------------------------------------------
(* The nodes, as VersionsAreKept says it.                                  *)

(* Every node has an image at or before it. *)
LEMMA BaseIs ==
  ASSUME Typed, Kept, NEW i \in DOMAIN chain
  PROVE  /\ BaseOf(i) \in 1..i
         /\ chain[BaseOf(i)].materialized
         /\ \A j \in (BaseOf(i) + 1)..i : ~chain[j].materialized
<1> DEFINE D == {0} \cup {j \in 1..i : chain[j].materialized}
<1>1. chain \in Seq(Node) /\ i \in 1..Len(chain) /\ Len(chain) \in Nat /\ i \in Nat /\ chain # <<>>
  BY DEF Typed
<1>2. 1 \in D
  BY <1>1 DEF Kept
<1>3. D \in SUBSET (0..i) /\ D # {}
  BY <1>1
<1>4. \A j \in D : j # 0 => j \in 1..i /\ chain[j].materialized
  OBVIOUS
<1>5. \A j \in 1..i : chain[j].materialized => j \in D
  OBVIOUS
<1> HIDE DEF D
<1>6. Max(D) \in D /\ \A m \in D : m <= Max(D)
  BY <1>1, <1>3, MaxIs
<1>7. Max(D) \in 1..i
  <2>1. Max(D) \in 0..i
    BY <1>3, <1>6
  <2>2. 1 <= Max(D)
    BY <1>2, <1>6
  <2> QED
    BY <1>1, <2>1, <2>2
<1>8. chain[Max(D)].materialized
  BY <1>4, <1>6, <1>7
<1>9. \A j \in (Max(D) + 1)..i : ~chain[j].materialized
  <2> SUFFICES ASSUME NEW j \in (Max(D) + 1)..i, chain[j].materialized PROVE FALSE
    OBVIOUS
  <2>1. j \in 1..i /\ j > Max(D)
    BY <1>1, <1>7
  <2> QED
    BY <1>3, <1>5, <1>6, <1>7, <2>1
<1>10. BaseOf(i) = Max(D)
  BY DEF BaseOf, D
<1> QED
  BY <1>7, <1>8, <1>9, <1>10

LEMMA KeptIsKept ==
  ASSUME VersionsAssumption, Typed, Kept
  PROVE  VersionsAreKept
<1>1. ASSUME NEW i \in DOMAIN chain
      PROVE  BaseOf(i) # 0 /\ \A j \in 1..i : chain[j].rev <= chain[i].rev
  <2>1. BaseOf(i) \in 1..i
    BY BaseIs
  <2>2. ASSUME NEW j \in 1..i PROVE chain[j].rev <= chain[i].rev
    <3>1. i \in 1..Len(chain) /\ j \in 1..Len(chain) /\ DOMAIN chain = 1..Len(chain) /\ chain[i].rev \in Nat
      BY DEF Typed
    <3>2. j < i \/ j = i
      BY <3>1
    <3> QED
      BY <3>1, <3>2 DEF Kept
  <2> QED
    BY <2>1, <2>2
<1>2. Len(chain) >= Min({Floor, recorded})
  <2>1. {Floor, recorded} \in SUBSET Nat /\ Len(chain) \in Nat
    BY DEF Typed, VersionsAssumption
  <2>2. Min({Floor, recorded}) \in {Floor, recorded} /\ Min({Floor, recorded}) <= Floor /\ Min({Floor, recorded}) <= recorded
    BY <2>1, MinIs
  <2> QED
    BY <2>1, <2>2 DEF Kept
<1> QED
  BY <1>1, <1>2 DEF VersionsAreKept, Kept

----------------------------------------------------------------------------
(* Carriers, step by step.                                                 *)

Carrier == [rev : 1..MaxCommits, op : Op, at : Nat, folds : SUBSET Nat]

LEMMA CarriersTyped ==
  ASSUME Typed
  PROVE  Carriers \subseteq Carrier
<1>1. ASSUME NEW t \in Committers, Carries(t) PROVE AsBatch(verThread[t].batch) \in Carrier
  <2>1. verThread[t].batch \in Sent
    BY <1>1, AtEachPc DEF Typed, Carries
  <2> QED
    BY <2>1 DEF Sent, Committed, AsBatch, Carrier
<1>2. ASSUME NEW i \in DOMAIN chain PROVE AsNode(chain[i], verLogEpoch) \in Carrier
  <2>1. chain[i] \in Node /\ chain[i].rev \in 1..MaxCommits /\ verLogEpoch \in Nat
    BY DEF Typed
  <2> QED
    BY <2>1 DEF Node, AsNode, Carrier
<1> QED
  BY <1>1, <1>2 DEF Carriers, Batches, Nodes

LEMMA BatchIsCarried ==
  ASSUME NEW t \in Committers, Carries(t)
  PROVE  /\ AsBatch(verThread[t].batch) \in Carriers
         /\ AsBatch(verThread[t].batch).rev = verThread[t].batch.rev
         /\ AsBatch(verThread[t].batch).at = verThread[t].batch.at
         /\ AsBatch(verThread[t].batch).op = verThread[t].batch.op
         /\ AsBatch(verThread[t].batch).folds = verThread[t].batch.folds
BY DEF Carriers, Batches, AsBatch

LEMMA NodeIsCarried ==
  ASSUME NEW i \in DOMAIN chain
  PROVE  /\ AsNode(chain[i], verLogEpoch) \in Carriers
         /\ AsNode(chain[i], verLogEpoch).rev = chain[i].rev
         /\ AsNode(chain[i], verLogEpoch).at = verLogEpoch
         /\ AsNode(chain[i], verLogEpoch).op = chain[i].op
         /\ AsNode(chain[i], verLogEpoch).folds = {}
BY DEF Carriers, Nodes, AsNode

LEMMA CarrierIs ==
  ASSUME NEW c \in Carriers
  PROVE  \/ \E t \in Committers : Carries(t) /\ c = AsBatch(verThread[t].batch)
         \/ \E i \in DOMAIN chain : c = AsNode(chain[i], verLogEpoch)
BY DEF Carriers, Batches, Nodes

(* A thread that stays where it is. *)
LEMMA ThreadStays ==
  ASSUME NEW u \in Committers, verThread'[u] = verThread[u]
  PROVE  /\ Carries(u)' <=> Carries(u)
         /\ Closes(u)' <=> Closes(u)
         /\ Clears(u)' <=> Clears(u)
         /\ FoldsOf(u)' = FoldsOf(u)
BY DEF Carries, Closes, Clears, FoldsOf

(* Threads but t stay, and t moves to s. *)
Goes(t, s) ==
  /\ s \in ThreadState /\ verThread' = [verThread EXCEPT ![t] = s]

LEMMA GoesDoes ==
  ASSUME Typed, NEW t \in Committers, NEW s, Goes(t, s)
  PROVE  /\ verThread'[t] = s
         /\ \A u \in Committers : u # t =>
              /\ verThread'[u] = verThread[u]
              /\ (Carries(u)' <=> Carries(u)) /\ (Closes(u)' <=> Closes(u)) /\ (Clears(u)' <=> Clears(u))
              /\ FoldsOf(u)' = FoldsOf(u)
         /\ (Carries(t)' <=> s.pc = "record") /\ (Closes(t)' <=> s.pc = "closing") /\ (Clears(t)' <=> s.pc = "boundary")
<1>1. verThread'[t] = s /\ \A u \in Committers : u # t => verThread'[u] = verThread[u]
  BY OneMoves DEF Typed, Goes
<1>2. (Carries(t)' <=> s.pc = "record") /\ (Closes(t)' <=> s.pc = "closing") /\ (Clears(t)' <=> s.pc = "boundary")
  BY <1>1 DEF Carries, Closes, Clears
<1> QED
  BY <1>1, <1>2, ThreadStays

(* A batch more. *)
LEMMA Joins ==
  ASSUME Typed, NEW t \in Committers, ~Carries(t), NEW b \in Sent, Goes(t, Recording(b)),
         chain' = chain, verLogEpoch' = verLogEpoch
  PROVE  /\ Carriers' = Carriers \cup {AsBatch(b)}
         /\ Carries(t)' /\ ~Closes(t)' /\ ~Clears(t)' /\ verThread'[t].batch = b /\ FoldsOf(t)' = b.folds
<1>1. verThread'[t] = Recording(b) /\ Carries(t)' /\ verThread'[t].batch = b /\ ~Closes(t)' /\ ~Clears(t)'
  BY GoesDoes DEF Recording
<1>2. \A u \in Committers : u # t => verThread'[u] = verThread[u] /\ (Carries(u)' <=> Carries(u))
  BY GoesDoes
<1>3. Batches' = Batches \cup {AsBatch(b)}
  BY <1>1, <1>2 DEF Batches
<1>4. Nodes' = Nodes
  BY DEF Nodes
<1>5. FoldsOf(t)' = b.folds
  BY <1>1 DEF FoldsOf
<1> QED
  BY <1>1, <1>3, <1>4, <1>5 DEF Carriers

(* No batch comes or goes. *)
LEMMA Passes ==
  ASSUME Typed, NEW t \in Committers, ~Carries(t), NEW s, Goes(t, s), s.pc # "record",
         chain' = chain, verLogEpoch' = verLogEpoch
  PROVE  Carriers' = Carriers
<1>1. \A u \in Committers : u # t => verThread'[u] = verThread[u] /\ (Carries(u)' <=> Carries(u))
  BY GoesDoes
<1>2. ~Carries(t)'
  BY GoesDoes
<1>3. Batches' = Batches
  BY <1>1, <1>2 DEF Batches
<1>4. Nodes' = Nodes
  BY DEF Nodes
<1> QED
  BY <1>3, <1>4 DEF Carriers

(* A thread rests, and its batch, if it has one, is no longer on its way.  *)
LEMMA Leaves ==
  ASSUME Typed, NEW t \in Committers, Goes(t, AtRest)
  PROVE  /\ Batches' \subseteq Batches
         /\ \A c \in Batches : c \in Batches' \/ (Carries(t) /\ c = AsBatch(verThread[t].batch))
         /\ ~Carries(t)' /\ ~Closes(t)' /\ ~Clears(t)' /\ FoldsOf(t)' = {}
<1>1. ~Carries(t)' /\ ~Closes(t)' /\ ~Clears(t)'
  BY GoesDoes DEF AtRest
<1>2. \A u \in Committers : u # t => verThread'[u] = verThread[u] /\ (Carries(u)' <=> Carries(u))
  BY GoesDoes
<1>3. Batches' \subseteq Batches
  BY <1>1, <1>2 DEF Batches
<1>4. \A c \in Batches : c \in Batches' \/ (Carries(t) /\ c = AsBatch(verThread[t].batch))
  BY <1>1, <1>2 DEF Batches
<1>5. FoldsOf(t)' = {}
  BY <1>1 DEF FoldsOf
<1> QED
  BY <1>1, <1>3, <1>4, <1>5

----------------------------------------------------------------------------
(* The actions, in the invariant's terms.                                  *)

LEMMA CommitDoes ==
  ASSUME VersionsAssumption, Typed, NEW t \in Committers, Commit(t)
  PROVE  \E op \in Op, b \in Sent :
           /\ Transact(op)
           /\ b.rev = verRev + 1 /\ b.at = verEpoch /\ b.image = verDoc' /\ b.op = op /\ b.folds = {}
           /\ verThread[t] = AtRest /\ Goes(t, Recording(b))
           /\ UNCHANGED <<drag, verLogEpoch, chain, retained, recorded, nodeless, shared>>
<1>1. PICK op \in Op, size \in Sizes :
        /\ Transact(op)
        /\ verThread' = [verThread EXCEPT ![t] = Recording(
             [rev |-> verRev', at |-> verEpoch, image |-> verDoc', op |-> op, size |-> size, folds |-> {}])]
  BY DEF Commit
<1> DEFINE b == [rev |-> verRev + 1, at |-> verEpoch, image |-> verDoc', op |-> op, size |-> size, folds |-> {}]
<1>2. verDoc' \in Image /\ verRev' = verRev + 1 /\ verRev' \in 1..MaxCommits
  BY <1>1, TransactTypes
<1>3. b \in Sent
  <2>1. verRev + 1 \in 1..MaxCommits /\ verEpoch \in Nat /\ verRev + 1 \in Nat
    BY <1>2 DEF Typed, VersionsAssumption
  <2> QED
    BY <1>2, <2>1 DEF Sent, Committed
<1>4. verThread' = [verThread EXCEPT ![t] = Recording(b)]
  BY <1>1, <1>2
<1>5. b.rev = verRev + 1 /\ b.at = verEpoch /\ b.image = verDoc' /\ b.op = op /\ b.folds = {}
  OBVIOUS
<1> HIDE DEF b
<1>6. Goes(t, Recording(b))
  BY <1>3, <1>4 DEF Goes, ThreadState
<1>7. verThread[t] = AtRest /\ UNCHANGED <<drag, verLogEpoch, chain, retained, recorded, nodeless, shared>>
  BY DEF Commit, verLog
<1> QED
  BY <1>1, <1>3, <1>5, <1>6, <1>7

LEMMA FoldDoes ==
  ASSUME VersionsAssumption, Typed, NEW t \in Committers, Fold(t)
  PROVE  \E op \in Op :
           /\ Transact(op) /\ op.key \in Knobs /\ (drag.op = NoOp \/ drag.op.key = op.key)
           /\ drag'.op = op /\ drag'.folds = drag.folds \cup {verRev + 1}
           /\ drag'.made = IF drag.op = NoOp THEN verEpoch ELSE drag.made
           /\ nodeless' = nodeless \cup {verRev + 1}
           /\ UNCHANGED <<verThread, verLogEpoch, chain, retained, recorded, shared>>
<1>1. PICK op \in Op :
        /\ op.key \in Knobs
        /\ drag.op = NoOp \/ drag.op.key = op.key
        /\ Transact(op)
        /\ drag' = [drag EXCEPT !.op = op, !.folds = @ \cup {verRev'},
                                !.made = IF drag.op = NoOp THEN verEpoch ELSE @]
  BY DEF Fold
<1>2. verRev' = verRev + 1
  BY <1>1 DEF Transact
<1>3. drag'.op = op /\ drag'.folds = drag.folds \cup {verRev + 1} /\ drag'.made = IF drag.op = NoOp THEN verEpoch ELSE drag.made
  BY <1>1, <1>2 DEF Typed, AnyDrag
<1>4. nodeless' = nodeless \cup {verRev + 1} /\ UNCHANGED <<verThread, verLogEpoch, chain, retained, recorded, shared>>
  BY <1>2 DEF Fold, verLog
<1> QED
  BY <1>1, <1>3, <1>4

LEMMA TakeDoes ==
  ASSUME VersionsAssumption, Typed, NEW t \in Committers, GestureBegin(t) \/ GestureEnd(t)
  PROVE  /\ verThread[t] = AtRest
         /\ Goes(t, IF drag.op = NoOp THEN AtRest ELSE Closing(drag))
         /\ drag'.op = NoOp /\ drag'.folds = {} /\ drag'.made = 0
         /\ UNCHANGED <<verDoc, verRev, verEpoch, verLogEpoch, chain, retained, recorded, docs, nodeless, shared>>
<1>1. TakeDrag(t) /\ drag' \in {[NoDrag EXCEPT !.open = TRUE], NoDrag}
  BY DEF GestureBegin, GestureEnd
<1>2. drag'.op = NoOp /\ drag'.folds = {} /\ drag'.made = 0
  BY <1>1 DEF NoDrag
<1>3. drag.op # NoOp => drag \in Written
  <2>1. drag \in AnyDrag /\ (drag.op # NoOp => drag.folds # {})
    BY DEF Typed
  <2>2. drag.op \in Op \cup {NoOp}
    BY <2>1 DEF AnyDrag
  <2> QED
    BY <2>1, <2>2 DEF Written
<1>4. Goes(t, IF drag.op = NoOp THEN AtRest ELSE Closing(drag))
  BY <1>1, <1>3 DEF Goes, ThreadState, TakeDrag
<1>5. verThread[t] = AtRest /\ UNCHANGED <<verDoc, verRev, verEpoch, verLogEpoch, chain, retained, recorded, docs, nodeless, shared>>
  BY <1>1 DEF TakeDrag, verSession, verLog, verHistory
<1> QED
  BY <1>2, <1>4, <1>5

LEMMA StampDoes ==
  ASSUME VersionsAssumption, Typed, NEW t \in Committers, Stamp(t)
  PROVE  \E b \in Sent :
           /\ Closes(t) /\ verThread[t].drag \in Written
           /\ b.rev = verRev /\ b.at = verEpoch /\ b.image = verDoc /\ b.op = verThread[t].drag.op
           /\ b.folds = (IF Alone(verThread[t].drag) THEN verThread[t].drag.folds ELSE {})
           /\ Goes(t, Recording(b))
           /\ shared' = shared \cup (IF Alone(verThread[t].drag) THEN {} ELSE {verRev})
           /\ UNCHANGED <<verDoc, verRev, verEpoch, drag, verLogEpoch, chain, retained, recorded, docs, nodeless>>
<1> DEFINE d == verThread[t].drag
           F == IF Alone(d) THEN d.folds ELSE {}
<1>1. d \in Written /\ Closes(t)
  BY AtEachPc DEF Stamp, Typed, Closes
<1>2. PICK size \in Sizes :
        verThread' = [verThread EXCEPT ![t] = Recording(
          [rev |-> verRev, at |-> verEpoch, image |-> verDoc, op |-> d.op, size |-> size, folds |-> F])]
  BY DEF Stamp
<1> DEFINE b == [rev |-> verRev, at |-> verEpoch, image |-> verDoc, op |-> d.op, size |-> size, folds |-> F]
<1>3. b \in Sent
  <2>1. F \in SUBSET Nat /\ d.op \in Op
    BY <1>1 DEF Written, AnyDrag
  <2>2. verRev \in 1..MaxCommits /\ verRev \in Nat /\ verEpoch \in Nat /\ verDoc \in Image
    BY DEF Typed
  <2> HIDE DEF d, F
  <2> QED
    BY <2>1, <2>2 DEF Sent, Committed
<1>4. verThread' = [verThread EXCEPT ![t] = Recording(b)]
  BY <1>2
<1>5. b.rev = verRev /\ b.at = verEpoch /\ b.image = verDoc /\ b.op = d.op /\ b.folds = F
  OBVIOUS
<1> HIDE DEF b
<1>6. Goes(t, Recording(b))
  BY <1>3, <1>4 DEF Goes, ThreadState
<1>7. /\ shared' = shared \cup (IF Alone(d) THEN {} ELSE {verRev})
      /\ UNCHANGED <<verDoc, verRev, verEpoch, drag, verLogEpoch, chain, retained, recorded, docs, nodeless>>
  BY DEF Stamp, verSession, verLog
<1> QED
  BY <1>1, <1>3, <1>5, <1>6, <1>7

LEMMA RecordDoes ==
  ASSUME VersionsAssumption, Typed, NEW t \in Committers, RecordVersion(t)
  PROVE  /\ Carries(t) /\ verThread[t].batch \in Sent /\ Goes(t, AtRest)
         /\ \/ verThread[t].batch.at = verLogEpoch /\ Insert(verThread[t].batch)
            \/ verThread[t].batch.at # verLogEpoch /\ Drop(verThread[t].batch)
         /\ UNCHANGED <<verDoc, verRev, verEpoch, drag, verLogEpoch, docs, shared>>
<1>1. Carries(t) /\ verThread[t].batch \in Sent
  BY AtEachPc DEF RecordVersion, Typed, Carries
<1>2. Goes(t, AtRest)
  BY DEF RecordVersion, Goes, ThreadState
<1>3. \/ verThread[t].batch.at = verLogEpoch /\ Insert(verThread[t].batch)
      \/ verThread[t].batch.at # verLogEpoch /\ Drop(verThread[t].batch)
  BY DEF RecordVersion, SameEpoch
<1>4. UNCHANGED <<verDoc, verRev, verEpoch, drag, verLogEpoch, docs, shared>>
  BY DEF RecordVersion, verSession
<1> QED
  BY <1>1, <1>2, <1>3, <1>4

LEMMA SwapDoes ==
  ASSUME VersionsAssumption, Typed, NEW t \in Committers, SwapDocument(t)
  PROVE  /\ verThread[t] = AtRest /\ verEpoch' = verEpoch + 1 /\ verDoc' = Empty
         /\ Goes(t, Swapped(verEpoch + 1))
         /\ UNCHANGED <<verRev, drag, verLogEpoch, chain, retained, recorded, docs, nodeless, shared>>
<1>1. verEpoch + 1 \in 0..MaxSwaps
  BY DEF SwapDocument, Typed, VersionsAssumption
<1>2. Goes(t, Swapped(verEpoch + 1))
  BY <1>1 DEF SwapDocument, Goes, ThreadState
<1> QED
  BY <1>2 DEF SwapDocument, verLog, verHistory

LEMMA ClearDoes ==
  ASSUME VersionsAssumption, Typed, NEW t \in Committers, ClearVersions(t)
  PROVE  /\ Clears(t) /\ verLogEpoch' = verThread[t].at /\ chain' = <<>>
         /\ Goes(t, AtRest)
         /\ UNCHANGED <<verDoc, verRev, verEpoch, drag, docs, nodeless, shared>>
BY DEF ClearVersions, Clears, Goes, ThreadState, verSession, verHistory

(* Which epochs live. *)
LEMMA LiveStays ==
  ASSUME Typed, NEW t \in Committers, ~Clears(t), NEW s, Goes(t, s), s.pc # "boundary", verLogEpoch' = verLogEpoch
  PROVE  \A e : Live(e)' <=> Live(e)
<1>1. \A u \in Committers : u # t => verThread'[u] = verThread[u] /\ (Clears(u)' <=> Clears(u))
  BY GoesDoes
<1>2. ~Clears(t)'
  BY GoesDoes
<1> QED
  BY <1>1, <1>2 DEF Live

LEMMA LiveAfterSwap ==
  ASSUME Typed, NEW t \in Committers, ~Clears(t), NEW a, Goes(t, Swapped(a)), verLogEpoch' = verLogEpoch
  PROVE  \A e : Live(e)' <=> Live(e) \/ e = a
<1>1. \A u \in Committers : u # t => verThread'[u] = verThread[u] /\ (Clears(u)' <=> Clears(u))
  BY GoesDoes
<1>2. Clears(t)' /\ verThread'[t].at = a
  BY GoesDoes DEF Swapped
<1> QED
  BY <1>1, <1>2 DEF Live

LEMMA LiveAfterClear ==
  ASSUME Typed, Known, NEW t \in Committers, Clears(t), Goes(t, AtRest), verLogEpoch' = verThread[t].at
  PROVE  \A e : Live(e)' => Live(e) /\ e # verLogEpoch
<1>1. \A u \in Committers : u # t => verThread'[u] = verThread[u] /\ (Clears(u)' <=> Clears(u))
  BY GoesDoes
<1>2. ~Clears(t)'
  BY GoesDoes DEF AtRest
<1>3. \A u \in Committers : Clears(u) => verThread[u].at # verLogEpoch
  BY DEF Known
<1> QED
  BY <1>1, <1>2, <1>3 DEF Live

----------------------------------------------------------------------------
(* What is linked stays linked.                                            *)

LEMMA SessionIs ==
  ASSUME VersionsAssumption, Typed
  PROVE  /\ verRev \in Nat /\ 1 <= verRev /\ verEpoch \in Nat /\ verLogEpoch \in Nat
         /\ drag.folds \in SUBSET Nat /\ drag.made \in Nat
         /\ \A t \in Committers : FoldsOf(t) \in SUBSET Nat
         /\ \A t \in Committers : Closes(t) => verThread[t].drag \in Written /\ FoldsOf(t) = verThread[t].drag.folds
         /\ \A t \in Committers : Carries(t) => verThread[t].batch \in Sent /\ FoldsOf(t) = verThread[t].batch.folds
         /\ \A t \in Committers : Clears(t) => verThread[t].at \in Nat
<1>1. verRev \in Nat /\ 1 <= verRev /\ verEpoch \in Nat /\ verLogEpoch \in Nat
  BY DEF Typed, VersionsAssumption
<1>2. drag.folds \in SUBSET Nat /\ drag.made \in Nat
  BY DEF Typed, VersionsAssumption, AnyDrag
<1>3. ASSUME NEW t \in Committers
      PROVE  /\ Closes(t) => verThread[t].drag \in Written
             /\ Carries(t) => verThread[t].batch \in Sent
             /\ Clears(t) => verThread[t].at \in Nat
  <2>1. verThread[t] \in ThreadState
    BY DEF Typed
  <2> QED
    BY <2>1, AtEachPc DEF Closes, Carries, Clears
<1>4. ASSUME NEW t \in Committers
      PROVE  /\ Closes(t) => FoldsOf(t) = verThread[t].drag.folds
             /\ Carries(t) => FoldsOf(t) = verThread[t].batch.folds
  BY DEF Closes, Carries, FoldsOf
<1>5. ASSUME NEW t \in Committers PROVE FoldsOf(t) \in SUBSET Nat
  <2>1. CASE Closes(t)
    BY <1>3, <1>4, <2>1 DEF Written, AnyDrag
  <2>2. CASE Carries(t)
    BY <1>3, <1>4, <2>2 DEF Sent, Committed
  <2>3. CASE ~Closes(t) /\ ~Carries(t)
    BY <2>3 DEF FoldsOf
  <2> QED
    BY <2>1, <2>2, <2>3
<1> QED
  BY <1>1, <1>2, <1>3, <1>4, <1>5

LEMMA CarrierHas ==
  ASSUME VersionsAssumption, Typed, Known, NEW c \in Carriers
  PROVE  /\ c.rev \in Nat /\ 2 <= c.rev /\ c.rev <= verRev
         /\ c.at \in Nat /\ c.at <= verEpoch
         /\ c.op \in Op /\ c.folds \in SUBSET Nat
<1>1. c \in Carrier
  BY CarriersTyped
<1>2. c.rev \in Nat /\ c.at \in Nat /\ c.op \in Op /\ c.folds \in SUBSET Nat
  BY <1>1 DEF Carrier
<1>3. c.rev \in 2..verRev /\ c.at <= verEpoch
  BY DEF Known
<1> QED
  BY <1>2, <1>3, SessionIs

LEMMA InitLinked ==
  ASSUME VersionsAssumption, VersionInit
  PROVE  Kept /\ Linked
<1>1. Carriers = {} /\ chain = <<>>
  BY DEF Carriers, Batches, Nodes, Carries, AtRest, VersionInit
<1>2. \A t \in Committers : ~Carries(t) /\ ~Closes(t) /\ ~Clears(t) /\ FoldsOf(t) = {}
  BY DEF Carries, Closes, Clears, FoldsOf, AtRest, VersionInit
<1>3. drag.folds = {} /\ drag.op = NoOp /\ drag.made = 0 /\ verEpoch = 0 /\ verLogEpoch = 0 /\ verRev = 1
  BY DEF VersionInit, NoDrag
<1>4. Kept
  <2>1. AddsUp([i \in 0..0 |-> 0], <<>>)
    BY DEF AddsUp
  <2>2. Weight(<<>>) = 0
    BY <2>1, WeightIs
  <2>3. Cuts(<<>>) = {}
    BY DEF Cuts, VersionsAssumption
  <2> QED
    BY <2>2, <2>3 DEF Kept, VersionInit
<1>5. Known
  BY <1>1, <1>2, <1>3 DEF Known
<1>6. KnobsStay
  <2>1. verDoc = Empty /\ docs[1] = Empty /\ \A k \in Knobs : Empty[k] # Nothing
    BY DEF VersionInit, Empty, Nothing, Keys
  <2> QED
    BY <1>3, <2>1 DEF KnobsStay
<1>7. Distinct /\ Images
  BY <1>1, <1>2 DEF Distinct, Images
<1>8. FoldsAreHeld /\ FoldsAreFree
  BY <1>1, <1>2, <1>3 DEF FoldsAreHeld, FoldsAreFree
<1>9. InTime /\ Current /\ Newest /\ PairsLead
  BY <1>1 DEF InTime, Current, Newest, PairsLead, Ours
<1>10. DragsLead
  BY <1>2, <1>3 DEF DragsLead, DragLeads, Drags
<1> QED
  BY <1>4, <1>5, <1>6, <1>7, <1>8, <1>9, <1>10 DEF Linked

(* A transaction leaves what the documents were, and what led where.       *)
LEMMA TransactLeads ==
  ASSUME VersionsAssumption, Typed, NEW op \in Op, Transact(op)
  PROVE  \A p, r \in 1..verRev : \A o \in Op : Leads(p, r, o) => Leads(p, r, o)'
<1>1. \A u \in 1..verRev : docs'[u] = docs[u]
  BY TransactTypes
<1> QED
  BY <1>1 DEF Leads, Applies

(* The knobs are still there. *)
LEMMA TransactKeepsKnobs ==
  ASSUME VersionsAssumption, Typed, KnobsStay, NEW op \in Op, Transact(op)
  PROVE  KnobsStay'
<1>1. /\ verDoc \in Image /\ verRev \in Nat
      /\ verDoc' = Apply(verDoc, op) /\ verRev' = verRev + 1
      /\ docs'[verRev'] = verDoc' /\ \A u \in 1..verRev : docs'[u] = docs[u]
  BY TransactTypes DEF Typed, Transact
<1>2. ASSUME NEW k \in Knobs PROVE verDoc'[k] # Nothing
  <2>1. CASE op.key = k
    <3>1. op.to = verRev + 1
      BY <2>1, <1>2 DEF Transact, VersionsAssumption
    <3>2. verDoc'[k] = op.to
      BY <1>1, <2>1, AppliedIsImage
    <3> QED
      BY <1>1, <3>1, <3>2 DEF Nothing
  <2>2. CASE op.key # k
    <3>1. k \in Keys
      BY DEF Keys
    <3>2. verDoc'[k] = verDoc[k]
      BY <1>1, <2>2, <3>1, AppliedIsImage
    <3> QED
      BY <3>2 DEF KnobsStay
  <2> QED
    BY <2>1, <2>2
<1>3. ASSUME NEW k \in Knobs, NEW u \in 1..verRev' PROVE docs'[u][k] # Nothing
  <2>1. CASE u = verRev'
    BY <1>1, <1>2, <2>1
  <2>2. CASE u \in 1..verRev
    BY <1>1, <2>2 DEF KnobsStay
  <2> QED
    BY <1>1, <2>1, <2>2
<1> QED
  BY <1>2, <1>3 DEF KnobsStay

LEMMA CommitLinked ==
  ASSUME VersionsAssumption, Typed, Linked, NEW t \in Committers, Commit(t)
  PROVE  Linked'
<1> USE DEF Linked
<1>1. PICK op \in Op, b \in Sent :
        /\ Transact(op)
        /\ b.rev = verRev + 1 /\ b.at = verEpoch /\ b.image = verDoc' /\ b.op = op /\ b.folds = {}
        /\ verThread[t] = AtRest /\ Goes(t, Recording(b))
        /\ UNCHANGED <<drag, verLogEpoch, chain, retained, recorded, nodeless, shared>>
  BY CommitDoes
<1>2. /\ verRev' = verRev + 1 /\ docs'[verRev'] = verDoc' /\ verEpoch' = verEpoch
      /\ \A u \in 1..verRev : docs'[u] = docs[u]
      /\ verRev \in Nat /\ 1 <= verRev /\ verEpoch \in Nat
  BY <1>1, TransactTypes, SessionIs
<1>3. ~Carries(t) /\ ~Closes(t) /\ ~Clears(t)
  BY <1>1 DEF AtRest, Carries, Closes, Clears
<1>4. /\ Carriers' = Carriers \cup {AsBatch(b)}
      /\ Carries(t)' /\ ~Closes(t)' /\ ~Clears(t)' /\ verThread'[t].batch = b /\ FoldsOf(t)' = {}
  BY <1>1, <1>3, Joins
<1>5. \A u \in Committers : u # t =>
        /\ verThread'[u] = verThread[u]
        /\ (Carries(u)' <=> Carries(u)) /\ (Closes(u)' <=> Closes(u)) /\ (Clears(u)' <=> Clears(u))
        /\ FoldsOf(u)' = FoldsOf(u)
  BY <1>1, GoesDoes
<1>6. \A e : Live(e)' <=> Live(e)
  BY <1>1, <1>3, LiveStays DEF Recording
<1> DEFINE n == AsBatch(b)
<1>7. n.rev = verRev + 1 /\ n.at = verEpoch /\ n.op = op /\ n.folds = {}
  BY <1>1 DEF AsBatch
<1> HIDE DEF n
<1>8. \A c \in Carriers' : c \in Carriers \/ c = n
  BY <1>4 DEF n
<1>9. \A c \in Carriers : c \in Carriers' /\ c.rev \in Nat /\ 2 <= c.rev /\ c.rev <= verRev /\ c.at \in Nat /\ c.at <= verEpoch /\ c.op \in Op
  BY <1>4, CarrierHas
<1>10. n \in Carriers'
  BY <1>4 DEF n
<1>11. \A u : Stops(u) => Stops(u)'
  BY <1>1, <1>9 DEF Stops, Carried
<1>12. \A c : Ours(c) => Ours(c)'
  BY <1>1, <1>2, <1>9 DEF Ours
<1>13. \A c \in Carriers : Ours(c)' => Ours(c)
  BY <1>1, <1>2 DEF Ours
<1>14. \A u \in Committers : u # t /\ Carries(u)' => verThread'[u].batch.rev \in Nat /\ verThread'[u].batch.rev <= verRev
  BY <1>5, <1>9, BatchIsCarried
<1>15. \A i \in DOMAIN chain : chain[i].rev \in Nat /\ chain[i].rev <= verRev
  BY <1>9, NodeIsCarried
<1>20. Known'
  <2>1. \A c \in Carriers' : c.rev \in 2..verRev' /\ c.at <= verEpoch'
    BY <1>2, <1>7, <1>8, <1>9
  <2>2. verLogEpoch' <= verEpoch' /\ drag'.made <= verEpoch'
    BY <1>1, <1>2 DEF Known
  <2>3. \A u \in Committers : Closes(u)' => verThread'[u].drag.made <= verEpoch'
    BY <1>2, <1>4, <1>5 DEF Known
  <2>4. \A u \in Committers : Clears(u)' => verThread'[u].at <= verEpoch' /\ verThread'[u].at # verLogEpoch'
    BY <1>1, <1>2, <1>4, <1>5 DEF Known
  <2>5. \A s, u \in Committers : s # u /\ Clears(s)' /\ Clears(u)' => verThread'[u].at # verThread'[s].at
    BY <1>4, <1>5 DEF Known
  <2> QED
    BY <2>1, <2>2, <2>3, <2>4, <2>5 DEF Known
<1>21. KnobsStay'
  BY <1>1, TransactKeepsKnobs
<1>22. Distinct'
  <2>1. \A i, j \in DOMAIN chain' : i < j /\ chain'[i].rev = chain'[j].rev => chain'[i].rev \in shared'
    BY <1>1 DEF Distinct
  <2>2. \A s, u \in Committers :
          s # u /\ Carries(s)' /\ Carries(u)' /\ verThread'[s].batch.rev = verThread'[u].batch.rev =>
            verThread'[u].batch.rev \in shared'
    BY <1>1, <1>2, <1>4, <1>5, <1>14 DEF Distinct
  <2>3. \A u \in Committers, i \in DOMAIN chain' :
          Carries(u)' /\ verThread'[u].batch.rev = chain'[i].rev => chain'[i].rev \in shared'
    BY <1>1, <1>2, <1>4, <1>5, <1>15 DEF Distinct
  <2> QED
    BY <2>1, <2>2, <2>3 DEF Distinct
<1>23. Images'
  <2>1. ASSUME NEW u \in Committers, Carries(u)', verThread'[u].batch.rev \notin shared'
        PROVE  verThread'[u].batch.image = docs'[verThread'[u].batch.rev]
    <3>1. CASE u = t
      BY <1>1, <1>2, <1>4, <3>1
    <3>2. CASE u # t
      <4>1. Carries(u) /\ verThread'[u].batch = verThread[u].batch /\ verThread[u].batch.rev \in 1..verRev
        BY <1>2, <1>5, <1>9, <2>1, <3>2, BatchIsCarried
      <4> QED
        BY <1>1, <1>2, <2>1, <4>1 DEF Images
    <3> QED
      BY <3>1, <3>2
  <2>2. ASSUME NEW i \in DOMAIN chain', chain'[i].materialized, chain'[i].rev \notin shared'
        PROVE  chain'[i].image = docs'[chain'[i].rev]
    <3>1. i \in DOMAIN chain /\ chain[i].rev \in 1..verRev
      BY <1>1, <1>2, <1>9, <2>2, NodeIsCarried
    <3> QED
      BY <1>1, <1>2, <2>2, <3>1 DEF Images
  <2> QED
    BY <2>1, <2>2 DEF Images
<1>24. FoldsAreHeld'
  <2>1. drag'.folds \subseteq nodeless' \cap (2..verRev')
    BY <1>1, <1>2 DEF FoldsAreHeld
  <2>2. ASSUME NEW u \in Committers
        PROVE  /\ FoldsOf(u)' \subseteq nodeless' \cap (2..verRev')
               /\ FoldsOf(u)' \cap drag'.folds = {}
               /\ \A s \in Committers : s # u => FoldsOf(u)' \cap FoldsOf(s)' = {}
    <3>1. \A s \in Committers : FoldsOf(s)' = FoldsOf(s) \/ (s = t /\ FoldsOf(s)' = {})
      BY <1>4, <1>5
    <3>2. FoldsOf(u)' \subseteq nodeless \cap (2..verRev)
      BY <3>1 DEF FoldsAreHeld
    <3> QED
      BY <1>1, <1>2, <3>1, <3>2 DEF FoldsAreHeld
  <2>3. ASSUME NEW u \in Committers, Carries(u)', FoldsOf(u)' # {}
        PROVE  \E m \in 2..verRev' : FoldsOf(u)' = m..verThread'[u].batch.rev
    <3>1. u # t /\ Carries(u) /\ verThread'[u] = verThread[u] /\ FoldsOf(u)' = FoldsOf(u)
      BY <1>4, <1>5, <2>3
    <3>2. PICK m \in 2..verRev : FoldsOf(u) = m..verThread[u].batch.rev
      BY <2>3, <3>1 DEF FoldsAreHeld
    <3> QED
      BY <1>2, <3>1, <3>2
  <2> QED
    BY <2>1, <2>2, <2>3 DEF FoldsAreHeld
<1>25. FoldsAreFree'
  <2>1. ASSUME NEW c \in Carriers'
        PROVE  /\ c.rev \in drag'.folds => c.rev \in shared'
               /\ \A u \in Committers : c.rev \in FoldsOf(u)' =>
                    c.rev \in shared' \/ (Carries(u)' /\ c.rev = verThread'[u].batch.rev)
    <3>1. CASE c = n
      <4>1. c.rev = verRev + 1
        BY <1>7, <3>1
      <4>2. c.rev \notin drag.folds /\ \A u \in Committers : c.rev \notin FoldsOf(u)
        BY <1>2, <4>1 DEF FoldsAreHeld
      <4> QED
        BY <1>1, <1>4, <1>5, <4>2
    <3>2. CASE c \in Carriers
      <4>1. c.rev \in drag.folds => c.rev \in shared
        BY <3>2 DEF FoldsAreFree
      <4>2. ASSUME NEW u \in Committers, c.rev \in FoldsOf(u)'
            PROVE  c.rev \in shared' \/ (Carries(u)' /\ c.rev = verThread'[u].batch.rev)
        <5>1. u # t /\ c.rev \in FoldsOf(u) /\ (Carries(u)' <=> Carries(u)) /\ verThread'[u] = verThread[u]
          BY <1>4, <1>5, <4>2
        <5> QED
          BY <1>1, <3>2, <5>1 DEF FoldsAreFree
      <4> QED
        BY <1>1, <4>1, <4>2
    <3> QED
      BY <1>8, <3>1, <3>2
  <2> QED
    BY <2>1 DEF FoldsAreFree
<1>26. InTime'
  <2>1. ASSUME NEW x \in Carriers', NEW y \in Carriers', x.rev < y.rev PROVE x.at <= y.at
    <3>1. CASE x \in Carriers /\ y \in Carriers
      BY <2>1, <3>1 DEF InTime
    <3>2. CASE x \in Carriers /\ y = n
      BY <1>7, <1>9, <3>2
    <3>3. CASE x = n
      BY <1>2, <1>7, <1>8, <1>9, <2>1, <3>3
    <3> QED
      BY <1>8, <3>1, <3>2, <3>3
  <2> QED
    BY <2>1 DEF InTime
<1>27. Current' /\ Newest'
  <2>1. \A r \in {verRev'} : Stops(r)'
    BY <1>2, <1>7, <1>10 DEF Stops, Carried
  <2> QED
    BY <1>2, <2>1 DEF Current, Newest
<1>28. DragsLead'
  <2>1. ASSUME NEW d, d.folds \subseteq 2..verRev PROVE DragLeads(d)'
    <3>1. ASSUME NEW m \in 2..verRev', d.folds = m..verRev' PROVE FALSE
      BY <1>2, <2>1, <3>1
    <3> QED
      BY <1>2, <3>1 DEF DragLeads
  <2>2. \A d \in Drags' : d.folds \subseteq 2..verRev
    <3>1. drag'.folds \subseteq 2..verRev
      BY <1>1 DEF FoldsAreHeld
    <3>2. ASSUME NEW u \in Committers, Closes(u)' PROVE verThread'[u].drag.folds \subseteq 2..verRev
      <4>1. u # t /\ Closes(u) /\ verThread'[u] = verThread[u]
        BY <1>4, <1>5, <3>2
      <4> QED
        BY <4>1, SessionIs DEF FoldsAreHeld
    <3> QED
      BY <3>1, <3>2 DEF Drags
  <2> QED
    BY <2>1, <2>2 DEF DragsLead
<1>29. PairsLead'
  <2>1. ASSUME NEW x \in Carriers', NEW y \in Carriers',
               x.at = y.at, Live(x.at)', x.rev \notin shared', y.rev \notin shared', x.rev < y.rev
        PROVE  Leads(x.rev, y.rev, y.op)' \/ \E u \in (x.rev + 1)..(y.rev - 1) : u \notin y.folds /\ Stops(u)'
    <3>1. x \in Carriers
      BY <1>2, <1>7, <1>8, <1>9, <2>1
    <3>2. CASE y \in Carriers
      <4>1. Leads(x.rev, y.rev, y.op) \/ \E u \in (x.rev + 1)..(y.rev - 1) : u \notin y.folds /\ Stops(u)
        BY <1>1, <1>6, <2>1, <3>1, <3>2 DEF PairsLead, PairLeads
      <4>2. CASE Leads(x.rev, y.rev, y.op)
        <5>1. x.rev \in 1..verRev /\ y.rev \in 1..verRev /\ y.op \in Op
          BY <1>2, <1>9, <3>1, <3>2
        <5> QED
          BY <1>1, <4>2, <5>1, TransactLeads
      <4>3. CASE \E u \in (x.rev + 1)..(y.rev - 1) : u \notin y.folds /\ Stops(u)
        BY <1>11, <4>3
      <4> QED
        BY <4>1, <4>2, <4>3
    <3>3. CASE y = n
      <4>1. Ours(x) /\ Live(x.at)
        BY <1>1, <1>6, <1>7, <2>1, <3>1, <3>3 DEF Ours
      <4>2. PICK r : r = verRev
        OBVIOUS
      <4>3. verDoc = docs[r] /\ Stops(r)
        BY <3>1, <4>1, <4>2 DEF Current, Newest
      <4>4. CASE x.rev = r
        <5>1. Applies(verDoc, op) /\ verDoc' = Apply(verDoc, op)
          BY <1>1 DEF Transact
        <5>2. docs'[y.rev] = verDoc' /\ docs'[x.rev] = verDoc /\ y.op = op
          BY <1>2, <1>7, <3>3, <4>2, <4>3, <4>4
        <5> QED
          BY <5>1, <5>2 DEF Leads, Applies
      <4>5. CASE x.rev # r
        <5>1. r \in (x.rev + 1)..(y.rev - 1) /\ r \notin y.folds
          BY <1>2, <1>7, <1>9, <3>1, <3>3, <4>2, <4>5
        <5>2. Stops(r)'
          BY <1>11, <4>3
        <5> QED
          BY <5>1, <5>2
      <4> QED
        BY <4>4, <4>5
    <3> QED
      BY <1>8, <3>2, <3>3
  <2> QED
    BY <2>1 DEF PairsLead, PairLeads
<1> QED
  BY <1>20, <1>21, <1>22, <1>23, <1>24, <1>25, <1>26, <1>27, <1>28, <1>29

LEMMA FoldLinked ==
  ASSUME VersionsAssumption, Typed, Linked, NEW t \in Committers, Fold(t)
  PROVE  Linked'
<1> USE DEF Linked
<1>1. PICK op \in Op :
        /\ Transact(op) /\ op.key \in Knobs /\ (drag.op = NoOp \/ drag.op.key = op.key)
        /\ drag'.op = op /\ drag'.folds = drag.folds \cup {verRev + 1}
        /\ drag'.made = IF drag.op = NoOp THEN verEpoch ELSE drag.made
        /\ nodeless' = nodeless \cup {verRev + 1}
        /\ UNCHANGED <<verThread, verLogEpoch, chain, retained, recorded, shared>>
  BY FoldDoes
<1>2. /\ verRev' = verRev + 1 /\ docs'[verRev'] = verDoc' /\ verEpoch' = verEpoch
      /\ \A u \in 1..verRev : docs'[u] = docs[u] /\ docs[u] \in Image
      /\ verRev \in Nat /\ 1 <= verRev /\ verEpoch \in Nat /\ verDoc \in Image
      /\ verDoc' = Apply(verDoc, op) /\ Applies(verDoc, op)
  BY <1>1, TransactTypes, SessionIs DEF Transact, Typed
<1>3. Carriers' = Carriers
  BY <1>1 DEF Carriers, Batches, Nodes, Carries
<1>4. \A u \in Committers :
        /\ verThread'[u] = verThread[u]
        /\ (Carries(u)' <=> Carries(u)) /\ (Closes(u)' <=> Closes(u)) /\ (Clears(u)' <=> Clears(u))
        /\ FoldsOf(u)' = FoldsOf(u)
  BY <1>1, ThreadStays
<1>5. \A e : Live(e)' <=> Live(e)
  BY <1>1 DEF Live, Clears
<1>6. \A c \in Carriers : c.rev \in Nat /\ 2 <= c.rev /\ c.rev <= verRev /\ c.at \in Nat /\ c.at <= verEpoch /\ c.op \in Op
  BY CarrierHas
<1>7. \A u : Stops(u) => Stops(u)'
  BY <1>1, <1>3 DEF Stops, Carried
<1>8. \A c : Ours(c)' <=> Ours(c)
  BY <1>1, <1>2, <1>3 DEF Ours
<1>20. Known'
  <2>1. verLogEpoch' <= verEpoch' /\ drag'.made <= verEpoch'
    BY <1>1, <1>2 DEF Known
  <2>2. \A c \in Carriers' : c.rev \in 2..verRev' /\ c.at <= verEpoch'
    BY <1>2, <1>3, <1>6
  <2> QED
    BY <1>1, <1>2, <1>4, <2>1, <2>2 DEF Known
<1>21. KnobsStay'
  BY <1>1, TransactKeepsKnobs
<1>22. Distinct'
  BY <1>1, <1>4 DEF Distinct
<1>23. Images'
  <2>1. ASSUME NEW u \in Committers, Carries(u)', verThread'[u].batch.rev \notin shared'
        PROVE  verThread'[u].batch.image = docs'[verThread'[u].batch.rev]
    <3>1. Carries(u) /\ verThread'[u].batch = verThread[u].batch /\ verThread[u].batch.rev \in 1..verRev
      BY <1>2, <1>4, <1>6, <2>1, BatchIsCarried
    <3> QED
      BY <1>1, <1>2, <2>1, <3>1 DEF Images
  <2>2. ASSUME NEW i \in DOMAIN chain', chain'[i].materialized, chain'[i].rev \notin shared'
        PROVE  chain'[i].image = docs'[chain'[i].rev]
    <3>1. i \in DOMAIN chain /\ chain[i].rev \in 1..verRev
      BY <1>1, <1>2, <1>6, <2>2, NodeIsCarried
    <3> QED
      BY <1>1, <1>2, <2>2, <3>1 DEF Images
  <2> QED
    BY <2>1, <2>2 DEF Images
<1>24. FoldsAreHeld'
  <2>1. drag'.folds \subseteq nodeless' \cap (2..verRev')
    BY <1>1, <1>2 DEF FoldsAreHeld
  <2>2. ASSUME NEW u \in Committers
        PROVE  /\ FoldsOf(u)' \subseteq nodeless' \cap (2..verRev')
               /\ FoldsOf(u)' \cap drag'.folds = {}
               /\ \A s \in Committers : s # u => FoldsOf(u)' \cap FoldsOf(s)' = {}
    <3>1. FoldsOf(u) \subseteq nodeless \cap (2..verRev) /\ FoldsOf(u) \cap drag.folds = {}
      BY DEF FoldsAreHeld
    <3>2. verRev + 1 \notin FoldsOf(u)
      BY <1>2, <3>1
    <3>3. FoldsOf(u)' = FoldsOf(u) /\ \A s \in Committers : FoldsOf(s)' = FoldsOf(s)
      BY <1>4
    <3>4. \A s \in Committers : s # u => FoldsOf(u) \cap FoldsOf(s) = {}
      BY DEF FoldsAreHeld
    <3> QED
      BY <1>1, <1>2, <3>1, <3>2, <3>3, <3>4
  <2>3. ASSUME NEW u \in Committers, Carries(u)', FoldsOf(u)' # {}
        PROVE  \E m \in 2..verRev' : FoldsOf(u)' = m..verThread'[u].batch.rev
    <3>1. Carries(u) /\ verThread'[u] = verThread[u] /\ FoldsOf(u)' = FoldsOf(u)
      BY <1>4, <2>3
    <3>2. PICK m \in 2..verRev : FoldsOf(u) = m..verThread[u].batch.rev
      BY <2>3, <3>1 DEF FoldsAreHeld
    <3> QED
      BY <1>2, <3>1, <3>2
  <2> QED
    BY <2>1, <2>2, <2>3 DEF FoldsAreHeld
<1>25. FoldsAreFree'
  <2>1. ASSUME NEW c \in Carriers'
        PROVE  /\ c.rev \in drag'.folds => c.rev \in shared'
               /\ \A u \in Committers : c.rev \in FoldsOf(u)' =>
                    c.rev \in shared' \/ (Carries(u)' /\ c.rev = verThread'[u].batch.rev)
    <3>1. c \in Carriers /\ c.rev # verRev + 1
      BY <1>2, <1>3, <1>6
    <3>2. c.rev \in drag.folds => c.rev \in shared
      BY <3>1 DEF FoldsAreFree
    <3>3. \A u \in Committers : c.rev \in FoldsOf(u) => c.rev \in shared \/ (Carries(u) /\ c.rev = verThread[u].batch.rev)
      BY <3>1 DEF FoldsAreFree
    <3> QED
      BY <1>1, <1>4, <3>1, <3>2, <3>3
  <2> QED
    BY <2>1 DEF FoldsAreFree
<1>26. InTime'
  BY <1>3 DEF InTime
<1>27. Current' /\ Newest'
  <2>1. \A r \in {verRev'} : Stops(r)'
    BY <1>1, <1>2 DEF Stops
  <2> QED
    BY <1>2, <2>1 DEF Current, Newest
<1>28. DragsLead'
  <2>1. ASSUME NEW d, d.folds \subseteq 2..verRev PROVE DragLeads(d)'
    <3>1. ASSUME NEW m \in 2..verRev', d.folds = m..verRev' PROVE FALSE
      BY <1>2, <2>1, <3>1
    <3> QED
      BY <1>2, <3>1 DEF DragLeads
  <2>2. ASSUME NEW d, d = drag' PROVE DragLeads(d)'
    <3>1. SUFFICES ASSUME d.made = verEpoch, NEW m \in 2..verRev', NEW x \in Carriers,
                          d.folds = m..verRev', Ours(x), x.rev < m, Live(x.at)
                   PROVE  \A r \in {verRev'} : Leads(m - 1, r, d.op)' /\ (x.rev = m - 1 \/ Stops(m - 1)')
      BY <1>2, <1>3, <1>5, <1>8 DEF DragLeads
    <3>2. verDoc = docs[verRev]
      BY <3>1 DEF Current
    <3>3. CASE drag.op = NoOp
      <4>1. drag.folds = {}
        BY <3>3 DEF Typed
      <4>2. m = verRev + 1
        <5>1. m \in m..verRev'
          BY <1>2
        <5> QED
          BY <1>1, <2>2, <3>1, <4>1, <5>1
      <4>3. \A r \in {verRev'} : Leads(m - 1, r, d.op)'
        <5>1. docs'[m - 1] = verDoc /\ docs'[verRev'] = Apply(verDoc, op) /\ d.op = op
          BY <1>1, <1>2, <2>2, <3>2, <4>2
        <5> QED
          BY <1>2, <5>1 DEF Leads, Applies
      <4>4. Stops(m - 1)
        BY <1>2, <3>1, <4>2 DEF Newest
      <4> QED
        BY <1>7, <4>3, <4>4
    <3>4. CASE drag.op # NoOp
      <4>1. drag.folds # {} /\ drag.op \in Op
        BY <3>4 DEF Typed, AnyDrag
      <4>2. m \in 2..verRev /\ drag.folds = m..verRev
        <5>1. drag.folds \subseteq 2..verRev
          BY DEF FoldsAreHeld
        <5>2. m..(verRev + 1) = drag.folds \cup {verRev + 1}
          BY <1>1, <1>2, <2>2, <3>1
        <5>3. PICK u \in drag.folds : TRUE
          BY <4>1
        <5>4. u \in m..(verRev + 1) /\ u \in 2..verRev
          BY <5>1, <5>2, <5>3
        <5>5. m <= verRev
          BY <1>2, <5>4
        <5>6. m \in Nat /\ \A v \in 2..verRev : v # verRev + 1 /\ (v \in m..verRev <=> v \in m..(verRev + 1))
          BY <1>2
        <5>7. m..verRev \subseteq 2..verRev
          BY <1>2, <5>6
        <5>8. m..verRev = drag.folds
          BY <5>1, <5>2, <5>6, <5>7
        <5> QED
          BY <1>2, <5>5, <5>8
      <4>3. drag.made = verEpoch
        BY <1>1, <2>2, <3>1, <3>4
      <4>4. DragLeads(drag)
        BY DEF DragsLead, Drags
      <4>5. PICK r : r = verRev
        OBVIOUS
      <4>6. Leads(m - 1, r, drag.op) /\ (x.rev = m - 1 \/ Stops(m - 1))
        BY <3>1, <3>4, <4>2, <4>3, <4>4, <4>5 DEF DragLeads
      <4>7. m - 1 \in 1..verRev /\ docs[m - 1] \in Image /\ docs'[m - 1] = docs[m - 1]
        BY <1>2, <4>2
      <4>8. op.had = TRUE
        <5>1. verDoc[op.key] # Nothing
          BY <1>1 DEF KnobsStay
        <5> QED
          BY <1>2, <5>1, OpHasKey DEF Applies
      <4>9. Applies(docs[m - 1], op)
        <5>1. docs[m - 1][op.key] # Nothing
          BY <1>1, <4>7 DEF KnobsStay
        <5> QED
          BY <4>8, <5>1 DEF Applies
      <4>10. verDoc = Apply(docs[m - 1], drag.op) /\ drag.op.key = op.key
        BY <1>1, <3>2, <3>4, <4>5, <4>6 DEF Leads
      <4>11. verDoc' = Apply(docs[m - 1], op)
        <5>1. docs[m - 1] \in [Keys -> 0..MaxCommits] /\ op.key \in Keys
          BY <4>7, OpHasKey DEF Image
        <5>2. [[docs[m - 1] EXCEPT ![op.key] = drag.op.to] EXCEPT ![op.key] = op.to] = [docs[m - 1] EXCEPT ![op.key] = op.to]
          BY <5>1
        <5> QED
          BY <1>2, <4>10, <5>2 DEF Apply
      <4>12. \A s \in {verRev'} : Leads(m - 1, s, d.op)'
        <5>1. docs'[m - 1] = docs[m - 1] /\ docs'[verRev'] = Apply(docs[m - 1], op) /\ d.op = op
          BY <1>1, <1>2, <2>2, <4>7, <4>11
        <5> QED
          BY <4>9, <5>1 DEF Leads, Applies
      <4> QED
        BY <1>7, <4>6, <4>12
    <3> QED
      BY <3>3, <3>4
  <2>3. \A d \in Drags' : d = drag' \/ d.folds \subseteq 2..verRev
    <3>1. ASSUME NEW u \in Committers, Closes(u)' PROVE verThread'[u].drag.folds \subseteq 2..verRev
      <4>1. Closes(u) /\ verThread'[u] = verThread[u]
        BY <1>4, <3>1
      <4> QED
        BY <4>1, SessionIs DEF FoldsAreHeld
    <3> QED
      BY <3>1 DEF Drags
  <2> QED
    BY <2>1, <2>2, <2>3 DEF DragsLead
<1>29. PairsLead'
  <2>1. ASSUME NEW x \in Carriers, NEW y \in Carriers,
               x.at = y.at, Live(x.at), x.rev \notin shared, y.rev \notin shared, x.rev < y.rev
        PROVE  Leads(x.rev, y.rev, y.op)' \/ \E u \in (x.rev + 1)..(y.rev - 1) : u \notin y.folds /\ Stops(u)'
    <3>1. Leads(x.rev, y.rev, y.op) \/ \E u \in (x.rev + 1)..(y.rev - 1) : u \notin y.folds /\ Stops(u)
      BY <2>1 DEF PairsLead, PairLeads
    <3>2. CASE Leads(x.rev, y.rev, y.op)
      <4>1. x.rev \in 1..verRev /\ y.rev \in 1..verRev /\ y.op \in Op
        BY <1>2, <1>6
      <4> QED
        BY <1>1, <3>2, <4>1, TransactLeads
    <3>3. CASE \E u \in (x.rev + 1)..(y.rev - 1) : u \notin y.folds /\ Stops(u)
      BY <1>7, <3>3
    <3> QED
      BY <3>1, <3>2, <3>3
  <2> QED
    BY <1>1, <1>3, <1>5, <2>1 DEF PairsLead, PairLeads
<1> QED
  BY <1>20, <1>21, <1>22, <1>23, <1>24, <1>25, <1>26, <1>27, <1>28, <1>29

LEMMA TakeLinked ==
  ASSUME VersionsAssumption, Typed, Linked, NEW t \in Committers, GestureBegin(t) \/ GestureEnd(t)
  PROVE  Linked'
<1> USE DEF Linked
<1> DEFINE s == IF drag.op = NoOp THEN AtRest ELSE Closing(drag)
<1>1. /\ verThread[t] = AtRest /\ Goes(t, s)
      /\ drag'.op = NoOp /\ drag'.folds = {} /\ drag'.made = 0
      /\ UNCHANGED <<verDoc, verRev, verEpoch, verLogEpoch, chain, retained, recorded, docs, nodeless, shared>>
  BY TakeDoes
<1>2. s.pc # "record" /\ s.pc # "boundary" /\ (s.pc = "closing" => s = Closing(drag) /\ drag.op # NoOp)
  BY DEF AtRest, Closing
<1>3. s.pc # "closing" => drag.op = NoOp
  BY DEF Closing
<1> HIDE DEF s
<1>4. ~Carries(t) /\ ~Closes(t) /\ ~Clears(t) /\ FoldsOf(t) = {}
  BY <1>1 DEF AtRest, Carries, Closes, Clears, FoldsOf
<1>5. Carriers' = Carriers
  BY <1>1, <1>2, <1>4, Passes
<1>6. /\ \A u \in Committers : u # t =>
           /\ verThread'[u] = verThread[u]
           /\ (Carries(u)' <=> Carries(u)) /\ (Closes(u)' <=> Closes(u)) /\ (Clears(u)' <=> Clears(u))
           /\ FoldsOf(u)' = FoldsOf(u)
      /\ verThread'[t] = s /\ ~Carries(t)' /\ ~Clears(t)' /\ (Closes(t)' <=> s.pc = "closing")
  BY <1>1, <1>2, GoesDoes
<1>7. /\ Closes(t)' => verThread'[t].drag = drag /\ drag.op # NoOp
      /\ FoldsOf(t)' = drag.folds
  <2>1. CASE s.pc = "closing"
    BY <1>2, <1>6, <2>1 DEF FoldsOf, Closing
  <2>2. CASE s.pc # "closing"
    <3>1. drag.folds = {}
      BY <1>3, <2>2 DEF Typed
    <3> QED
      BY <1>6, <2>2, <3>1 DEF FoldsOf
  <2> QED
    BY <2>1, <2>2
<1>8. \A e : Live(e)' <=> Live(e)
  BY <1>1, <1>2, <1>4, LiveStays
<1>9. \A u : Stops(u) <=> Stops(u)'
  BY <1>1, <1>5 DEF Stops, Carried
<1>10. \A c : Ours(c)' <=> Ours(c)
  BY <1>1, <1>5 DEF Ours
<1>20. Known'
  BY <1>1, <1>5, <1>6, <1>7, SessionIs DEF Known
<1>21. KnobsStay' /\ InTime'
  BY <1>1, <1>5 DEF KnobsStay, InTime
<1>22. Distinct' /\ Images'
  BY <1>1, <1>6 DEF Distinct, Images
<1>23. FoldsAreHeld'
  <2>1. drag.folds \subseteq nodeless \cap (2..verRev)
    BY DEF FoldsAreHeld
  <2>2. \A u \in Committers :
          /\ FoldsOf(u) \subseteq nodeless \cap (2..verRev) /\ FoldsOf(u) \cap drag.folds = {}
          /\ \A v \in Committers : v # u => FoldsOf(u) \cap FoldsOf(v) = {}
    BY DEF FoldsAreHeld
  <2>3. \A u \in Committers : Carries(u)' => u # t
    BY <1>6
  <2> QED
    BY <1>1, <1>6, <1>7, <2>1, <2>2, <2>3 DEF FoldsAreHeld
<1>24. FoldsAreFree'
  <2>1. \A u \in Committers : Carries(u)' => u # t
    BY <1>6
  <2>2. \A c \in Carriers :
          /\ c.rev \in drag.folds => c.rev \in shared
          /\ \A u \in Committers : c.rev \in FoldsOf(u) => c.rev \in shared \/ (Carries(u) /\ c.rev = verThread[u].batch.rev)
    BY DEF FoldsAreFree
  <2>3. ASSUME NEW c \in Carriers, NEW u \in Committers, c.rev \in FoldsOf(u)'
        PROVE  c.rev \in shared \/ (Carries(u)' /\ c.rev = verThread'[u].batch.rev)
    BY <1>6, <1>7, <2>2, <2>3
  <2> QED
    BY <1>1, <1>5, <2>3 DEF FoldsAreFree
<1>25. Current' /\ Newest'
  BY <1>1, <1>5, <1>8, <1>9, <1>10 DEF Current, Newest
<1>26. DragsLead'
  <2>1. \A d : DragLeads(d) => DragLeads(d)'
    BY <1>1, <1>5, <1>8, <1>9, <1>10 DEF DragLeads, Leads, Applies
  <2>2. \A d \in Drags' : d.op = NoOp \/ d \in Drags
    BY <1>1, <1>6, <1>7 DEF Drags
  <2> QED
    BY <2>1, <2>2 DEF DragsLead, DragLeads
<1>27. PairsLead'
  BY <1>1, <1>5, <1>8, <1>9 DEF PairsLead, PairLeads, Leads, Applies
<1> QED
  BY <1>20, <1>21, <1>22, <1>23, <1>24, <1>25, <1>26, <1>27

LEMMA SwapLinked ==
  ASSUME VersionsAssumption, Typed, Linked, NEW t \in Committers, SwapDocument(t)
  PROVE  Linked'
<1> USE DEF Linked
<1>1. /\ verThread[t] = AtRest /\ verEpoch' = verEpoch + 1 /\ verDoc' = Empty
      /\ Goes(t, Swapped(verEpoch + 1))
      /\ UNCHANGED <<verRev, drag, verLogEpoch, chain, retained, recorded, docs, nodeless, shared>>
  BY SwapDoes
<1>2. verEpoch \in Nat
  BY SessionIs
<1>3. ~Carries(t) /\ ~Closes(t) /\ ~Clears(t) /\ FoldsOf(t) = {}
  BY <1>1 DEF AtRest, Carries, Closes, Clears, FoldsOf
<1>4. Carriers' = Carriers
  BY <1>1, <1>3, Passes DEF Swapped
<1>5. /\ \A u \in Committers : u # t =>
           /\ verThread'[u] = verThread[u]
           /\ (Carries(u)' <=> Carries(u)) /\ (Closes(u)' <=> Closes(u)) /\ (Clears(u)' <=> Clears(u))
           /\ FoldsOf(u)' = FoldsOf(u)
      /\ ~Carries(t)' /\ ~Closes(t)' /\ Clears(t)' /\ verThread'[t].at = verEpoch + 1 /\ FoldsOf(t)' = {}
  <2>1. verThread'[t] = Swapped(verEpoch + 1)
    BY <1>1, GoesDoes
  <2>2. ~Carries(t)' /\ ~Closes(t)' /\ Clears(t)' /\ verThread'[t].at = verEpoch + 1 /\ FoldsOf(t)' = {}
    BY <2>1 DEF Swapped, Carries, Closes, Clears, FoldsOf
  <2> QED
    BY <1>1, <2>2, GoesDoes
<1>6. \A e : Live(e)' <=> Live(e) \/ e = verEpoch + 1
  BY <1>1, <1>3, LiveAfterSwap
<1>7. \A u : Stops(u) <=> Stops(u)'
  BY <1>1, <1>4 DEF Stops, Carried
<1>8. \A c \in Carriers : c.at \in Nat /\ c.at <= verEpoch
  BY CarrierHas
<1>9. \A c : ~Ours(c)'
  BY <1>1, <1>2, <1>4, <1>8 DEF Ours
<1>10. verLogEpoch \in Nat /\ drag.made \in Nat /\ \A u \in Committers : Clears(u) => verThread[u].at \in Nat
  BY SessionIs
<1>11. \A u \in Committers : Closes(u) => verThread[u].drag.made \in Nat
  BY SessionIs DEF Written, AnyDrag, VersionsAssumption
<1>20. Known'
  <2>1. verLogEpoch' <= verEpoch' /\ drag'.made <= verEpoch'
    BY <1>1, <1>2, <1>10 DEF Known
  <2>2. \A c \in Carriers' : c.rev \in 2..verRev' /\ c.at <= verEpoch'
    BY <1>1, <1>2, <1>4, <1>8 DEF Known
  <2>3. \A u \in Committers : Closes(u)' => verThread'[u].drag.made <= verEpoch'
    BY <1>1, <1>2, <1>5, <1>11 DEF Known
  <2>4. \A u \in Committers : Clears(u) => verThread[u].at <= verEpoch /\ verThread[u].at # verLogEpoch
    BY DEF Known
  <2>5. verLogEpoch <= verEpoch
    BY DEF Known
  <2>6. \A u \in Committers : Clears(u)' => verThread'[u].at <= verEpoch' /\ verThread'[u].at # verLogEpoch'
    BY <1>1, <1>2, <1>5, <1>10, <2>4, <2>5
  <2>7. \A u, v \in Committers : u # v /\ Clears(u) /\ Clears(v) => verThread[v].at # verThread[u].at
    BY DEF Known
  <2>8. \A u \in Committers : Clears(u) => verThread[u].at # verEpoch + 1
    BY <1>2, <1>10, <2>4
  <2>9. \A u, v \in Committers : u # v /\ Clears(u)' /\ Clears(v)' => verThread'[v].at # verThread'[u].at
    BY <1>5, <2>7, <2>8
  <2> QED
    BY <2>1, <2>2, <2>3, <2>6, <2>9 DEF Known
<1>21. KnobsStay'
  <2>1. \A k \in Knobs : Empty[k] # Nothing
    BY DEF Empty, Nothing, Keys
  <2> QED
    BY <1>1, <2>1 DEF KnobsStay
<1>22. Distinct' /\ Images'
  BY <1>1, <1>5 DEF Distinct, Images
<1>23. FoldsAreHeld'
  <2>1. \A u \in Committers : FoldsOf(u)' = FoldsOf(u)
    BY <1>3, <1>5
  <2>2. \A u \in Committers : Carries(u)' => u # t
    BY <1>5
  <2> QED
    BY <1>1, <1>5, <2>1, <2>2 DEF FoldsAreHeld
<1>24. FoldsAreFree'
  BY <1>1, <1>4, <1>5 DEF FoldsAreFree
<1>25. InTime' /\ Current' /\ Newest'
  BY <1>4, <1>9 DEF InTime, Current, Newest
<1>26. DragsLead'
  <2>1. drag.made <= verEpoch /\ \A u \in Committers : Closes(u) => verThread[u].drag.made <= verEpoch
    BY DEF Known
  <2>2. drag'.made # verEpoch' /\ \A u \in Committers : Closes(u)' => verThread'[u].drag.made # verEpoch'
    BY <1>1, <1>2, <1>5, <1>10, <1>11, <2>1
  <2> QED
    BY <2>2 DEF DragsLead, DragLeads, Drags
<1>27. PairsLead'
  <2>1. \A c \in Carriers : Live(c.at)' => Live(c.at)
    BY <1>2, <1>6, <1>8
  <2> QED
    BY <1>1, <1>4, <1>7, <2>1 DEF PairsLead, PairLeads, Leads, Applies
<1> QED
  BY <1>20, <1>21, <1>22, <1>23, <1>24, <1>25, <1>26, <1>27

(* A drag that nothing else came between is a span of revisions. *)
LEMMA AloneIs ==
  ASSUME VersionsAssumption, Typed, FoldsAreHeld, NEW t \in Committers, Closes(t), Alone(verThread[t].drag)
  PROVE  /\ verThread[t].drag.made = verEpoch
         /\ \E m \in 2..verRev : verThread[t].drag.folds = m..verRev
<1> DEFINE D == verThread[t].drag.folds
<1>1. D # {} /\ D \subseteq 2..verRev
  BY SessionIs DEF Written, FoldsAreHeld
<1>2. D = Min(D)..verRev /\ verThread[t].drag.made = verEpoch
  BY DEF Alone
<1>3. verRev \in Nat
  BY SessionIs
<1>4. D \in SUBSET Nat
  BY <1>1, <1>3
<1> HIDE DEF D
<1>5. Min(D) \in D
  BY <1>1, <1>4, MinIs
<1>6. Min(D) \in 2..verRev
  BY <1>1, <1>5
<1>7. \E m \in 2..verRev : D = m..verRev
  BY <1>2, <1>6
<1> QED
  BY <1>2, <1>7 DEF D

LEMMA StampLinked ==
  ASSUME VersionsAssumption, Typed, Linked, NEW t \in Committers, Stamp(t)
  PROVE  Linked'
<1> USE DEF Linked
<1>1. PICK b \in Sent :
        /\ Closes(t) /\ verThread[t].drag \in Written
        /\ b.rev = verRev /\ b.at = verEpoch /\ b.image = verDoc /\ b.op = verThread[t].drag.op
        /\ b.folds = (IF Alone(verThread[t].drag) THEN verThread[t].drag.folds ELSE {})
        /\ Goes(t, Recording(b))
        /\ shared' = shared \cup (IF Alone(verThread[t].drag) THEN {} ELSE {verRev})
        /\ UNCHANGED <<verDoc, verRev, verEpoch, drag, verLogEpoch, chain, retained, recorded, docs, nodeless>>
  BY StampDoes
<1> DEFINE d == verThread[t].drag
           n == AsBatch(b)
<1>2. verRev \in Nat /\ 1 <= verRev /\ verEpoch \in Nat
  BY SessionIs
<1>3. ~Carries(t) /\ ~Clears(t) /\ FoldsOf(t) = d.folds /\ d \in Drags /\ d.op # NoOp
  BY <1>1, SessionIs, NoOpIsNone DEF Carries, Closes, Clears, Drags, Written
<1>4. /\ Carriers' = Carriers \cup {n}
      /\ Carries(t)' /\ ~Closes(t)' /\ ~Clears(t)' /\ verThread'[t].batch = b /\ FoldsOf(t)' = b.folds
  BY <1>1, <1>3, Joins
<1>5. \A u \in Committers : u # t =>
        /\ verThread'[u] = verThread[u]
        /\ (Carries(u)' <=> Carries(u)) /\ (Closes(u)' <=> Closes(u)) /\ (Clears(u)' <=> Clears(u))
        /\ FoldsOf(u)' = FoldsOf(u)
  BY <1>1, GoesDoes
<1>6. \A e : Live(e)' <=> Live(e)
  BY <1>1, <1>3, LiveStays DEF Recording
<1>7. n.rev = verRev /\ n.at = verEpoch /\ n.op = d.op /\ n.folds = b.folds
  BY <1>1 DEF AsBatch
<1> HIDE DEF n
<1>8. \A c \in Carriers : c.rev \in Nat /\ 2 <= c.rev /\ c.rev <= verRev /\ c.at \in Nat /\ c.at <= verEpoch /\ c.op \in Op
  BY CarrierHas
<1>9. \A u : Stops(u) => Stops(u)'
  BY <1>1, <1>4 DEF Stops, Carried
<1>10. \A c \in Carriers : Ours(c)' => Ours(c)
  BY <1>1 DEF Ours
<1>11. verRev \notin shared' => Alone(d)
  BY <1>1
<1>12. Alone(d) => d.made = verEpoch /\ b.folds = d.folds /\ \E m \in 2..verRev : d.folds = m..verRev
  BY <1>1, AloneIs
<1>13. ~Alone(d) => b.folds = {}
  BY <1>1
<1>14. b.folds \subseteq d.folds
  BY <1>12, <1>13
<1>15. d.folds \subseteq nodeless \cap (2..verRev) /\ d.folds \cap drag.folds = {}
       /\ \A u \in Committers : u # t => d.folds \cap FoldsOf(u) = {} /\ FoldsOf(u) \cap d.folds = {}
  BY <1>3 DEF FoldsAreHeld
<1>16. \A c \in Carriers : c.rev = verRev => (Alone(d) => verRev \in shared)
  <2>1. \A c \in Carriers : c.rev \in d.folds => c.rev \in shared
    BY <1>3 DEF FoldsAreFree
  <2>2. Alone(d) => verRev \in d.folds
    BY <1>2, <1>12
  <2> QED
    BY <2>1, <2>2
<1>17. \A c \in Carriers : c.rev = verRev => c.rev \in shared'
  BY <1>1, <1>11, <1>16
<1> HIDE DEF d
<1>20. Known'
  <2>1. verRev \in 2..verRev
    <3>1. PICK u \in d.folds : TRUE
      BY <1>1 DEF Written, d
    <3> QED
      BY <1>2, <1>15, <3>1
  <2>2. \A c \in Carriers' : c.rev \in 2..verRev' /\ c.at <= verEpoch'
    BY <1>1, <1>2, <1>4, <1>7, <2>1 DEF Known
  <2>3. verLogEpoch' <= verEpoch' /\ drag'.made <= verEpoch'
    BY <1>1 DEF Known
  <2>4. \A u \in Committers : Closes(u)' => verThread'[u].drag.made <= verEpoch'
    BY <1>1, <1>4, <1>5 DEF Known
  <2>5. \A u \in Committers : Clears(u)' => verThread'[u].at <= verEpoch' /\ verThread'[u].at # verLogEpoch'
    BY <1>1, <1>4, <1>5 DEF Known
  <2>6. \A s, u \in Committers : s # u /\ Clears(s)' /\ Clears(u)' => verThread'[u].at # verThread'[s].at
    BY <1>4, <1>5 DEF Known
  <2> QED
    BY <2>2, <2>3, <2>4, <2>5, <2>6 DEF Known
<1>21. KnobsStay'
  BY <1>1 DEF KnobsStay
<1>22. Distinct'
  <2>1. \A i, j \in DOMAIN chain' : i < j /\ chain'[i].rev = chain'[j].rev => chain'[i].rev \in shared'
    BY <1>1 DEF Distinct
  <2>2. \A u \in Committers : u # t /\ Carries(u)' /\ verThread'[u].batch.rev = verRev => verRev \in shared'
    BY <1>5, <1>17, BatchIsCarried
  <2>3. \A s, u \in Committers :
          s # u /\ Carries(s)' /\ Carries(u)' /\ verThread'[s].batch.rev = verThread'[u].batch.rev =>
            verThread'[u].batch.rev \in shared'
    <3> SUFFICES ASSUME NEW s \in Committers, NEW u \in Committers,
                        s # u, Carries(s)', Carries(u)', verThread'[s].batch.rev = verThread'[u].batch.rev
                 PROVE  verThread'[u].batch.rev \in shared'
      OBVIOUS
    <3>1. CASE s = t
      BY <1>1, <1>4, <2>2, <3>1
    <3>2. CASE u = t
      BY <1>1, <1>4, <2>2, <3>2
    <3>3. CASE s # t /\ u # t
      BY <1>1, <1>5, <3>3 DEF Distinct
    <3> QED
      BY <3>1, <3>2, <3>3
  <2>4. ASSUME NEW u \in Committers, NEW i \in DOMAIN chain', Carries(u)', verThread'[u].batch.rev = chain'[i].rev
        PROVE  chain'[i].rev \in shared'
    <3>1. CASE u = t
      BY <1>1, <1>4, <1>17, <2>4, <3>1, NodeIsCarried
    <3>2. CASE u # t
      BY <1>1, <1>5, <2>4, <3>2 DEF Distinct
    <3> QED
      BY <3>1, <3>2
  <2> QED
    BY <2>1, <2>3, <2>4 DEF Distinct
<1>23. verRev \notin shared' => verDoc = docs[verRev]
  BY <1>3, <1>11, <1>12 DEF DragsLead, DragLeads
<1>24. Images'
  <2>1. ASSUME NEW u \in Committers, Carries(u)', verThread'[u].batch.rev \notin shared'
        PROVE  verThread'[u].batch.image = docs'[verThread'[u].batch.rev]
    <3>1. CASE u = t
      BY <1>1, <1>4, <1>23, <2>1, <3>1
    <3>2. CASE u # t
      BY <1>1, <1>5, <2>1, <3>2 DEF Images
    <3> QED
      BY <3>1, <3>2
  <2>2. \A i \in DOMAIN chain' : chain'[i].materialized /\ chain'[i].rev \notin shared' =>
          chain'[i].image = docs'[chain'[i].rev]
    BY <1>1 DEF Images
  <2> QED
    BY <2>1, <2>2 DEF Images
<1>25. FoldsAreHeld'
  <2>1. drag'.folds \subseteq nodeless' \cap (2..verRev')
    BY <1>1 DEF FoldsAreHeld
  <2>2. ASSUME NEW u \in Committers
        PROVE  /\ FoldsOf(u)' \subseteq nodeless' \cap (2..verRev')
               /\ FoldsOf(u)' \cap drag'.folds = {}
               /\ \A s \in Committers : s # u => FoldsOf(u)' \cap FoldsOf(s)' = {}
    <3>1. CASE u = t
      BY <1>1, <1>4, <1>5, <1>14, <1>15, <3>1
    <3>2. CASE u # t
      <4>1. FoldsOf(u) \subseteq nodeless \cap (2..verRev) /\ FoldsOf(u) \cap drag.folds = {}
            /\ \A s \in Committers : s # u => FoldsOf(u) \cap FoldsOf(s) = {}
        BY DEF FoldsAreHeld
      <4>2. FoldsOf(u)' = FoldsOf(u) /\ \A s \in Committers : FoldsOf(s)' = FoldsOf(s) \/ (s = t /\ FoldsOf(s)' \subseteq d.folds)
        BY <1>4, <1>5, <1>14, <3>2
      <4> QED
        BY <1>1, <1>15, <3>2, <4>1, <4>2
    <3> QED
      BY <3>1, <3>2
  <2>3. ASSUME NEW u \in Committers, Carries(u)'
        PROVE  FoldsOf(u)' = {} \/ \E m \in 2..verRev' : FoldsOf(u)' = m..verThread'[u].batch.rev
    <3>1. CASE u = t
      BY <1>1, <1>4, <1>12, <1>13, <3>1
    <3>2. CASE u # t
      BY <1>1, <1>5, <2>3, <3>2 DEF FoldsAreHeld
    <3> QED
      BY <3>1, <3>2
  <2> QED
    BY <2>1, <2>2, <2>3 DEF FoldsAreHeld
<1>26. FoldsAreFree'
  <2>1. ASSUME NEW c \in Carriers
        PROVE  /\ c.rev \in drag.folds => c.rev \in shared'
               /\ \A u \in Committers : c.rev \in FoldsOf(u)' =>
                    c.rev \in shared' \/ (Carries(u)' /\ c.rev = verThread'[u].batch.rev)
    <3>1. /\ c.rev \in drag.folds => c.rev \in shared
          /\ \A u \in Committers : c.rev \in FoldsOf(u) => c.rev \in shared \/ (Carries(u) /\ c.rev = verThread[u].batch.rev)
      BY DEF FoldsAreFree
    <3>2. c.rev \in FoldsOf(t)' => c.rev \in shared
      BY <1>3, <1>4, <1>14, <3>1
    <3>3. shared \subseteq shared'
      BY <1>1
    <3>4. ASSUME NEW u \in Committers, c.rev \in FoldsOf(u)'
          PROVE  c.rev \in shared' \/ (Carries(u)' /\ c.rev = verThread'[u].batch.rev)
      <4>1. CASE u = t
        BY <3>2, <3>3, <3>4, <4>1
      <4>2. CASE u # t
        BY <1>5, <3>1, <3>3, <3>4, <4>2
      <4> QED
        BY <4>1, <4>2
    <3> QED
      BY <3>1, <3>3, <3>4
  <2>2. /\ verRev \in drag.folds => verRev \in shared'
        /\ \A u \in Committers : verRev \in FoldsOf(u)' =>
             verRev \in shared' \/ (Carries(u)' /\ verRev = verThread'[u].batch.rev)
    <3>1. verRev \notin shared' => verRev \in d.folds
      BY <1>2, <1>11, <1>12 DEF d
    <3>2. verRev \notin shared' => verRev \notin drag.folds /\ \A u \in Committers : u # t => verRev \notin FoldsOf(u)
      BY <1>15, <3>1
    <3> QED
      BY <1>1, <1>4, <1>5, <3>2
  <2> QED
    BY <1>1, <1>4, <1>7, <2>1, <2>2 DEF FoldsAreFree
<1>27. InTime'
  <2>1. ASSUME NEW x \in Carriers', NEW y \in Carriers', x.rev < y.rev PROVE x.at <= y.at
    <3>1. CASE x \in Carriers /\ y \in Carriers
      BY <2>1, <3>1 DEF InTime
    <3>2. CASE x \in Carriers /\ y = n
      BY <1>7, <1>8, <3>2
    <3>3. CASE x = n
      BY <1>2, <1>4, <1>7, <1>8, <2>1, <3>3
    <3> QED
      BY <1>4, <3>1, <3>2, <3>3
  <2> QED
    BY <2>1 DEF InTime
<1>28. Current' /\ Newest'
  <2>1. \A r \in {verRev'} : Stops(r)'
    BY <1>1, <1>4, <1>7 DEF Stops, Carried
  <2>2. \A c \in Carriers' : Ours(c)' => verDoc = docs[verRev]
    <3>1. \A c \in Carriers : Ours(c)' => verDoc = docs[verRev]
      BY <1>10 DEF Current
    <3>2. Ours(n)' => verDoc = docs[verRev]
      BY <1>7, <1>23 DEF Ours
    <3> QED
      BY <1>4, <3>1, <3>2
  <2> QED
    BY <1>1, <2>1, <2>2 DEF Current, Newest
<1>29. DragsLead'
  <2>1. Drags' \subseteq Drags
    BY <1>1, <1>4, <1>5 DEF Drags
  <2>2. ASSUME NEW e \in Drags PROVE DragLeads(e)'
    <3>1. DragLeads(e)
      BY DEF DragsLead
    <3>2. ASSUME NEW m \in 2..verRev, NEW x \in Carriers', Ours(x)', x.rev < m PROVE Ours(x)
      <4>1. x # n
        BY <1>2, <1>7, <3>2
      <4> QED
        BY <1>4, <1>10, <3>2, <4>1
    <3>3. SUFFICES ASSUME e.op # NoOp, e.made = verEpoch
                   PROVE  /\ verDoc = docs[verRev]
                          /\ \A r \in {verRev}, m \in 2..verRev, x \in Carriers' :
                               e.folds = m..r /\ Ours(x)' /\ x.rev < m /\ Live(x.at)' =>
                                 Leads(m - 1, r, e.op)' /\ (x.rev = m - 1 \/ Stops(m - 1)')
      BY <1>1 DEF DragLeads
    <3>4. ASSUME NEW r \in {verRev}, NEW m \in 2..verRev, NEW x \in Carriers',
                 e.folds = m..r, Ours(x)', x.rev < m, Live(x.at)'
          PROVE  Leads(m - 1, r, e.op)' /\ (x.rev = m - 1 \/ Stops(m - 1)')
      <4>1. Ours(x) /\ Live(x.at) /\ x \in Carriers
        BY <1>6, <3>2, <3>4 DEF Ours
      <4>2. Leads(m - 1, r, e.op) /\ (x.rev = m - 1 \/ Stops(m - 1))
        BY <3>1, <3>3, <3>4, <4>1 DEF DragLeads
      <4>3. Leads(m - 1, r, e.op)'
        BY <1>1, <4>2 DEF Leads, Applies
      <4> QED
        BY <1>9, <4>2, <4>3
    <3> QED
      BY <3>1, <3>3, <3>4 DEF DragLeads
  <2> QED
    BY <2>1, <2>2 DEF DragsLead
<1>30. PairsLead'
  <2>1. ASSUME NEW x \in Carriers', NEW y \in Carriers',
               x.at = y.at, Live(x.at)', x.rev \notin shared', y.rev \notin shared', x.rev < y.rev
        PROVE  Leads(x.rev, y.rev, y.op)' \/ \E u \in (x.rev + 1)..(y.rev - 1) : u \notin y.folds /\ Stops(u)'
    <3>1. x \in Carriers
      BY <1>2, <1>4, <1>7, <1>8, <2>1
    <3>2. CASE y \in Carriers
      <4>1. Leads(x.rev, y.rev, y.op) \/ \E u \in (x.rev + 1)..(y.rev - 1) : u \notin y.folds /\ Stops(u)
        BY <1>1, <1>6, <2>1, <3>1, <3>2 DEF PairsLead, PairLeads
      <4> QED
        BY <1>1, <1>9, <4>1 DEF Leads, Applies
    <3>3. CASE y = n
      <4>1. Ours(x) /\ Live(x.at)
        BY <1>1, <1>6, <1>7, <2>1, <3>1, <3>3 DEF Ours
      <4>2. Alone(d)
        BY <1>7, <1>11, <2>1, <3>3
      <4>3. PICK r : r = verRev
        OBVIOUS
      <4>4. PICK m \in 2..verRev : d.folds = m..r
        BY <1>12, <4>2, <4>3
      <4>5. x.rev \notin d.folds
        BY <1>1, <1>3, <2>1, <3>1 DEF FoldsAreFree
      <4>6. x.rev < m
        BY <1>2, <1>8, <3>1, <4>3, <4>4, <4>5
      <4>7. Leads(m - 1, r, y.op) /\ (x.rev = m - 1 \/ Stops(m - 1))
        BY <1>3, <1>7, <1>12, <3>1, <3>3, <4>1, <4>2, <4>3, <4>4, <4>6 DEF DragsLead, DragLeads
      <4>8. Leads(m - 1, r, y.op)'
        BY <1>1, <4>7 DEF Leads, Applies
      <4>9. CASE x.rev = m - 1
        BY <1>7, <3>3, <4>3, <4>8, <4>9
      <4>10. CASE x.rev # m - 1
        <5>1. m - 1 \in (x.rev + 1)..(y.rev - 1)
          BY <1>2, <1>7, <1>8, <3>1, <3>3, <4>4, <4>6, <4>10
        <5>2. m - 1 \notin y.folds
          BY <1>2, <1>7, <1>12, <3>3, <4>2, <4>3, <4>4
        <5>3. Stops(m - 1)'
          BY <1>9, <4>7, <4>10
        <5> QED
          BY <5>1, <5>2, <5>3
      <4> QED
        BY <4>9, <4>10
    <3> QED
      BY <1>4, <3>2, <3>3
  <2> QED
    BY <2>1 DEF PairsLead, PairLeads
<1> QED
  BY <1>20, <1>21, <1>22, <1>24, <1>25, <1>26, <1>27, <1>28, <1>29, <1>30

LEMMA ClearLinked ==
  ASSUME VersionsAssumption, Typed, Linked, NEW t \in Committers, ClearVersions(t)
  PROVE  Linked'
<1> USE DEF Linked
<1>1. /\ Clears(t) /\ verLogEpoch' = verThread[t].at /\ chain' = <<>>
      /\ Goes(t, AtRest)
      /\ UNCHANGED <<verDoc, verRev, verEpoch, drag, docs, nodeless, shared>>
  BY ClearDoes
<1>2. ~Carries(t) /\ ~Closes(t) /\ FoldsOf(t) = {}
  BY <1>1 DEF Carries, Closes, Clears, FoldsOf
<1>3. /\ \A u \in Committers : u # t =>
           /\ verThread'[u] = verThread[u]
           /\ (Carries(u)' <=> Carries(u)) /\ (Closes(u)' <=> Closes(u)) /\ (Clears(u)' <=> Clears(u))
           /\ FoldsOf(u)' = FoldsOf(u)
      /\ ~Carries(t)' /\ ~Closes(t)' /\ ~Clears(t)' /\ FoldsOf(t)' = {}
  BY <1>1, GoesDoes, Leaves
<1>4. Carriers' = Batches
  <2>1. Batches' = Batches
    BY <1>2, <1>3 DEF Batches
  <2>2. Nodes' = {}
    BY <1>1 DEF Nodes
  <2> QED
    BY <2>1, <2>2 DEF Carriers
<1>5. Carriers' \subseteq Carriers
  BY <1>4 DEF Carriers
<1>6. \A c \in Carriers : c \in Carriers' \/ c.at = verLogEpoch
  BY <1>4 DEF Carriers, Nodes, AsNode
<1>7. \A e : Live(e)' => Live(e) /\ e # verLogEpoch
  BY <1>1, LiveAfterClear
<1>8. \A u : Stops(u) => Stops(u)' \/ \E z \in Carriers : z.rev = u /\ z.at = verLogEpoch
  BY <1>1, <1>6 DEF Stops, Carried
<1>9. \A c : Ours(c)' => Ours(c) /\ c \in Carriers'
  BY <1>1, <1>5 DEF Ours
<1>10. \A c \in Carriers : c.rev \in Nat /\ 2 <= c.rev /\ c.rev <= verRev /\ c.at \in Nat /\ c.at <= verEpoch
  BY CarrierHas
<1>11. /\ verLogEpoch \in Nat /\ verLogEpoch <= verEpoch /\ verEpoch \in Nat /\ verRev \in Nat
       /\ \A u \in Committers : Clears(u) => verThread[u].at \in Nat
  BY SessionIs DEF Known
<1>20. Known'
  <2>1. \A c \in Carriers' : c.rev \in 2..verRev' /\ c.at <= verEpoch'
    BY <1>1, <1>5 DEF Known
  <2>2. \A u \in Committers : Clears(u)' => verThread'[u].at <= verEpoch' /\ verThread'[u].at # verLogEpoch'
    BY <1>1, <1>3 DEF Known
  <2>3. verLogEpoch' <= verEpoch' /\ drag'.made <= verEpoch'
    BY <1>1 DEF Known
  <2>4. \A u \in Committers : Closes(u)' => verThread'[u].drag.made <= verEpoch'
    BY <1>1, <1>3 DEF Known
  <2>5. \A s, u \in Committers : s # u /\ Clears(s)' /\ Clears(u)' => verThread'[u].at # verThread'[s].at
    BY <1>3 DEF Known
  <2> QED
    BY <2>1, <2>2, <2>3, <2>4, <2>5 DEF Known
<1>21. KnobsStay' /\ InTime'
  BY <1>1, <1>5 DEF KnobsStay, InTime
<1>22. Distinct' /\ Images'
  <2>1. DOMAIN chain' = {}
    BY <1>1
  <2> QED
    BY <1>1, <1>3, <2>1 DEF Distinct, Images
<1>23. FoldsAreHeld'
  <2>1. \A u \in Committers : FoldsOf(u)' = FoldsOf(u)
    BY <1>2, <1>3
  <2>2. \A u \in Committers : Carries(u)' => u # t
    BY <1>3
  <2> QED
    BY <1>1, <1>3, <2>1, <2>2 DEF FoldsAreHeld
<1>24. FoldsAreFree'
  BY <1>1, <1>3, <1>5 DEF FoldsAreFree
<1>25. Current'
  BY <1>1, <1>9 DEF Current, Ours
<1>26. Newest'
  <2>1. ASSUME NEW c \in Carriers', NEW r \in {verRev}, Ours(c)', Live(c.at)' PROVE Stops(r)'
    <3>1. Ours(c) /\ Live(c.at) /\ c.at # verLogEpoch /\ c \in Carriers /\ c.at = verEpoch
      BY <1>5, <1>7, <1>9, <2>1 DEF Ours
    <3>2. Stops(r)
      BY <3>1 DEF Newest
    <3>3. CASE \E z \in Carriers : z.rev = r /\ z.at = verLogEpoch
      <4>1. PICK z \in Carriers : z.rev = r /\ z.at = verLogEpoch
        BY <3>3
      <4>2. c.rev = r
        <5>1. ~(c.rev < z.rev)
          BY <1>10, <1>11, <3>1, <4>1 DEF InTime
        <5> QED
          BY <1>10, <1>11, <3>1, <4>1, <5>1
      <4> QED
        BY <4>2 DEF Stops, Carried
    <3> QED
      BY <1>8, <3>2, <3>3
  <2> QED
    BY <1>1, <2>1 DEF Newest
<1>27. DragsLead'
  <2>1. Drags' \subseteq Drags
    BY <1>1, <1>3 DEF Drags
  <2>2. ASSUME NEW e \in Drags PROVE DragLeads(e)'
    <3>1. DragLeads(e)
      BY DEF DragsLead
    <3>2. SUFFICES ASSUME e.op # NoOp, e.made = verEpoch
                   PROVE  /\ verDoc = docs[verRev]
                          /\ \A r \in {verRev}, m \in 2..verRev, x \in Carriers' :
                               e.folds = m..r /\ Ours(x)' /\ x.rev < m /\ Live(x.at)' =>
                                 Leads(m - 1, r, e.op)' /\ (x.rev = m - 1 \/ Stops(m - 1)')
      BY <1>1 DEF DragLeads
    <3>3. ASSUME NEW r \in {verRev}, NEW m \in 2..verRev, NEW x \in Carriers',
                 e.folds = m..r, Ours(x)', x.rev < m, Live(x.at)'
          PROVE  Leads(m - 1, r, e.op)' /\ (x.rev = m - 1 \/ Stops(m - 1)')
      <4>1. Ours(x) /\ Live(x.at) /\ x \in Carriers /\ x.at = verEpoch /\ x.at # verLogEpoch
        BY <1>5, <1>7, <1>9, <3>3 DEF Ours
      <4>2. Leads(m - 1, r, e.op) /\ (x.rev = m - 1 \/ Stops(m - 1))
        BY <3>1, <3>2, <3>3, <4>1 DEF DragLeads
      <4>3. Leads(m - 1, r, e.op)'
        BY <1>1, <4>2 DEF Leads, Applies
      <4>4. CASE \E z \in Carriers : z.rev = m - 1 /\ z.at = verLogEpoch
        <5>1. PICK z \in Carriers : z.rev = m - 1 /\ z.at = verLogEpoch
          BY <4>4
        <5>2. ~(x.rev < z.rev)
          BY <1>10, <1>11, <4>1, <5>1 DEF InTime
        <5>3. x.rev = m - 1
          BY <1>10, <3>3, <4>1, <5>1, <5>2
        <5> QED
          BY <4>3, <5>3
      <4> QED
        BY <1>8, <4>2, <4>3, <4>4
    <3> QED
      BY <3>1, <3>2, <3>3 DEF DragLeads
  <2> QED
    BY <2>1, <2>2 DEF DragsLead
<1>28. PairsLead'
  <2>1. ASSUME NEW x \in Carriers', NEW y \in Carriers',
               x.at = y.at, Live(x.at)', x.rev \notin shared', y.rev \notin shared', x.rev < y.rev
        PROVE  Leads(x.rev, y.rev, y.op)' \/ \E u \in (x.rev + 1)..(y.rev - 1) : u \notin y.folds /\ Stops(u)'
    <3>1. x \in Carriers /\ y \in Carriers /\ Live(x.at) /\ x.at # verLogEpoch
      BY <1>5, <1>7, <2>1
    <3>2. Leads(x.rev, y.rev, y.op) \/ \E u \in (x.rev + 1)..(y.rev - 1) : u \notin y.folds /\ Stops(u)
      BY <1>1, <2>1, <3>1 DEF PairsLead, PairLeads
    <3>3. CASE Leads(x.rev, y.rev, y.op)
      BY <1>1, <3>3 DEF Leads, Applies
    <3>4. CASE \E u \in (x.rev + 1)..(y.rev - 1) : u \notin y.folds /\ Stops(u)
      <4>1. PICK u \in (x.rev + 1)..(y.rev - 1) : u \notin y.folds /\ Stops(u)
        BY <3>4
      <4>2. ASSUME NEW z \in Carriers, z.rev = u, z.at = verLogEpoch PROVE FALSE
        <5>1. x.rev < z.rev /\ z.rev < y.rev
          BY <1>10, <3>1, <4>1, <4>2
        <5>2. x.at <= z.at /\ z.at <= y.at
          BY <3>1, <5>1 DEF InTime
        <5> QED
          BY <1>10, <1>11, <2>1, <3>1, <4>2, <5>2
      <4> QED
        BY <1>8, <4>1, <4>2
    <3> QED
      BY <3>2, <3>3, <3>4
  <2> QED
    BY <2>1 DEF PairsLead, PairLeads
<1> QED
  BY <1>20, <1>21, <1>22, <1>23, <1>24, <1>25, <1>26, <1>27, <1>28

(* Nodes that stay, and those that go. *)
LEMMA Placed ==
  ASSUME Typed, NEW b, NEW n, NEW i, NEW c, NEW k, InsertedAs(b, n, i, c, k)
  PROVE  /\ \A j \in DOMAIN chain' : chain'[j] = n \/ \E m \in DOMAIN chain : chain'[j] = chain[m]
         /\ \A m \in DOMAIN chain : chain[m].rev \in nodeless' \/ \E j \in DOMAIN chain' : chain'[j] = chain[m]
         /\ n.rev \in nodeless' \/ \E j \in DOMAIN chain' : chain'[j] = n
<1>1. /\ k \in 0..Len(chain) /\ Len(chain) \in Nat /\ DOMAIN chain = 1..Len(chain)
      /\ DOMAIN chain' = 1..(Len(chain) + 1 - k)
      /\ \A j \in 1..(Len(chain) + 1 - k) : chain'[j] = c[k + j]
  <2>1. chain \in Seq(Node) /\ k \in 0..Len(chain) /\ chain' \in Seq(Node) /\ Len(chain') = Len(chain) + 1 - k
    BY DEF InsertedAs, Typed
  <2> QED
    BY <2>1 DEF InsertedAs
<1>0. /\ \A j \in 1..(Len(chain) + 1) : c[j] = n \/ \E m \in 1..Len(chain) : c[j] = chain[m]
      /\ \A m \in 1..Len(chain) : \E j \in 1..(Len(chain) + 1) : c[j] = chain[m]
      /\ c[i] = n
  BY NodesStay
<1>2. ASSUME NEW j \in DOMAIN chain'
      PROVE  chain'[j] = n \/ \E m \in DOMAIN chain : chain'[j] = chain[m]
  <2>1. PICK p : p = k + j
    OBVIOUS
  <2>2. p \in 1..(Len(chain) + 1) /\ chain'[j] = c[p]
    BY <1>1, <2>1
  <2>3. c[p] = n \/ \E m \in 1..Len(chain) : c[p] = chain[m]
    BY <1>0, <2>2
  <2> QED
    BY <1>1, <2>2, <2>3
<1>3. ASSUME NEW p \in 1..(Len(chain) + 1)
      PROVE  c[p].rev \in nodeless' \/ \E j \in DOMAIN chain' : chain'[j] = c[p]
  <2>1. CASE p <= k
    <3>1. p \in 1..k
      BY <1>1, <2>1
    <3> QED
      BY <3>1 DEF InsertedAs
  <2>2. CASE p > k
    <3>1. p - k \in 1..(Len(chain) + 1 - k) /\ k + (p - k) = p
      BY <1>1, <2>2
    <3>2. chain'[p - k] = c[p]
      BY <1>1, <3>1
    <3> QED
      BY <1>1, <3>1, <3>2
  <2> QED
    BY <1>1, <2>1, <2>2
<1>4. ASSUME NEW m \in DOMAIN chain
      PROVE  chain[m].rev \in nodeless' \/ \E j \in DOMAIN chain' : chain'[j] = chain[m]
  <2>1. PICK p \in 1..(Len(chain) + 1) : c[p] = chain[m]
    BY <1>0, <1>1
  <2> QED
    BY <1>3, <2>1
<1>5. i \in 1..(Len(chain) + 1) /\ c[i] = n
  BY <1>0 DEF InsertedAs
<1> QED
  BY <1>2, <1>3, <1>4, <1>5

(* What a recorded batch leaves of the carriers. *)
LEMMA RecordSheds ==
  ASSUME VersionsAssumption, Typed, NEW t \in Committers, RecordVersion(t), NEW b, b = verThread[t].batch
  PROVE  /\ \A c \in Carriers' : \E d \in Carriers :
              d.rev = c.rev /\ d.op = c.op /\ d.at = c.at /\ (c.folds = d.folds \/ (c.folds = {} /\ d = AsBatch(b)))
         /\ \A u : Stops(u) => Stops(u)' \/ u \in b.folds
         /\ \A u : u = b.rev => Stops(u)'
         /\ nodeless \ b.folds \subseteq nodeless'
<1>1. /\ Carries(t) /\ b \in Sent /\ Goes(t, AtRest)
      /\ (b.at = verLogEpoch /\ Insert(b)) \/ (b.at # verLogEpoch /\ Drop(b))
      /\ UNCHANGED <<verDoc, verRev, verEpoch, drag, verLogEpoch, docs, shared>>
  BY RecordDoes
<1>2. /\ Batches' \subseteq Batches
      /\ \A c \in Batches : c \in Batches' \/ c = AsBatch(b)
  BY <1>1, Leaves
<1>3. /\ AsBatch(b) \in Carriers /\ AsBatch(b).rev = b.rev /\ AsBatch(b).op = b.op /\ AsBatch(b).at = b.at
  BY <1>1, BatchIsCarried
<1>4. CASE b.at # verLogEpoch /\ Drop(b)
  <2>1. nodeless' = nodeless \cup {b.rev} /\ chain' = chain
    BY <1>4 DEF Drop
  <2>2. Nodes' = Nodes
    BY <1>1, <2>1 DEF Nodes
  <2>3. Carriers' \subseteq Carriers /\ \A c \in Carriers : c \in Carriers' \/ c = AsBatch(b)
    BY <1>2, <2>2 DEF Carriers
  <2>4. \A u : u = b.rev => Stops(u)'
    BY <2>1 DEF Stops
  <2>5. ASSUME NEW u, Stops(u) PROVE Stops(u)'
    <3>1. CASE u \in nodeless \cup shared
      BY <1>1, <2>1, <3>1 DEF Stops
    <3>2. CASE Carried(u)
      <4>1. PICK c \in Carriers : c.rev = u
        BY <3>2 DEF Carried
      <4> QED
        BY <1>3, <2>3, <2>4, <4>1 DEF Stops, Carried
    <3> QED
      BY <2>5, <3>1, <3>2 DEF Stops
  <2>6. \A c \in Carriers' : \E d \in Carriers :
          d.rev = c.rev /\ d.op = c.op /\ d.at = c.at /\ (c.folds = d.folds \/ (c.folds = {} /\ d = AsBatch(b)))
    BY <2>3
  <2> QED
    BY <2>1, <2>4, <2>5, <2>6
<1>5. CASE b.at = verLogEpoch /\ Insert(b)
  <2>1. PICK n, i, c, k : InsertedAs(b, n, i, c, k)
    BY <1>1, <1>5, InsertDoes
  <2>2. n.rev = b.rev /\ n.op = b.op /\ nodeless \ b.folds \subseteq nodeless'
    BY <2>1 DEF InsertedAs
  <2>3. /\ \A j \in DOMAIN chain' : chain'[j] = n \/ \E m \in DOMAIN chain : chain'[j] = chain[m]
        /\ \A m \in DOMAIN chain : chain[m].rev \in nodeless' \/ \E j \in DOMAIN chain' : chain'[j] = chain[m]
        /\ n.rev \in nodeless' \/ \E j \in DOMAIN chain' : chain'[j] = n
    BY <2>1, Placed
  <2>4. \A j \in DOMAIN chain' : AsNode(chain'[j], verLogEpoch) \in Carriers' /\ AsNode(chain'[j], verLogEpoch).rev = chain'[j].rev
    BY <1>1 DEF Carriers, Nodes, AsNode
  <2>5. \A u : u = b.rev => Stops(u)'
    BY <2>2, <2>3, <2>4 DEF Stops, Carried
  <2>6. ASSUME NEW u, Stops(u), u \notin b.folds PROVE Stops(u)'
    <3>1. CASE u \in nodeless \cup shared
      BY <1>1, <2>2, <2>6, <3>1 DEF Stops
    <3>2. CASE \E a \in Batches : a.rev = u
      <4>1. PICK a \in Batches : a.rev = u
        BY <3>2
      <4>2. a \in Batches' => Stops(u)'
        BY <4>1 DEF Stops, Carried, Carriers
      <4> QED
        BY <1>2, <1>3, <2>5, <4>1, <4>2
    <3>3. CASE \E a \in Nodes : a.rev = u
      <4>1. PICK m \in DOMAIN chain : chain[m].rev = u
        BY <3>3 DEF Nodes, AsNode
      <4> QED
        BY <2>3, <2>4, <4>1 DEF Stops, Carried
    <3> QED
      BY <2>6, <3>1, <3>2, <3>3 DEF Stops, Carried, Carriers
  <2>7. ASSUME NEW x \in Carriers'
        PROVE  \E d \in Carriers :
                 d.rev = x.rev /\ d.op = x.op /\ d.at = x.at /\ (x.folds = d.folds \/ (x.folds = {} /\ d = AsBatch(b)))
    <3>1. CASE x \in Batches'
      BY <1>2, <3>1 DEF Carriers
    <3>2. CASE x \in Nodes'
      <4>1. PICK j \in DOMAIN chain' : x = AsNode(chain'[j], verLogEpoch)
        BY <1>1, <3>2 DEF Nodes
      <4>2. x.rev = chain'[j].rev /\ x.op = chain'[j].op /\ x.at = verLogEpoch /\ x.folds = {}
        BY <4>1 DEF AsNode
      <4>3. CASE chain'[j] = n
        BY <1>3, <1>5, <2>2, <4>2, <4>3
      <4>4. CASE \E m \in DOMAIN chain : chain'[j] = chain[m]
        <5>1. PICK m \in DOMAIN chain : chain'[j] = chain[m]
          BY <4>4
        <5> QED
          BY <4>2, <5>1, NodeIsCarried
      <4> QED
        BY <2>3, <4>3, <4>4
    <3> QED
      BY <3>1, <3>2 DEF Carriers
  <2> QED
    BY <2>2, <2>5, <2>6, <2>7
<1> QED
  BY <1>1, <1>4, <1>5

(* Two nodes of one revision are there only where it is shared. *)
LEMMA InsertedApart ==
  ASSUME Typed, Distinct, NEW t \in Committers, Carries(t), NEW b, b = verThread[t].batch,
         NEW n, NEW i, NEW c, NEW k, InsertedAs(b, n, i, c, k)
  PROVE  \A p, q \in DOMAIN chain' : p < q /\ chain'[p].rev = chain'[q].rev => chain'[p].rev \in shared
<1>1. /\ k \in 0..Len(chain) /\ Len(chain) \in Nat /\ DOMAIN chain = 1..Len(chain)
      /\ i \in 1..(Len(chain) + 1) /\ n.rev = b.rev
      /\ DOMAIN chain' = 1..(Len(chain) + 1 - k)
      /\ \A j \in 1..(Len(chain) + 1 - k) : chain'[j] = c[k + j]
      /\ \A j \in 1..(Len(chain) + 1) : c[j] = IF j < i THEN chain[j] ELSE IF j = i THEN n ELSE chain[j - 1]
  <2>1. chain \in Seq(Node) /\ k \in 0..Len(chain) /\ chain' \in Seq(Node) /\ Len(chain') = Len(chain) + 1 - k
    BY DEF InsertedAs, Typed
  <2>2. Len(chain) \in Nat /\ DOMAIN chain = 1..Len(chain) /\ DOMAIN chain' = 1..(Len(chain) + 1 - k)
    BY <2>1
  <2>3. /\ i \in 1..(Len(chain) + 1) /\ n.rev = b.rev
        /\ \A j \in 1..(Len(chain) + 1 - k) : chain'[j] = c[k + j]
        /\ \A j \in 1..(Len(chain) + 1) : c[j] = IF j < i THEN chain[j] ELSE IF j = i THEN n ELSE chain[j - 1]
    BY DEF InsertedAs
  <2> QED
    BY <2>1, <2>2, <2>3
<1>2. \A j \in DOMAIN chain : b.rev = chain[j].rev => b.rev \in shared
  BY DEF Distinct
<1>3. \A p, q \in 1..Len(chain) : p < q /\ chain[p].rev = chain[q].rev => chain[p].rev \in shared
  BY <1>1 DEF Distinct
<1>4. ASSUME NEW p \in 1..(Len(chain) + 1), NEW q \in 1..(Len(chain) + 1), p < q, c[p].rev = c[q].rev
      PROVE  c[p].rev \in shared
  <2>1. CASE p = i
    <3>1. q - 1 \in DOMAIN chain /\ c[q] = chain[q - 1] /\ c[p] = n
      BY <1>1, <1>4, <2>1
    <3> QED
      BY <1>1, <1>2, <1>4, <3>1
  <2>2. CASE q = i
    <3>1. p \in DOMAIN chain /\ c[p] = chain[p] /\ c[q] = n
      BY <1>1, <1>4, <2>2
    <3> QED
      BY <1>1, <1>2, <1>4, <3>1
  <2>3. CASE q < i
    <3>1. p \in 1..Len(chain) /\ q \in 1..Len(chain) /\ c[p] = chain[p] /\ c[q] = chain[q]
      BY <1>1, <1>4, <2>3
    <3> QED
      BY <1>3, <1>4, <3>1
  <2>4. CASE p < i /\ i < q
    <3>1. p \in 1..Len(chain) /\ q - 1 \in 1..Len(chain) /\ p < q - 1 /\ c[p] = chain[p] /\ c[q] = chain[q - 1]
      BY <1>1, <1>4, <2>4
    <3> QED
      BY <1>3, <1>4, <3>1
  <2>5. CASE i < p
    <3>1. p - 1 \in 1..Len(chain) /\ q - 1 \in 1..Len(chain) /\ p - 1 < q - 1 /\ c[p] = chain[p - 1] /\ c[q] = chain[q - 1]
      BY <1>1, <1>4, <2>5
    <3> QED
      BY <1>3, <1>4, <3>1
  <2> QED
    BY <1>1, <1>4, <2>1, <2>2, <2>3, <2>4, <2>5
<1>5. ASSUME NEW p \in DOMAIN chain', NEW q \in DOMAIN chain', p < q, chain'[p].rev = chain'[q].rev
      PROVE  chain'[p].rev \in shared
  <2>1. PICK x, y : x = k + p /\ y = k + q
    OBVIOUS
  <2>2. x \in 1..(Len(chain) + 1) /\ y \in 1..(Len(chain) + 1) /\ x < y /\ chain'[p] = c[x] /\ chain'[q] = c[y]
    BY <1>1, <1>5, <2>1
  <2> QED
    BY <1>4, <1>5, <2>2
<1> QED
  BY <1>5

LEMMA RecordDistinct ==
  ASSUME VersionsAssumption, Typed, Distinct, Images, NEW t \in Committers, RecordVersion(t)
  PROVE  Distinct' /\ Images'
<1>1. PICK b : b = verThread[t].batch
  OBVIOUS
<1>2. /\ Carries(t) /\ b \in Sent /\ Goes(t, AtRest)
      /\ (b.at = verLogEpoch /\ Insert(b)) \/ (b.at # verLogEpoch /\ Drop(b))
      /\ UNCHANGED <<verDoc, verRev, verEpoch, drag, verLogEpoch, docs, shared>>
  BY <1>1, RecordDoes
<1>3. /\ \A u \in Committers : u # t => verThread'[u] = verThread[u] /\ (Carries(u)' <=> Carries(u))
      /\ ~Carries(t)'
  BY <1>2, GoesDoes, Leaves
<1>4. \A s, u \in Committers :
        s # u /\ Carries(s)' /\ Carries(u)' /\ verThread'[s].batch.rev = verThread'[u].batch.rev =>
          verThread'[u].batch.rev \in shared'
  BY <1>2, <1>3 DEF Distinct
<1>5. \A u \in Committers : Carries(u)' /\ verThread'[u].batch.rev \notin shared' =>
        verThread'[u].batch.image = docs'[verThread'[u].batch.rev]
  BY <1>2, <1>3 DEF Images
<1>6. ASSUME NEW n, n.rev = b.rev, n.materialized => n.image = b.image,
             \A j \in DOMAIN chain' : chain'[j] = n \/ \E m \in DOMAIN chain : chain'[j] = chain[m]
      PROVE  /\ \A u \in Committers, j \in DOMAIN chain' :
                  Carries(u)' /\ verThread'[u].batch.rev = chain'[j].rev => chain'[j].rev \in shared'
             /\ \A j \in DOMAIN chain' : chain'[j].materialized /\ chain'[j].rev \notin shared' =>
                  chain'[j].image = docs'[chain'[j].rev]
  <2>1. ASSUME NEW u \in Committers, NEW j \in DOMAIN chain', Carries(u)', verThread'[u].batch.rev = chain'[j].rev
        PROVE  chain'[j].rev \in shared'
    <3>1. u # t /\ Carries(u) /\ verThread'[u] = verThread[u]
      BY <1>3, <2>1
    <3>2. CASE chain'[j] = n
      BY <1>1, <1>2, <1>6, <2>1, <3>1, <3>2 DEF Distinct
    <3>3. CASE \E m \in DOMAIN chain : chain'[j] = chain[m]
      BY <1>2, <2>1, <3>1, <3>3 DEF Distinct
    <3> QED
      BY <1>6, <3>2, <3>3
  <2>2. ASSUME NEW j \in DOMAIN chain', chain'[j].materialized, chain'[j].rev \notin shared'
        PROVE  chain'[j].image = docs'[chain'[j].rev]
    <3>1. CASE chain'[j] = n
      <4>1. b.image = docs[b.rev]
        BY <1>1, <1>2, <1>6, <2>2, <3>1 DEF Images
      <4> QED
        BY <1>2, <1>6, <2>2, <3>1, <4>1
    <3>2. CASE \E m \in DOMAIN chain : chain'[j] = chain[m]
      BY <1>2, <2>2, <3>2 DEF Images
    <3> QED
      BY <1>6, <3>1, <3>2
  <2> QED
    BY <2>1, <2>2
<1>7. CASE Drop(b)
  <2>1. chain' = chain
    BY <1>7 DEF Drop
  <2>2. \A u \in Committers, j \in DOMAIN chain' :
          Carries(u)' /\ verThread'[u].batch.rev = chain'[j].rev => chain'[j].rev \in shared'
    BY <1>2, <1>3, <2>1 DEF Distinct
  <2>3. \A j \in DOMAIN chain' : chain'[j].materialized /\ chain'[j].rev \notin shared' =>
          chain'[j].image = docs'[chain'[j].rev]
    BY <1>2, <2>1 DEF Images
  <2>4. \A p, q \in DOMAIN chain' : p < q /\ chain'[p].rev = chain'[q].rev => chain'[p].rev \in shared'
    BY <1>2, <2>1 DEF Distinct
  <2> QED
    BY <1>4, <1>5, <2>2, <2>3, <2>4 DEF Distinct, Images
<1>8. CASE Insert(b)
  <2>1. PICK n, i, c, k : InsertedAs(b, n, i, c, k)
    BY <1>2, <1>8, InsertDoes
  <2>2. n.rev = b.rev /\ (n.materialized => n.image = b.image)
    BY <2>1 DEF InsertedAs
  <2>3. \A j \in DOMAIN chain' : chain'[j] = n \/ \E m \in DOMAIN chain : chain'[j] = chain[m]
    BY <2>1, Placed
  <2>4. \A p, q \in DOMAIN chain' : p < q /\ chain'[p].rev = chain'[q].rev => chain'[p].rev \in shared'
    BY <1>1, <1>2, <2>1, InsertedApart
  <2>5. /\ \A u \in Committers, j \in DOMAIN chain' :
             Carries(u)' /\ verThread'[u].batch.rev = chain'[j].rev => chain'[j].rev \in shared'
        /\ \A j \in DOMAIN chain' : chain'[j].materialized /\ chain'[j].rev \notin shared' =>
             chain'[j].image = docs'[chain'[j].rev]
    BY <1>6, <2>2, <2>3
  <2> QED
    BY <1>4, <1>5, <2>4, <2>5 DEF Distinct, Images
<1> QED
  BY <1>2, <1>7, <1>8

LEMMA RecordLinked ==
  ASSUME VersionsAssumption, Typed, Linked, NEW t \in Committers, RecordVersion(t)
  PROVE  Linked'
<1> USE DEF Linked
<1>1. PICK b : b = verThread[t].batch
  OBVIOUS
<1>2. /\ Carries(t) /\ b \in Sent /\ Goes(t, AtRest)
      /\ UNCHANGED <<verDoc, verRev, verEpoch, drag, verLogEpoch, docs, shared>>
  BY <1>1, RecordDoes
<1>3. /\ \A u \in Committers : u # t =>
           /\ verThread'[u] = verThread[u]
           /\ (Carries(u)' <=> Carries(u)) /\ (Closes(u)' <=> Closes(u)) /\ (Clears(u)' <=> Clears(u))
           /\ FoldsOf(u)' = FoldsOf(u)
      /\ ~Carries(t)' /\ ~Closes(t)' /\ ~Clears(t)' /\ FoldsOf(t)' = {}
  BY <1>2, GoesDoes, Leaves
<1>4. ~Closes(t) /\ ~Clears(t) /\ FoldsOf(t) = b.folds
  BY <1>1, <1>2 DEF Carries, Closes, Clears, FoldsOf
<1>5. \A c \in Carriers' : \E d \in Carriers :
        d.rev = c.rev /\ d.op = c.op /\ d.at = c.at /\ (c.folds = d.folds \/ (c.folds = {} /\ d = AsBatch(b)))
  BY <1>1, RecordSheds
<1>6. /\ \A u : Stops(u) => Stops(u)' \/ u \in b.folds
      /\ \A u : u = b.rev => Stops(u)'
      /\ nodeless \ b.folds \subseteq nodeless'
  BY <1>1, RecordSheds
<1>7. \A e : Live(e)' <=> Live(e)
  BY <1>2, <1>4, LiveStays DEF AtRest
<1>8. \A c \in Carriers : c.rev \in Nat /\ 2 <= c.rev /\ c.rev <= verRev /\ c.at \in Nat /\ c.at <= verEpoch
  BY CarrierHas
<1>9. b.rev \in Nat /\ 2 <= b.rev /\ b.rev <= verRev /\ verRev \in Nat
  BY <1>1, <1>2, <1>8, BatchIsCarried, SessionIs
<1>10. b.folds = {} \/ \E m \in 2..verRev : b.folds = m..b.rev
  BY <1>1, <1>2, <1>4 DEF FoldsAreHeld
<1>11. b.folds \cap drag.folds = {} /\ \A u \in Committers : u # t => FoldsOf(u) \cap b.folds = {}
  BY <1>4 DEF FoldsAreHeld
<1>12. ASSUME NEW d \in Carriers
       PROVE  d = AsBatch(b) \/ (d.folds \cap b.folds = {} /\ (d.rev = b.rev => d.rev \in shared))
  <2>1. CASE \E u \in Committers : Carries(u) /\ d = AsBatch(verThread[u].batch)
    <3>1. PICK u \in Committers : Carries(u) /\ d = AsBatch(verThread[u].batch)
      BY <2>1
    <3>2. d.rev = verThread[u].batch.rev /\ d.folds = FoldsOf(u)
      BY <3>1, BatchIsCarried, SessionIs
    <3>3. u # t => (d.rev = b.rev => d.rev \in shared)
      BY <1>1, <1>2, <3>1, <3>2 DEF Distinct
    <3> QED
      BY <1>1, <1>11, <3>1, <3>2, <3>3
  <2>2. CASE \E i \in DOMAIN chain : d = AsNode(chain[i], verLogEpoch)
    <3>1. PICK i \in DOMAIN chain : d = AsNode(chain[i], verLogEpoch)
      BY <2>2
    <3>2. d.rev = chain[i].rev /\ d.folds = {}
      BY <3>1, NodeIsCarried
    <3> QED
      BY <1>1, <1>2, <3>2 DEF Distinct
  <2> QED
    BY <2>1, <2>2, CarrierIs
<1>20. Known'
  <2>1. \A c \in Carriers' : c.rev \in 2..verRev' /\ c.at <= verEpoch'
    BY <1>2, <1>5 DEF Known
  <2>2. \A u \in Committers : Clears(u)' => verThread'[u].at <= verEpoch' /\ verThread'[u].at # verLogEpoch'
    BY <1>2, <1>3 DEF Known
  <2>3. verLogEpoch' <= verEpoch' /\ drag'.made <= verEpoch'
    BY <1>2 DEF Known
  <2>4. \A u \in Committers : Closes(u)' => verThread'[u].drag.made <= verEpoch'
    BY <1>2, <1>3 DEF Known
  <2>5. \A s, u \in Committers : s # u /\ Clears(s)' /\ Clears(u)' => verThread'[u].at # verThread'[s].at
    BY <1>3 DEF Known
  <2> QED
    BY <2>1, <2>2, <2>3, <2>4, <2>5 DEF Known
<1>21. KnobsStay'
  BY <1>2 DEF KnobsStay
<1>22. Distinct' /\ Images'
  BY RecordDistinct
<1>23. FoldsAreHeld'
  <2>1. drag'.folds \subseteq nodeless' \cap (2..verRev')
    BY <1>2, <1>6, <1>11 DEF FoldsAreHeld
  <2>2. ASSUME NEW u \in Committers
        PROVE  /\ FoldsOf(u)' \subseteq nodeless' \cap (2..verRev')
               /\ FoldsOf(u)' \cap drag'.folds = {}
               /\ \A s \in Committers : s # u => FoldsOf(u)' \cap FoldsOf(s)' = {}
    <3>1. CASE u = t
      BY <1>3, <3>1
    <3>2. CASE u # t
      <4>1. FoldsOf(u) \subseteq nodeless \cap (2..verRev) /\ FoldsOf(u) \cap drag.folds = {}
            /\ \A s \in Committers : s # u => FoldsOf(u) \cap FoldsOf(s) = {}
        BY DEF FoldsAreHeld
      <4>2. FoldsOf(u)' = FoldsOf(u) /\ \A s \in Committers : FoldsOf(s)' = FoldsOf(s) \/ FoldsOf(s)' = {}
        BY <1>3, <3>2
      <4>3. FoldsOf(u) \subseteq nodeless'
        BY <1>6, <1>11, <3>2, <4>1
      <4> QED
        BY <1>2, <4>1, <4>2, <4>3
    <3> QED
      BY <3>1, <3>2
  <2>3. ASSUME NEW u \in Committers, Carries(u)'
        PROVE  FoldsOf(u)' = {} \/ \E m \in 2..verRev' : FoldsOf(u)' = m..verThread'[u].batch.rev
    <3>1. u # t
      BY <1>3, <2>3
    <3> QED
      BY <1>2, <1>3, <2>3, <3>1 DEF FoldsAreHeld
  <2> QED
    BY <2>1, <2>2, <2>3 DEF FoldsAreHeld
<1>24. FoldsAreFree'
  <2>1. ASSUME NEW c \in Carriers'
        PROVE  /\ c.rev \in drag'.folds => c.rev \in shared'
               /\ \A u \in Committers : c.rev \in FoldsOf(u)' =>
                    c.rev \in shared' \/ (Carries(u)' /\ c.rev = verThread'[u].batch.rev)
    <3>1. PICK d \in Carriers : d.rev = c.rev
      BY <1>5
    <3>2. /\ c.rev \in drag.folds => c.rev \in shared
          /\ \A u \in Committers : c.rev \in FoldsOf(u) => c.rev \in shared \/ (Carries(u) /\ c.rev = verThread[u].batch.rev)
      BY <3>1 DEF FoldsAreFree
    <3>3. ASSUME NEW u \in Committers, c.rev \in FoldsOf(u)'
          PROVE  c.rev \in shared' \/ (Carries(u)' /\ c.rev = verThread'[u].batch.rev)
      <4>1. u # t
        BY <1>3, <3>3
      <4> QED
        BY <1>2, <1>3, <3>2, <3>3, <4>1
    <3> QED
      BY <1>2, <3>2, <3>3
  <2> QED
    BY <2>1 DEF FoldsAreFree
<1>25. InTime'
  <2>1. ASSUME NEW x \in Carriers', NEW y \in Carriers', x.rev < y.rev PROVE x.at <= y.at
    <3>1. PICK d \in Carriers : d.rev = x.rev /\ d.at = x.at
      BY <1>5
    <3>2. PICK e \in Carriers : e.rev = y.rev /\ e.at = y.at
      BY <1>5
    <3> QED
      BY <2>1, <3>1, <3>2 DEF InTime
  <2> QED
    BY <2>1 DEF InTime
<1>26. ASSUME NEW c \in Carriers', Ours(c)'
       PROVE  \E d \in Carriers : Ours(d) /\ d.rev = c.rev /\ d.at = c.at
  <2>1. PICK d \in Carriers : d.rev = c.rev /\ d.at = c.at
    BY <1>5
  <2> QED
    BY <1>2, <1>26, <2>1 DEF Ours
<1>27. Current'
  BY <1>2, <1>26 DEF Current
<1>28. Newest'
  <2>1. ASSUME NEW c \in Carriers', NEW r \in {verRev}, Ours(c)', Live(c.at)' PROVE Stops(r)'
    <3>1. PICK d \in Carriers : Ours(d) /\ d.rev = c.rev /\ d.at = c.at
      BY <1>26, <2>1
    <3>2. Stops(r)
      BY <1>7, <2>1, <3>1 DEF Newest
    <3>3. r \in b.folds => r = b.rev
      BY <1>9, <1>10
    <3> QED
      BY <1>6, <3>2, <3>3
  <2> QED
    BY <1>2, <2>1 DEF Newest
<1>29. DragsLead'
  <2>1. Drags' \subseteq Drags
    BY <1>2, <1>3 DEF Drags
  <2>2. ASSUME NEW e \in Drags PROVE DragLeads(e)'
    <3>1. DragLeads(e)
      BY DEF DragsLead
    <3>2. e.folds \cap b.folds = {}
      <4>1. \A u \in Committers : Closes(u) => u # t /\ verThread[u].drag.folds = FoldsOf(u)
        BY <1>4, SessionIs
      <4> QED
        BY <1>11, <4>1 DEF Drags
    <3>3. SUFFICES ASSUME e.op # NoOp, e.made = verEpoch
                   PROVE  /\ verDoc = docs[verRev]
                          /\ \A r \in {verRev}, m \in 2..verRev, x \in Carriers' :
                               e.folds = m..r /\ Ours(x)' /\ x.rev < m /\ Live(x.at)' =>
                                 Leads(m - 1, r, e.op)' /\ (x.rev = m - 1 \/ Stops(m - 1)')
      BY <1>2 DEF DragLeads
    <3>4. ASSUME NEW r \in {verRev}, NEW m \in 2..verRev, NEW x \in Carriers',
                 e.folds = m..r, Ours(x)', x.rev < m, Live(x.at)'
          PROVE  Leads(m - 1, r, e.op)' /\ (x.rev = m - 1 \/ Stops(m - 1)')
      <4>1. PICK d \in Carriers : Ours(d) /\ d.rev = x.rev /\ d.at = x.at
        BY <1>26, <3>4
      <4>2. Leads(m - 1, r, e.op) /\ (x.rev = m - 1 \/ Stops(m - 1))
        BY <1>7, <3>1, <3>3, <3>4, <4>1 DEF DragLeads
      <4>3. Leads(m - 1, r, e.op)'
        BY <1>2, <4>2 DEF Leads, Applies
      <4>4. m - 1 \in b.folds => m - 1 = b.rev
        <5>1. m \in Nat /\ m \in e.folds
          BY <1>9, <3>4
        <5>2. m \notin b.folds
          BY <3>2, <5>1
        <5> QED
          BY <1>9, <1>10, <5>1, <5>2
      <4> QED
        BY <1>6, <4>2, <4>3, <4>4
    <3> QED
      BY <3>1, <3>3, <3>4 DEF DragLeads
  <2> QED
    BY <2>1, <2>2 DEF DragsLead
<1>30. PairsLead'
  <2>1. ASSUME NEW x \in Carriers', NEW y \in Carriers',
               x.at = y.at, Live(x.at)', x.rev \notin shared', y.rev \notin shared', x.rev < y.rev
        PROVE  Leads(x.rev, y.rev, y.op)' \/ \E u \in (x.rev + 1)..(y.rev - 1) : u \notin y.folds /\ Stops(u)'
    <3>1. PICK d \in Carriers : d.rev = x.rev /\ d.at = x.at
      BY <1>5
    <3>2. PICK e \in Carriers :
            e.rev = y.rev /\ e.op = y.op /\ e.at = y.at /\ (y.folds = e.folds \/ (y.folds = {} /\ e = AsBatch(b)))
      BY <1>5
    <3>3. Leads(x.rev, y.rev, y.op) \/ \E u \in (x.rev + 1)..(y.rev - 1) : u \notin e.folds /\ Stops(u)
      BY <1>2, <1>7, <2>1, <3>1, <3>2 DEF PairsLead, PairLeads
    <3>4. CASE Leads(x.rev, y.rev, y.op)
      BY <1>2, <3>4 DEF Leads, Applies
    <3>5. CASE \E u \in (x.rev + 1)..(y.rev - 1) : u \notin e.folds /\ Stops(u)
      <4>1. PICK u \in (x.rev + 1)..(y.rev - 1) : u \notin e.folds /\ Stops(u)
        BY <3>5
      <4>2. u \notin y.folds
        BY <3>2, <4>1
      <4>3. CASE u \notin b.folds
        BY <1>6, <4>1, <4>2, <4>3
      <4>4. CASE u \in b.folds
        <5>1. e # AsBatch(b)
          BY <4>1, <4>4 DEF AsBatch
        <5>2. e.folds \cap b.folds = {} /\ e.rev # b.rev /\ y.folds = e.folds
          BY <1>2, <1>12, <2>1, <3>2, <5>1
        <5>3. PICK m \in 2..verRev : b.folds = m..b.rev
          BY <1>10, <4>4
        <5>4. x.rev \in Nat /\ y.rev \in Nat /\ u \in Nat /\ x.rev < u /\ u < y.rev /\ m <= u /\ u <= b.rev
          BY <1>8, <1>9, <3>1, <3>2, <4>1, <4>4, <5>3
        <5>5. y.rev \notin b.folds
          <6>1. y.rev \in FoldsOf(t) => y.rev \in shared \/ y.rev = b.rev
            BY <1>1, <3>2 DEF FoldsAreFree
          <6> QED
            BY <1>2, <1>4, <2>1, <3>2, <5>2, <6>1
        <5>6. b.rev < y.rev
          BY <1>9, <3>2, <5>2, <5>3, <5>4, <5>5
        <5>7. b.rev \in (x.rev + 1)..(y.rev - 1)
          BY <1>9, <5>4, <5>6
        <5>8. b.rev \notin y.folds
          <6>1. b.rev \in b.folds
            BY <1>9, <5>3, <5>4
          <6> QED
            BY <5>2, <6>1
        <5> QED
          BY <1>6, <5>7, <5>8
      <4> QED
        BY <4>3, <4>4
    <3> QED
      BY <3>3, <3>4, <3>5
  <2> QED
    BY <2>1 DEF PairsLead, PairLeads
<1> QED
  BY <1>20, <1>21, <1>22, <1>23, <1>24, <1>25, <1>27, <1>28, <1>29, <1>30

LEMMA StutterLinked ==
  ASSUME Linked, UNCHANGED verVars
  PROVE  Linked'
<1> USE DEF Linked, verVars, verSession, verLog, verHistory
<1>1. Carriers' = Carriers /\ Drags' = Drags
  BY DEF Carriers, Batches, Nodes, Carries, Drags, Closes
<1>2. \A e : Live(e)' <=> Live(e)
  BY DEF Live, Clears
<1>3. \A u : Stops(u)' <=> Stops(u)
  BY <1>1 DEF Stops, Carried
<1>4. \A c : Ours(c)' <=> Ours(c)
  BY <1>1 DEF Ours
<1>5. \A u \in Committers :
        /\ (Carries(u)' <=> Carries(u)) /\ (Closes(u)' <=> Closes(u)) /\ (Clears(u)' <=> Clears(u))
        /\ FoldsOf(u)' = FoldsOf(u)
  BY ThreadStays
<1>6. Known'
  BY <1>1, <1>5 DEF Known
<1>7. KnobsStay' /\ InTime'
  BY <1>1 DEF KnobsStay, InTime
<1>8. Distinct' /\ Images'
  BY <1>5 DEF Distinct, Images
<1>9. FoldsAreHeld'
  BY <1>5 DEF FoldsAreHeld
<1>10. FoldsAreFree'
  BY <1>1, <1>5 DEF FoldsAreFree
<1>11. Current' /\ Newest'
  BY <1>1, <1>2, <1>3, <1>4 DEF Current, Newest
<1>12. DragsLead'
  <2>1. \A d : DragLeads(d) => DragLeads(d)'
    BY <1>1, <1>2, <1>3, <1>4 DEF DragLeads, Leads, Applies
  <2> QED
    BY <1>1, <2>1 DEF DragsLead
<1>13. PairsLead'
  BY <1>1, <1>2, <1>3 DEF PairsLead, PairLeads, Leads, Applies
<1> QED
  BY <1>6, <1>7, <1>8, <1>9, <1>10, <1>11, <1>12, <1>13

LEMMA NextLinked ==
  ASSUME VersionsAssumption, Typed, Linked, [VersionNext]_verVars
  PROVE  Linked'
<1>1. CASE UNCHANGED verVars
  BY <1>1, StutterLinked
<1>2. CASE VersionNext
  BY <1>2, CommitLinked, FoldLinked, TakeLinked, StampLinked, RecordLinked, SwapLinked, ClearLinked DEF VersionNext
<1> QED
  BY <1>1, <1>2

----------------------------------------------------------------------------
(* What is linked is read back.                                            *)

(* From an image on, nodes with nothing between them lead to one another.  *)
LEMMA NodesLead ==
  ASSUME VersionsAssumption, IInv, NEW a \in DOMAIN chain, NEW i \in DOMAIN chain,
         \A u \in chain[a].rev..chain[i].rev : u \notin nodeless \cup shared /\ ~OnItsWay(u)
  PROVE  \A j \in (a + 1)..i : Leads(chain[j - 1].rev, chain[j].rev, chain[j].op)
<1>1. /\ DOMAIN chain = 1..Len(chain) /\ Len(chain) \in Nat
      /\ \A p \in 1..Len(chain) : chain[p].rev \in Nat
      /\ \A p, q \in 1..Len(chain) : p < q => chain[p].rev <= chain[q].rev
      /\ \A p, q \in 1..Len(chain) : p < q /\ chain[p].rev = chain[q].rev => chain[p].rev \in shared
  <2>1. DOMAIN chain = 1..Len(chain) /\ Len(chain) \in Nat /\ \A p \in 1..Len(chain) : chain[p].rev \in Nat
    BY DEF IInv, Typed
  <2> QED
    BY <2>1 DEF IInv, Linked, Kept, Distinct
<1>2. ASSUME NEW j \in (a + 1)..i
      PROVE  Leads(chain[j - 1].rev, chain[j].rev, chain[j].op)
  <2> DEFINE p == j - 1
             x == AsNode(chain[p], verLogEpoch)
             y == AsNode(chain[j], verLogEpoch)
  <2>1. p \in 1..Len(chain) /\ j \in 1..Len(chain) /\ p < j /\ a <= p /\ j <= i /\ a \in Nat /\ i \in Nat /\ j = p + 1
    BY <1>1
  <2>2. chain[a].rev <= chain[p].rev /\ chain[j].rev <= chain[i].rev
    <3>1. a = p \/ a < p
      BY <2>1
    <3>2. j = i \/ j < i
      BY <2>1
    <3>3. chain[a].rev <= chain[p].rev
      BY <1>1, <2>1, <3>1
    <3>4. chain[j].rev <= chain[i].rev
      BY <1>1, <2>1, <3>2
    <3> QED
      BY <3>3, <3>4
  <2> HIDE DEF p
  <2>3. chain[p].rev <= chain[j].rev
    BY <1>1, <2>1
  <2>4. chain[p].rev \in chain[a].rev..chain[i].rev /\ chain[j].rev \in chain[a].rev..chain[i].rev
    BY <1>1, <2>1, <2>2, <2>3
  <2>5. chain[p].rev \notin shared /\ chain[j].rev \notin shared
    BY <2>4
  <2>6. chain[p].rev < chain[j].rev
    BY <1>1, <2>1, <2>3, <2>5
  <2>7. /\ x \in Carriers /\ x.rev = chain[p].rev /\ x.at = verLogEpoch
        /\ y \in Carriers /\ y.rev = chain[j].rev /\ y.at = verLogEpoch /\ y.op = chain[j].op
    BY <1>1, <2>1, NodeIsCarried
  <2>8. PairLeads(x, y)
    BY <2>7 DEF IInv, Linked, PairsLead
  <2> HIDE DEF x, y
  <2>9. Leads(x.rev, y.rev, y.op) \/ \E u \in (x.rev + 1)..(y.rev - 1) : Stops(u)
    BY <2>5, <2>6, <2>7, <2>8 DEF PairLeads, Live
  <2>10. ASSUME NEW u \in (x.rev + 1)..(y.rev - 1), Stops(u) PROVE FALSE
    <3>1. u \in Nat /\ chain[p].rev < u /\ u < chain[j].rev /\ u \in chain[a].rev..chain[i].rev
      BY <1>1, <2>1, <2>2, <2>7
    <3>2. u \notin nodeless \cup shared /\ ~OnItsWay(u)
      BY <3>1
    <3>3. PICK c \in Carriers : c.rev = u
      BY <2>10, <3>2 DEF Stops, Carried
    <3>4. CASE \E t \in Committers : Carries(t) /\ c = AsBatch(verThread[t].batch)
      BY <3>2, <3>3, <3>4, BatchIsCarried DEF OnItsWay, Carries
    <3>5. CASE \E q \in DOMAIN chain : c = AsNode(chain[q], verLogEpoch)
      <4>1. PICK q \in 1..Len(chain) : chain[q].rev = u
        BY <1>1, <3>3, <3>5, NodeIsCarried
      <4>2. q \in Nat
        BY <4>1
      <4>3. ~(q < p) /\ q # p
        BY <1>1, <2>1, <3>1, <4>1
      <4>4. ~(j < q) /\ q # j
        BY <1>1, <2>1, <3>1, <4>1
      <4> QED
        BY <1>1, <2>1, <4>2, <4>3, <4>4
    <3> QED
      BY <3>4, <3>5, CarrierIs
  <2>11. Leads(chain[p].rev, chain[j].rev, chain[j].op)
    BY <2>7, <2>9, <2>10
  <2> QED
    BY <2>11 DEF p
<1> QED
  BY <1>2

(* What replaying from position a says: an image, then step by step.       *)
Replays(f, a, i) ==
  f = [j \in a..i |-> IF j = a THEN chain[j].image ELSE Replay(f[j - 1], chain[j])]

LEMMA ReplayIs ==
  ASSUME VersionsAssumption, NEW d \in Image, NEW n \in Node, Applies(d, n.op)
  PROVE  Replay(d, n) = Apply(d, n.op)
<1>1. n.op \in Op
  BY DEF Node
<1>2. d # Unreadable
  <2>1. d[n.op.key] \in 0..MaxCommits /\ n.op.key \in Keys
    BY <1>1, OpHasKey DEF Image
  <2>2. Unreadable[n.op.key] = -1
    BY <2>1 DEF Unreadable, Unknown
  <2>3. -1 \notin 0..MaxCommits
    BY DEF VersionsAssumption
  <2> QED
    BY <2>1, <2>2, <2>3
<1> QED
  BY <1>2 DEF Replay

(* Where each node leads from the one before it, the documents are what    *)
(* replaying gives, and nothing else is.                                   *)
LEMMA DocumentsAreReplayed ==
  ASSUME VersionsAssumption, Typed, Known, NEW a \in DOMAIN chain, NEW i \in DOMAIN chain, a <= i,
         chain[a].image = docs[chain[a].rev],
         \A j \in (a + 1)..i : Leads(chain[j - 1].rev, chain[j].rev, chain[j].op)
  PROVE  /\ \E f : Replays(f, a, i)
         /\ \A f : Replays(f, a, i) => f[i] = docs[chain[i].rev]
<1>1. /\ a \in Nat /\ i \in Nat /\ \A j \in a..i : j \in DOMAIN chain /\ j \in Nat
      /\ \A j \in DOMAIN chain : chain[j] \in Node
  <2>1. chain \in Seq(Node) /\ DOMAIN chain = 1..Len(chain) /\ Len(chain) \in Nat
    BY DEF Typed
  <2> QED
    BY <2>1
<1>2. \A j \in DOMAIN chain : docs[chain[j].rev] \in Image
  <2>1. \A j \in DOMAIN chain : chain[j].rev \in 2..verRev
    BY NodeIsCarried DEF Known
  <2>2. docs \in Seq(Image) /\ Len(docs) = verRev /\ verRev \in Nat
    BY SessionIs DEF Typed
  <2> QED
    BY <2>1, <2>2
<1> DEFINE W(j) == docs[chain[j].rev]
<1>3. ASSUME NEW j \in (a + 1)..i
      PROVE  Replay(W(j - 1), chain[j]) = W(j)
  <2>1. j \in a..i /\ j - 1 \in a..i
    BY <1>1
  <2>2. W(j - 1) \in Image /\ chain[j] \in Node
    BY <1>1, <1>2, <2>1
  <2>3. Applies(W(j - 1), chain[j].op) /\ W(j) = Apply(W(j - 1), chain[j].op)
    BY DEF Leads
  <2> HIDE DEF W
  <2> QED
    BY <2>2, <2>3, ReplayIs
<1>4. \E f : Replays(f, a, i)
  <2> DEFINE g == [j \in a..i |-> W(j)]
  <2>1. ASSUME NEW j \in a..i
        PROVE  g[j] = IF j = a THEN chain[j].image ELSE Replay(g[j - 1], chain[j])
    <3>1. CASE j = a
      BY <3>1
    <3>2. CASE j # a
      <4>1. j \in (a + 1)..i /\ j - 1 \in a..i
        BY <1>1, <3>2
      <4>2. g[j] = W(j) /\ g[j - 1] = W(j - 1)
        BY <4>1
      <4> QED
        BY <1>3, <3>2, <4>1, <4>2
    <3> QED
      BY <3>1, <3>2
  <2>2. g = [j \in a..i |-> g[j]]
    OBVIOUS
  <2> HIDE DEF g
  <2>3. g = [j \in a..i |-> IF j = a THEN chain[j].image ELSE Replay(g[j - 1], chain[j])]
    BY <2>1, <2>2
  <2> QED
    BY <2>3 DEF Replays
<1>5. ASSUME NEW f, Replays(f, a, i)
      PROVE  f[i] = W(i)
  <2> DEFINE Apart == {j \in a..i : f[j] # W(j)}
  <2>1. \A j \in a..i : f[j] = IF j = a THEN chain[j].image ELSE Replay(f[j - 1], chain[j])
    BY <1>5 DEF Replays
  <2>2. Apart \in SUBSET Nat
    BY <1>1
  <2>3. Apart = {}
    <3> SUFFICES ASSUME Apart # {} PROVE FALSE
      OBVIOUS
    <3> HIDE DEF Apart
    <3>1. PICK j \in Apart : \A k \in Apart : j <= k
      BY <2>2, LeastNatural
    <3> USE DEF Apart
    <3>2. j # a
      <4>1. a \in a..i /\ f[a] = chain[a].image
        BY <1>1, <2>1
      <4> QED
        BY <3>1, <4>1
    <3>3. j \in (a + 1)..i /\ j - 1 \in a..i /\ j \in a..i
      BY <1>1, <3>1, <3>2
    <3>4. f[j - 1] = W(j - 1)
      BY <1>1, <3>1, <3>3
    <3>5. f[j] = Replay(f[j - 1], chain[j])
      BY <2>1, <3>2, <3>3
    <3> QED
      BY <1>3, <3>1, <3>3, <3>4, <3>5
  <2>4. i \in a..i
    BY <1>1
  <2> QED
    BY <2>3, <2>4
<1> QED
  BY <1>4, <1>5

LEMMA LinkedIsReadBack ==
  ASSUME VersionsAssumption, IInv
  PROVE  VersionsReadBack
<1> SUFFICES ASSUME NEW r \in {chain[i].rev : i \in DOMAIN chain},
                    \A u \in chain[BaseOf(Found(r))].rev..r : u \notin nodeless \cup shared /\ ~OnItsWay(u)
             PROVE  Replayed(Found(r)) = docs[r]
  BY DEF VersionsReadBack
<1> DEFINE i == Found(r)
           a == BaseOf(i)
<1>1. i \in DOMAIN chain /\ chain[i].rev = r
  <2> DEFINE D == {j \in DOMAIN chain : chain[j].rev = r}
  <2>1. D \in SUBSET Nat /\ D # {}
    BY DEF IInv, Typed
  <2>2. \A j \in D : j \in DOMAIN chain /\ chain[j].rev = r
    OBVIOUS
  <2>3. i = Min(D)
    BY DEF Found
  <2> HIDE DEF D, i
  <2>4. Min(D) \in D
    BY <2>1, MinIs
  <2> QED
    BY <2>2, <2>3, <2>4
<1> HIDE DEF i
<1>2. a \in 1..i /\ chain[a].materialized
  BY <1>1, BaseIs DEF IInv
<1>3. a \in DOMAIN chain /\ a <= i
  BY <1>1, <1>2 DEF IInv, Typed
<1>4. \A u \in chain[a].rev..chain[i].rev : u \notin nodeless \cup shared /\ ~OnItsWay(u)
  BY <1>1 DEF i
<1>5. Replayed(i) = (CHOOSE f : Replays(f, a, i))[i]
  BY DEF Replayed, Replays
<1> HIDE DEF a
<1>6. \A j \in (a + 1)..i : Leads(chain[j - 1].rev, chain[j].rev, chain[j].op)
  BY <1>1, <1>3, <1>4, NodesLead
<1>7. chain[a].image = docs[chain[a].rev]
  <2>1. chain[a].rev \in Nat /\ chain[i].rev \in Nat /\ chain[a].rev <= chain[i].rev
    <3>1. a \in 1..Len(chain) /\ i \in 1..Len(chain) /\ Len(chain) \in Nat /\ DOMAIN chain = 1..Len(chain)
          /\ chain[a].rev \in Nat /\ chain[i].rev \in Nat
      BY <1>1, <1>3 DEF IInv, Typed
    <3>2. a = i \/ a < i
      BY <1>3, <3>1
    <3> QED
      BY <3>1, <3>2 DEF IInv, Kept
  <2>2. chain[a].rev \notin shared
    BY <1>4, <2>1
  <2> QED
    BY <1>2, <1>3, <2>2 DEF IInv, Linked, Images
<1>8. /\ \E f : Replays(f, a, i)
      /\ \A f : Replays(f, a, i) => f[i] = docs[chain[i].rev]
  BY <1>1, <1>3, <1>6, <1>7, DocumentsAreReplayed DEF IInv, Linked
<1>9. Replayed(i) = docs[chain[i].rev]
  BY <1>5, <1>8
<1> QED
  BY <1>1, <1>9 DEF i

LEMMA TypedIsTyped ==
  ASSUME VersionsAssumption, Typed
  PROVE  VersionTypes
<1>1. drag.open \in BOOLEAN /\ drag.op \in Op \cup {NoOp} /\ drag.folds \subseteq 1..MaxCommits
  BY DEF Typed, AnyDrag
<1>2. ASSUME NEW t \in Committers
      PROVE  \/ verThread[t] = AtRest
             \/ verThread[t].pc = "closing" /\ verThread[t].drag.op \in Op /\ verThread[t].drag.folds # {}
             \/ verThread[t].pc = "record" /\ verThread[t].batch \in Committed
             \/ verThread[t].pc = "boundary" /\ verThread[t].at \in 0..MaxSwaps
  <2>1. verThread[t] \in ThreadState
    BY DEF Typed
  <2> QED
    BY <2>1, AtEachPc DEF Written, Sent
<1> QED
  BY <1>1, <1>2 DEF Typed, VersionTypes

----------------------------------------------------------------------------
(* Theorems.                                                               *)

(* The inductive invariant: types, the chain's own order and weight, and   *)
(* what links revisions, batches on their way, drags and nodes.            *)
THEOREM VersionsInvariant == ASSUME VersionsAssumption PROVE VersionSpec => []IInv
<1>1. VersionInit => IInv
  BY InitTyped, InitLinked DEF IInv
<1>2. IInv /\ [VersionNext]_verVars => IInv'
  <2> SUFFICES ASSUME IInv, [VersionNext]_verVars PROVE IInv'
    OBVIOUS
  <2>1. Typed /\ Kept /\ Linked
    BY DEF IInv
  <2> QED
    BY <2>1, NextTyped, NextKeeps, NextLinked DEF IInv
<1> QED
  BY <1>1, <1>2, PTL DEF VersionSpec

(* Whatever order batches arrive in, whatever is evicted, and however      *)
(* commits, drags and replaced documents interleave, the chain kept for    *)
(* the history browser is well typed, ordered, rooted in an image and      *)
(* weighed, and a version is read back from it as the document was at its  *)
(* revision (vergraph.rs: record, evict, replay_plan).                     *)
THEOREM VersionsStaySound == ASSUME VersionsAssumption PROVE VersionSpec => []VersionsAreSound
<1>1. IInv => VersionsAreSound
  BY TypedIsTyped, KeptIsKept, LinkedIsReadBack DEF IInv, VersionsAreSound
<1> QED
  BY <1>1, VersionsInvariant, PTL

=============================================================================
