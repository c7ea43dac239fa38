---------------------------- MODULE GainSeqlock ----------------------------
(***************************************************************************)
(* src-tauri/src/audio/rt.rs, `ParamTable`: the sequence lock around one   *)
(* slot's pair of fader values.  `gain` is the value heard now, `base_gain`*)
(* the document's; a relative automation recording divides one by the      *)
(* other and so needs both of one moment.                                  *)
(*                                                                         *)
(* The data are Relaxed atomics.  InOrder says whether the machine runs    *)
(* the two data loads before the load that re-checks the counter (x86      *)
(* does; the memory orders written in the code do not ask for it).         *)
(***************************************************************************)
EXTENDS Naturals

CONSTANTS
  Gains,       \* the fader values tried
  Unity,       \* the value of a fresh table (1.0)
  Writers,     \* threads calling the setters
  Readers,     \* threads calling gain_pair_linear
  SeqModulus,  \* the counter wraps here (2^32)
  InOrder,     \* TRUE: loads complete in program order
  MaxWrites    \* bound: setter calls

ASSUME GainsAssumption == Unity \in Gains
ASSUME ModulusAssumption == SeqModulus \in Nat \ {0, 1} /\ SeqModulus % 2 = 0
ASSUME ModelAssumption == InOrder \in BOOLEAN /\ MaxWrites \in Nat

VARIABLES
  live,       \* gain[slot]
  base,       \* base_gain[slot]
  seq,        \* gain_seq[slot]
  w,          \* w[t]: the writer t (see WriterState)
  r,          \* r[t]: the reader t (see ReaderState)
  begun,      \* history: setter calls
  committed   \* history: the pair after the last finished write

gainVars == <<live, base, seq, w, r, begun, committed>>

(* set_gain_linear, set_base_gain_linear and set_gain_pair_linear store    *)
(* these halves.                                                           *)
Halves == {"live", "base"}
Ops == {{"live"}, {"base"}, {"live", "base"}}

Pair == [live : Gains, base : Gains]

Even(n) == n % 2 = 0

(* What the counter shows when no writer is inside. *)
Stable == {n \in 0..(SeqModulus - 1) : Even(n)}

(* `todo` holds the halves not stored yet. *)
WriterState ==
  [pc : {"idle", "load", "cas", "store"}, op : SUBSET Halves, todo : SUBSET Halves,
   value : Gains, seen : Stable]

(* `todo` holds the halves not loaded yet and, until it is done, the       *)
(* re-check; `at` is history: the committed pair when `before` was loaded. *)
ReaderState ==
  [pc : {"idle", "load", "read", "done"}, todo : SUBSET (Halves \cup {"check"}),
   before : 0..(SeqModulus - 1), after : 0..(SeqModulus - 1), got : Pair, at : Pair]

(* wrapping_add and fetch_add *)
Succ(n) == (n + 1) % SeqModulus

(* The pair with the halves of op replaced: what a finished setter makes.  *)
Written(pair, op, value) ==
  [live |-> IF "live" \in op THEN value ELSE pair.live,
   base |-> IF "base" \in op THEN value ELSE pair.base]

Fresh == [live |-> Unity, base |-> Unity]
IdleWriter == [pc |-> "idle", op |-> {}, todo |-> {}, value |-> Unity, seen |-> 0]
IdleReader ==
  [pc |-> "idle", todo |-> {}, before |-> 0, after |-> 0, got |-> Fresh, at |-> Fresh]

GainInit ==
  /\ live = Unity /\ base = Unity
  /\ seq = 0
  /\ w = [t \in Writers |-> IdleWriter]
  /\ r = [t \in Readers |-> IdleReader]
  /\ begun = 0
  /\ committed = Fresh

----------------------------------------------------------------------------
(* Faulty variants of definitions below: plausible bugs, not code.         *)

(* A writer enters by adding one, without asking if another is inside. *)
EnterAdds(t) ==
  /\ w[t].pc = "cas"
  /\ seq' = Succ(seq)
  /\ w' = [w EXCEPT ![t].pc = "store", ![t].seen = 0]
  /\ UNCHANGED <<live, base, r, begun, committed>>

(* After a failed exchange the writer tries again with the old value. *)
EnterFailsStale(t) ==
  /\ w[t].pc = "cas"
  /\ UNCHANGED gainVars

(* The reader takes an odd counter for a stable one. *)
LoadSeqAnyway(t) ==
  /\ r[t].pc = "load"
  /\ r' = [r EXCEPT ![t].pc = "read", ![t].before = seq, ![t].at = committed,
                    ![t].todo = Halves \cup {"check"}]
  /\ UNCHANGED <<live, base, seq, w, begun, committed>>

----------------------------------------------------------------------------
(* A setter.                                                               *)

Call(t) ==
  /\ w[t].pc = "idle"
  /\ begun < MaxWrites
  /\ begun' = begun + 1
  /\ \E op \in Ops, value \in Gains :
       w' = [w EXCEPT ![t].pc = "load", ![t].op = op, ![t].todo = op, ![t].value = value]
  /\ UNCHANGED <<live, base, seq, r, committed>>

(* begin_gain_write: spin until the counter is even ... *)
LoadSeqToWrite(t) ==
  /\ w[t].pc = "load"
  /\ Even(seq)
  /\ w' = [w EXCEPT ![t].pc = "cas", ![t].seen = seq]
  /\ UNCHANGED <<live, base, seq, r, begun, committed>>

(* ... and make it odd, if it has not moved. *)
Enter(t) ==
  /\ w[t].pc = "cas"
  /\ seq = w[t].seen
  /\ seq' = Succ(seq)
  /\ w' = [w EXCEPT ![t].pc = "store", ![t].seen = 0]
  /\ UNCHANGED <<live, base, r, begun, committed>>

(* compare_exchange_weak fails when the counter moved, and may at any time.*)
EnterFails(t) ==
  /\ w[t].pc = "cas"
  /\ w' = [w EXCEPT ![t].pc = "load", ![t].seen = 0]
  /\ UNCHANGED <<live, base, seq, r, begun, committed>>

(* Relaxed stores: in either order. *)
StoreHalf(t, half) ==
  /\ w[t].pc = "store" /\ half \in w[t].todo
  /\ live' = IF half = "live" THEN w[t].value ELSE live
  /\ base' = IF half = "base" THEN w[t].value ELSE base
  /\ w' = [w EXCEPT ![t].todo = @ \ {half}]
  /\ UNCHANGED <<seq, r, begun, committed>>

(* end_gain_write, a release: after the stores. *)
Leave(t) ==
  /\ w[t].pc = "store" /\ w[t].todo = {}
  /\ seq' = Succ(seq)
  /\ committed' = Written(committed, w[t].op, w[t].value)
  /\ w' = [w EXCEPT ![t] = IdleWriter]
  /\ UNCHANGED <<live, base, r, begun>>

----------------------------------------------------------------------------
(* gain_pair_linear.                                                       *)

Ask(t) ==
  /\ r[t].pc = "idle"
  /\ r' = [r EXCEPT ![t].pc = "load"]
  /\ UNCHANGED <<live, base, seq, w, begun, committed>>

(* Spin until the counter is even. *)
LoadSeqToRead(t) ==
  /\ r[t].pc = "load"
  /\ Even(seq)
  /\ r' = [r EXCEPT ![t].pc = "read", ![t].before = seq, ![t].at = committed,
                    ![t].todo = Halves \cup {"check"}]
  /\ UNCHANGED <<live, base, seq, w, begun, committed>>

LoadHalf(t, half) ==
  /\ r[t].pc = "read" /\ half \in r[t].todo
  /\ r' = [r EXCEPT ![t].todo = @ \ {half},
                    ![t].got = Written(@, {half}, IF half = "live" THEN live ELSE base)]
  /\ UNCHANGED <<live, base, seq, w, begun, committed>>

(* An acquire load orders what follows it, not the loads before it. *)
CheckAllowed(t) == InOrder => r[t].todo = {"check"}

CheckSeq(t) ==
  /\ r[t].pc = "read" /\ "check" \in r[t].todo
  /\ CheckAllowed(t)
  /\ r' = [r EXCEPT ![t].todo = @ \ {"check"}, ![t].after = seq]
  /\ UNCHANGED <<live, base, seq, w, begun, committed>>

Decide(t) ==
  /\ r[t].pc = "read" /\ r[t].todo = {}
  /\ r' = [r EXCEPT ![t] = IF @.after = @.before
                              THEN [@ EXCEPT !.pc = "done", !.before = 0, !.after = 0]
                              ELSE [IdleReader EXCEPT !.pc = "load"]]
  /\ UNCHANGED <<live, base, seq, w, begun, committed>>

Return(t) ==
  /\ r[t].pc = "done"
  /\ r' = [r EXCEPT ![t] = IdleReader]
  /\ UNCHANGED <<live, base, seq, w, begun, committed>>

Write(t) ==
  \/ LoadSeqToWrite(t) \/ Enter(t) \/ EnterFails(t)
  \/ (\E half \in Halves : StoreHalf(t, half)) \/ Leave(t)

Read(t) ==
  \/ LoadSeqToRead(t) \/ (\E half \in Halves : LoadHalf(t, half))
  \/ CheckSeq(t) \/ Decide(t) \/ Return(t)

GainNext ==
  \/ \E t \in Writers : Call(t) \/ Write(t)
  \/ \E t \in Readers : Ask(t) \/ Read(t)

GainSpec == GainInit /\ [][GainNext]_gainVars

(* Both are loops of a running thread; the exchange of a thread does not   *)
(* fail spuriously for ever.                                               *)
GainFairSpec ==
  /\ GainSpec
  /\ \A t \in Writers : WF_gainVars(Write(t)) /\ SF_gainVars(Enter(t))
  /\ \A t \in Readers : WF_gainVars(Read(t))

----------------------------------------------------------------------------
(* Properties.                                                             *)

GainTypeOK ==
  /\ live \in Gains /\ base \in Gains
  /\ seq \in 0..(SeqModulus - 1)
  /\ w \in [Writers -> WriterState]
  /\ r \in [Readers -> ReaderState]
  /\ begun \in 0..MaxWrites
  /\ committed \in Pair

(* While nobody is writing, memory holds what the finished writes of all   *)
(* threads produce one after the other: no write is lost or mixed.         *)
WritesAreSerial ==
  Even(seq) => live = committed.live /\ base = committed.base

(* A reader returns the pair that was in place when it began its last try. *)
CoherentSnapshot == \A t \in Readers : r[t].pc = "done" => r[t].got = r[t].at

(* A setter that is called returns, and so does a reader. *)
EveryAccessReturns ==
  /\ \A t \in Writers : w[t].pc # "idle" ~> w[t].pc = "idle"
  /\ \A t \in Readers : r[t].pc # "idle" ~> r[t].pc = "idle"
=============================================================================
