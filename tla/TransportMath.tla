--------------------------- MODULE TransportMath ---------------------------
(***************************************************************************)
(* src-tauri/src/audio/transport.rs: where the playhead is after a block,  *)
(* and whether the block carried it across a marked point.  Positions are  *)
(* samples, 0..MaxSample (u64 in the code, where addition saturates).      *)
(***************************************************************************)
EXTENDS Naturals

CONSTANT MaxSample   \* u64::MAX

ASSUME MaxSampleAssumption == MaxSample \in Nat

Samples == 0..MaxSample
LoopSpecs == [enabled : BOOLEAN, start : Samples, end : Samples]

(* `Option<u64>`: a set of at most one sample. *)
Nowhere == {}

Active(lp) == lp.enabled /\ lp.end > lp.start

SaturatingAdd(a, b) == IF a + b > MaxSample THEN MaxSample ELSE a + b

(* Faulty: the wrap takes off one span, however far the block overshot. *)
AdvanceOneSpan(pos, frames, lp) ==
  LET new == SaturatingAdd(pos, frames)
  IN IF Active(lp) /\ pos < lp.end /\ new >= lp.end
     THEN new - (lp.end - lp.start)
     ELSE new

(* Faulty: a block that ends exactly on the loop's end does not wrap. *)
AdvanceLate(pos, frames, lp) ==
  LET new == SaturatingAdd(pos, frames)
  IN IF Active(lp) /\ pos < lp.end /\ new > lp.end
     THEN lp.start + ((new - lp.start) % (lp.end - lp.start))
     ELSE new

(* Wrap a block that reaches the end of the loop from before it. *)
Advance(pos, frames, lp) ==
  LET new == SaturatingAdd(pos, frames)
  IN IF Active(lp) /\ pos < lp.end /\ new >= lp.end
     THEN lp.start + ((new - lp.start) % (lp.end - lp.start))
     ELSE new

(* Faulty: the block's last sample, not the point, is reported. *)
CrossingAtBlockEdge(base, frames, lp, point) ==
  LET reached == Advance(base, frames, lp)
  IN IF point = 0 \/ frames = 0 \/ base >= point \/ reached < point
     THEN Nowhere ELSE {reached}

(* Has the block base..base + frames reached `point`?  0 means no point. *)
Crossing(base, frames, lp, point) ==
  LET reached == Advance(base, frames, lp)
      turnedBack == Active(lp) /\ base < lp.end /\ reached < base
  IN IF point = 0 \/ frames = 0 \/ base >= point \/ turnedBack \/ reached < point
     THEN Nowhere ELSE {point}
=============================================================================
