---------------------------- MODULE SharedProofs ----------------------------
(***************************************************************************)
(* Theorems about the values threads hand over through shared memory.      *)
(* TripleBuffer, for every payload type and any number of publications.    *)
(* GainSeqlock: with any number of threads the writers are serial, also    *)
(* when the counter wraps; a reader's pair is coherent on a machine that   *)
(* keeps loads in order, while the counter does not wrap.  CommitPipeline: *)
(* the tables and the graph follow the document, for any number of         *)
(* threads, tracks and changes.                                            *)
(***************************************************************************)
EXTENDS TripleBuffer, GainSeqlock, CommitPipeline, FiniteSetTheorems, TLAPS

----------------------------------------------------------------------------
(* The triple buffer.                                                      *)

(***************************************************************************)
(* The inductive invariant.  Permutation alone is not inductive for the    *)
(* content: what the reader sees depends on what is in the handoff slot,   *)
(* which is what the writer had finished when it published.                *)
(***************************************************************************)

(* The slots out of the writer's hands hold published values. *)
OthersWhole == \A i \in {ridx, handoff.idx} : Whole(i)

(* The writer's slot: a whole value, old or finished, or the fields        *)
(* already stored of the next one.                                         *)
WriterSlot ==
  /\ wleft = {} => (Whole(widx) \/ Holds(widx, published + 1))
  /\ wleft # {} => \A f \in Fields \ wleft : slots[widx][f] = published + 1
  /\ wleft # {} => published < MaxPublishes

(* What has been copied is what the borrowed slot holds. *)
CopiesAgree ==
  /\ rpc = "borrow" => \A c \in copied : c.version = Version(ridx)
  /\ NoTornRead

(* A pending swap has an update to take (only the reader clears the bit),  *)
(* and no borrow of the slot it gives away is left.                        *)
SwapIsDirty == rpc = "swap" => handoff.dirty /\ copied = {}

(* Disposed values are out of reach, and two slots never share a value. *)
Disposed ==
  /\ disposed \subseteq 1..published
  /\ \A i \in {ridx, handoff.idx} : Version(i) \notin disposed
  /\ Version(ridx) # Empty => Version(ridx) # Version(handoff.idx)
  /\ wleft = {} /\ Version(widx) # Empty =>
       /\ Version(widx) \notin disposed
       /\ \A i \in {ridx, handoff.idx} : Version(i) # Version(widx)

IInv ==
  /\ BufferTypeOK
  /\ Permutation
  /\ NewestIsReachable
  /\ OthersWhole
  /\ WriterSlot
  /\ CopiesAgree
  /\ SwapIsDirty
  /\ Disposed

----------------------------------------------------------------------------

(* The field Version looks at is a field. *)
LEMMA SomeField == (CHOOSE f \in Fields : TRUE) \in Fields
  BY FieldsAssumption

(* A slot that holds v is at version v, and a whole slot holds its version. *)
LEMMA VersionIsHeld ==
  ASSUME NEW i \in Idx, NEW v, Holds(i, v)
  PROVE  Version(i) = v
  BY SomeField DEF Holds, Version

LEMMA WholeHoldsVersion ==
  ASSUME NEW i \in Idx, Whole(i)
  PROVE  Holds(i, Version(i)) /\ Version(i) \in 0..published
  BY SomeField DEF Whole, Holds, Version

(* The invariant holds of a fresh buffer. *)
LEMMA InitIInv == BufferInit => IInv
  <1> SUFFICES ASSUME BufferInit PROVE IInv OBVIOUS
  <1> USE SomeField, MaxPublishesAssumption DEF BufferInit, Idx, Empty
  <1>1. BufferTypeOK BY DEF BufferTypeOK
  <1>2. Permutation BY DEF Permutation
  <1>3. NewestIsReachable /\ OthersWhole BY DEF NewestIsReachable, OthersWhole, Whole, Holds
  <1>4. WriterSlot BY DEF WriterSlot, Whole, Holds
  <1>5. CopiesAgree /\ SwapIsDirty BY DEF CopiesAgree, NoTornRead, SwapIsDirty
  <1>6. Disposed BY DEF Disposed, Version
  <1> QED BY <1>1, <1>2, <1>3, <1>4, <1>5, <1>6 DEF IInv

(* Every step of either thread preserves it. *)
LEMMA StepIInv == IInv /\ [BufferNext]_bufferVars => IInv'
  <1> SUFFICES ASSUME IInv, [BufferNext]_bufferVars PROVE IInv' OBVIOUS
  <1> USE SomeField, MaxPublishesAssumption DEF IInv
  <1>1. CASE Overwrite
    <2> USE <1>1 DEF Overwrite, rvars
    <2>a. Version(widx) \in 0..published
      BY WholeHoldsVersion DEF BufferTypeOK, WriterSlot
    <2>b. disposed' = disposed \cup ({Version(widx)} \ {Empty})
      BY DEF Dispose
    <2>c. {Version(widx)} \ {Empty} \subseteq 1..published
      BY <2>a DEF BufferTypeOK, Empty
    <2>1. BufferTypeOK' /\ Permutation'
      <3>1. 1..published \subseteq 1..MaxPublishes
        BY DEF BufferTypeOK
      <3>2. disposed' \subseteq 1..MaxPublishes
        BY <2>b, <2>c, <3>1 DEF BufferTypeOK
      <3> QED BY <3>2 DEF BufferTypeOK, Permutation
    <2>2. NewestIsReachable' /\ OthersWhole' BY DEF NewestIsReachable, OthersWhole, Whole, Holds
    <2>3. WriterSlot' BY DEF WriterSlot, BufferTypeOK
    <2>4. CopiesAgree' /\ SwapIsDirty' BY DEF CopiesAgree, NoTornRead, SwapIsDirty, Version
    <2>5. Disposed'
      <3>1. disposed' \subseteq 1..published
        BY <2>b, <2>c DEF Disposed
      <3>2. \A i \in {ridx, handoff.idx} : Version(i) \notin disposed'
        BY <2>b DEF Disposed
      <3>3. wleft' # {}
        BY FieldsAssumption
      <3> QED BY <3>1, <3>2, <3>3 DEF Disposed, Version
    <2> QED BY <2>1, <2>2, <2>3, <2>4, <2>5
  <1>2. ASSUME NEW f \in Fields, StoreField(f) PROVE IInv'
    <2> USE <1>2 DEF StoreField, rvars
    <2>1. BufferTypeOK'
      <3>1. published + 1 \in 0..MaxPublishes
        BY DEF BufferTypeOK, WriterSlot
      <3>2. slots' \in [Idx -> [Fields -> 0..MaxPublishes]]
        BY <3>1 DEF BufferTypeOK
      <3> QED BY <3>2 DEF BufferTypeOK
    <2>2. Permutation' BY DEF Permutation
    <2>3. \A i \in Idx \ {widx} : slots'[i] = slots[i] BY DEF BufferTypeOK
    <2>4. NewestIsReachable' /\ OthersWhole' BY <2>3 DEF BufferTypeOK, Permutation, NewestIsReachable, OthersWhole, Whole, Holds
    <2>5. WriterSlot' BY DEF WriterSlot, BufferTypeOK, Holds
    <2>6. CopiesAgree' /\ SwapIsDirty' BY <2>3 DEF BufferTypeOK, Permutation, CopiesAgree, NoTornRead, SwapIsDirty, Version
    <2>7. Disposed'
      <3>1. /\ Version(ridx)' = Version(ridx)
            /\ Version(handoff.idx)' = Version(handoff.idx)
            /\ Version(ridx) \in 0..published
            /\ Version(handoff.idx) \in 0..published
        BY <2>3, WholeHoldsVersion DEF Version, BufferTypeOK, Permutation, OthersWhole
      <3>2. wleft' = {} => Version(widx)' = published + 1
        BY <2>1 DEF WriterSlot, BufferTypeOK, Version
      <3> QED BY <3>1, <3>2 DEF Disposed, BufferTypeOK
    <2> QED BY <2>1, <2>2, <2>4, <2>5, <2>6, <2>7
  <1>3. CASE Publish
    <2> USE <1>3 DEF Publish, rvars
    <2>1. BufferTypeOK' /\ Permutation' BY DEF BufferTypeOK, Permutation, Holds
    <2>2. NewestIsReachable' /\ OthersWhole' BY DEF BufferTypeOK, NewestIsReachable, OthersWhole, Whole, Holds
    <2>3. WriterSlot' BY DEF WriterSlot, BufferTypeOK, OthersWhole, Whole, Holds
    <2>4. CopiesAgree' /\ SwapIsDirty' BY DEF CopiesAgree, NoTornRead, SwapIsDirty, Version
    <2>5. Disposed' BY DEF Disposed, Version, Permutation, OthersWhole, WriterSlot, Whole, Holds, Empty, BufferTypeOK
    <2> QED BY <2>1, <2>2, <2>3, <2>4, <2>5
  <1>4. CASE Replace
    <2> USE <1>4 DEF Replace, rvars
    <2>a. Version(widx) \in 1..published
      BY WholeHoldsVersion DEF BufferTypeOK, WriterSlot, Empty
    <2>b. disposed' = disposed \cup {Version(widx)}
      BY <2>a DEF Dispose, Empty
    <2>1. BufferTypeOK'
      <3>1. {Version(widx)} \subseteq 1..MaxPublishes
        BY <2>a DEF BufferTypeOK
      <3>2. disposed' \subseteq 1..MaxPublishes
        BY <2>b, <3>1 DEF BufferTypeOK
      <3>3. slots' \in [Idx -> [Fields -> 0..MaxPublishes]]
        BY DEF BufferTypeOK, Empty
      <3> QED BY <3>2, <3>3 DEF BufferTypeOK
    <2>2. Permutation' BY DEF Permutation
    <2>3. \A i \in Idx \ {widx} : slots'[i] = slots[i] BY DEF BufferTypeOK
    <2>4. NewestIsReachable' /\ OthersWhole' BY <2>3 DEF BufferTypeOK, Permutation, NewestIsReachable, OthersWhole, Whole, Holds
    <2>5. WriterSlot'
      <3>1. \A f \in Fields : slots'[widx][f] = Empty
        BY DEF BufferTypeOK
      <3>2. 0 \in 0..published
        BY DEF BufferTypeOK
      <3>3. Whole(widx)'
        BY <3>1, <3>2 DEF Whole, Holds, Empty
      <3> QED BY <3>3 DEF WriterSlot
    <2>6. CopiesAgree' /\ SwapIsDirty' BY <2>3 DEF BufferTypeOK, Permutation, CopiesAgree, NoTornRead, SwapIsDirty, Version
    <2>7. Disposed'
      <3>1. /\ Version(ridx)' = Version(ridx)
            /\ Version(handoff.idx)' = Version(handoff.idx)
        BY <2>3 DEF Version, BufferTypeOK, Permutation
      <3>2. Version(widx)' = Empty
        BY DEF BufferTypeOK, Version
      <3>3. \A i \in {ridx, handoff.idx} : Version(i) # Version(widx)
        BY <2>a DEF Disposed, Empty
      <3>4. disposed' \subseteq 1..published
        <4>1. {Version(widx)} \subseteq 1..published BY <2>a
        <4> QED BY <2>b, <4>1 DEF Disposed
      <3> QED BY <2>b, <3>1, <3>2, <3>3, <3>4 DEF Disposed
    <2> QED BY <2>1, <2>2, <2>4, <2>5, <2>6, <2>7
  <1>5. CASE Updated
    <2> USE <1>5 DEF Updated, wvars
    <2>1. BufferTypeOK' /\ Permutation' BY DEF BufferTypeOK, Permutation
    <2>2. NewestIsReachable' /\ OthersWhole' /\ WriterSlot' BY DEF NewestIsReachable, OthersWhole, WriterSlot, Whole, Holds
    <2>3. CopiesAgree' /\ SwapIsDirty' BY DEF CopiesAgree, NoTornRead, SwapIsDirty
    <2>4. Disposed' BY DEF Disposed, Version
    <2> QED BY <2>1, <2>2, <2>3, <2>4
  <1>6. CASE Swap
    <2> USE <1>6 DEF Swap, wvars
    <2>1. BufferTypeOK' /\ Permutation' BY DEF BufferTypeOK, Permutation
    <2>2. NewestIsReachable' /\ OthersWhole' /\ WriterSlot' BY DEF BufferTypeOK, SwapIsDirty, NewestIsReachable, OthersWhole, WriterSlot, Whole, Holds
    <2>3. CopiesAgree' /\ SwapIsDirty'
      <3>1. copied = {}
        BY DEF SwapIsDirty
      <3> QED BY <3>1 DEF CopiesAgree, NoTornRead, SwapIsDirty
    <2>4. Disposed' BY DEF Disposed, Version, BufferTypeOK, Empty
    <2> QED BY <2>1, <2>2, <2>3, <2>4
  <1>7. ASSUME NEW f \in Fields, CopyField(f) PROVE IInv'
    <2> USE <1>7 DEF CopyField, wvars
    <2>1. slots[ridx][f] = Version(ridx) BY DEF OthersWhole, Whole, Holds, Version, BufferTypeOK
    <2>2. BufferTypeOK' /\ Permutation' BY DEF BufferTypeOK, Permutation
    <2>3. NewestIsReachable' /\ OthersWhole' /\ WriterSlot' BY DEF NewestIsReachable, OthersWhole, WriterSlot, Whole, Holds
    <2>4. CopiesAgree' /\ SwapIsDirty' BY <2>1 DEF CopiesAgree, NoTornRead, SwapIsDirty, Version
    <2>5. Disposed' BY DEF Disposed, Version
    <2> QED BY <2>2, <2>3, <2>4, <2>5
  <1>8. CASE EndBorrow
    BY <1>8 DEF EndBorrow, wvars, BufferTypeOK, Permutation, NewestIsReachable, OthersWhole, WriterSlot, Whole, Holds, CopiesAgree, NoTornRead, SwapIsDirty, Disposed, Version
  <1>9. CASE UNCHANGED bufferVars
    BY <1>9 DEF bufferVars, BufferTypeOK, Permutation, NewestIsReachable, OthersWhole, WriterSlot, Whole, Holds, CopiesAgree, NoTornRead, SwapIsDirty, Disposed, Version
  <1> QED BY <1>1, <1>2, <1>3, <1>4, <1>5, <1>6, <1>7, <1>8, <1>9 DEF BufferNext, Writer, Reader

LEMMA InvariantHolds == BufferSpec => []IInv
  BY InitIInv, StepIInv, PTL DEF BufferSpec

(* The slot of the writer, the slot of the reader and the handoff slot are *)
(* distinct in every reachable state: `slot()` and `read()` never give out *)
(* references to one slot (triple_buffer.rs, the SAFETY comments).         *)
THEOREM IndicesStayAPermutation == BufferSpec => []Permutation
  BY InvariantHolds, PTL DEF IInv

(* Whatever the interleaving of the field accesses, one borrow yields the  *)
(* fields of one published value.                                          *)
THEOREM ReadsAreNotTorn == BufferSpec => []NoTornRead
  BY InvariantHolds, PTL DEF IInv, CopiesAgree

(* A `read` that starts after a publication returns it or a newer one.     *)
THEOREM ReaderCanGetTheNewest == BufferSpec => []NewestIsReachable
  BY InvariantHolds, PTL DEF IInv

(* A value dropped or taken back by the writer is never the one the reader *)
(* holds, nor the one its next swap would give it.                         *)
THEOREM ReleaseIsSafe == BufferSpec => []NoUseAfterRelease
  <1>1. IInv => NoUseAfterRelease
    BY DEF IInv, OthersWhole, Disposed, NoUseAfterRelease
  <1> QED BY <1>1, InvariantHolds, PTL

(* The buffer implements the latest-value register: `publish` is its       *)
(* Publish, the swap is its Read, every other memory access a stutter.     *)
THEOREM BufferImplementsRegister == BufferSpec => ImplementsLatestValue
  <1>1. BufferInit => Latest!Init
    BY SomeField DEF BufferInit, Latest!Init, Version, Idx, Empty
  <1>2. IInv /\ [BufferNext]_bufferVars => [Latest!Next]_(Latest!vars)
    <2> SUFFICES ASSUME IInv, [BufferNext]_bufferVars PROVE [Latest!Next]_(Latest!vars)
      OBVIOUS
    <2> USE DEF IInv, Latest!vars, Latest!Next, Latest!Publish, Latest!Read
    <2>1. CASE Overwrite BY <2>1 DEF Overwrite, rvars, Version
    <2>2. ASSUME NEW f \in Fields, StoreField(f) PROVE [Latest!Next]_(Latest!vars)
      BY <2>2 DEF StoreField, rvars, Version, BufferTypeOK, Permutation
    <2>3. CASE Publish BY <2>3 DEF Publish, rvars, Version
    <2>4. CASE Replace BY <2>4 DEF Replace, rvars, Version, BufferTypeOK, Permutation
    <2>5. CASE Updated BY <2>5 DEF Updated, wvars, Version
    <2>6. CASE Swap
      <3>1. Version(handoff.idx) = published
        BY <2>6, VersionIsHeld DEF Swap, SwapIsDirty, NewestIsReachable, BufferTypeOK
      <3> QED BY <2>6, <3>1 DEF Swap, wvars, Version
    <2>7. ASSUME NEW f \in Fields, CopyField(f) PROVE [Latest!Next]_(Latest!vars)
      BY <2>7 DEF CopyField, wvars, Version
    <2>8. CASE EndBorrow BY <2>8 DEF EndBorrow, wvars, Version
    <2>9. CASE UNCHANGED bufferVars BY <2>9 DEF bufferVars, Version
    <2> QED BY <2>1, <2>2, <2>3, <2>4, <2>5, <2>6, <2>7, <2>8, <2>9
      DEF BufferNext, Writer, Reader
  <1> QED BY <1>1, <1>2, InvariantHolds, PTL DEF BufferSpec, Latest!Spec, ImplementsLatestValue

----------------------------------------------------------------------------
(* What a version is written over was disposed of before.                  *)
Overwritten ==
  wleft # {} => \A v \in 1..published : Holds(widx, v) => v \in disposed

LEMMA InitKept == BufferInit => NoLeak /\ Overwritten
  BY DEF BufferInit, NoLeak, Overwritten

LEMMA StepKept == IInv /\ NoLeak /\ Overwritten /\ [BufferNext]_bufferVars => NoLeak' /\ Overwritten'
  <1> SUFFICES ASSUME IInv, NoLeak, Overwritten, [BufferNext]_bufferVars
               PROVE  NoLeak' /\ Overwritten'
    OBVIOUS
  <1> USE SomeField DEF IInv
  <1>0. published \in Nat /\ widx \in Idx /\ slots \in [Idx -> [Fields -> 0..MaxPublishes]]
    BY DEF BufferTypeOK
  <1>1. CASE Overwrite
    <2>1. slots' = slots /\ published' = published /\ widx' = widx /\ disposed' = Dispose(widx)
      BY <1>1 DEF Overwrite, rvars
    <2>2. disposed \subseteq disposed'
      BY <2>1 DEF Dispose
    <2>3. ASSUME NEW v \in 1..published, Holds(widx, v) PROVE v \in disposed'
      <3>1. Version(widx) = v /\ v # Empty
        BY <1>0, <2>3, VersionIsHeld DEF Empty
      <3> QED BY <2>1, <3>1 DEF Dispose
    <2> QED BY <2>1, <2>2, <2>3 DEF NoLeak, Overwritten, Holds
  <1>2. ASSUME NEW f \in Fields, StoreField(f) PROVE NoLeak' /\ Overwritten'
    <2>1. /\ slots' = [slots EXCEPT ![widx][f] = published + 1] /\ published' = published
          /\ widx' = widx /\ disposed' = disposed /\ wleft # {}
      BY <1>2 DEF StoreField, rvars
    <2>2. \A i \in Idx \ {widx} : slots'[i] = slots[i]
      BY <1>0, <2>1
    <2>3. slots'[widx][f] = published + 1
      BY <1>0, <2>1
    <2>4. \A v \in 1..published : ~Holds(widx, v)'
      BY <1>0, <2>1, <2>3 DEF Holds
    <2>5. ASSUME NEW v \in 1..published, v \notin disposed
          PROVE  \E i \in Idx : Holds(i, v)'
      <3>1. PICK i \in Idx : Holds(i, v)
        BY <2>5 DEF NoLeak
      <3>2. i # widx
        BY <2>1, <2>5, <3>1 DEF Overwritten
      <3> QED BY <2>2, <3>1, <3>2 DEF Holds
    <2>6. NoLeak'
      BY <2>1, <2>5 DEF NoLeak
    <2>7. Overwritten'
      BY <2>1, <2>4 DEF Overwritten
    <2> QED BY <2>6, <2>7
  <1>3. CASE Publish
    <2>1. /\ slots' = slots /\ published' = published + 1 /\ disposed' = disposed
          /\ wleft' = {} /\ Holds(widx, published + 1)
      BY <1>3 DEF Publish, rvars
    <2>2. ASSUME NEW v \in 1..(published + 1), v \notin disposed
          PROVE  \E i \in Idx : Holds(i, v)
      <3>1. CASE v = published + 1
        BY <1>0, <2>1, <3>1
      <3>2. CASE v \in 1..published
        BY <2>2, <3>2 DEF NoLeak
      <3> QED BY <1>0, <3>1, <3>2
    <2> QED BY <2>1, <2>2 DEF NoLeak, Overwritten, Holds
  <1>4. CASE Replace
    <2>1. /\ slots' = [slots EXCEPT ![widx] = [f \in Fields |-> Empty]] /\ published' = published
          /\ disposed' = Dispose(widx) /\ wleft' = {}
      BY <1>4 DEF Replace, rvars
    <2>2. \A i \in Idx \ {widx} : slots'[i] = slots[i]
      BY <1>0, <2>1
    <2>3. ASSUME NEW v \in 1..published, v \notin disposed'
          PROVE  \E i \in Idx : Holds(i, v)'
      <3>1. v # Empty /\ v \notin disposed /\ v # Version(widx)
        BY <1>0, <2>1, <2>3 DEF Dispose, Empty
      <3>2. PICK i \in Idx : Holds(i, v)
        BY <3>1 DEF NoLeak
      <3>3. i # widx
        BY <3>1, <3>2, VersionIsHeld
      <3> QED BY <2>2, <3>2, <3>3 DEF Holds
    <2> QED BY <2>1, <2>3 DEF NoLeak, Overwritten
  <1>5. ASSUME UNCHANGED <<slots, published, disposed, widx, wleft>> PROVE NoLeak' /\ Overwritten'
    BY <1>5 DEF NoLeak, Overwritten, Holds
  <1>6. Reader \/ UNCHANGED bufferVars => UNCHANGED <<slots, published, disposed, widx, wleft>>
    BY DEF Reader, Updated, Swap, CopyField, EndBorrow, wvars, bufferVars
  <1> QED BY <1>1, <1>2, <1>3, <1>4, <1>5, <1>6 DEF BufferNext, Writer

(* A published value is in a slot until the writer drops it or takes it    *)
(* back: whatever the interleaving, none is lost with its pages mapped.    *)
THEOREM NothingLeaks == BufferSpec => []NoLeak
  BY InitKept, StepKept, InvariantHolds, PTL DEF BufferSpec

----------------------------------------------------------------------------
(* The counter.                                                            *)

(* Adding one to a counter value, and what it does to its parity.          *)
LEMMA SuccValue ==
  ASSUME NEW n \in 0..(SeqModulus - 1)
  PROVE  /\ Succ(n) \in 0..(SeqModulus - 1)
         /\ n + 1 < SeqModulus => Succ(n) = n + 1
         /\ Even(n) => ~Even(Succ(n))
         /\ ~Even(n) => Even(Succ(n))
<1>1. CASE n + 1 < SeqModulus
  <2>1. Succ(n) = n + 1
    BY <1>1, ModulusAssumption DEF Succ
  <2> QED
    BY <1>1, <2>1, ModulusAssumption DEF Even
<1>2. CASE n + 1 = SeqModulus
  <2>1. Succ(n) = 0
    BY <1>2, ModulusAssumption DEF Succ
  <2> QED
    BY <1>2, <2>1, ModulusAssumption DEF Even
<1> QED
  BY <1>1, <1>2, ModulusAssumption

(* A fresh counter is stable.                                              *)
LEMMA ZeroStable == 0 \in 0..(SeqModulus - 1) /\ 0 \in Stable /\ Even(0)
<1>1. 0 \in 0..(SeqModulus - 1)
  BY ModulusAssumption
<1>2. Even(0)
  BY DEF Even
<1> QED
  BY <1>1, <1>2 DEF Stable

----------------------------------------------------------------------------
(* Types.                                                                  *)

LEMMA WrittenType ==
  ASSUME NEW pair \in Pair, NEW op, NEW value \in Gains
  PROVE  Written(pair, op, value) \in Pair
BY DEF Written, Pair

LEMMA InitType == GainInit => GainTypeOK
<1> SUFFICES ASSUME GainInit PROVE GainTypeOK
  OBVIOUS
<1>1. 0 \in 0..(SeqModulus - 1) /\ 0 \in Stable /\ 0 \in 0..MaxWrites
  BY ZeroStable, ModelAssumption
<1>2. Fresh \in Pair
  BY GainsAssumption DEF Fresh, Pair
<1>3. IdleWriter \in WriterState /\ IdleReader \in ReaderState
  BY <1>1, <1>2, GainsAssumption DEF IdleWriter, IdleReader, WriterState, ReaderState, Halves
<1> QED
  BY <1>1, <1>2, <1>3, GainsAssumption DEF GainInit, GainTypeOK, IdleWriter, IdleReader

(* A step of a writer, and of a reader, keeps the types.                   *)
LEMMA WriterType ==
  ASSUME GainTypeOK, NEW t \in Writers, Call(t) \/ Write(t)
  PROVE  GainTypeOK'
<1> USE DEF GainTypeOK
<1>0. w[t] \in WriterState /\ 0 \in Stable
  BY ZeroStable
<1>1. CASE Call(t)
  <2> PICK op \in Ops, value \in Gains :
         w' = [w EXCEPT ![t].pc = "load", ![t].op = op, ![t].todo = op, ![t].value = value]
    BY <1>1 DEF Call
  <2>1. op \subseteq Halves
    BY DEF Ops, Halves
  <2>2. w' \in [Writers -> WriterState]
    BY <2>1 DEF WriterState
  <2>3. begun' \in 0..MaxWrites
    <3>1. begun < MaxWrites /\ begun' = begun + 1 /\ begun \in 0..MaxWrites
      BY <1>1 DEF Call
    <3> HIDE DEF GainTypeOK
    <3> QED
      BY ONLY <3>1, ModelAssumption
  <2> QED
    BY <1>1, <2>2, <2>3 DEF Call
<1>2. CASE LoadSeqToWrite(t)
  <2>1. seq \in Stable
    BY <1>2 DEF LoadSeqToWrite, Stable
  <2>2. [w[t] EXCEPT !.pc = "cas", !.seen = seq] \in WriterState
    BY <1>0, <2>1 DEF WriterState
  <2>3. w' \in [Writers -> WriterState]
    BY <1>2, <2>2 DEF LoadSeqToWrite
  <2> QED
    BY <1>2, <2>3 DEF LoadSeqToWrite
<1>3. CASE Enter(t)
  <2>1. w' \in [Writers -> WriterState]
    <3>1. [w[t] EXCEPT !.pc = "store", !.seen = 0] \in WriterState
      BY <1>0 DEF WriterState
    <3> QED
      BY <1>3, <3>1 DEF Enter
  <2> QED
    BY <1>3, <2>1, SuccValue DEF Enter
<1>4. CASE EnterFails(t)
  <2>1. w' \in [Writers -> WriterState]
    <3>1. [w[t] EXCEPT !.pc = "load", !.seen = 0] \in WriterState
      BY <1>0 DEF WriterState
    <3> QED
      BY <1>4, <3>1 DEF EnterFails
  <2> QED
    BY <1>4, <2>1 DEF EnterFails
<1>5. ASSUME NEW half \in Halves, StoreHalf(t, half)
      PROVE  GainTypeOK'
  <2>1. w[t].value \in Gains
    BY DEF WriterState
  <2>2. w' \in [Writers -> WriterState]
    BY <1>5 DEF StoreHalf, WriterState
  <2> QED
    BY <1>5, <2>1, <2>2 DEF StoreHalf
<1>6. CASE Leave(t)
  <2>1. IdleWriter \in WriterState
    BY ZeroStable, GainsAssumption DEF IdleWriter, WriterState, Halves
  <2>2. w' \in [Writers -> WriterState]
    BY <1>6, <2>1 DEF Leave
  <2>3. committed' \in Pair
    <3>1. w[t].value \in Gains
      BY DEF WriterState
    <3> QED
      BY <1>6, <3>1, WrittenType DEF Leave
  <2> QED
    BY <1>6, <2>2, <2>3, SuccValue DEF Leave
<1> QED
  BY <1>1, <1>2, <1>3, <1>4, <1>5, <1>6 DEF Write

LEMMA ReaderType ==
  ASSUME GainTypeOK, NEW t \in Readers, Ask(t) \/ Read(t)
  PROVE  GainTypeOK' /\ UNCHANGED <<live, base, seq, w, begun, committed>>
<1> USE DEF GainTypeOK
<1>0. r[t] \in ReaderState /\ 0 \in 0..(SeqModulus - 1)
  BY ModulusAssumption
<1>00. IdleReader \in ReaderState
  BY ModulusAssumption, GainsAssumption DEF IdleReader, ReaderState, Fresh, Pair, Halves
<1>1. CASE Ask(t)
  <2>1. r' \in [Readers -> ReaderState]
    BY <1>1 DEF Ask, ReaderState
  <2> QED
    BY <1>1, <2>1 DEF Ask
<1>2. CASE LoadSeqToRead(t)
  <2>1. r' \in [Readers -> ReaderState]
    <3>1. [r[t] EXCEPT !.pc = "read", !.before = seq, !.at = committed,
                         !.todo = Halves \cup {"check"}] \in ReaderState
      BY <1>0 DEF ReaderState
    <3> QED
      BY <1>2, <3>1 DEF LoadSeqToRead
  <2> QED
    BY <1>2, <2>1 DEF LoadSeqToRead
<1>3. ASSUME NEW half \in Halves, LoadHalf(t, half)
      PROVE  GainTypeOK' /\ UNCHANGED <<live, base, seq, w, begun, committed>>
  <2> DEFINE new == Written(r[t].got, {half}, IF half = "live" THEN live ELSE base)
  <2>1. new \in Pair
    <3>1. r[t].got \in Pair
      BY DEF ReaderState
    <3> QED
      BY <3>1, WrittenType
  <2>2. r' = [r EXCEPT ![t].todo = r[t].todo \ {half}, ![t].got = new]
    BY <1>3 DEF LoadHalf
  <2> HIDE DEF new
  <2>3. r' \in [Readers -> ReaderState]
    BY <2>1, <2>2 DEF ReaderState
  <2> QED
    BY <1>3, <2>3 DEF LoadHalf
<1>4. CASE CheckSeq(t)
  <2>1. r' \in [Readers -> ReaderState]
    BY <1>4 DEF CheckSeq, ReaderState
  <2> QED
    BY <1>4, <2>1 DEF CheckSeq
<1>5. CASE Decide(t)
  <2>1. [r[t] EXCEPT !.pc = "done", !.before = 0, !.after = 0] \in ReaderState
    BY <1>0 DEF ReaderState
  <2>2. [IdleReader EXCEPT !.pc = "load"] \in ReaderState
    BY <1>00 DEF ReaderState
  <2>3. r' \in [Readers -> ReaderState]
    BY <1>5, <2>1, <2>2 DEF Decide
  <2> QED
    BY <1>5, <2>3 DEF Decide
<1>6. CASE Return(t)
  <2>1. r' \in [Readers -> ReaderState]
    BY <1>6, <1>00 DEF Return
  <2> QED
    BY <1>6, <2>1 DEF Return
<1> QED
  BY <1>1, <1>2, <1>3, <1>4, <1>5, <1>6 DEF Read

(* Every variable keeps its type: in particular the counter stays within   *)
(* its width, however many writes there are.                               *)
THEOREM GainTypes == GainSpec => []GainTypeOK
<1>1. GainTypeOK /\ [GainNext]_gainVars => GainTypeOK'
  <2> SUFFICES ASSUME GainTypeOK, [GainNext]_gainVars PROVE GainTypeOK'
    OBVIOUS
  <2>1. CASE UNCHANGED gainVars
    BY <2>1 DEF gainVars, GainTypeOK
  <2> QED
    BY <2>1, WriterType, ReaderType DEF GainNext
<1> QED
  BY InitType, <1>1, PTL DEF GainSpec

----------------------------------------------------------------------------
(* Writers are serial.                                                     *)

Storing(t) == w[t].pc = "store"
Memory == [live |-> live, base |-> base]

(* At most one writer is inside and the counter is odd while one is.       *)
OneInside == \A t, u \in Writers : Storing(t) /\ Storing(u) => t = u
OddInside == Even(seq) <=> \A t \in Writers : ~Storing(t)

(* A writer on its way in has stored nothing and saw an even counter; one  *)
(* inside has made of the committed pair what it has stored so far.        *)
Entering ==
  \A t \in Writers :
    /\ w[t].todo \subseteq w[t].op
    /\ w[t].pc \in {"load", "cas"} => w[t].todo = w[t].op
    /\ w[t].pc = "cas" => Even(w[t].seen)
Inside ==
  \A t \in Writers :
    Storing(t) => Memory = Written(committed, w[t].op \ w[t].todo, w[t].value)

Settled == (\A t \in Writers : ~Storing(t)) => Memory = committed

SerialInv == GainTypeOK /\ OneInside /\ OddInside /\ Entering /\ Inside /\ Settled

LEMMA SerialImplies == SerialInv => WritesAreSerial
BY DEF SerialInv, OddInside, Settled, WritesAreSerial, Memory

LEMMA InitSerial == GainInit => SerialInv
<1> SUFFICES ASSUME GainInit PROVE SerialInv
  OBVIOUS
<1>1. \A t \in Writers : w[t] = IdleWriter
  BY DEF GainInit
<1>2. \A t \in Writers : w[t].pc = "idle" /\ w[t].todo = {}
  BY <1>1 DEF IdleWriter
<1>3. Even(seq)
  BY DEF GainInit, Even
<1>4. Memory = committed
  BY DEF GainInit, Memory, Fresh
<1> QED
  BY <1>2, <1>3, <1>4, InitType
  DEF SerialInv, OneInside, OddInside, Entering, Inside, Settled, Storing

(* Storing nothing of a pair leaves it; storing all of op is Written.      *)
LEMMA WrittenNone ==
  ASSUME NEW pair \in Pair, NEW value PROVE Written(pair, {}, value) = pair
BY DEF Written, Pair

(* A step that keeps memory, counter and committed pair and moves a writer *)
(* from one place outside to another.                                      *)
LEMMA OutsideStep ==
  ASSUME SerialInv, GainTypeOK', NEW t \in Writers,
         UNCHANGED <<live, base, seq, committed>>,
         \A u \in Writers : u # t => w'[u] = w[u],
         ~Storing(t), w'[t].pc # "store",
         w'[t].todo \subseteq w'[t].op,
         w'[t].pc \in {"load", "cas"} => w'[t].todo = w'[t].op,
         w'[t].pc = "cas" => Even(w'[t].seen)
  PROVE  SerialInv'
<1>1. \A u \in Writers : Storing(u)' <=> Storing(u)
  BY DEF Storing
<1>2. Memory' = Memory /\ Even(seq)' = Even(seq)
  BY DEF Memory, Even
<1>3. OneInside' /\ OddInside' /\ Settled'
  BY <1>1, <1>2 DEF SerialInv, OneInside, OddInside, Settled
<1>4. Entering'
  BY DEF SerialInv, Entering, Even
<1>5. Inside'
  <2> SUFFICES ASSUME NEW u \in Writers, Storing(u)'
               PROVE  Memory' = Written(committed, w[u].op \ w[u].todo, w[u].value)'
    BY DEF Inside
  <2>1. u # t /\ Storing(u) /\ w'[u] = w[u]
    BY <1>1 DEF Storing
  <2>2. Memory = Written(committed, w[u].op \ w[u].todo, w[u].value)
    BY <2>1 DEF SerialInv, Inside
  <2> QED
    BY <1>2, <2>1, <2>2 DEF Written
<1> QED
  BY <1>3, <1>4, <1>5 DEF SerialInv

LEMMA WriterSerial ==
  ASSUME SerialInv, NEW t \in Writers, Call(t) \/ Write(t)
  PROVE  SerialInv'
<1>0. GainTypeOK'
  BY WriterType DEF SerialInv
<1>t. w \in [Writers -> WriterState] /\ seq \in 0..(SeqModulus - 1) /\ committed \in Pair
  BY DEF SerialInv, GainTypeOK
<1>1. CASE Call(t)
  <2> PICK op \in Ops, value \in Gains :
         w' = [w EXCEPT ![t].pc = "load", ![t].op = op, ![t].todo = op, ![t].value = value]
    BY <1>1 DEF Call
  <2>1. /\ w'[t].pc = "load" /\ w'[t].todo = w'[t].op
        /\ \A u \in Writers : u # t => w'[u] = w[u]
    BY <1>t DEF WriterState
  <2>2. ~Storing(t) /\ UNCHANGED <<live, base, seq, committed>>
    BY <1>1 DEF Call, Storing
  <2> QED
    BY <1>0, <2>1, <2>2, OutsideStep
<1>2. CASE LoadSeqToWrite(t)
  <2>1. /\ w'[t].pc = "cas" /\ w'[t].todo = w[t].todo /\ w'[t].op = w[t].op
        /\ w'[t].seen = seq
        /\ \A u \in Writers : u # t => w'[u] = w[u]
    BY <1>2, <1>t DEF LoadSeqToWrite, WriterState
  <2>2. w[t].todo = w[t].op /\ ~Storing(t)
    BY <1>2 DEF LoadSeqToWrite, SerialInv, Entering, Storing
  <2>3. Even(seq) /\ UNCHANGED <<live, base, seq, committed>>
    BY <1>2 DEF LoadSeqToWrite
  <2> QED
    BY <1>0, <2>1, <2>2, <2>3, OutsideStep
<1>3. CASE Enter(t)
  <2>1. /\ w'[t].pc = "store" /\ w'[t].todo = w[t].todo /\ w'[t].op = w[t].op
        /\ w'[t].value = w[t].value
        /\ \A u \in Writers : u # t => w'[u] = w[u]
    BY <1>3, <1>t DEF Enter, WriterState
  <2>2. w[t].todo = w[t].op /\ Even(seq)
    BY <1>3 DEF Enter, SerialInv, Entering
  <2>3. \A u \in Writers : ~Storing(u)
    BY <2>2 DEF SerialInv, OddInside
  <2>4. Memory' = committed' /\ committed' = committed
    BY <1>3, <2>3 DEF Enter, SerialInv, Settled, Memory
  <2>5. ~Even(seq')
    BY <1>3, <1>t, <2>2, SuccValue DEF Enter
  <2>6. \A u \in Writers : Storing(u)' => u = t
    BY <2>1, <2>3 DEF Storing
  <2>7. Storing(t)'
    BY <2>1 DEF Storing
  <2>8. OneInside' /\ Settled'
    BY <2>6, <2>7 DEF OneInside, Settled
  <2>9. OddInside'
    BY <2>5, <2>7 DEF OddInside, Even
  <2>10. Entering'
    BY <2>1 DEF SerialInv, Entering, Even
  <2>11. Inside'
    <3>1. w'[t].op \ w'[t].todo = {}
      BY <2>1, <2>2
    <3>2. Written(committed', {}, w'[t].value) = committed'
      BY <1>t, <2>4, WrittenNone
    <3> QED
      BY <2>4, <2>6, <3>1, <3>2 DEF Inside, Written
  <2> QED
    BY <1>0, <2>8, <2>9, <2>10, <2>11 DEF SerialInv
<1>4. CASE EnterFails(t)
  <2>1. /\ w'[t].pc = "load" /\ w'[t].todo = w[t].todo /\ w'[t].op = w[t].op
        /\ \A u \in Writers : u # t => w'[u] = w[u]
    BY <1>4, <1>t DEF EnterFails, WriterState
  <2>2. w[t].todo = w[t].op /\ ~Storing(t) /\ UNCHANGED <<live, base, seq, committed>>
    BY <1>4 DEF EnterFails, SerialInv, Entering, Storing
  <2> QED
    BY <1>0, <2>1, <2>2, OutsideStep
<1>5. ASSUME NEW half \in Halves, StoreHalf(t, half)
      PROVE  SerialInv'
  <2>1. /\ w'[t].pc = "store" /\ w'[t].todo = w[t].todo \ {half} /\ w'[t].op = w[t].op
        /\ w'[t].value = w[t].value
        /\ \A u \in Writers : u # t => w'[u] = w[u]
    BY <1>5, <1>t DEF StoreHalf, WriterState
  <2>2. Storing(t) /\ half \in w[t].todo /\ seq' = seq /\ committed' = committed
    BY <1>5 DEF StoreHalf, Storing
  <2>3. \A u \in Writers : Storing(u)' <=> Storing(u)
    BY <2>1, <2>2 DEF Storing
  <2>4. OneInside' /\ OddInside' /\ Settled'
    BY <2>2, <2>3 DEF SerialInv, OneInside, OddInside, Settled, Even
  <2>5. Entering'
    BY <2>1 DEF SerialInv, Entering, Even
  <2>6. half \in w[t].op /\ half \in Halves
    BY <1>5, <2>2 DEF SerialInv, Entering
  <2>7. Memory = Written(committed, w[t].op \ w[t].todo, w[t].value)
    BY <2>2 DEF SerialInv, Inside
  <2>8. \A h : h \in w'[t].op \ w'[t].todo <=> h = half \/ h \in w[t].op \ w[t].todo
    BY <2>1, <2>6
  <2>9. Memory' = [live |-> IF half = "live" THEN w[t].value ELSE Memory.live,
                   base |-> IF half = "base" THEN w[t].value ELSE Memory.base]
    BY <1>5 DEF StoreHalf, Memory
  <2>10. Memory' = Written(committed', w'[t].op \ w'[t].todo, w'[t].value)
    BY <2>1, <2>2, <2>6, <2>7, <2>8, <2>9 DEF Written, Halves
  <2>11. \A u \in Writers : Storing(u)' => u = t
    BY <2>2, <2>3 DEF SerialInv, OneInside
  <2>12. Inside'
    BY <2>10, <2>11 DEF Inside, Written
  <2> QED
    BY <1>0, <2>4, <2>5, <2>12 DEF SerialInv
<1>6. CASE Leave(t)
  <2>1. /\ w'[t] = IdleWriter
        /\ \A u \in Writers : u # t => w'[u] = w[u]
    BY <1>6, <1>t DEF Leave
  <2>2. Storing(t) /\ w[t].todo = {}
    BY <1>6 DEF Leave, Storing
  <2>3. \A u \in Writers : ~Storing(u)'
    BY <2>1, <2>2 DEF SerialInv, OneInside, Storing, IdleWriter
  <2>4. Even(seq')
    <3>1. ~Even(seq)
      BY <2>2 DEF SerialInv, OddInside
    <3> QED
      BY <1>6, <1>t, <3>1, SuccValue DEF Leave
  <2>5. Memory' = committed'
    <3>1. Memory = Written(committed, w[t].op \ w[t].todo, w[t].value)
      BY <2>2 DEF SerialInv, Inside
    <3>2. w[t].op \ w[t].todo = w[t].op
      BY <2>2
    <3> QED
      BY <1>6, <3>1, <3>2 DEF Leave, Memory
  <2>6. OneInside' /\ Settled' /\ Inside'
    BY <2>3, <2>5 DEF OneInside, Settled, Inside
  <2>7. OddInside'
    BY <2>3, <2>4 DEF OddInside, Even
  <2>8. Entering'
    BY <2>1 DEF SerialInv, Entering, Even, IdleWriter
  <2> QED
    BY <1>0, <2>6, <2>7, <2>8 DEF SerialInv
<1> QED
  BY <1>1, <1>2, <1>3, <1>4, <1>5, <1>6 DEF Write

(* A reader touches nothing a writer uses.                                 *)
LEMMA ReaderSerial ==
  ASSUME SerialInv, GainTypeOK', UNCHANGED <<live, base, seq, w, begun, committed>>
  PROVE  SerialInv'
<1>1. OneInside' /\ OddInside' /\ Settled'
  BY DEF SerialInv, OneInside, OddInside, Settled, Storing, Memory, Even
<1>2. Entering' /\ Inside'
  BY DEF SerialInv, Entering, Inside, Storing, Memory, Written, Even
<1> QED
  BY <1>1, <1>2 DEF SerialInv

LEMMA StepSerial == SerialInv /\ [GainNext]_gainVars => SerialInv'
<1> SUFFICES ASSUME SerialInv, [GainNext]_gainVars PROVE SerialInv'
  OBVIOUS
<1>1. CASE UNCHANGED gainVars
  BY <1>1, ReaderSerial DEF gainVars, SerialInv, GainTypeOK
<1>2. ASSUME NEW t \in Readers, Ask(t) \/ Read(t)
      PROVE  SerialInv'
  BY <1>2, ReaderType, ReaderSerial DEF SerialInv
<1> QED
  BY <1>1, <1>2, WriterSerial DEF GainNext

(* Setters of any number of threads take effect one after the other, and   *)
(* no half of one is lost, also across the counter's wrap.                 *)
THEOREM WritersAreSerial == GainSpec => []WritesAreSerial
BY InitSerial, StepSerial, SerialImplies, PTL DEF GainSpec

----------------------------------------------------------------------------
(* Readers are coherent, while the counter does not wrap: every call moves *)
(* it by two, so it is bounded by twice the number of calls.               *)

Waiting == {t \in Writers : w[t].pc \in {"load", "cas"}}
Half == IF Even(seq) THEN 0 ELSE 1

Counted ==
  /\ IsFiniteSet(Waiting)
  /\ 2 * begun = seq + Half + 2 * Cardinality(Waiting)

(* As long as the counter has not moved since a reader's first load, what  *)
(* the reader has loaded comes from the pair committed then.               *)
Unmoved(t) == r[t].before = seq
ReadingOK(t) ==
  /\ r[t].before <= seq /\ Even(r[t].before)
  /\ Unmoved(t) => r[t].at = committed
  /\ Unmoved(t) /\ "live" \notin r[t].todo => r[t].got.live = r[t].at.live
  /\ Unmoved(t) /\ "base" \notin r[t].todo => r[t].got.base = r[t].at.base
  /\ "check" \notin r[t].todo => r[t].todo = {} /\ (r[t].after = r[t].before => r[t].got = r[t].at)
Readings ==
  \A t \in Readers :
    /\ r[t].pc = "read" => ReadingOK(t)
    /\ r[t].pc = "done" => r[t].got = r[t].at

CoherentInv == SerialInv /\ Counted /\ Readings

LEMMA InitCoherent == GainInit => CoherentInv
<1> SUFFICES ASSUME GainInit PROVE CoherentInv
  OBVIOUS
<1>1. \A t \in Writers : w[t].pc = "idle"
  BY DEF GainInit, IdleWriter
<1>2. Waiting = {}
  BY <1>1 DEF Waiting
<1>3. Counted
  BY <1>2, FS_EmptySet DEF GainInit, Counted, Half, Even
<1>4. \A t \in Readers : r[t].pc = "idle"
  BY DEF GainInit, IdleReader
<1> QED
  BY <1>3, <1>4, InitSerial DEF CoherentInv, Readings

(* A step of a writer keeps the count, and the counter only moves up.      *)
LEMMA WriterCounts ==
  ASSUME 2 * MaxWrites < SeqModulus, CoherentInv, NEW t \in Writers, Call(t) \/ Write(t)
  PROVE  /\ Counted'
         /\ seq' = seq \/ seq' = seq + 1
         /\ committed' # committed => seq' = seq + 1
<1>t. /\ w \in [Writers -> WriterState] /\ seq \in Nat /\ seq \in 0..(SeqModulus - 1)
      /\ begun \in Nat /\ begun <= MaxWrites /\ MaxWrites \in Nat /\ SeqModulus \in Nat
  BY ModulusAssumption, ModelAssumption DEF CoherentInv, SerialInv, GainTypeOK
<1>c. /\ IsFiniteSet(Waiting) /\ Cardinality(Waiting) \in Nat
      /\ 2 * begun = seq + Half + 2 * Cardinality(Waiting)
  BY FS_CardinalityType DEF CoherentInv, Counted
<1>1. CASE Call(t)
  <2>1. PICK op \in Ops, value \in Gains :
         w' = [w EXCEPT ![t].pc = "load", ![t].op = op, ![t].todo = op, ![t].value = value]
    BY <1>1 DEF Call
  <2>2. Waiting' = Waiting \cup {t}
    BY <2>1, <1>t DEF Waiting, WriterState
  <2>3. t \notin Waiting
    BY <1>1 DEF Call, Waiting
  <2>4. IsFiniteSet(Waiting') /\ Cardinality(Waiting') = Cardinality(Waiting) + 1
    BY <2>2, <2>3, <1>c, FS_AddElement
  <2>5. seq' = seq /\ Half' = Half /\ begun' = begun + 1 /\ committed' = committed
    BY <1>1 DEF Call, Half, Even
  <2>6. Half \in {0, 1}
    BY DEF Half
  <2> QED
    BY <2>4, <2>5, <2>6, <1>c, <1>t DEF Counted
<1>2. CASE LoadSeqToWrite(t) \/ EnterFails(t) \/ \E half \in Halves : StoreHalf(t, half)
  <2>1. Waiting' = Waiting
    BY <1>2, <1>t DEF LoadSeqToWrite, EnterFails, StoreHalf, Waiting, WriterState
  <2>2. UNCHANGED <<seq, begun, committed>>
    BY <1>2 DEF LoadSeqToWrite, EnterFails, StoreHalf
  <2> QED
    BY <2>1, <2>2 DEF CoherentInv, Counted, Half, Even
<1>3. CASE Enter(t)
  <2>1. Waiting' = Waiting \ {t}
    BY <1>3, <1>t DEF Enter, Waiting, WriterState
  <2>2. t \in Waiting
    BY <1>3 DEF Enter, Waiting
  <2>3. /\ IsFiniteSet(Waiting') /\ Cardinality(Waiting') = Cardinality(Waiting) - 1
        /\ Cardinality(Waiting') \in Nat
    BY <2>1, <2>2, <1>c, FS_RemoveElement, FS_CardinalityType
  <2>4. Even(seq)
    BY <1>3 DEF Enter, CoherentInv, SerialInv, Entering
  <2>5. Half = 0
    BY <2>4 DEF Half
  <2>6. seq + 1 < SeqModulus
    BY <2>3, <2>5, <1>c, <1>t
  <2>7. seq' = seq + 1 /\ ~Even(seq') /\ UNCHANGED <<begun, committed>>
    BY <1>3, <1>t, <2>4, <2>6, SuccValue DEF Enter
  <2>8. Half' = 1
    BY <2>7 DEF Half, Even
  <2> QED
    BY <2>3, <2>5, <2>7, <2>8, <1>c, <1>t DEF Counted
<1>4. CASE Leave(t)
  <2>1. Waiting' = Waiting
    BY <1>4, <1>t DEF Leave, Waiting, IdleWriter, WriterState
  <2>2. ~Even(seq)
    BY <1>4 DEF Leave, CoherentInv, SerialInv, OddInside, Storing
  <2>3. Half = 1
    BY <2>2 DEF Half
  <2>4. seq + 1 < SeqModulus
    BY <2>3, <1>c, <1>t
  <2>5. seq' = seq + 1 /\ Even(seq') /\ begun' = begun
    BY <1>4, <1>t, <2>2, <2>4, SuccValue DEF Leave
  <2>6. Half' = 0
    BY <2>5 DEF Half, Even
  <2> QED
    BY <2>1, <2>3, <2>5, <2>6, <1>c, <1>t DEF Counted
<1> QED
  BY <1>1, <1>2, <1>3, <1>4 DEF Write

LEMMA WriterCoherent ==
  ASSUME 2 * MaxWrites < SeqModulus, CoherentInv, NEW t \in Writers, Call(t) \/ Write(t)
  PROVE  CoherentInv'
<1>1. SerialInv'
  BY WriterSerial DEF CoherentInv
<1>2. Counted' /\ (seq' = seq \/ seq' = seq + 1) /\ (committed' # committed => seq' = seq + 1)
  BY WriterCounts
<1>3. r' = r
  BY DEF Call, Write, LoadSeqToWrite, Enter, EnterFails, StoreHalf, Leave
<1>4. Readings'
  <2> SUFFICES ASSUME NEW u \in Readers, r[u].pc = "read" PROVE ReadingOK(u)'
    BY <1>3 DEF Readings, CoherentInv
  <2>1. ReadingOK(u)
    BY DEF CoherentInv, Readings
  <2>2. r[u].before \in Nat /\ seq \in Nat
    BY ModulusAssumption DEF CoherentInv, SerialInv, GainTypeOK, ReaderState
  <2>3. r[u].before <= seq'
    BY <1>2, <2>1, <2>2 DEF ReadingOK
  <2>4. Unmoved(u)' => Unmoved(u) /\ committed' = committed
    BY <1>2, <1>3, <2>1, <2>2 DEF ReadingOK, Unmoved
  <2> QED
    BY <1>3, <2>1, <2>3, <2>4 DEF ReadingOK, Even
<1> QED
  BY <1>1, <1>2, <1>4 DEF CoherentInv

LEMMA ReaderCoherent ==
  ASSUME InOrder, CoherentInv, NEW t \in Readers, Ask(t) \/ Read(t)
  PROVE  CoherentInv'
<1>t. /\ r \in [Readers -> ReaderState] /\ seq \in Nat
      /\ r[t].before \in Nat /\ r[t].got \in Pair /\ r[t].at \in Pair
  BY ModulusAssumption DEF CoherentInv, SerialInv, GainTypeOK, ReaderState
<1>0. GainTypeOK' /\ UNCHANGED <<live, base, seq, w, begun, committed>>
  BY ReaderType DEF CoherentInv, SerialInv
<1>1. SerialInv' /\ Counted'
  BY <1>0, ReaderSerial DEF CoherentInv, Counted, Half, Even, Waiting
<1>2. \A u \in Readers : u # t => r'[u] = r[u]
  <2>1. \E new : r' = [r EXCEPT ![t] = new]
    <3>1. CASE Ask(t) \/ LoadSeqToRead(t)
      BY <3>1 DEF Ask, LoadSeqToRead
    <3>2. ASSUME NEW half \in Halves, LoadHalf(t, half) PROVE \E new : r' = [r EXCEPT ![t] = new]
      BY <3>2 DEF LoadHalf
    <3>3. CASE CheckSeq(t)
      BY <3>3 DEF CheckSeq
    <3>4. CASE Decide(t)
      BY <3>4 DEF Decide
    <3>5. CASE Return(t)
      BY <3>5 DEF Return
    <3> QED
      BY <3>1, <3>2, <3>3, <3>4, <3>5 DEF Read
  <2> QED
    BY <2>1, <1>t
<1>3. \A u \in Readers :
        u # t => /\ r'[u].pc = "read" => ReadingOK(u)'
                 /\ r'[u].pc = "done" => r'[u].got = r'[u].at
  BY <1>0, <1>2 DEF CoherentInv, Readings, ReadingOK, Unmoved, Even
<1>4. SUFFICES /\ r'[t].pc = "read" => ReadingOK(t)'
               /\ r'[t].pc = "done" => r'[t].got = r'[t].at
  BY <1>1, <1>3 DEF CoherentInv, Readings
<1>5. CASE Ask(t)
  <2>1. r'[t].pc = "load"
    BY <1>5, <1>t DEF Ask, ReaderState
  <2> QED
    BY <2>1
<1>6. CASE LoadSeqToRead(t)
  <2>1. /\ r'[t].pc = "read" /\ r'[t].before = seq /\ r'[t].at = committed
        /\ r'[t].todo = Halves \cup {"check"}
    BY <1>6, <1>t DEF LoadSeqToRead, ReaderState
  <2>2. Even(seq)
    BY <1>6 DEF LoadSeqToRead
  <2> QED
    BY <1>0, <1>t, <2>1, <2>2 DEF ReadingOK, Unmoved, Even, Halves
<1>7. ASSUME NEW half \in Halves, LoadHalf(t, half)
      PROVE  r'[t].pc = "read" /\ ReadingOK(t)'
  <2> DEFINE new == Written(r[t].got, {half}, IF half = "live" THEN live ELSE base)
  <2>1. r' = [r EXCEPT ![t].todo = r[t].todo \ {half}, ![t].got = new]
    BY <1>7 DEF LoadHalf
  <2>2. /\ new.live = IF half = "live" THEN live ELSE r[t].got.live
        /\ new.base = IF half = "base" THEN base ELSE r[t].got.base
    BY DEF Written, Halves
  <2> HIDE DEF new
  <2>3. /\ r'[t].pc = r[t].pc /\ r'[t].before = r[t].before /\ r'[t].at = r[t].at
        /\ r'[t].todo = r[t].todo \ {half} /\ r'[t].got = new
    BY <2>1, <1>t DEF ReaderState
  <2>4. r[t].pc = "read" /\ half \in r[t].todo
    BY <1>7 DEF LoadHalf
  <2>5. ReadingOK(t)
    BY <2>4 DEF CoherentInv, Readings
  <2>6. "check" \in r[t].todo /\ half # "check"
    BY <2>4, <2>5 DEF ReadingOK, Halves
  <2>7. Unmoved(t) => live = r[t].at.live /\ base = r[t].at.base
    <3>1. Unmoved(t) => Even(seq) /\ r[t].at = committed
      BY <2>5 DEF ReadingOK, Unmoved
    <3>2. Even(seq) => live = committed.live /\ base = committed.base
      BY SerialImplies DEF CoherentInv, WritesAreSerial
    <3> QED
      BY <3>1, <3>2
  <2>8. Unmoved(t)' <=> Unmoved(t)
    BY <1>0, <2>3 DEF Unmoved
  <2>9. r'[t].before <= seq' /\ Even(r'[t].before)
    BY <1>0, <2>3, <2>5 DEF ReadingOK
  <2>10. Unmoved(t)' => r'[t].at = committed'
    BY <1>0, <2>3, <2>5, <2>8 DEF ReadingOK
  <2>11. Unmoved(t)' /\ "live" \notin r'[t].todo => r'[t].got.live = r'[t].at.live
    BY <2>2, <2>3, <2>5, <2>7, <2>8 DEF ReadingOK
  <2>12. Unmoved(t)' /\ "base" \notin r'[t].todo => r'[t].got.base = r'[t].at.base
    BY <2>2, <2>3, <2>5, <2>7, <2>8 DEF ReadingOK
  <2>13. "check" \in r'[t].todo
    BY <2>3, <2>6
  <2> QED
    BY <2>3, <2>4, <2>9, <2>10, <2>11, <2>12, <2>13 DEF ReadingOK, Even, Unmoved
<1>8. CASE CheckSeq(t)
  <2>1. /\ r'[t].pc = "read" /\ r'[t].before = r[t].before /\ r'[t].at = r[t].at
        /\ r'[t].got = r[t].got /\ r'[t].todo = r[t].todo \ {"check"} /\ r'[t].after = seq
    BY <1>8, <1>t DEF CheckSeq, ReaderState
  <2>2. r[t].todo = {"check"} /\ ReadingOK(t)
    BY <1>8 DEF CheckSeq, CheckAllowed, CoherentInv, Readings
  <2>3. Unmoved(t) => r[t].got = r[t].at
    <3>1. Unmoved(t) => r[t].got.live = r[t].at.live /\ r[t].got.base = r[t].at.base
      BY <2>2 DEF ReadingOK
    <3> QED
      BY <3>1, <1>t DEF Pair
  <2> QED
    BY <1>0, <2>1, <2>2, <2>3 DEF ReadingOK, Unmoved, Even
<1>9. CASE Decide(t)
  <2>1. r[t].todo = {} /\ ReadingOK(t)
    BY <1>9 DEF Decide, CoherentInv, Readings
  <2>2. CASE r[t].after = r[t].before
    <3>1. r'[t].pc = "done" /\ r'[t].got = r[t].got /\ r'[t].at = r[t].at
      BY <1>9, <1>t, <2>2 DEF Decide, ReaderState
    <3> QED
      BY <2>1, <2>2, <3>1 DEF ReadingOK
  <2>3. CASE r[t].after # r[t].before
    <3>1. r'[t].pc = "load"
      BY <1>9, <1>t, <2>3 DEF Decide, IdleReader
    <3> QED
      BY <3>1
  <2> QED
    BY <2>2, <2>3
<1>10. CASE Return(t)
  <2>1. r'[t].pc = "idle"
    BY <1>10, <1>t DEF Return, IdleReader
  <2> QED
    BY <2>1
<1> QED
  BY <1>5, <1>6, <1>7, <1>8, <1>9, <1>10 DEF Read

(* Where loads keep their order, and short of 2^31 setter calls, what      *)
(* gain_pair_linear returns is a pair that some write left behind, whole.  *)
THEOREM SnapshotsAreCoherent ==
  ASSUME InOrder, 2 * MaxWrites < SeqModulus
  PROVE  GainSpec => []CoherentSnapshot
<1>1. CoherentInv /\ [GainNext]_gainVars => CoherentInv'
  <2> SUFFICES ASSUME CoherentInv, [GainNext]_gainVars PROVE CoherentInv'
    OBVIOUS
  <2>1. CASE UNCHANGED gainVars
    <3>1. SerialInv'
      BY <2>1, StepSerial DEF CoherentInv
    <3>2. Counted' /\ Readings'
      BY <2>1 DEF gainVars, CoherentInv, Counted, Half, Even, Waiting, Readings, ReadingOK, Unmoved
    <3> QED
      BY <3>1, <3>2 DEF CoherentInv
  <2>2. ASSUME NEW t \in Readers, Ask(t) \/ Read(t)
        PROVE  CoherentInv'
    BY <2>2, ReaderCoherent
  <2> QED
    BY <2>1, <2>2, WriterCoherent DEF GainNext
<1>2. CoherentInv => CoherentSnapshot
  BY DEF CoherentInv, Readings, CoherentSnapshot
<1> QED
  BY InitCoherent, <1>1, <1>2, PTL DEF GainSpec

----------------------------------------------------------------------------
(* From the document to the tables and the graph.                          *)

(* A rebuild will publish tables.                                          *)
Due == asked > 0 \/ engine.pc = "assembled" \/ \E t \in Threads : work[t].rebuild

(* Another image than this one will be assembled.                          *)
Asked == asked > 0 \/ \E t \in Threads : work[t].rebuild

(* The tables are of one numbering, in which no two tracks share a slot.   *)
Shape ==
  /\ DOMAIN slotOf \subseteq Tracks
  /\ DOMAIN cells = {slotOf[k] : k \in DOMAIN slotOf}
  /\ \A k, l \in DOMAIN slotOf : slotOf[k] = slotOf[l] => k = l

(* What a thread holds, by where it is.                                    *)
Held(t) ==
  /\ work[t].pc # "tables" => work[t].writes = NoWrites /\ work[t].any = {}
  /\ work[t].pc = "idle" => ~work[t].rebuild

(* The one commit under way to a knob that is not crossed carries the      *)
(* document's value.                                                       *)
RowOnItsWay(k) ==
  \A t \in Threads : Writes(t, k) =>
    /\ work[t].writes[k] = doc.row[k]
    /\ \A u \in Threads : Writes(u, k) => u = t
SoloOnItsWay ==
  \A t \in Threads : Writes(t, AnySolo) =>
    /\ work[t].any = {Solos(doc)}
    /\ \A u \in Threads : Writes(u, AnySolo) => u = t
OnTheirWay ==
  /\ \A k \in Tracks \ crossed : RowOnItsWay(k)
  /\ AnySolo \notin crossed => SoloOnItsWay

(* Without a rebuild to come, what the tables say.                         *)
RowsArrived ==
  \A k \in DOMAIN slotOf : ~Underway(k) /\ k \notin crossed => cells[slotOf[k]] = doc.row[k]
SoloArrived == ~Underway(AnySolo) /\ AnySolo \notin crossed => any = Solos(doc)
Arrived == ~Due => slotOf = Slots(doc.order) /\ RowsArrived /\ SoloArrived

(* And the graph: its rows' slots, and the tracks it was assembled from.   *)
RowsKeyed ==
  engine.pc # "published" => \A k \in DOMAIN graph : k \in DOMAIN slotOf /\ graph[k] = slotOf[k]
Imaged ==
  ~Asked => IF engine.pc = "idle" THEN DOMAIN graph = Mixing(doc.order)
                                  ELSE engine.image.order = doc.order

TablesInv ==
  /\ TypeOK /\ Shape /\ \A t \in Threads : Held(t)
  /\ OnTheirWay /\ Arrived /\ RowsKeyed /\ Imaged

----------------------------------------------------------------------------
(* The numbering.                                                          *)

LEMMA ElementsFinite ==
  ASSUME NEW o \in Seq(Tracks)
  PROVE  IsFiniteSet(Elements(o)) /\ Elements(o) \subseteq Tracks
<1>1. DOMAIN o = 1..Len(o) /\ o \in [1..Len(o) -> Elements(o)]
  BY DEF Elements
<1>2. IsFiniteSet(1..Len(o))
  BY FS_Interval
<1>3. o \in Surjection(1..Len(o), Elements(o))
  BY <1>1 DEF Surjection, Elements
<1>4. IsFiniteSet(Elements(o))
  BY <1>2, <1>3, FS_Surjection
<1> QED
  BY <1>1, <1>4 DEF Elements

LEMMA PlaceOf ==
  ASSUME NEW o \in Seq(Tracks), NEW k \in Elements(o)
  PROVE  Place(o, k) \in 1..Len(o) /\ o[Place(o, k)] = k
BY DEF Elements, Place

LEMMA FewerAbove ==
  ASSUME NEW o \in Seq(Tracks), NEW k \in Mixing(o), NEW l \in Mixing(o),
         Place(o, k) < Place(o, l)
  PROVE  Slots(o)[k] # Slots(o)[l]
<1>1. k \in Elements(o) /\ l \in Elements(o)
  BY DEF Mixing
<1>2. Place(o, k) \in 1..Len(o) /\ Place(o, l) \in 1..Len(o)
  BY <1>1, PlaceOf
<1>3. IsFiniteSet(Above(o, l))
  <2>1. Above(o, l) \in SUBSET Elements(o)
    BY DEF Above, Mixing
  <2> QED
    BY <2>1, ElementsFinite, FS_Subset
<1>4. Above(o, k) \in SUBSET Above(o, l)
  <2> SUFFICES ASSUME NEW m \in Above(o, k) PROVE m \in Above(o, l)
    OBVIOUS
  <2>1. m \in Elements(o) /\ m \in Mixing(o) /\ Place(o, m) < Place(o, k)
    BY DEF Above, Mixing
  <2>2. Place(o, m) \in 1..Len(o)
    BY <2>1, PlaceOf
  <2> QED
    BY <1>2, <2>1, <2>2 DEF Above
<1>5. k \in Above(o, l) /\ k \notin Above(o, k)
  BY <1>2 DEF Above
<1> QED
  BY <1>3, <1>4, <1>5, FS_Subset DEF Slots

(* No two tracks of a document share a slot.                               *)
LEMMA SlotsDiffer ==
  ASSUME NEW o \in Seq(Tracks), NEW k \in Mixing(o), NEW l \in Mixing(o), k # l
  PROVE  Slots(o)[k] # Slots(o)[l]
<1>1. k \in Elements(o) /\ l \in Elements(o)
  BY DEF Mixing
<1>2. Place(o, k) \in 1..Len(o) /\ Place(o, l) \in 1..Len(o) /\ Place(o, k) # Place(o, l)
  BY <1>1, PlaceOf
<1>3. Place(o, k) < Place(o, l) \/ Place(o, l) < Place(o, k)
  BY <1>2
<1> QED
  BY <1>3, FewerAbove

(* The tables of a rebuild.                                                *)
TablesOf(d, s, c) ==
  /\ DOMAIN s = Mixing(d.order) /\ DOMAIN s \subseteq Tracks
  /\ DOMAIN c = {s[k] : k \in DOMAIN s}
  /\ \A k, l \in DOMAIN s : s[k] = s[l] => k = l
  /\ \A k \in DOMAIN s : c[s[k]] = d.row[k]
  /\ c \in [DOMAIN c -> Settings]

LEMMA FreshTables ==
  ASSUME NEW d \in Document, NEW s, NEW c, s = Slots(d.order), c = Cells(s, d.row)
  PROVE  TablesOf(d, s, c)
<1>1. d.order \in Seq(Tracks) /\ d.row \in [Tracks -> Settings]
  BY DEF Document
<1>2. DOMAIN s = Mixing(d.order) /\ DOMAIN s \subseteq Tracks
  BY <1>1, ElementsFinite DEF Slots, Mixing
<1>3. \A k, l \in DOMAIN s : s[k] = s[l] => k = l
  BY <1>1, <1>2, SlotsDiffer
<1>4. DOMAIN c = {s[k] : k \in DOMAIN s}
  BY DEF Cells
<1>5. ASSUME NEW k \in DOMAIN s PROVE c[s[k]] = d.row[k]
  <2>1. (CHOOSE l \in DOMAIN s : s[l] = s[k]) = k
    BY <1>3
  <2> QED
    BY <2>1 DEF Cells
<1>6. ASSUME NEW n \in DOMAIN c PROVE c[n] \in Settings
  BY <1>1, <1>2, <1>4, <1>5
<1>7. c \in [DOMAIN c -> Settings]
  BY <1>6 DEF Cells
<1> QED
  BY <1>2, <1>3, <1>4, <1>5, <1>7 DEF TablesOf

----------------------------------------------------------------------------
(* The initial state.                                                      *)

LEMMA EmptyIsDocument == ASSUME SettingsAssumption PROVE EmptySong \in Document
<1>1. <<>> \in Seq(Tracks)
  OBVIOUS
<1> QED
  BY <1>1 DEF SettingsAssumption, EmptySong, Document

LEMMA NothingWritten ==
  /\ NoWrites \in UNION {[S -> Settings] : S \in SUBSET Tracks}
  /\ Idle \in Working
<1>1. NoWrites \in [{} -> Settings] /\ {} \in SUBSET Tracks
  BY DEF NoWrites
<1>2. NoWrites \in UNION {[S -> Settings] : S \in SUBSET Tracks}
  BY <1>1
<1> QED
  BY <1>2 DEF Idle, Working

LEMMA InitTablesInv ==
  ASSUME KnobsAssumption, SettingsAssumption, SavedAssumption, BoundAssumption
  PROVE  Init => TablesInv
<1> SUFFICES ASSUME Init PROVE TablesInv
  OBVIOUS
<1>1. doc \in Document
  BY EmptyIsDocument DEF Init, SavedAssumption
<1>2. TablesOf(doc, slotOf, cells)
  BY <1>1, FreshTables DEF Init
<1>3. TypeOK
  <2>1. any \in BOOLEAN
    BY DEF Init, Solos
  <2> QED
    BY <1>1, <1>2, <2>1, NothingWritten, EmptyIsDocument DEF Init, TypeOK, BoundAssumption, TablesOf
<1>4. Shape
  BY <1>2 DEF Shape, TablesOf
<1>5. \A t \in Threads : Held(t) /\ ~work[t].rebuild /\ \A k : ~Writes(t, k)
  BY DEF Init, Held, Idle, NoWrites, Writes
<1>6. OnTheirWay
  BY <1>5 DEF OnTheirWay, RowOnItsWay, SoloOnItsWay
<1>7. Arrived
  BY <1>2 DEF TablesOf, Arrived, Init, RowsArrived, SoloArrived
<1>8. RowsKeyed /\ Imaged
  BY <1>2 DEF TablesOf, RowsKeyed, Imaged, Init
<1> QED
  BY <1>3, <1>4, <1>5, <1>6, <1>7, <1>8 DEF TablesInv

----------------------------------------------------------------------------
(* A change of the document by thread t: the knobs ks, which the thread    *)
(* carries to the tables or, if a rebuild is to come, leaves to it.        *)
Change(t, ks) ==
  /\ t \in Threads /\ ks \subseteq Knobs
  /\ doc' \in Document
  /\ \A k \in Tracks \ ks : doc'.row[k] = doc.row[k]
  /\ AnySolo \notin ks => Solos(doc') = Solos(doc)
  /\ Cross(ks)
  /\ work' \in [Threads -> Working]
  /\ \A u \in Threads \ {t} : work'[u] = work[u]
  /\ \A k \in DOMAIN work'[t].writes : k \in ks /\ work'[t].writes[k] = doc'.row[k]
  /\ work'[t].any \in {{}, {Solos(doc')}} /\ (work'[t].any # {} => AnySolo \in ks)
  /\ Held(t)'
  /\ ~work'[t].rebuild => /\ doc'.order = doc.order
                          /\ ks \cap Tracks \subseteq DOMAIN work'[t].writes
                          /\ work'[t].any # {} /\ any' = any
  /\ any' \in BOOLEAN
  /\ UNCHANGED <<slotOf, cells, asked, engine, graph>>
  /\ changes' \in 0..MaxChanges

LEMMA ChangeKeeps ==
  ASSUME KnobsAssumption, TablesInv, NEW t \in Threads, NEW ks, Change(t, ks), work[t].pc = "idle"
  PROVE  TablesInv'
<1> USE DEF TablesInv, Change
<1>1. work[t].writes = NoWrites /\ work[t].any = {} /\ ~work[t].rebuild
  BY DEF Held
<1>2. \A k : ~Writes(t, k)
  BY <1>1 DEF Writes, NoWrites
<1>3. \A u \in Threads \ {t} : \A k : Writes(u, k)' <=> Writes(u, k)
  BY DEF Writes
<1>4. \A k \in Knobs : Writes(t, k)' => k \in ks
  BY DEF Writes
<1>5. \A k \in ks : k \notin crossed' => ~Underway(k)
  BY DEF Cross
<1>6. \A k \in Knobs \ ks : k \in crossed' <=> k \in crossed
  BY DEF Cross
<1>7. TypeOK'
  BY DEF TypeOK, Cross
<1>8. Shape' /\ RowsKeyed'
  BY DEF Shape, RowsKeyed
<1>9. \A u \in Threads : Held(u)'
  BY DEF Held
<1>10. OnTheirWay'
  <2>1. ASSUME NEW k \in Tracks, k \notin crossed' PROVE RowOnItsWay(k)'
    <3> k \in Knobs /\ k # AnySolo
      BY DEF Knobs, KnobsAssumption
    <3>1. CASE k \in ks
      <4>1. \A u \in Threads : Writes(u, k)' => u = t
        BY <1>3, <1>5, <2>1, <3>1 DEF Underway
      <4>2. Writes(t, k)' => work'[t].writes[k] = doc'.row[k]
        BY DEF Writes
      <4> QED
        BY <4>1, <4>2 DEF RowOnItsWay
    <3>2. CASE k \notin ks
      <4>1. k \notin crossed /\ RowOnItsWay(k)
        BY <1>6, <2>1, <3>2 DEF OnTheirWay
      <4>2. \A u \in Threads : Writes(u, k)' => u # t /\ Writes(u, k)
        BY <1>3, <1>4, <3>2
      <4> QED
        BY <3>2, <4>1, <4>2 DEF RowOnItsWay
    <3> QED
      BY <3>1, <3>2
  <2>2. ASSUME AnySolo \notin crossed' PROVE SoloOnItsWay'
    <3> AnySolo \in Knobs
      BY DEF Knobs
    <3>1. CASE AnySolo \in ks
      <4>1. \A u \in Threads : Writes(u, AnySolo)' => u = t
        BY <1>3, <1>5, <2>2, <3>1 DEF Underway
      <4>2. Writes(t, AnySolo)' => work'[t].any = {Solos(doc')}
        BY DEF Writes
      <4> QED
        BY <4>1, <4>2 DEF SoloOnItsWay
    <3>2. CASE AnySolo \notin ks
      <4>1. AnySolo \notin crossed /\ SoloOnItsWay
        BY <1>6, <2>2, <3>2 DEF OnTheirWay
      <4>2. \A u \in Threads : Writes(u, AnySolo)' => u # t /\ Writes(u, AnySolo)
        BY <1>3, <1>4, <3>2
      <4>3. Solos(doc') = Solos(doc)
        BY <3>2
      <4> QED
        BY <4>1, <4>2, <4>3 DEF SoloOnItsWay
    <3> QED
      BY <3>1, <3>2
  <2> QED
    BY <2>1, <2>2 DEF OnTheirWay
<1>11. Arrived'
  <2> SUFFICES ASSUME ~Due' PROVE slotOf' = Slots(doc'.order) /\ RowsArrived' /\ SoloArrived'
    BY DEF Arrived
  <2>1. ~Due /\ ~work'[t].rebuild
    BY <1>1 DEF Due
  <2>2. slotOf = Slots(doc.order) /\ RowsArrived /\ SoloArrived
    BY <2>1 DEF Arrived
  <2>3. \A k \in ks : Writes(t, k)'
    BY <2>1 DEF Writes, Knobs
  <2>4. \A k : Underway(k)' \/ k \notin ks
    BY <2>3 DEF Underway
  <2>5. \A k : ~Underway(k)' => ~Underway(k)
    BY <1>2, <1>3 DEF Underway
  <2>6. RowsArrived'
    BY <1>6, <2>2, <2>4, <2>5 DEF RowsArrived, Shape, Knobs
  <2>7. SoloArrived'
    BY <1>6, <2>1, <2>2, <2>4, <2>5 DEF SoloArrived, Knobs
  <2> QED
    BY <2>1, <2>2, <2>6, <2>7
<1>12. Imaged'
  <2> SUFFICES ASSUME ~Asked' PROVE Imaged'
    BY DEF Imaged
  <2>1. ~Asked /\ ~work'[t].rebuild
    BY <1>1 DEF Asked
  <2> QED
    BY <2>1 DEF Imaged
<1> QED
  BY <1>7, <1>8, <1>9, <1>10, <1>11, <1>12

----------------------------------------------------------------------------
(* The operations are such changes.                                        *)

(* Two pieces of an order, with or without a track between them.           *)
LEMMA Pieces ==
  ASSUME NEW o \in Seq(Tracks), NEW i \in 0..Len(o), NEW j \in 1..(Len(o) + 1), NEW k \in Tracks
  PROVE  /\ SubSeq(o, 1, i) \o <<k>> \o SubSeq(o, j, Len(o)) \in Seq(Tracks)
         /\ SubSeq(o, 1, i) \o SubSeq(o, j, Len(o)) \in Seq(Tracks)
<1>1. SubSeq(o, 1, i) \in Seq(Tracks) /\ SubSeq(o, j, Len(o)) \in Seq(Tracks)
  OBVIOUS
<1>2. <<k>> \in Seq(Tracks)
  OBVIOUS
<1> QED
  BY <1>1, <1>2

LEMMA SetRowChanges ==
  ASSUME KnobsAssumption, BoundAssumption, TablesInv, NEW t \in Threads, Transact(t), SetRow(t)
  PROVE  \E ks : Change(t, ks)
<1>1. PICK k \in Elements(doc.order), s \in Settings :
        /\ doc' = [doc EXCEPT !.row[k] = s]
        /\ work' = [work EXCEPT ![t] = [pc |-> "tables", writes |-> [x \in {k} |-> s],
                                       any |-> {Solos(doc')}, rebuild |-> FALSE]]
        /\ Cross({k, AnySolo})
  BY DEF SetRow
<1>2. TypeOK /\ doc \in Document /\ k \in Tracks
  BY ElementsFinite DEF TablesInv, TypeOK, Document
<1>3. doc' \in Document /\ doc'.order = doc.order /\ doc'.row = [doc.row EXCEPT ![k] = s]
  BY <1>1, <1>2 DEF Document
<1>4. work'[t] = [pc |-> "tables", writes |-> [x \in {k} |-> s], any |-> {Solos(doc')},
                  rebuild |-> FALSE]
  BY <1>1, <1>2 DEF TypeOK
<1>5. work'[t] \in Working
  <2>1. [x \in {k} |-> s] \in UNION {[S -> Settings] : S \in SUBSET Tracks}
    <3>1. [x \in {k} |-> s] \in [{k} -> Settings] /\ {k} \in SUBSET Tracks
      BY <1>2
    <3> QED
      BY <3>1
  <2>2. Solos(doc') \in BOOLEAN
    BY DEF Solos
  <2> QED
    BY <1>4, <2>1, <2>2 DEF Working
<1>6. \A x \in Tracks \ {k, AnySolo} : doc'.row[x] = doc.row[x]
  BY <1>2, <1>3 DEF Document
<1>7. doc'.row[k] = s
  BY <1>2, <1>3 DEF Document
<1>8. work' \in [Threads -> Working] /\ \A u \in Threads \ {t} : work'[u] = work[u]
  BY <1>1, <1>2, <1>5 DEF TypeOK
<1>9. /\ DOMAIN work'[t].writes = {k} /\ work'[t].writes[k] = s
      /\ work'[t].any = {Solos(doc')} /\ work'[t].pc = "tables"
  BY <1>4
<1>10. Held(t)'
  BY <1>9 DEF Held
<1>11. {k, AnySolo} \subseteq Knobs /\ {k, AnySolo} \cap Tracks \subseteq {k}
  BY <1>2 DEF Knobs, KnobsAssumption
<1>12. UNCHANGED <<tables, asked, engine, graph>> /\ changes' \in 0..MaxChanges /\ any \in BOOLEAN
  <2>1. UNCHANGED <<tables, asked, engine, graph>>
    BY DEF Transact
  <2>2. changes' \in 0..MaxChanges
    BY <1>2 DEF Transact, TypeOK, BoundAssumption
  <2>3. any \in BOOLEAN
    BY <1>2 DEF TypeOK
  <2> QED
    BY <2>1, <2>2, <2>3
<1>13. Change(t, {k, AnySolo})
  BY <1>1, <1>3, <1>6, <1>7, <1>8, <1>9, <1>10, <1>11, <1>12 DEF Change, tables
<1> QED
  BY <1>13

LEMMA AddRowChanges ==
  ASSUME KnobsAssumption, BoundAssumption, TablesInv, NEW t \in Threads, Transact(t), AddRow(t)
  PROVE  \E ks : Change(t, ks)
<1>1. PICK k \in Tracks \ Elements(doc.order), s \in Settings, at \in 0..Len(doc.order) :
        /\ doc' = [order |-> SubSeq(doc.order, 1, at) \o <<k>>
                               \o SubSeq(doc.order, at + 1, Len(doc.order)),
                   row |-> [doc.row EXCEPT ![k] = s]]
        /\ work' = [work EXCEPT ![t].pc = "tables", ![t].rebuild = TRUE]
        /\ Cross({k, AnySolo})
  BY DEF AddRow
<1>2. TypeOK /\ doc \in Document /\ doc.order \in Seq(Tracks)
  BY DEF TablesInv, TypeOK, Document
<1>3. doc'.order \in Seq(Tracks)
  BY <1>1, <1>2, Pieces
<1>4. doc' \in Document
  BY <1>1, <1>2, <1>3 DEF Document
<1>5. Held(t) /\ work[t].pc = "idle" /\ work[t] \in Working
  BY <1>2 DEF TablesInv, Transact, TypeOK
<1>6. work'[t] = [work[t] EXCEPT !.pc = "tables", !.rebuild = TRUE]
  BY <1>1, <1>2 DEF TypeOK
<1>7. \A x \in Tracks \ {k, AnySolo} : doc'.row[x] = doc.row[x]
  BY <1>1, <1>2 DEF Document
<1>8. /\ work'[t].writes = NoWrites /\ work'[t].any = {}
      /\ work'[t].pc = "tables" /\ work'[t].rebuild
  BY <1>5, <1>6 DEF Held, Working
<1>9. work' \in [Threads -> Working] /\ \A u \in Threads \ {t} : work'[u] = work[u]
  BY <1>1, <1>2, <1>5, <1>6 DEF TypeOK, Working
<1>10. Held(t)' /\ {k, AnySolo} \subseteq Knobs /\ DOMAIN NoWrites = {}
  BY <1>1, <1>8 DEF Held, Knobs, NoWrites
<1>11. UNCHANGED <<tables, asked, engine, graph>> /\ changes' \in 0..MaxChanges /\ any \in BOOLEAN
  <2>1. UNCHANGED <<tables, asked, engine, graph>>
    BY DEF Transact
  <2>2. changes' \in 0..MaxChanges
    BY <1>2 DEF Transact, TypeOK, BoundAssumption
  <2>3. any \in BOOLEAN
    BY <1>2 DEF TypeOK
  <2> QED
    BY <2>1, <2>2, <2>3
<1>12. Change(t, {k, AnySolo})
  BY <1>1, <1>4, <1>7, <1>8, <1>9, <1>10, <1>11 DEF Change, tables
<1> QED
  BY <1>12

LEMMA RemoveRowChanges ==
  ASSUME KnobsAssumption, SettingsAssumption, BoundAssumption, TablesInv,
         NEW t \in Threads, Transact(t), RemoveRow(t)
  PROVE  \E ks : Change(t, ks)
<1>1. PICK at \in DOMAIN doc.order :
        /\ doc' = [order |-> SubSeq(doc.order, 1, at - 1)
                               \o SubSeq(doc.order, at + 1, Len(doc.order)),
                   row |-> [doc.row EXCEPT ![doc.order[at]] = FreshRow]]
        /\ work' = [work EXCEPT ![t] = [pc |-> "tables", writes |-> NoWrites,
                                       any |-> {Solos(doc')}, rebuild |-> TRUE]]
        /\ Cross({doc.order[at], AnySolo})
  BY DEF RemoveRow
<1>2. TypeOK /\ doc \in Document /\ doc.order \in Seq(Tracks) /\ doc.order[at] \in Tracks
  BY DEF TablesInv, TypeOK, Document
<1>3. doc'.order \in Seq(Tracks)
  <2>1. at - 1 \in 0..Len(doc.order) /\ at + 1 \in 1..(Len(doc.order) + 1)
    BY <1>2
  <2> QED
    BY <1>1, <1>2, <2>1, Pieces
<1>4. doc' \in Document
  BY <1>1, <1>2, <1>3 DEF Document, SettingsAssumption
<1>5. work'[t] = [pc |-> "tables", writes |-> NoWrites, any |-> {Solos(doc')}, rebuild |-> TRUE]
  BY <1>1, <1>2 DEF TypeOK
<1>6. work'[t] \in Working
  <2>1. Solos(doc') \in BOOLEAN
    BY DEF Solos
  <2> QED
    BY <1>5, <2>1, NothingWritten DEF Working
<1> DEFINE k == doc.order[at]
<1>7. \A x \in Tracks \ {k, AnySolo} : doc'.row[x] = doc.row[x]
  BY <1>1, <1>2 DEF Document
<1>8. work' \in [Threads -> Working] /\ \A u \in Threads \ {t} : work'[u] = work[u]
  BY <1>1, <1>2, <1>6 DEF TypeOK
<1>9. Held(t)' /\ {k, AnySolo} \subseteq Knobs /\ DOMAIN NoWrites = {}
  BY <1>2, <1>5 DEF Held, Knobs, NoWrites
<1>10. UNCHANGED <<tables, asked, engine, graph>> /\ changes' \in 0..MaxChanges /\ any \in BOOLEAN
  <2>1. UNCHANGED <<tables, asked, engine, graph>>
    BY DEF Transact
  <2>2. changes' \in 0..MaxChanges
    BY <1>2 DEF Transact, TypeOK, BoundAssumption
  <2>3. any \in BOOLEAN
    BY <1>2 DEF TypeOK
  <2> QED
    BY <2>1, <2>2, <2>3
<1>11. Change(t, {k, AnySolo})
  BY <1>1, <1>4, <1>5, <1>7, <1>8, <1>9, <1>10 DEF Change, tables
<1> QED
  BY <1>11

LEMMA ReorderChanges ==
  ASSUME KnobsAssumption, BoundAssumption, TablesInv, NEW t \in Threads, Transact(t), Reorder(t)
  PROVE  \E ks : Change(t, ks)
<1>1. PICK order \in [DOMAIN doc.order -> Elements(doc.order)] :
        Elements(order) = Elements(doc.order) /\ doc' = [doc EXCEPT !.order = order]
  BY DEF Reorder
<1>2. TypeOK /\ doc \in Document /\ doc.order \in Seq(Tracks)
  BY DEF TablesInv, TypeOK, Document
<1>3. order \in Seq(Tracks)
  BY <1>2, ElementsFinite
<1>4. doc' \in Document /\ doc'.row = doc.row /\ doc'.order = order
  BY <1>1, <1>2, <1>3 DEF Document
<1>5. Solos(doc') = Solos(doc)
  BY <1>1, <1>4 DEF Solos, Mixing
<1>6. Held(t) /\ work[t].pc = "idle" /\ work[t] \in Working
  BY <1>2 DEF TablesInv, Transact, TypeOK
<1>7. work'[t] = [work[t] EXCEPT !.pc = "tables", !.rebuild = TRUE]
  BY <1>2 DEF TypeOK, Reorder
<1>8. Cross({})
  BY DEF Cross, Reorder
<1>9. Change(t, {})
  BY <1>2, <1>4, <1>5, <1>6, <1>7, <1>8
     DEF Change, Reorder, Transact, TypeOK, Held, tables, Knobs, Working, NoWrites, BoundAssumption
<1> QED
  BY <1>9

LEMMA SwapChanges ==
  ASSUME KnobsAssumption, SettingsAssumption, SavedAssumption, BoundAssumption, TablesInv,
         NEW t \in Threads, Create(t) \/ Open(t)
  PROVE  \E ks : Change(t, ks)
<1>1. TypeOK
  BY DEF TablesInv
<1>2. doc' \in Document
  BY EmptyIsDocument DEF Create, Open, SavedAssumption
<1>3. Held(t) /\ work[t].pc = "idle" /\ work[t] \in Working
  BY <1>1 DEF TablesInv, Create, Open, TypeOK
<1>4. work'[t] = [work[t] EXCEPT !.pc = "ask", !.rebuild = TRUE]
  BY <1>1 DEF TypeOK, Create, Open
<1>5. Change(t, Knobs)
  BY <1>1, <1>2, <1>3, <1>4
     DEF Change, Create, Open, TypeOK, Held, tables, Knobs, Working, NoWrites, BoundAssumption
<1> QED
  BY <1>5

----------------------------------------------------------------------------
(* The other steps.                                                        *)

LEMMA WriteTablesKeeps ==
  ASSUME KnobsAssumption, TablesInv, NEW t \in Threads, WriteTables(t)
  PROVE  TablesInv'
<1> USE DEF TablesInv
<1>1. TypeOK /\ work[t] \in Working /\ work[t].pc = "tables"
  BY DEF TypeOK, WriteTables
<1>2. /\ work'[t].writes = NoWrites /\ work'[t].any = {}
      /\ work'[t].rebuild = work[t].rebuild /\ work'[t].pc \in {"idle", "ask"}
      /\ work'[t].pc = "idle" => ~work'[t].rebuild
      /\ \A u \in Threads \ {t} : work'[u] = work[u]
      /\ work' \in [Threads -> Working]
  <2>2. Idle \in Working /\ [Idle EXCEPT !.pc = "ask", !.rebuild = TRUE] \in Working
    BY NothingWritten DEF Idle, Working
  <2>3. CASE work[t].rebuild
    BY <1>1, <2>2, <2>3 DEF WriteTables, TypeOK, Idle
  <2>4. CASE ~work[t].rebuild
    BY <1>1, <2>2, <2>4 DEF WriteTables, TypeOK, Idle, Working
  <2> QED
    BY <2>3, <2>4
<1>3. \A k : ~Writes(t, k)'
  BY <1>2 DEF Writes, NoWrites
<1>4. \A u \in Threads \ {t} : \A k : Writes(u, k)' <=> Writes(u, k)
  BY <1>2 DEF Writes
<1>5. UNCHANGED <<doc, slotOf, asked, engine, graph, crossed, changes>>
  BY DEF WriteTables
<1>6. DOMAIN cells' = DOMAIN cells
  BY DEF WriteTables
<1>7. ASSUME NEW k \in DOMAIN slotOf
      PROVE  cells'[slotOf[k]] = IF Writes(t, k) THEN work[t].writes[k] ELSE cells[slotOf[k]]
  <2> DEFINE due == {l \in DOMAIN work[t].writes : l \in DOMAIN slotOf}
  <2>1. slotOf[k] \in DOMAIN cells /\ k # AnySolo
    BY DEF Shape, KnobsAssumption
  <2>2. cells'[slotOf[k]] = IF \E l \in due : slotOf[l] = slotOf[k]
                           THEN work[t].writes[CHOOSE l \in due : slotOf[l] = slotOf[k]]
                           ELSE cells[slotOf[k]]
    BY <2>1 DEF WriteTables
  <2>3. \A l \in due : slotOf[l] = slotOf[k] => l = k
    BY DEF Shape
  <2>4. k \in due <=> Writes(t, k)
    BY <2>1 DEF Writes
  <2> HIDE DEF due
  <2>5. CASE k \in due
    <3>1. (CHOOSE l \in due : slotOf[l] = slotOf[k]) = k
      BY <2>3, <2>5
    <3> QED
      BY <2>2, <2>4, <2>5, <3>1
  <2>6. CASE k \notin due
    BY <2>2, <2>3, <2>4, <2>6
  <2> QED
    BY <2>5, <2>6
<1>8. TypeOK'
  <2>1. cells' \in [DOMAIN cells' -> Settings]
    <3>1. ASSUME NEW n \in DOMAIN cells' PROVE cells'[n] \in Settings
      <4>1. PICK k \in DOMAIN slotOf : n = slotOf[k]
        BY <1>6, <3>1 DEF Shape
      <4>2. cells[slotOf[k]] \in Settings
        BY <1>1, <1>6, <3>1, <4>1 DEF TypeOK
      <4>3. Writes(t, k) => work[t].writes[k] \in Settings
        BY <1>1 DEF Writes, Working, Shape, KnobsAssumption
      <4> QED
        BY <1>7, <4>1, <4>2, <4>3
    <3>2. cells' = [n \in DOMAIN cells' |-> cells'[n]]
      BY <1>6 DEF WriteTables
    <3> QED
      BY <3>1, <3>2
  <2>2. any' \in BOOLEAN
    BY <1>1 DEF WriteTables, TypeOK, Working
  <2> QED
    BY <1>1, <1>2, <1>5, <2>1, <2>2 DEF TypeOK
<1>9. Shape' /\ RowsKeyed'
  BY <1>5, <1>6 DEF Shape, RowsKeyed
<1>10. \A u \in Threads : Held(u)'
  BY <1>2 DEF Held
<1>11. OnTheirWay'
  <2>1. ASSUME NEW k \in Tracks, k \notin crossed' PROVE RowOnItsWay(k)'
    <3>1. RowOnItsWay(k)
      BY <1>5, <2>1 DEF OnTheirWay
    <3> QED
      BY <1>2, <1>3, <1>4, <1>5, <3>1 DEF RowOnItsWay
  <2>2. AnySolo \notin crossed' => SoloOnItsWay'
    BY <1>2, <1>3, <1>4, <1>5 DEF OnTheirWay, SoloOnItsWay, Solos
  <2> QED
    BY <2>1, <2>2 DEF OnTheirWay
<1>12. Arrived'
  <2> SUFFICES ASSUME ~Due' PROVE slotOf' = Slots(doc'.order) /\ RowsArrived' /\ SoloArrived'
    BY DEF Arrived
  <2>1. ~Due
    BY <1>2, <1>5 DEF Due
  <2>2. slotOf = Slots(doc.order) /\ RowsArrived /\ SoloArrived
    BY <2>1 DEF Arrived
  <2>3. ASSUME NEW k \in DOMAIN slotOf, ~Underway(k)', k \notin crossed
        PROVE  cells'[slotOf[k]] = doc.row[k]
    <3>1. k \in Tracks
      BY DEF Shape
    <3>2. CASE Writes(t, k)
      BY <1>7, <2>3, <3>1, <3>2 DEF OnTheirWay, RowOnItsWay
    <3>3. CASE ~Writes(t, k)
      <4>1. ~Underway(k)
        BY <1>4, <2>3, <3>3 DEF Underway
      <4> QED
        BY <1>7, <2>2, <2>3, <3>3, <4>1 DEF RowsArrived
    <3> QED
      BY <3>2, <3>3
  <2>4. RowsArrived'
    BY <1>5, <2>3 DEF RowsArrived
  <2>5. ASSUME ~Underway(AnySolo)', AnySolo \notin crossed PROVE any' = Solos(doc)
    <3>1. CASE Writes(t, AnySolo)
      <4>1. work[t].any = {Solos(doc)}
        BY <2>5, <3>1 DEF OnTheirWay, SoloOnItsWay
      <4> QED
        BY <4>1 DEF WriteTables
    <3>2. CASE ~Writes(t, AnySolo)
      <4>1. ~Underway(AnySolo)
        BY <1>4, <2>5, <3>2 DEF Underway
      <4>2. any' = any
        BY <3>2 DEF WriteTables, Writes
      <4> QED
        BY <2>2, <2>5, <4>1, <4>2 DEF SoloArrived
    <3> QED
      BY <3>1, <3>2
  <2>6. SoloArrived'
    BY <1>5, <2>5 DEF SoloArrived, Solos
  <2> QED
    BY <1>5, <2>2, <2>4, <2>6
<1>13. Imaged'
  BY <1>2, <1>5 DEF Imaged, Asked
<1> QED
  BY <1>8, <1>9, <1>10, <1>11, <1>12, <1>13

LEMMA AskKeeps ==
  ASSUME TablesInv, NEW t \in Threads, AskRebuild(t)
  PROVE  TablesInv'
<1> USE DEF TablesInv
<1>1. TypeOK /\ work[t] \in Working /\ asked' > 0 /\ work'[t] = Idle
  BY DEF TypeOK, AskRebuild
<1>2. /\ work[t].writes = NoWrites /\ work[t].any = {}
      /\ \A u \in Threads \ {t} : work'[u] = work[u]
      /\ work' \in [Threads -> Working]
  BY <1>1, NothingWritten DEF Held, AskRebuild, TypeOK
<1>3. \A u \in Threads : \A k : Writes(u, k)' => u # t /\ Writes(u, k)
  BY <1>1, <1>2 DEF Writes, Idle, NoWrites
<1>4. UNCHANGED <<doc, tables, engine, graph, crossed, changes>>
  BY DEF AskRebuild
<1>5. TypeOK'
  BY <1>1, <1>2, <1>4 DEF TypeOK, tables, AskRebuild
<1>6. Shape' /\ RowsKeyed' /\ \A u \in Threads : Held(u)'
  BY <1>1, <1>2, <1>4 DEF Shape, RowsKeyed, Held, tables, Idle
<1>7. OnTheirWay'
  <2>1. ASSUME NEW k \in Tracks, k \notin crossed' PROVE RowOnItsWay(k)'
    <3>1. RowOnItsWay(k)
      BY <1>4, <2>1 DEF OnTheirWay
    <3> QED
      BY <1>2, <1>3, <1>4, <3>1 DEF RowOnItsWay
  <2>2. AnySolo \notin crossed' => SoloOnItsWay'
    BY <1>2, <1>3, <1>4 DEF OnTheirWay, SoloOnItsWay, Solos
  <2> QED
    BY <2>1, <2>2 DEF OnTheirWay
<1>8. Arrived' /\ Imaged'
  BY <1>1 DEF Arrived, Due, Imaged, Asked
<1> QED
  BY <1>5, <1>6, <1>7, <1>8

LEMMA AssembleKeeps == ASSUME TablesInv, Assemble PROVE TablesInv'
<1> USE DEF TablesInv
<1>1. TypeOK /\ asked' \in Nat /\ engine' = [pc |-> "assembled", image |-> doc]
  BY DEF TypeOK, Assemble
<1>2. UNCHANGED <<doc, tables, work, graph, crossed, changes>>
  BY DEF Assemble
<1>3. \A u, k : Writes(u, k)' <=> Writes(u, k)
  BY <1>2 DEF Writes
<1>4. TypeOK'
  BY <1>1, <1>2 DEF TypeOK, tables
<1>5. Shape' /\ RowsKeyed' /\ \A u \in Threads : Held(u)'
  BY <1>1, <1>2 DEF Shape, RowsKeyed, Held, tables, Assemble
<1>6. OnTheirWay'
  BY <1>2, <1>3 DEF OnTheirWay, RowOnItsWay, SoloOnItsWay, Solos
<1>7. Arrived' /\ Imaged'
  BY <1>1, <1>2 DEF Arrived, Due, Imaged
<1> QED
  BY <1>4, <1>5, <1>6, <1>7

LEMMA PublishKeeps == ASSUME KnobsAssumption, TablesInv, PublishTables PROVE TablesInv'
<1> USE DEF TablesInv
<1>1. TypeOK /\ doc \in Document /\ engine' = [engine EXCEPT !.pc = "published"]
  BY DEF TypeOK, PublishTables
<1>2. UNCHANGED <<doc, work, asked, graph, changes>> /\ crossed' = {k \in crossed : Underway(k)}
  BY DEF PublishTables
<1>3. \A u, k : Writes(u, k)' <=> Writes(u, k)
  BY <1>2 DEF Writes
<1>4. TablesOf(doc, slotOf', cells')
  BY <1>1, FreshTables DEF PublishTables
<1>5. TypeOK'
  <2>1. any' \in BOOLEAN
    BY DEF PublishTables, Solos
  <2>2. engine' \in [pc : {"idle", "assembled", "published"}, image : Document]
    BY <1>1 DEF TypeOK
  <2> QED
    BY <1>1, <1>2, <1>4, <2>1, <2>2 DEF TypeOK, TablesOf
<1>6. Shape'
  BY <1>4 DEF Shape, TablesOf
<1>7. RowsKeyed' /\ \A u \in Threads : Held(u)'
  BY <1>1, <1>2 DEF RowsKeyed, Held, TypeOK
<1>8. OnTheirWay'
  <2>1. ASSUME NEW k \in Tracks, k \notin crossed' PROVE RowOnItsWay(k)'
    <3>1. CASE Underway(k)
      BY <1>2, <1>3, <2>1, <3>1 DEF OnTheirWay, RowOnItsWay
    <3>2. CASE ~Underway(k)
      BY <1>3, <3>2 DEF Underway, RowOnItsWay
    <3> QED
      BY <3>1, <3>2
  <2>2. ASSUME AnySolo \notin crossed' PROVE SoloOnItsWay'
    <3>1. CASE Underway(AnySolo)
      BY <1>2, <1>3, <2>2, <3>1 DEF OnTheirWay, SoloOnItsWay, Solos
    <3>2. CASE ~Underway(AnySolo)
      BY <1>3, <3>2 DEF Underway, SoloOnItsWay
    <3> QED
      BY <3>1, <3>2
  <2> QED
    BY <2>1, <2>2 DEF OnTheirWay
<1>9. Arrived'
  <2>1. slotOf' = Slots(doc'.order) /\ RowsArrived'
    BY <1>2, <1>4 DEF TablesOf, RowsArrived, PublishTables
  <2>2. SoloArrived'
    BY <1>2 DEF SoloArrived, PublishTables, Solos
  <2> QED
    BY <2>1, <2>2 DEF Arrived
<1>10. Imaged'
  <2>1. engine.pc # "idle" /\ engine'.pc # "idle" /\ engine'.image = engine.image
    BY <1>1 DEF TypeOK, PublishTables
  <2> QED
    BY <1>2, <2>1 DEF Imaged, Asked
<1> QED
  BY <1>5, <1>6, <1>7, <1>8, <1>9, <1>10

LEMMA PushKeeps == ASSUME SettingsAssumption, TablesInv, Push PROVE TablesInv'
<1> USE DEF TablesInv
<1>1. TypeOK /\ engine.pc = "published" /\ engine' = [pc |-> "idle", image |-> EmptySong]
  BY DEF Push
<1>2. UNCHANGED <<doc, tables, work, asked, crossed, changes>>
  BY DEF Push
<1>3. \A u, k : Writes(u, k)' <=> Writes(u, k)
  BY <1>2 DEF Writes
<1>4. TypeOK'
  BY <1>1, <1>2, EmptyIsDocument DEF TypeOK, tables
<1>5. Shape' /\ RowsKeyed' /\ \A u \in Threads : Held(u)'
  BY <1>1, <1>2 DEF Shape, RowsKeyed, Held, tables, Push
<1>6. OnTheirWay'
  BY <1>2, <1>3 DEF OnTheirWay, RowOnItsWay, SoloOnItsWay, Solos
<1>7. Arrived'
  <2>1. Due' <=> Due
    BY <1>1, <1>2 DEF Due
  <2>2. \A k : Underway(k)' <=> Underway(k)
    BY <1>3 DEF Underway
  <2> QED
    BY <1>2, <2>1, <2>2 DEF Arrived, RowsArrived, SoloArrived, tables, Solos
<1>8. Imaged'
  <2> SUFFICES ASSUME ~Asked' PROVE DOMAIN graph' = Mixing(doc.order)
    BY <1>1, <1>2 DEF Imaged
  <2>1. ~Asked /\ ~Due
    BY <1>1, <1>2 DEF Asked, Due
  <2>2. slotOf = Slots(doc.order) /\ engine.image.order = doc.order
    BY <1>1, <2>1 DEF Arrived, Imaged
  <2>3. DOMAIN slotOf = Mixing(doc.order)
    BY <2>2 DEF Slots
  <2> QED
    BY <2>2, <2>3 DEF Push
<1> QED
  BY <1>4, <1>5, <1>6, <1>7, <1>8

----------------------------------------------------------------------------
(* All together.                                                           *)

LEMMA StepKeeps ==
  ASSUME KnobsAssumption, SettingsAssumption, SavedAssumption, BoundAssumption, TablesInv, [Next]_vars
  PROVE  TablesInv'
<1>1. CASE UNCHANGED vars
  <2>1. \A u, k : Writes(u, k)' <=> Writes(u, k)
    BY <1>1 DEF vars, Writes
  <2>2. \A k : Underway(k)' <=> Underway(k)
    BY <2>1 DEF Underway
  <2>3. TypeOK' /\ Shape' /\ (\A t \in Threads : Held(t)') /\ RowsKeyed' /\ Imaged'
    BY <1>1 DEF vars, tables, TablesInv, TypeOK, Shape, Held, RowsKeyed, Imaged, Asked
  <2>4. OnTheirWay'
    BY <1>1, <2>1 DEF vars, TablesInv, OnTheirWay, RowOnItsWay, SoloOnItsWay, Solos
  <2>5. Arrived'
    BY <1>1, <2>2 DEF vars, tables, TablesInv, Arrived, Due, RowsArrived, SoloArrived, Solos
  <2> QED
    BY <2>3, <2>4, <2>5 DEF TablesInv
<1>2. ASSUME NEW t \in Threads, Transact(t) \/ Create(t) \/ Open(t)
      PROVE  TablesInv'
  <2>1. work[t].pc = "idle"
    BY <1>2 DEF Transact, Create, Open
  <2>2. \E ks : Change(t, ks)
    <3>1. CASE Transact(t)
      BY <3>1, SetRowChanges, AddRowChanges, RemoveRowChanges, ReorderChanges DEF Transact
    <3>2. CASE Create(t) \/ Open(t)
      BY <3>2, SwapChanges
    <3> QED
      BY <1>2, <3>1, <3>2
  <2> QED
    BY <2>1, <2>2, ChangeKeeps
<1>3. ASSUME NEW t \in Threads, WriteTables(t) PROVE TablesInv'
  BY <1>3, WriteTablesKeeps
<1>4. ASSUME NEW t \in Threads, AskRebuild(t) PROVE TablesInv'
  BY <1>4, AskKeeps
<1>5. CASE Assemble
  BY <1>5, AssembleKeeps
<1>6. CASE PublishTables
  BY <1>6, PublishKeeps
<1>7. CASE Push
  BY <1>7, PushKeeps
<1> QED
  BY <1>1, <1>2, <1>3, <1>4, <1>5, <1>6, <1>7 DEF Next

LEMMA TablesInvHolds ==
  ASSUME KnobsAssumption, SettingsAssumption, SavedAssumption, BoundAssumption
  PROVE  Spec => []TablesInv
<1>1. Init => TablesInv
  BY InitTablesInv
<1>2. TablesInv /\ [Next]_vars => TablesInv'
  BY StepKeeps
<1> QED
  BY <1>1, <1>2, PTL DEF Spec

(* The document, the tables, the effects on their way to them and the      *)
(* engine's image are of their types.                                      *)
THEOREM PipelineTypes == ASSUME KnobsAreKnown PROVE Spec => []TypeOK
<1>1. TablesInv => TypeOK
  BY DEF TablesInv
<1> QED
  BY <1>1, TablesInvHolds, PTL DEF KnobsAreKnown

(* Once rebuilds have caught up every track's knobs are at its slot and    *)
(* hold the document's values, but for a knob of which two commits         *)
(* overlapped between the session lock and the tables lock.                *)
THEOREM TablesAreTheDocuments == ASSUME KnobsAreKnown PROVE Spec => []TablesFollow
<1>1. TablesInv => TablesFollow
  <2>1. Rebuilt => ~Due
    BY DEF Rebuilt, Due
  <2> QED
    BY <2>1 DEF TablesInv, TablesFollow, Arrived, RowsArrived, SoloArrived
<1> QED
  BY <1>1, TablesInvHolds, PTL DEF KnobsAreKnown

(* The rows of the last graph are at their tracks' slots in the tables it  *)
(* reads, and there is one for each track once rebuilds have caught up.    *)
THEOREM GraphIsTheDocuments == ASSUME KnobsAreKnown PROVE Spec => []GraphFollows
<1>1. TablesInv => GraphFollows
  <2>1. Rebuilt => ~Asked /\ engine.pc = "idle"
    BY DEF Rebuilt, Asked, TablesInv, TypeOK
  <2> QED
    BY <2>1 DEF TablesInv, GraphFollows, RowsKeyed, Imaged
<1> QED
  BY <1>1, TablesInvHolds, PTL DEF KnobsAreKnown
=============================================================================
