---------------------------- MODULE TripleBuffer ----------------------------
(***************************************************************************)
(* aura-engine/src/sync/triple_buffer.rs: the wait-free publication of a   *)
(* whole preallocated value from the control thread (`Input`) to the audio *)
(* thread (`Output`).                                                      *)
(*                                                                         *)
(* A value is a struct of several fields, copied one memory access at a    *)
(* time by each side; a field holds the number of the publication it       *)
(* belongs to (its version).  The two threads interleave between any two   *)
(* accesses.  `read` is a load of the dirty bit and, only then, a swap:    *)
(* two steps, between which the writer may publish again.                  *)
(***************************************************************************)
EXTENDS Naturals

CONSTANTS
  Fields,        \* the words of the payload type T
  MaxPublishes   \* bound: how many values the writer publishes

ASSUME FieldsAssumption == Fields # {}
ASSUME MaxPublishesAssumption == MaxPublishes \in Nat

VARIABLES
  slots,      \* slots[i][f]: the version field f of slot i was last written for
  handoff,    \* the shared word: an index and the dirty bit
  widx,       \* Input.idx
  wleft,      \* fields of the writer's slot the value under construction still lacks
  ridx,       \* Output.idx
  rpc,        \* "idle", "swap" (dirty was seen) or "borrow" (the &T is in use)
  copied,     \* fields read through the current borrow
  published,  \* publications so far: the version of the newest value
  disposed    \* versions the writer has dropped or taken back

wvars == <<widx, wleft>>
rvars == <<ridx, rpc, copied>>
bufferVars == <<slots, handoff, widx, wleft, ridx, rpc, copied, published, disposed>>

Idx == 0..2
Empty == 0   \* the content of a slot that holds no published value

(* Every field of the slot belongs to version v. *)
Holds(i, v) == \A f \in Fields : slots[i][f] = v

(* The slot holds some whole value, never a mixture of two. *)
Whole(i) == \E v \in 0..published : Holds(i, v)

Version(i) == slots[i][CHOOSE f \in Fields : TRUE]

BufferInit ==
  /\ slots = [i \in Idx |-> [f \in Fields |-> Empty]]
  /\ handoff = [idx |-> 2, dirty |-> FALSE]
  /\ widx = 0
  /\ wleft = {}
  /\ ridx = 1
  /\ rpc = "idle"
  /\ copied = {}
  /\ published = 0
  /\ disposed = {}

(* Versions dropped once the content of slot i is. *)
Dispose(i) == disposed \cup ({Version(i)} \ {Empty})

----------------------------------------------------------------------------
(* Faulty variants of the actions below: plausible bugs, not code.  Each   *)
(* property is checked to fail when one of them takes its action's place.  *)

(* The reader clears the dirty bit and takes the slot, but leaves its      *)
(* index out of the word: a load and a store in place of the swap.         *)
SwapKeepsIndex ==
  /\ rpc = "swap"
  /\ handoff' = [handoff EXCEPT !.dirty = FALSE]
  /\ ridx' = handoff.idx
  /\ rpc' = "borrow"
  /\ UNCHANGED <<slots, wvars, copied, published, disposed>>

(* `publish` without the DIRTY flag. *)
PublishClean ==
  /\ wleft = {}
  /\ Holds(widx, published + 1)
  /\ handoff' = [idx |-> widx, dirty |-> FALSE]
  /\ widx' = handoff.idx
  /\ published' = published + 1
  /\ UNCHANGED <<slots, wleft, rvars, disposed>>

(* `read` without the test of the dirty bit. *)
ReadAlwaysSwaps ==
  /\ rpc = "idle"
  /\ rpc' = "swap"
  /\ copied' = {}
  /\ UNCHANGED <<slots, handoff, wvars, ridx, published, disposed>>

(* `write` that stores over the old value without dropping it. *)
OverwriteLeaks ==
  /\ wleft = {}
  /\ published < MaxPublishes
  /\ ~Holds(widx, published + 1)
  /\ wleft' = Fields
  /\ UNCHANGED <<slots, handoff, widx, rvars, published, disposed>>

(* `replace` on the handoff's slot instead of the writer's own. *)
ReplaceHandoff ==
  /\ wleft = {}
  /\ ~Holds(handoff.idx, Empty)
  /\ slots' = [slots EXCEPT ![widx] = [f \in Fields |-> Empty]]
  /\ disposed' = Dispose(handoff.idx)
  /\ UNCHANGED <<handoff, widx, wleft, rvars, published>>

----------------------------------------------------------------------------
(* The writer.  `write(value)` drops the value its slot held, stores the   *)
(* fields of the new one in any order, and publishes.                      *)

Overwrite ==
  /\ wleft = {}
  /\ published < MaxPublishes
  /\ ~Holds(widx, published + 1)
  /\ disposed' = Dispose(widx)
  /\ wleft' = Fields
  /\ UNCHANGED <<slots, handoff, widx, rvars, published>>

StoreField(f) ==
  /\ f \in wleft
  /\ slots' = [slots EXCEPT ![widx][f] = published + 1]
  /\ wleft' = wleft \ {f}
  /\ UNCHANGED <<handoff, widx, rvars, published, disposed>>

Publish ==
  /\ wleft = {}
  /\ Holds(widx, published + 1)
  /\ handoff' = [idx |-> widx, dirty |-> TRUE]
  /\ widx' = handoff.idx
  /\ published' = published + 1
  /\ UNCHANGED <<slots, wleft, rvars, disposed>>

(* `replace(None)`: take back whatever the writer's slot holds, without    *)
(* publishing; this is where a retired kernel table is released.           *)
Replace ==
  /\ wleft = {}
  /\ ~Holds(widx, Empty) /\ ~Holds(widx, published + 1)
  /\ slots' = [slots EXCEPT ![widx] = [f \in Fields |-> Empty]]
  /\ disposed' = Dispose(widx)
  /\ UNCHANGED <<handoff, widx, wleft, rvars, published>>

----------------------------------------------------------------------------
(* The reader.                                                             *)

(* `updated()`: one load; without the dirty bit the current slot is read.  *)
Updated ==
  /\ rpc = "idle"
  /\ rpc' = IF handoff.dirty THEN "swap" ELSE "borrow"
  /\ copied' = {}
  /\ UNCHANGED <<slots, handoff, wvars, ridx, published, disposed>>

(* Swapping in a clean index consumes the update.                          *)
Swap ==
  /\ rpc = "swap"
  /\ handoff' = [idx |-> ridx, dirty |-> FALSE]
  /\ ridx' = handoff.idx
  /\ rpc' = "borrow"
  /\ UNCHANGED <<slots, wvars, copied, published, disposed>>

CopyField(f) ==
  /\ rpc = "borrow"
  /\ copied' = copied \cup {[field |-> f, version |-> slots[ridx][f]]}
  /\ f \notin {c.field : c \in copied}
  /\ UNCHANGED <<slots, handoff, wvars, ridx, rpc, published, disposed>>

(* The borrow ends with every field read, or earlier: the caller decides.  *)
EndBorrow ==
  /\ rpc = "borrow"
  /\ rpc' = "idle"
  /\ UNCHANGED <<slots, handoff, wvars, ridx, copied, published, disposed>>

Writer == Overwrite \/ (\E f \in Fields : StoreField(f)) \/ Publish \/ Replace
Reader == Updated \/ Swap \/ (\E f \in Fields : CopyField(f)) \/ EndBorrow

BufferNext == Writer \/ Reader

BufferSpec == BufferInit /\ [][BufferNext]_bufferVars

(* The device calls the audio callback forever and `read` is a bounded     *)
(* number of instructions, so the reader never stops; the writer may.      *)
BufferFairSpec ==
  BufferSpec /\ WF_bufferVars(Updated) /\ WF_bufferVars(Swap) /\ WF_bufferVars(EndBorrow)

----------------------------------------------------------------------------
(* Properties.                                                             *)

BufferTypeOK ==
  /\ slots \in [Idx -> [Fields -> 0..MaxPublishes]]
  /\ handoff \in [idx : Idx, dirty : BOOLEAN]
  /\ widx \in Idx /\ ridx \in Idx
  /\ wleft \subseteq Fields
  /\ rpc \in {"idle", "swap", "borrow"}
  /\ copied \subseteq [field : Fields, version : 0..MaxPublishes]
  /\ published \in 0..MaxPublishes
  /\ disposed \subseteq 1..MaxPublishes

(* The module doc's claim behind both `unsafe impl`s: the writer's &mut,   *)
(* the reader's & and the handoff word never name the same slot.           *)
Permutation == widx # ridx /\ widx # handoff.idx /\ ridx # handoff.idx

(* What one borrow yields is one published value: fields of two versions   *)
(* are never combined, however the writer runs between the accesses.       *)
NoTornRead == \A c, d \in copied : c.version = d.version

(* With the dirty bit clear the reader already has the newest value; with  *)
(* it set, the swap would give it exactly that one.  So a read that        *)
(* follows a publication can never return what preceded it.                *)
NewestIsReachable ==
  IF handoff.dirty THEN Holds(handoff.idx, published) ELSE Holds(ridx, published)

(* A value the writer dropped or released (unmapping its executable pages) *)
(* is out of the reader's reach, and of the swap's.                        *)
NoUseAfterRelease ==
  \A i \in {ridx, handoff.idx} : Whole(i) /\ Version(i) \notin disposed

(* No published value is lost: it is in a slot until the writer disposes   *)
(* of it, so a JIT module's pages cannot leak through the buffer.          *)
NoLeak ==
  \A v \in 1..published :
    \/ v \in disposed
    \/ \E i \in Idx : Holds(i, v)

(* The buffer implements a register holding the latest value: whatever    *)
(* the two threads' accesses do, the reader moves from one newest value to *)
(* a newer one and never back.                                             *)
Latest == INSTANCE LatestValue WITH latest <- published, held <- Version(ridx)
ImplementsLatestValue == Latest!Spec

(* Every published value, or a newer one, reaches the reader, even while   *)
(* the writer keeps publishing.                                            *)
EveryPublicationArrives ==
  \A v \in 1..MaxPublishes : (published >= v) ~> (Version(ridx) >= v)

=============================================================================
