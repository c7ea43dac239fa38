------------------------------ MODULE MCShared ------------------------------
(***************************************************************************)
(* Values that threads hand over through shared memory, for TLC: in a      *)
(* behaviour the triple buffer (TripleBuffer), one slot's pair of gains    *)
(* (GainSeqlock) or the mixer's tables as a whole (CommitPipeline) move,   *)
(* chosen at the start, and the other parts rest.                          *)
(***************************************************************************)
EXTENDS TripleBuffer, GainSeqlock, CommitPipeline

VARIABLE part  \* the part that moves

all == <<part, bufferVars, gainVars, vars>>

(* Two tracks that sound, with an automation track among them, and a song  *)
(* that has them in the other order, with the first one soloed.            *)
Rows == {"drums", "bass", "lane"}
Song ==
  [order |-> <<"bass", "lane", "drums">>,
   row |-> [k \in Rows |-> IF k = "bass" THEN "solo" ELSE "plain"]]
OneSong == {Song}

ASSUME PipelineAssumption == KnobsAreKnown

----------------------------------------------------------------------------
MCInit ==
  /\ part \in {"buffer", "gains", "pipeline"}
  /\ BufferInit /\ GainInit
  /\ Init /\ (part = "pipeline" \/ doc = Song)

Buffering == part = "buffer" /\ BufferNext /\ UNCHANGED <<part, gainVars, vars>>
Gaining == part = "gains" /\ GainNext /\ UNCHANGED <<part, bufferVars, vars>>
Committing == part = "pipeline" /\ Next /\ UNCHANGED <<part, bufferVars, gainVars>>

MCNext == Buffering \/ Gaining \/ Committing

(* The fairness of TripleBuffer's and of GainSeqlock's own specification.  *)
BufferFair ==
  /\ WF_bufferVars(part = "buffer" /\ Updated) /\ WF_bufferVars(part = "buffer" /\ Swap)
  /\ WF_bufferVars(part = "buffer" /\ EndBorrow)
GainFair ==
  /\ \A t \in Writers :
       WF_gainVars(part = "gains" /\ Write(t)) /\ SF_gainVars(part = "gains" /\ Enter(t))
  /\ \A t \in Readers : WF_gainVars(part = "gains" /\ Read(t))

MCSpec == MCInit /\ [][MCNext]_all /\ BufferFair /\ GainFair

----------------------------------------------------------------------------
(* Properties: those of the parts by their own names, but for this one.    *)

(* TripleBuffer: a reader that keeps reading gets every last publication.  *)
(* GainSeqlock: whoever writes or reads a pair of gains comes to an end.   *)
ValuesArrive == EveryPublicationArrives /\ EveryAccessReturns
=============================================================================
