----------------------------- MODULE MCWorkers -----------------------------
(***************************************************************************)
(* The threads that carry things for others, for TLC: in a behaviour one   *)
(* of three parts moves, chosen at the start, and the others rest.  The    *)
(* parts are GraphExchange (the engine's control thread and the callbacks),*)
(* CaptureTake (the disk writer) and SidecarJobs (the job supervisors).    *)
(***************************************************************************)
EXTENDS GraphExchange, SidecarJobs, CaptureTake

VARIABLE part  \* the part that moves

all == <<part, vars, takeVars, jobVars>>

ASSUME JobAssumption == SlotsAssumption

----------------------------------------------------------------------------
MCInit ==
  /\ part \in {"graphs", "take", "jobs"}
  /\ Init
  /\ TakeInit
  /\ JobsInit

Exchanging == part = "graphs" /\ Next /\ UNCHANGED <<part, takeVars, jobVars>>
Capturing == part = "take" /\ TakeNext /\ UNCHANGED <<part, vars, jobVars>>
Supervising == part = "jobs" /\ JobsNext /\ UNCHANGED <<part, vars, takeVars>>

MCNext == Exchanging \/ Capturing \/ Supervising

(* The fairness of each part's own specification. *)
GraphFair ==
  /\ WF_vars(part = "graphs" /\ RetryRebuild) /\ WF_vars(part = "graphs" /\ PublishTables)
  /\ WF_vars(part = "graphs" /\ DropRetired) /\ WF_vars(part = "graphs" /\ DrainDone)
  /\ WF_vars(part = "graphs" /\ PushGraph)
  /\ WF_vars(part = "graphs" /\ StopPrevious) /\ WF_vars(part = "graphs" /\ InstallOutput)
  /\ \A s \in Streams : WF_vars(part = "graphs" /\ Callback(s))
TakeFair ==
  /\ WF_takeVars(part = "take" /\ (Repay \/ Record))
  /\ WF_takeVars(part = "take" /\ Writing)
  /\ WF_takeVars(part = "take" /\ Stop)
  /\ WF_takeVars(part = "take" /\ Finish)
JobFair ==
  \A j \in Jobs :
    /\ WF_jobVars(part = "jobs" /\ Prompt(j))
    /\ SF_jobVars(part = "jobs" /\ CancelQueued(j))
    /\ SF_jobVars(part = "jobs" /\ CancelRunning(j))
    /\ SF_jobVars(part = "jobs" /\ AcquireSlot(j))

MCSpec == MCInit /\ [][MCNext]_all /\ GraphFair /\ TakeFair /\ JobFair

----------------------------------------------------------------------------
(* Properties: those of the parts by their own names, but for these.       *)

(* GraphExchange: published tables reach the callback.                     *)
TablesArrive == part = "graphs" => TablesReachTheCallback

(* CaptureTake: a take whose streams are closed gets written or fails.     *)
(* SidecarJobs: an accepted cancel ends its job, and slots come back.      *)
WorkIsFinished ==
  /\ part = "take" => TakeEnds
  /\ part = "jobs" => CancelEnds /\ SlotsComeBack
=============================================================================
