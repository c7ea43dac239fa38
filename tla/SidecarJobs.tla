---------------------------- MODULE SidecarJobs ----------------------------
(***************************************************************************)
(* The sidecar job manager (sidecars/jobs.rs): a registry of jobs, a       *)
(* supervisor task per job, a semaphore for the workers that may run at    *)
(* once, and cancelling, which may fall at any await of the supervisor.    *)
(*                                                                         *)
(* A worker is a process of which nothing is known: it prints lines,       *)
(* closes its output, exits or hangs as it likes, and may ignore SIGTERM.  *)
(* Log lines, progress throttling and the texts of errors are left out.    *)
(***************************************************************************)
EXTENDS Integers, FiniteSets

CONSTANTS
  Jobs,
  WorkerSlots, \* workers at once
  MaxLines   \* bound: protocol lines of one worker

(* What the theorems ask of the constants.                                *)
SlotsAssumption == WorkerSlots \in Nat /\ MaxLines \in Nat

VARIABLES
  state,      \* JobEntry.status.state, "unknown" where there is no entry
  requested,  \* JobEntry.cancel_requested
  notify,     \* JobEntry.cancel: the permit notify_one leaves
  pc,         \* the supervisor
  holding,    \* jobs whose supervisor holds a slot
  child,      \* the worker's process
  lines,      \* lines it has printed
  verdict,    \* protocol_terminal
  cancelled,  \* the supervisor has seen the cancel
  told,       \* history: the terminal events sent
  first       \* history: the first terminal line printed

jobVars == <<state, requested, notify, pc, holding, child, lines, verdict, cancelled, told, first>>
worker == <<child, lines, verdict, first>>

Terminal == {"done", "error", "cancelled"}

(* Types. *)
JobsTypeOK ==
  /\ state \in [Jobs -> {"unknown", "queued", "running"} \cup Terminal]
  /\ requested \in [Jobs -> BOOLEAN] /\ notify \in [Jobs -> BOOLEAN]
  /\ pc \in [Jobs -> {"new", "start", "wait", "spawn", "read", "reap", "term", "finish", "tell", "gone"}]
  /\ holding \subseteq Jobs
  /\ child \in [Jobs -> {"none", "alive", "exited", "reaped"}]
  /\ lines \in [Jobs -> 0..MaxLines]
  /\ verdict \in [Jobs -> {"none", "done", "error"}] /\ first \in [Jobs -> {"none", "done", "error"}]
  /\ cancelled \in [Jobs -> BOOLEAN]
  /\ told \in [Jobs -> [Terminal -> 0..2]]

JobsInit ==
  /\ state = [j \in Jobs |-> "unknown"]
  /\ requested = [j \in Jobs |-> FALSE] /\ notify = [j \in Jobs |-> FALSE]
  /\ pc = [j \in Jobs |-> "new"] /\ holding = {}
  /\ child = [j \in Jobs |-> "none"] /\ lines = [j \in Jobs |-> 0]
  /\ verdict = [j \in Jobs |-> "none"] /\ first = [j \in Jobs |-> "none"]
  /\ cancelled = [j \in Jobs |-> FALSE]
  /\ told = [j \in Jobs |-> [e \in Terminal |-> 0]]

Goes(j, p) == pc' = [pc EXCEPT ![j] = p]

----------------------------------------------------------------------------
(* Commands.                                                               *)

Submit(j) ==
  /\ pc[j] = "new" /\ Goes(j, "start")
  /\ state' = [state EXCEPT ![j] = "queued"]
  /\ UNCHANGED <<requested, notify, holding, worker, cancelled, told>>

(* Faulty variants. *)
CancelAtOnce(j) ==
  /\ state[j] \in {"queued", "running"}
  /\ requested' = [requested EXCEPT ![j] = TRUE]
  /\ notify' = [notify EXCEPT ![j] = TRUE]
  /\ state' = [state EXCEPT ![j] = "cancelled"]
  /\ UNCHANGED <<pc, holding, worker, cancelled, told>>
CancelWaiters(j) ==
  /\ state[j] \in {"queued", "running"}
  /\ requested' = [requested EXCEPT ![j] = TRUE]
  /\ notify' = [notify EXCEPT ![j] = pc[j] \in {"wait", "read", "reap"}]
  /\ UNCHANGED <<state, pc, holding, worker, cancelled, told>>

(* notify_one wakes the waiter or leaves one permit. *)
Cancel(j) ==
  /\ state[j] \in {"queued", "running"}
  /\ requested' = [requested EXCEPT ![j] = TRUE]
  /\ notify' = [notify EXCEPT ![j] = TRUE]
  /\ UNCHANGED <<state, pc, holding, worker, cancelled, told>>

(* sweep_terminal: too old, or too many. *)
SweepTerminal(j) ==
  /\ state[j] \in Terminal
  /\ state' = [state EXCEPT ![j] = "unknown"]
  /\ UNCHANGED <<requested, notify, pc, holding, worker, cancelled, told>>

----------------------------------------------------------------------------
(* The supervisor (run_job).                                               *)

SeesCancel(j) == notify[j] /\ notify' = [notify EXCEPT ![j] = FALSE] /\ cancelled' = [cancelled EXCEPT ![j] = TRUE]

Start(j) ==
  /\ pc[j] = "start"
  /\ cancelled' = [cancelled EXCEPT ![j] = requested[j]]
  /\ Goes(j, IF requested[j] THEN "finish" ELSE "wait")
  /\ UNCHANGED <<state, requested, notify, holding, worker, told>>

(* set_stage says nothing of a job that has ended. *)
Runs(j) == state' = [state EXCEPT ![j] = IF @ \in {"queued", "running"} THEN "running" ELSE @]

(* Faulty variants. *)
AcquireAndDrop(j) ==
  /\ pc[j] = "wait" /\ Cardinality(holding) < WorkerSlots
  /\ Goes(j, "spawn")
  /\ Runs(j)
  /\ UNCHANGED <<requested, notify, holding, worker, cancelled, told>>
AcquireOneLess(j) ==
  /\ pc[j] = "wait" /\ Cardinality(holding) + 1 < WorkerSlots
  /\ holding' = holding \cup {j}
  /\ Goes(j, "spawn")
  /\ Runs(j)
  /\ UNCHANGED <<requested, notify, worker, cancelled, told>>

AcquireSlot(j) ==
  /\ pc[j] = "wait" /\ Cardinality(holding) < WorkerSlots
  /\ holding' = holding \cup {j}
  /\ Goes(j, "spawn")
  /\ Runs(j)
  /\ UNCHANGED <<requested, notify, worker, cancelled, told>>

CancelQueued(j) ==
  /\ pc[j] = "wait" /\ SeesCancel(j) /\ Goes(j, "finish")
  /\ UNCHANGED <<state, requested, holding, worker, told>>

Spawn(j) ==
  /\ pc[j] = "spawn"
  /\ \/ child' = [child EXCEPT ![j] = "alive"] /\ Goes(j, "read")
     \/ UNCHANGED child /\ Goes(j, "finish")
  /\ UNCHANGED <<state, requested, notify, holding, lines, verdict, first, cancelled, told>>

(* Faulty variant. *)
ReadLastLine(j) ==
  /\ pc[j] = "read" /\ lines[j] < MaxLines
  /\ lines' = [lines EXCEPT ![j] = @ + 1]
  /\ \E kind \in {"done", "error"} :
       /\ verdict' = [verdict EXCEPT ![j] = kind]
       /\ first' = [first EXCEPT ![j] = IF @ = "none" THEN kind ELSE @]
  /\ UNCHANGED <<state, requested, notify, pc, holding, child, cancelled, told>>

(* handle_stdout_line: the first terminal line counts. *)
ReadLine(j) ==
  /\ pc[j] = "read" /\ lines[j] < MaxLines
  /\ lines' = [lines EXCEPT ![j] = @ + 1]
  /\ \E kind \in {"progress", "done", "error"} :
       /\ IF kind = "progress" THEN (IF verdict[j] = "none" THEN Runs(j) ELSE UNCHANGED state) /\ UNCHANGED verdict
          ELSE /\ verdict' = [verdict EXCEPT ![j] = IF @ = "none" THEN kind ELSE @]
               /\ UNCHANGED state
       /\ first' = [first EXCEPT ![j] = IF @ = "none" /\ kind # "progress" THEN kind ELSE @]
  /\ UNCHANGED <<requested, notify, pc, holding, child, cancelled, told>>

(* The output ends, whether or not the process has. *)
Eof(j) ==
  /\ pc[j] = "read" /\ Goes(j, "reap")
  /\ UNCHANGED <<state, requested, notify, holding, worker, cancelled, told>>

CancelRunning(j) ==
  /\ pc[j] \in {"read", "reap"} /\ SeesCancel(j) /\ Goes(j, "term")
  /\ UNCHANGED <<state, requested, holding, worker, told>>

(* terminate: SIGTERM, the grace, SIGKILL; it waits for the exit. *)
Terminate(j) ==
  /\ pc[j] = "term"
  /\ child' = [child EXCEPT ![j] = "reaped"]
  /\ Goes(j, "finish")
  /\ UNCHANGED <<state, requested, notify, holding, lines, verdict, first, cancelled, told>>

Exit(j) ==
  /\ child[j] = "alive" /\ child' = [child EXCEPT ![j] = "exited"]
  /\ UNCHANGED <<state, requested, notify, pc, holding, lines, verdict, first, cancelled, told>>

Reap(j) ==
  /\ pc[j] = "reap" /\ child[j] = "exited"
  /\ child' = [child EXCEPT ![j] = "reaped"]
  /\ Goes(j, "finish")
  /\ UNCHANGED <<state, requested, notify, holding, lines, verdict, first, cancelled, told>>

Ending(j) == IF cancelled[j] THEN "cancelled" ELSE IF verdict[j] = "done" THEN "done" ELSE "error"

(* finalize, under the lock: once. *)
Finalize(j) ==
  /\ pc[j] = "finish"
  /\ IF state[j] \in {"queued", "running"}
     THEN state' = [state EXCEPT ![j] = Ending(j)] /\ Goes(j, "tell")
     ELSE UNCHANGED state /\ Goes(j, "gone")
  /\ holding' = IF state[j] \in {"queued", "running"} THEN holding ELSE holding \ {j}
  /\ UNCHANGED <<requested, notify, worker, cancelled, told>>

(* The event, outside it; then the supervisor returns and drops its slot. *)
Tell(j) ==
  /\ pc[j] = "tell" /\ Goes(j, "gone")
  /\ told' = [told EXCEPT ![j][Ending(j)] = @ + 1]
  /\ holding' = holding \ {j}
  /\ UNCHANGED <<state, requested, notify, worker, cancelled>>

----------------------------------------------------------------------------
Supervise(j) ==
  \/ Start(j) \/ AcquireSlot(j) \/ CancelQueued(j) \/ Spawn(j) \/ ReadLine(j)
  \/ CancelRunning(j) \/ Terminate(j) \/ Reap(j) \/ Finalize(j) \/ Tell(j)

JobsNext ==
  \E j \in Jobs : Submit(j) \/ Cancel(j) \/ SweepTerminal(j) \/ Supervise(j) \/ Eof(j) \/ Exit(j)

(* Tasks are polled, and select is random among what is ready. *)
Prompt(j) == Start(j) \/ Spawn(j) \/ Terminate(j) \/ Reap(j) \/ Finalize(j) \/ Tell(j)

JobsSpec == JobsInit /\ [][JobsNext]_jobVars
        /\ \A j \in Jobs : WF_jobVars(Prompt(j)) /\ SF_jobVars(CancelQueued(j)) /\ SF_jobVars(CancelRunning(j))
                           /\ SF_jobVars(AcquireSlot(j))

----------------------------------------------------------------------------
(* Properties.                                                             *)

(* Whatever falls between its awaits, a job ends once: when its supervisor *)
(* has returned, one terminal event was sent, the one the registry says or *)
(* said; and until then the registry does not call it over, so that        *)
(* sweeping never evicts a job that runs.                                  *)
OneEnding ==
  \A j \in Jobs :
    /\ pc[j] = "gone" => \E e \in Terminal :
         /\ told[j] = [t \in Terminal |-> IF t = e THEN 1 ELSE 0]
         /\ state[j] \in {e, "unknown"}
    /\ pc[j] \notin {"new", "tell", "gone"} => state[j] \in {"queued", "running"}

(* The ending is the worker's own or the user's: done only after a done    *)
(* line that no error line came before, and only when the process is gone; *)
(* cancelled only when someone cancelled.                                  *)
EndingIsEarned ==
  \A j \in Jobs :
    /\ state[j] = "done" => first[j] = "done" /\ child[j] = "reaped"
    /\ state[j] = "error" => first[j] # "done"
    /\ state[j] = "cancelled" => requested[j]

(* No more workers than slots, and none that outlives its slot: however a  *)
(* job ends, its process is reaped before another may take its place.      *)
WorkersHoldSlots ==
  /\ Cardinality(holding) <= WorkerSlots
  /\ \A j \in Jobs : child[j] \in {"alive", "exited"} => j \in holding
  /\ \A j \in holding : pc[j] \notin {"new", "start", "wait", "gone"}

(* All three; and the types.                                               *)
EndingsAreTrue == JobsTypeOK /\ OneEnding /\ EndingIsEarned /\ WorkersHoldSlots

(* A cancel that was accepted ends the job, even one whose worker hangs    *)
(* and wherever its supervisor was: no cancel is lost between two awaits.  *)
CancelEnds == \A j \in Jobs : requested[j] ~> pc[j] = "gone"

(* If the workers come to an end, no job waits for a slot for ever.        *)
SlotsComeBack ==
  <>[](\A k \in Jobs : child[k] \notin {"alive", "exited"}) =>
    \A j \in Jobs : pc[j] = "wait" ~> pc[j] # "wait"
=============================================================================
