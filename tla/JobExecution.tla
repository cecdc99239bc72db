---------------------------- MODULE JobExecution ----------------------------
(***************************************************************************)
(* The actors of jobs_execution.cpp: the execution actor of each job, the  *)
(* killers and the waiters.                                                *)
(*                                                                         *)
(* actor[j] is "none" until the server creates the actor of job j,         *)
(* "created" until it first runs, "running" while the job's tasks run,     *)
(* "cancelled" when a killer has cancelled its parallel task,              *)
(* "notifying" while JOB_COMPLETED has not been handled, and "dead".       *)
(***************************************************************************)
EXTENDS BatsimState

executionUnchanged ==
  UNCHANGED <<server, loopVars, jobCounters, actorCounts, submitVars,
              registration_finished, bufferVars, submitterActors, readerActor,
              schedVars>>

\* execute_job_process, up to the point where it waits for its first task.
JobStarts(j) ==
  /\ ~aborted
  /\ actor[j] = "created"
  /\ actor' = [actor EXCEPT ![j] = "running"]
  /\ update_machines_on_job_run(j)
  /\ UNCHANGED <<jobs, state, kill_requested, alloc, traced, mailbox,
                 helperActors, aborted>>
  /\ executionUnchanged

\* execute_job_process, from the end of its last task: the job succeeded, failed
\* or reached its walltime, its machines are released and the server is told.
JobEnds(j, outcome) ==
  /\ ~aborted
  /\ actor[j] = "running"
  /\ Assert(OnItsMachines({j}))
  /\ state' = [state EXCEPT ![j] = outcome]
  /\ actor' = [actor EXCEPT ![j] = "notifying"]
  /\ update_machines_on_job_end({j})
  /\ Put(Msg("JOB_COMPLETED", "job", {j}))
  /\ UNCHANGED <<jobs, kill_requested, alloc, traced, helperActors>>
  /\ executionUnchanged

\* execute_job_process, when its task was cancelled (return code -2): the server
\* is not told, since the killer tells it.
JobCancelled(j) ==
  /\ ~aborted
  /\ actor[j] = "cancelled"
  /\ Assert(OnItsMachines({j}))
  /\ state' = [state EXCEPT ![j] = "COMPLETED_KILLED"]
  /\ actor' = [actor EXCEPT ![j] = "dead"]
  /\ update_machines_on_job_end({j})
  /\ UNCHANGED <<jobs, kill_requested, alloc, traced, mailbox, helperActors>>
  /\ executionUnchanged

\* Mutant of RunningJobs: a job that has just ended is killed all the same.
Alive(S) == S

RunningJobs(S) == {j \in S : state[j] = "RUNNING"}

(***************************************************************************)
(* killer_process on the jobs S. The running jobs of S that are inside a   *)
(* parallel task (inPtask) have it cancelled and will end by themselves;   *)
(* the other running jobs have their actor killed. Which jobs are inside a *)
(* parallel task depends on their profiles and on the date: any may be.    *)
(***************************************************************************)
killer_process(S, inPtask) ==
  LET running == RunningJobs(S)
      toKill  == running \ inPtask
  IN
  /\ ~aborted
  /\ S \in killers
  /\ inPtask \subseteq running
  /\ Assert(/\ S \subseteq jobs
            /\ \A j \in S : state[j] = "RUNNING" \/ IsComplete(state[j])
            /\ \A j \in S : state[j] # "REJECTED"
            /\ \A j \in running : actor[j] = "running"   \* job->task, actors
            /\ OnItsMachines(toKill))
  /\ state' = [j \in Job |-> IF j \in toKill THEN "COMPLETED_KILLED" ELSE state[j]]
  /\ actor' = [j \in Job |-> CASE j \in toKill  -> "dead"
                               [] j \in inPtask -> "cancelled"
                               [] OTHER         -> actor[j]]
  /\ update_machines_on_job_end(toKill)
  /\ killers' = killers \ {S}
  /\ Put(Msg("KILLING_DONE", "killer", S))
  /\ UNCHANGED <<jobs, kill_requested, alloc, traced, sleeping>>
  /\ executionUnchanged

\* waiter_process: the waiter says nothing once the simulation is over.
WaiterWakes(w) ==
  /\ ~aborted
  /\ w \in sleeping
  /\ sleeping' = sleeping \ {w}
  /\ IF end_sent \/ end_ack
     THEN UNCHANGED mailbox
     ELSE Put(Msg("WAITING_DONE", w, {}))
  /\ UNCHANGED <<jobVars, machineVars, killers, aborted>>
  /\ executionUnchanged

ExecutionStep ==
  \/ \E j \in Job : JobStarts(j) \/ JobCancelled(j)
  \/ \E j \in Job, outcome \in Outcome : JobEnds(j, outcome)
  \/ \E S \in killers : \E inPtask \in SUBSET S : killer_process(S, inPtask)
  \/ \E w \in Waiter : WaiterWakes(w)
=============================================================================
