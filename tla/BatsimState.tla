---------------------------- MODULE BatsimState ----------------------------
(***************************************************************************)
(* The state that Batsim's actors share, and the operations every actor    *)
(* uses on it: the "server" mailbox (ipp.cpp), the buffer of events to     *)
(* send to the scheduler (protocol.cpp), the job table (jobs.cpp,          *)
(* workload.cpp) and the machines' job sets (machines.cpp).                *)
(*                                                                         *)
(* The actors themselves are in JobSubmitters, SchedulerLink, JobExecution *)
(* and Server; Batsim composes them.                                       *)
(*                                                                         *)
(* Batsim's actors are SimGrid actors. They are cooperative: an actor runs *)
(* alone until it blocks in a put, a get, a sleep or the wait on a task.   *)
(* A message crosses the simulated network, so it is delivered only when   *)
(* every actor that can run has run (Runnable below).                      *)
(***************************************************************************)
EXTENDS Integers, Sequences, FiniteSets

CONSTANTS
  StaticJob,       \* the jobs of the workload files
  DynJob,          \* the jobs the scheduler may register
  ExtEvent,        \* the external (generic) events of the event lists
  JobSubmitter,    \* one static job submitter per workload
  EventSubmitter,  \* one event submitter per event list
  Owner,           \* the submitter in charge of each static job and event
  Date,            \* the submission (or occurrence) date of each of them
  Machine,         \* the computing machines
  NbRes,           \* Job::requested_nb_res
  Waiter,          \* the CALL_ME_LATER requests the scheduler may make
  LateCall,        \* those whose date may be over when the server handles them
  Outcome,         \* how a job may end by itself
  RegistrationEnabled,  \* context->registration_sched_enabled
  RegistrationAck,      \* context->registration_sched_ack
  AllowSharing          \* context->allow_compute_sharing

Job       == StaticJob \cup DynJob
Submitter == JobSubmitter \cup EventSubmitter
Item      == Job \cup ExtEvent \cup Waiter

OrdinaryEnds == {"COMPLETED_SUCCESSFULLY", "COMPLETED_FAILED",
                 "COMPLETED_WALLTIME_REACHED"}

\* The states of jobs.hpp, and ABSENT for a dynamic job that does not exist yet.
JobState == {"ABSENT", "NOT_SUBMITTED", "SUBMITTED", "RUNNING",
             "COMPLETED_KILLED", "REJECTED"} \cup OrdinaryEnds

\* Job::is_complete
IsComplete(st) == st \in OrdinaryEnds \cup {"COMPLETED_KILLED", "REJECTED"}

ASSUME ConstantsAssumption ==
  /\ IsFiniteSet(StaticJob) /\ IsFiniteSet(DynJob) /\ IsFiniteSet(ExtEvent)
  /\ IsFiniteSet(JobSubmitter) /\ IsFiniteSet(EventSubmitter) /\ IsFiniteSet(Waiter)
  /\ StaticJob \cap DynJob = {}
  /\ Job \cap ExtEvent = {}
  /\ JobSubmitter \cap EventSubmitter = {}
  /\ Waiter \cap (Submitter \cup Job \cup ExtEvent) = {}
  /\ LateCall \subseteq Waiter
  /\ {"sched", "job", "killer"} \cap (Submitter \cup Waiter) = {}
  /\ Owner \in [StaticJob \cup ExtEvent -> Submitter]
  /\ \A i \in StaticJob : Owner[i] \in JobSubmitter
  /\ \A e \in ExtEvent : Owner[e] \in EventSubmitter
  /\ Date \in [StaticJob \cup ExtEvent -> Nat]
  /\ IsFiniteSet(Machine) /\ NbRes \in [Job -> Nat \ {0}]
  /\ Outcome \subseteq OrdinaryEnds
  /\ {RegistrationEnabled, RegistrationAck, AllowSharing} \subseteq BOOLEAN

----------------------------------------------------------------------------
VARIABLES
  \* The job table and the jobs (workload.hpp, jobs.hpp)
  jobs,           \* Jobs::_jobs, the jobs that have not been deleted
  state,          \* Job::state
  kill_requested, \* the jobs whose kill_requested is set
  alloc,          \* the machines of the job's SchedulingAllocation
  actor,          \* where the job's execution actor is
  traced,         \* how many lines of the jobs trace are about the job
  \* The machines (machines.hpp)
  computing,      \* Machine::jobs_being_computed
  machine_state,  \* Machine::state
  \* The server's mailbox and the server's place in its loop
  mailbox,        \* the messages put to "server" and not handled yet
  server,         \* receive | handle | check | done
  \* ServerData and the registration flag of BatsimContext
  sched_ready, end_sent, end_ack, submitters, nb_finished,
  nb_submitted, nb_running, nb_completed, nb_killers, nb_waiters,
  registration_finished,
  to_delete,      \* how often each job is in jobs_to_be_deleted
  outbox,         \* the events held by the protocol writer
  \* The other actors
  submitter,      \* where each submitter is
  todo,           \* what each submitter has still to submit
  reader,         \* where the REQ-REP actor is: none | run | asleep | blocked
  held,           \* the message it will send when it wakes up
  killers,        \* the job lists of the killers that have not run yet
  sleeping,       \* the waiters that are asleep
  \* The scheduler, on the other side of the socket
  view,           \* what the scheduler knows of each job
  told,           \* the notifications it has received
  asked,          \* the CALL_ME_LATER requests it has made
  kill_asked,     \* the jobs it has asked to kill
  reg_over,       \* the scheduler has said registration_finished
  unacked,        \* its KILL_JOB events that no JOB_KILLED has answered
  aborted         \* an xbt_assert has failed: the process is dead

jobVars     == <<jobs, state, kill_requested, alloc, actor, traced>>
machineVars == <<computing, machine_state>>
loopVars    == <<sched_ready, end_sent, end_ack>>
jobCounters == <<nb_submitted, nb_running, nb_completed>>
actorCounts == <<nb_killers, nb_waiters>>
submitVars  == <<submitters, nb_finished>>
bufferVars  == <<to_delete, outbox>>
submitterActors == <<submitter, todo>>
readerActor     == <<reader, held>>
helperActors    == <<killers, sleeping>>
schedVars   == <<view, told, asked, kill_asked, reg_over, unacked>>

vars == <<jobVars, machineVars, mailbox, server, loopVars, jobCounters,
          actorCounts, submitVars, registration_finished, bufferVars,
          submitterActors, readerActor, helperActors, schedVars, aborted>>

----------------------------------------------------------------------------
(***************************************************************************)
(* Messages to the server (ipp.hpp). "from" tells which actor is blocked   *)
(* in the put, "about" the jobs, events or waiters the message is about.   *)
(***************************************************************************)
Message ==
  [type : {"SUBMITTER_HELLO", "SUBMITTER_BYE"}, from : Submitter, about : {{}}]
  \cup [type : {"JOB_SUBMITTED"}, from : JobSubmitter, about : SUBSET StaticJob]
  \cup [type : {"EVENT_OCCURRED"}, from : EventSubmitter, about : SUBSET ExtEvent]
  \cup [type : {"JOB_COMPLETED"}, from : {"job"}, about : SUBSET Job]
  \cup [type : {"KILLING_DONE"}, from : {"killer"}, about : SUBSET Job]
  \cup [type : {"WAITING_DONE"}, from : Waiter, about : {{}}]
  \cup [type : {"SCHED_EXECUTE_JOB", "SCHED_REJECT_JOB", "SCHED_KILL_JOB",
                "JOB_REGISTERED_BY_DP"}, from : {"sched"}, about : SUBSET Job]
  \cup [type : {"SCHED_CALL_ME_LATER"}, from : {"sched"}, about : SUBSET Waiter]
  \cup [type : {"END_DYNAMIC_REGISTER", "CONTINUE_DYNAMIC_REGISTER", "SCHED_READY"},
        from : {"sched"}, about : {{}}]

Msg(type, from, about) == [type |-> type, from |-> from, about |-> about]

\* send_message("server", ...): the put blocks its sender, first come first served.
Put(m) == mailbox' = Append(mailbox, m)

(***************************************************************************)
(* Events for the scheduler, in the order the writer holds them. An event  *)
(* about several jobs stands for the same event for each of them, save     *)
(* JOB_KILLED, which really holds a list.                                  *)
(***************************************************************************)
EventType == {"JOB_SUBMITTED", "JOB_COMPLETED", "JOB_KILLED", "REQUESTED_CALL",
              "NO_MORE_STATIC_JOB", "NO_MORE_EXTERNAL_EVENT", "EXTERNAL_EVENT",
              "SIMULATION_ENDS"}
Event ==
  [type : {"JOB_SUBMITTED", "JOB_COMPLETED", "JOB_KILLED"}, about : SUBSET Job]
  \cup [type : {"EXTERNAL_EVENT"}, about : SUBSET ExtEvent]
  \cup [type : {"REQUESTED_CALL", "NO_MORE_STATIC_JOB", "NO_MORE_EXTERNAL_EVENT",
                "SIMULATION_ENDS"}, about : {{}}]

Ev(type, about) == [type |-> type, about |-> about]

\* Some event of this type in the list is about job j.
Says(events, type, j) ==
  \E k \in 1..Len(events) : events[k].type = type /\ j \in events[k].about

\* An xbt_assert, or a job looked up with Workloads::job_at: false kills Batsim.
Assert(condition) == aborted' = ~condition

(***************************************************************************)
(* Machines::update_machines_on_job_run and update_machines_on_job_end,    *)
(* for a set of jobs that start, or end, at the same time.                 *)
(***************************************************************************)
update_machines_on_job_run(j) ==
  /\ computing' = [m \in Machine |-> IF m \in alloc[j]
                                     THEN computing[m] \cup {j}
                                     ELSE computing[m]]
  /\ machine_state' = [m \in Machine |-> IF m \in alloc[j]
                                         THEN "COMPUTING"
                                         ELSE machine_state[m]]

\* Mutant of update_machines_on_job_end: the machine is not idle again.
JobEndForgetsIdle(S) ==
  /\ computing' = [m \in Machine |-> computing[m] \ {j \in S : m \in alloc[j]}]
  /\ UNCHANGED machine_state

update_machines_on_job_end(S) ==
  /\ computing' = [m \in Machine |-> computing[m] \ {j \in S : m \in alloc[j]}]
  /\ machine_state' = [m \in Machine |->
                         IF /\ \E j \in S : m \in alloc[j]
                            /\ computing'[m] = {}
                         THEN "IDLE"
                         ELSE machine_state[m]]

\* The assertions of update_machines_on_job_end.
OnItsMachines(S) == \A j \in S : \A m \in alloc[j] : j \in computing[m]

(***************************************************************************)
(* The actors that are about to run without waiting for simulated time:    *)
(* fresh killers and job actors, job actors whose ptask was cancelled, the *)
(* REQ-REP actor before it sleeps, and submitters whose next step is not a *)
(* sleep.                                                                  *)
(***************************************************************************)
Runnable ==
  \/ killers # {}
  \/ reader = "run"
  \/ \E j \in Job : actor[j] \in {"created", "cancelled"}
  \/ \E s \in Submitter : \/ submitter[s] = "hello"
                          \/ submitter[s] = "run" /\ todo[s] = {}
=============================================================================
