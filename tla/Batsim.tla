------------------------------- MODULE Batsim -------------------------------
(***************************************************************************)
(* A whole Batsim process: the server, the submitters, the job actors,     *)
(* killers and waiters, and the REQ-REP actor with the scheduler behind it.*)
(***************************************************************************)
EXTENDS JobSubmitters, JobExecution, SchedulerLink, Server

\* The actors have just been created; the first REQ-REP actor carries
\* SIMULATION_BEGINS to the scheduler.
Init ==
  /\ jobs = StaticJob
  /\ state = [j \in Job |-> IF j \in StaticJob THEN "NOT_SUBMITTED" ELSE "ABSENT"]
  /\ kill_requested = {}
  /\ alloc = [j \in Job |-> {}]
  /\ actor = [j \in Job |-> "none"]
  /\ traced = [j \in Job |-> 0]
  /\ computing = [m \in Machine |-> {}]
  /\ machine_state = [m \in Machine |-> "IDLE"]
  /\ mailbox = <<>>
  /\ server = "receive"
  /\ sched_ready = FALSE /\ end_sent = FALSE /\ end_ack = FALSE
  /\ submitters = {}
  /\ nb_finished = [k \in {"job", "event"} |-> 0]
  /\ nb_submitted = 0 /\ nb_running = 0 /\ nb_completed = 0
  /\ nb_killers = 0 /\ nb_waiters = 0
  /\ registration_finished = FALSE
  /\ to_delete = [j \in Job |-> 0]
  /\ outbox = <<>>
  /\ submitter = [s \in Submitter |-> "hello"]
  /\ todo = [s \in Submitter |-> {i \in StaticJob \cup ExtEvent : Owner[i] = s}]
  /\ reader = "run"
  /\ held = <<>>
  /\ killers = {}
  /\ sleeping = {}
  /\ view = [j \in Job |-> "unknown"]
  /\ told = {}
  /\ asked = {}
  /\ kill_asked = {}
  /\ reg_over = FALSE
  /\ unacked = 0
  /\ aborted = FALSE

Next ==
  \/ \E s \in Submitter : SubmitterStep(s)
  \/ ExecutionStep
  \/ SchedulerStep
  \/ ServerStep

Spec == Init /\ [][Next]_vars

(***************************************************************************)
(* Fairness. The SimGrid engine runs every actor that can run and advances *)
(* the clock to the next wake-up, so no actor's enabled step waits for     *)
(* ever; a job whose tasks are finite ends. The scheduler replies          *)
(* eventually: without a reply Batsim is blocked in its socket.            *)
(***************************************************************************)
Fairness ==
  /\ WF_vars(ServerStep)
  /\ WF_vars(SchedulerStep)
  /\ \A s \in Submitter : WF_vars(SubmitterStep(s))
  /\ \A j \in Job : WF_vars(JobStarts(j) \/ JobCancelled(j)
                            \/ \E outcome \in Outcome : JobEnds(j, outcome))
  /\ \A S \in SUBSET Job : WF_vars(\E inPtask \in SUBSET S : killer_process(S, inPtask))
  /\ \A w \in Waiter : WF_vars(WaiterWakes(w))

FairSpec == Spec /\ Fairness

----------------------------------------------------------------------------
\* Every variable has its type: a message has the sender and the subject of its
\* kind, and a submitter holds only what it owns.
JobsTypeOK ==
  /\ jobs \in SUBSET Job
  /\ state \in [Job -> JobState]
  /\ kill_requested \in SUBSET Job
  /\ alloc \in [Job -> SUBSET Machine]
  /\ actor \in [Job -> {"none", "created", "running", "cancelled", "notifying", "dead"}]
  /\ traced \in [Job -> Nat]
MachinesTypeOK ==
  /\ computing \in [Machine -> SUBSET Job]
  /\ machine_state \in [Machine -> {"IDLE", "COMPUTING"}]
MailTypeOK ==
  /\ mailbox \in Seq(Message)
  /\ server \in {"receive", "handle", "check", "done"}
  /\ server = "handle" => mailbox # <<>>
  /\ reader \in {"none", "run", "asleep", "blocked"}
  /\ held \in Seq(Message)
ServerTypeOK ==
  /\ sched_ready \in BOOLEAN /\ end_sent \in BOOLEAN /\ end_ack \in BOOLEAN
  /\ submitters \in SUBSET Submitter
  /\ nb_finished \in [{"job", "event"} -> Nat]
  /\ nb_submitted \in Nat /\ nb_running \in Int /\ nb_completed \in Nat
  /\ nb_killers \in Int /\ nb_waiters \in Int
  /\ registration_finished \in BOOLEAN
  /\ to_delete \in [Job -> Nat]
  /\ outbox \in Seq(Event)
ActorsTypeOK ==
  /\ submitter \in [Submitter -> {"hello", "blocked", "run", "gone"}]
  /\ todo \in [Submitter -> SUBSET (StaticJob \cup ExtEvent)]
  /\ \A s \in Submitter : \A i \in todo[s] : Owner[i] = s
  /\ killers \in SUBSET (SUBSET Job)
  /\ sleeping \in SUBSET Waiter
SchedulerTypeOK ==
  /\ view \in [Job -> {"unknown", "waiting", "running", "done"}]
  /\ told \in SUBSET EventType
  /\ asked \in SUBSET Waiter
  /\ kill_asked \in SUBSET Job
  /\ reg_over \in BOOLEAN
  /\ unacked \in Int
  /\ aborted \in BOOLEAN
TypeOK == /\ JobsTypeOK /\ MachinesTypeOK /\ MailTypeOK
          /\ ServerTypeOK /\ ActorsTypeOK /\ SchedulerTypeOK

(***************************************************************************)
(* With a scheduler that follows the protocol, asks to be called at dates  *)
(* that are still to come when the server handles the request (no          *)
(* LateCall) and does not reopen its registration, no xbt_assert of the    *)
(* server, of the job actors, of the killers or of the reader ever fails,  *)
(* whatever the order in which actors run and messages arrive: no job is   *)
(* executed or rejected twice, killed too early, looked up after its       *)
(* deletion or deleted twice, and nothing is pending when the server       *)
(* leaves its loop.                                                        *)
(***************************************************************************)
NoAbort == ~aborted

\* handle_register_job reads registration_finished while the scheduler's
\* continue_registration has not been handled yet.
LateRegistration ==
  registration_finished /\ ~reg_over /\ \E j \in DynJob : handle_register_job(j)

\* The date of a CALL_ME_LATER has come before the server handled it.
LateCallHandled == server_on_call_me_later /\ Received.about \cap LateCall # {}

(***************************************************************************)
(* Without those two restrictions on the scheduler, two of all the         *)
(* assertions can fail and no other, in two situations only: the reader's, *)
(* on a job registered while the continue_registration that allows it is   *)
(* still on its way to the server, and server_on_call_me_later's, on a     *)
(* date that is over.                                                      *)
(***************************************************************************)
OnlyLateAborts == [][aborted' => aborted \/ LateRegistration \/ LateCallHandled]_vars

\* The end of job j is on its way to the server: in the job's JOB_COMPLETED, or,
\* if it was killed, with the killer that has just run.
EndInFlight(j) ==
  \/ actor[j] = "notifying"
  \/ /\ state[j] = "COMPLETED_KILLED"
     /\ \E i \in 1..Len(mailbox) : /\ mailbox[i].type = "KILLING_DONE"
                                   /\ j \in mailbox[i].about

\* The job exists and the server has not been told yet.
RegistrationInFlight(j) ==
  LET inFlight == mailbox \o held
  IN \E i \in 1..Len(inFlight) : /\ inFlight[i].type = "JOB_REGISTERED_BY_DP"
                                 /\ j \in inFlight[i].about

(***************************************************************************)
(* The server's counters, which decide when the simulation ends, are those *)
(* of the jobs' states up to the messages in flight: a job is counted      *)
(* once as completed, whether it ends alone, is killed, or both at once.   *)
(***************************************************************************)
CountersMatchJobs ==
  /\ nb_submitted = Cardinality({j \in Job : /\ state[j] \notin {"ABSENT", "NOT_SUBMITTED"}
                                             /\ ~RegistrationInFlight(j)})
  /\ nb_running = Cardinality({j \in Job : state[j] = "RUNNING" \/ EndInFlight(j)})
  /\ nb_completed = Cardinality({j \in Job : IsComplete(state[j]) /\ ~EndInFlight(j)})

(***************************************************************************)
(* protocol.rst: the JOB_COMPLETED of every job of a JOB_KILLED, killed or *)
(* ended ordinarily just before the kill, reaches the scheduler before the *)
(* JOB_KILLED does (server_on_job_completed and server_on_killing_done     *)
(* append to the same buffer).                                             *)
(***************************************************************************)
CompletedBeforeKilled ==
  \A k \in 1..Len(outbox) : outbox[k].type = "JOB_KILLED" =>
    \A j \in outbox[k].about :
      \/ view[j] = "done"
      \/ \E i \in 1..(k-1) : outbox[i].type = "JOB_COMPLETED" /\ j \in outbox[i].about

(***************************************************************************)
(* Each job's end is reported to the scheduler once and traced once: a job *)
(* counted as completed that was executed has one line in the jobs trace   *)
(* and one JOB_COMPLETED, either buffered or already received. A rejected  *)
(* job has no JOB_COMPLETED, and nothing is said here of its line, which   *)
(* server_on_reject_job writes and protocol.rst denies.                    *)
(***************************************************************************)
EndReportedOnce ==
  \A j \in Job :
    LET reports == {k \in 1..Len(outbox) : outbox[k].type = "JOB_COMPLETED"
                                           /\ j \in outbox[k].about}
        counted == IsComplete(state[j]) /\ ~EndInFlight(j)
    IN /\ state[j] # "REJECTED" => traced[j] = IF counted THEN 1 ELSE 0
       /\ Cardinality(reports) + (IF view[j] = "done" THEN 1 ELSE 0) <= 1
       /\ counted => view[j] = "done" \/ reports # {}

(***************************************************************************)
(* server_process sends SIMULATION_ENDS only when nothing is left: every   *)
(* submitter has said goodbye, the scheduler has ended its registrations,  *)
(* every job is complete, no actor is alive, and the scheduler's           *)
(* SCHED_READY is the only message that can still come.                    *)
(***************************************************************************)
EndsWhenNothingIsLeft ==
  end_sent =>
    /\ \A s \in Submitter : submitter[s] = "gone" /\ todo[s] = {}
    /\ \A j \in Job : state[j] = "ABSENT" \/ IsComplete(state[j])
    /\ \A j \in Job : actor[j] \in {"none", "dead"}
    /\ killers = {} /\ sleeping = {}
    /\ RegistrationEnabled => reg_over
    /\ \A m \in Machine : computing[m] = {}
    /\ \A i \in 1..Len(mailbox \o held) : (mailbox \o held)[i].type = "SCHED_READY"

(***************************************************************************)
(* A job is deleted (Workloads::delete_jobs) only once the scheduler knows *)
(* its end and no message, killer or decision can refer to it any more.    *)
(***************************************************************************)
NoDanglingJob ==
  \A j \in Job : j \notin jobs /\ state[j] # "ABSENT" =>
    /\ IsComplete(state[j]) /\ view[j] = "done"
    /\ \A i \in 1..Len(mailbox \o held) : j \notin (mailbox \o held)[i].about
    /\ \A S \in killers : j \notin S

(***************************************************************************)
(* Without compute sharing a machine computes one job at most, and its     *)
(* state says whether it computes one.                                     *)
(***************************************************************************)
MachinesConsistent ==
  \A m \in Machine :
    /\ computing[m] = {j \in Job : m \in alloc[j] /\ actor[j] \in {"running", "cancelled"}}
    /\ machine_state[m] = IF computing[m] = {} THEN "IDLE" ELSE "COMPUTING"
    /\ AllowSharing \/ Cardinality(computing[m]) <= 1

(***************************************************************************)
(* The life cycle of a job, as its state, its actor, the scheduler's view  *)
(* of it, the messages and the buffered events tell it: they never         *)
(* disagree, however late a message or an event is. A job has an actor     *)
(* only while it runs (JobPhases), the events that wait to be sent are     *)
(* still true (EventsAreTrue), and so are the messages, of which no two    *)
(* submit or register the same job (MessagesAreTrue, SubmittedOnce). Once  *)
(* Batsim has aborted there is nothing left to agree on.                   *)
(***************************************************************************)
JobPhases ==
  \A j \in Job :
    /\ actor[j] \in {"created", "running", "cancelled"} => state[j] = "RUNNING"
    /\ actor[j] = "notifying" => state[j] \in OrdinaryEnds
    /\ state[j] \in {"ABSENT", "NOT_SUBMITTED"} => view[j] = "unknown"
    /\ view[j] \in {"unknown", "waiting"} =>
         /\ actor[j] = "none"
         /\ state[j] \in {"ABSENT", "NOT_SUBMITTED", "SUBMITTED"}

EventsAreTrue ==
  \A k \in 1..Len(outbox) : \A j \in outbox[k].about :
    /\ outbox[k].type = "JOB_SUBMITTED" => view[j] = "unknown" /\ state[j] = "SUBMITTED"
    /\ outbox[k].type = "JOB_COMPLETED" => IsComplete(state[j])

\* What a message claims of the jobs it is about.
IsTrue(m) ==
  \A j \in m.about :
    /\ m.type = "JOB_SUBMITTED" =>
         state[j] = "NOT_SUBMITTED" /\ \A s \in Submitter : j \notin todo[s]
    /\ m.type = "JOB_REGISTERED_BY_DP" =>
         /\ state[j] \notin {"ABSENT", "NOT_SUBMITTED"}
         /\ RegistrationAck => view[j] = "unknown" /\ ~Says(outbox, "JOB_SUBMITTED", j)
    /\ m.type \in {"SCHED_EXECUTE_JOB", "SCHED_REJECT_JOB"} => view[j] \in {"running", "done"}

MessagesAreTrue ==
  /\ \A i \in 1..Len(mailbox) : IsTrue(mailbox[i])
  /\ \A i \in 1..Len(held) : IsTrue(held[i])
  /\ \A s \in Submitter : \A j \in todo[s] \cap Job : state[j] = "NOT_SUBMITTED"

\* Two messages that do not announce the same job.
Disjoint(m, n) ==
  m.type = n.type /\ m.type \in {"JOB_SUBMITTED", "JOB_REGISTERED_BY_DP"} =>
    m.about \cap n.about = {}

SubmittedOnce ==
  /\ \A i, k \in 1..Len(mailbox) : i # k => Disjoint(mailbox[i], mailbox[k])
  /\ \A i \in 1..Len(mailbox), k \in 1..Len(held) : Disjoint(mailbox[i], held[k])
  /\ Len(held) <= 1

LifeCycle == ~aborted => JobPhases /\ EventsAreTrue /\ MessagesAreTrue /\ SubmittedOnce

(***************************************************************************)
(* protocol.rst, no_more_static_job_to_submit: "all jobs in the workloads  *)
(* have already been submitted to the scheduler". The notification is      *)
(* behind every JOB_SUBMITTED of a static job.                             *)
(***************************************************************************)
NoMoreStaticJobIsTrue ==
  \A j \in StaticJob :
    /\ "NO_MORE_STATIC_JOB" \in told => view[j] # "unknown"
    /\ \A k \in 1..Len(outbox) : outbox[k].type = "NO_MORE_STATIC_JOB" =>
         \/ view[j] # "unknown"
         \/ \E i \in 1..(k-1) : outbox[i].type = "JOB_SUBMITTED" /\ j \in outbox[i].about

(***************************************************************************)
(* protocol.rst, KILL_JOB: "Batsim acknowledges it with one JOB_KILLED     *)
(* event". No request is unanswered when the simulation is over.           *)
(***************************************************************************)
EveryKillAcknowledged == end_sent => unacked = 0

----------------------------------------------------------------------------
(***************************************************************************)
(* Batsim is a resource manager: what happens to jobs on the machines and  *)
(* what the scheduler knows of them is a behaviour of ResourceManager.     *)
(* No job computes, is killed or rejected without the scheduler's order,   *)
(* none that ended is ended again, two jobs do not compute on a machine    *)
(* unless sharing is allowed, what the scheduler is told has happened, and *)
(* nothing happens after SIMULATION_ENDS, which comes last for every job.  *)
(***************************************************************************)
Life(st) == CASE st \in {"ABSENT", "NOT_SUBMITTED"} -> "none"
              [] st = "SUBMITTED"                   -> "queued"
              [] st = "RUNNING"                     -> "running"
              [] st \in OrdinaryEnds                -> "ended"
              [] st = "COMPLETED_KILLED"            -> "killed"
              [] st = "REJECTED"                    -> "rejected"

RM == INSTANCE ResourceManager WITH
        Given   <- StaticJob,
        Sharing <- AllowSharing,
        life    <- [j \in Job |-> Life(state[j])],
        holds   <- [j \in Job |-> IF actor[j] \in {"running", "cancelled"} THEN alloc[j] ELSE {}],
        kills   <- kill_asked,
        over    <- end_sent

ImplementsResourceManager == RM!RMSpec

----------------------------------------------------------------------------
(***************************************************************************)
(* With an eager scheduler the simulation ends: the server leaves its loop *)
(* after the scheduler has acknowledged SIMULATION_ENDS.                   *)
(***************************************************************************)
SimulationEnds == <>(server = "done")

\* Every KILL_JOB is eventually answered by the JOB_KILLED of its killer, even if
\* the jobs end by themselves meanwhile.
KillsAreAnswered == (unacked > 0) ~> (unacked = 0)
=============================================================================
