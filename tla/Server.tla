------------------------------- MODULE Server -------------------------------
(***************************************************************************)
(* server_process (server.cpp): the actor that owns the counters, handles  *)
(* the messages of all the others one at a time, and calls the scheduler   *)
(* when it is ready, nothing else is to be handled and there is something  *)
(* to say. Each server_on_... handler is an action of the same name.       *)
(***************************************************************************)
EXTENDS BatsimState

Received == Head(mailbox)

\* The beginning of every handler: the message is taken, the rest is UNCHANGED by it.
Receive(type) ==
  /\ ~aborted
  /\ server = "handle"
  /\ Received.type = type
  /\ mailbox' = Tail(mailbox)
  /\ server' = "check"
  /\ UNCHANGED <<machineVars, submitterActors, readerActor, schedVars, end_sent>>

(***************************************************************************)
(* The network delivers the oldest message once no actor can run: the      *)
(* server and the actor that was blocked in the put can both go on, in     *)
(* any order. A submitter that said goodbye, or the REQ-REP actor after    *)
(* SCHED_READY, ends.                                                      *)
(***************************************************************************)
Deliver ==
  /\ ~aborted
  /\ server = "receive"
  /\ mailbox # <<>>
  /\ ~Runnable
  /\ server' = "handle"
  /\ submitter' = [s \in Submitter |->
                     IF s # Received.from THEN submitter[s]
                     ELSE IF Received.type = "SUBMITTER_BYE" THEN "gone" ELSE "run"]
  /\ reader' = IF Received.from # "sched" THEN reader
               ELSE IF Received.type = "SCHED_READY" THEN "none" ELSE "run"
  /\ UNCHANGED <<jobVars, machineVars, mailbox, loopVars, jobCounters, actorCounts,
                 submitVars, registration_finished, bufferVars, todo,
                 held, helperActors, schedVars, aborted>>

----------------------------------------------------------------------------
\* Submitters

Kind(s) == IF s \in JobSubmitter THEN "job" ELSE "event"

Expected == [k \in {"job", "event"} |->
               Cardinality(IF k = "job" THEN JobSubmitter ELSE EventSubmitter)]

server_on_submitter_hello ==
  /\ Receive("SUBMITTER_HELLO")
  /\ Assert(~end_sent /\ Received.from \notin submitters)
  /\ submitters' = submitters \cup {Received.from}
  /\ UNCHANGED <<jobVars, sched_ready, end_ack, jobCounters, actorCounts, nb_finished,
                 registration_finished, bufferVars, helperActors>>

\* Mutant of LastGoodbye: the first goodbye is taken for the last one.
AnyGoodbye(kind) == nb_finished'[kind] > 0

\* All the expected submitters of this kind have said goodbye.
LastGoodbye(kind) == nb_finished'[kind] = Expected[kind]

server_on_submitter_bye ==
  LET kind == Kind(Received.from) IN
  /\ Receive("SUBMITTER_BYE")
  /\ Assert(Received.from \in submitters)
  /\ submitters' = submitters \ {Received.from}
  /\ nb_finished' = [nb_finished EXCEPT ![kind] = @ + 1]
  /\ outbox' = IF LastGoodbye(kind)
               THEN Append(outbox, Ev(IF kind = "job" THEN "NO_MORE_STATIC_JOB"
                                      ELSE "NO_MORE_EXTERNAL_EVENT", {}))
               ELSE outbox
  /\ UNCHANGED <<jobVars, sched_ready, end_ack, jobCounters, actorCounts,
                 registration_finished, to_delete, helperActors>>

server_on_job_submitted ==
  LET batch == Received.about IN
  /\ Receive("JOB_SUBMITTED")
  /\ Assert(Received.from \in submitters)
  /\ state' = [j \in Job |-> IF j \in batch THEN "SUBMITTED" ELSE state[j]]
  /\ nb_submitted' = nb_submitted + Cardinality(batch)
  /\ outbox' = Append(outbox, Ev("JOB_SUBMITTED", batch))
  /\ UNCHANGED <<jobs, kill_requested, alloc, actor, traced, sched_ready, end_ack,
                 nb_running, nb_completed, actorCounts, submitVars,
                 registration_finished, to_delete, helperActors>>

\* Generic events only: they are forwarded to the scheduler.
server_on_event_occurred ==
  /\ Receive("EVENT_OCCURRED")
  /\ outbox' = Append(outbox, Ev("EXTERNAL_EVENT", Received.about))
  /\ UNCHANGED <<jobVars, sched_ready, end_ack, jobCounters, actorCounts, submitVars,
                 registration_finished, to_delete, helperActors, aborted>>

----------------------------------------------------------------------------
\* Jobs

\* Mutant of Finish: the counter goes the wrong way.
FinishUncounts(S) ==
  /\ traced' = [j \in Job |-> IF j \in S THEN traced[j] + 1 ELSE traced[j]]
  /\ to_delete' = [j \in Job |-> IF j \in S THEN to_delete[j] + 1 ELSE to_delete[j]]
  /\ nb_completed' = nb_completed - Cardinality(S)

\* A job is over: its line is traced, and the job is to be deleted when the
\* scheduler has been told.
Finish(S) ==
  /\ traced' = [j \in Job |-> IF j \in S THEN traced[j] + 1 ELSE traced[j]]
  /\ to_delete' = [j \in Job |-> IF j \in S THEN to_delete[j] + 1 ELSE to_delete[j]]
  /\ nb_completed' = nb_completed + Cardinality(S)

\* write_job dies on a job that is not complete.
server_on_job_completed ==
  LET done == Received.about IN
  /\ Receive("JOB_COMPLETED")
  /\ nb_running' = nb_running - Cardinality(done)
  /\ Finish(done)
  /\ outbox' = Append(outbox, Ev("JOB_COMPLETED", done))
  /\ actor' = [j \in Job |-> IF j \in done THEN "dead" ELSE actor[j]]
  /\ Assert(/\ nb_running' >= 0
            /\ nb_completed' + nb_running' <= nb_submitted
            /\ \A j \in done : IsComplete(state[j]))
  /\ UNCHANGED <<jobs, state, kill_requested, alloc, sched_ready, end_ack, nb_submitted,
                 actorCounts, submitVars, registration_finished, helperActors>>

\* Mutant of ReallyKilled: the jobs that ended before the killer ran are counted too.
AllAskedFor(S) == S

\* Only the jobs that were really killed are counted by server_on_killing_done; the
\* others have been, or will be, counted by server_on_job_completed.
ReallyKilled(S) == {j \in S : state[j] = "COMPLETED_KILLED"}

CompletionOf(S) == IF S = {} THEN <<>> ELSE <<Ev("JOB_COMPLETED", S)>>

\* Mutants of KillingEvents: the acknowledgement comes first, or only for real kills.
AcknowledgeFirst(S)    == <<Ev("JOB_KILLED", S)>> \o CompletionOf(ReallyKilled(S))
AcknowledgeIfKilled(S) == CompletionOf(ReallyKilled(S))
                          \o (IF ReallyKilled(S) = {} THEN <<>> ELSE <<Ev("JOB_KILLED", S)>>)

\* The events a kill gives rise to: one JOB_COMPLETED per job really killed, and
\* the acknowledgement, with all the jobs of the killer.
KillingEvents(S) == CompletionOf(ReallyKilled(S)) \o <<Ev("JOB_KILLED", S)>>

server_on_killing_done ==
  LET S      == Received.about
      killed == ReallyKilled(S)
  IN
  /\ Receive("KILLING_DONE")
  /\ nb_running' = nb_running - Cardinality(killed)
  /\ Finish(killed)
  /\ outbox' = outbox \o KillingEvents(S)
  /\ nb_killers' = nb_killers - 1
  /\ Assert(/\ S \subseteq jobs
            /\ nb_running' >= 0
            /\ nb_completed' + nb_running' <= nb_submitted)
  /\ UNCHANGED <<jobs, state, kill_requested, alloc, actor, sched_ready, end_ack,
                 nb_submitted, nb_waiters, submitVars, registration_finished,
                 helperActors>>

server_on_register_job ==
  /\ Receive("JOB_REGISTERED_BY_DP")
  /\ nb_submitted' = nb_submitted + 1
  /\ outbox' = IF RegistrationAck
               THEN Append(outbox, Ev("JOB_SUBMITTED", Received.about))
               ELSE outbox
  /\ UNCHANGED <<jobVars, sched_ready, end_ack, nb_running, nb_completed, actorCounts,
                 submitVars, registration_finished, to_delete, helperActors, aborted>>

\* Without sharing, no machine of the allocation may be computing another job.
server_on_execute_job ==
  LET S == Received.about IN
  /\ Receive("SCHED_EXECUTE_JOB")
  /\ nb_running' = nb_running + 1
  /\ Assert(/\ \A j \in S : state[j] = "SUBMITTED"
            /\ nb_running' <= nb_submitted
            /\ \A j \in S : \A m \in alloc[j] : AllowSharing \/ computing[m] = {}
            /\ \A j \in S : \A m \in alloc[j] : machine_state[m] \in {"IDLE", "COMPUTING"}
            /\ \A j \in S : Cardinality(alloc[j]) = NbRes[j])
  /\ state' = [j \in Job |-> IF j \in S THEN "RUNNING" ELSE state[j]]
  /\ actor' = [j \in Job |-> IF j \in S THEN "created" ELSE actor[j]]
  /\ UNCHANGED <<jobs, kill_requested, alloc, traced, sched_ready, end_ack, nb_submitted,
                 nb_completed, actorCounts, submitVars, registration_finished,
                 bufferVars, helperActors>>

server_on_reject_job ==
  LET S == Received.about IN
  /\ Receive("SCHED_REJECT_JOB")
  /\ Assert(S \subseteq jobs /\ \A j \in S : state[j] = "SUBMITTED")
  /\ state' = [j \in Job |-> IF j \in S THEN "REJECTED" ELSE state[j]]
  /\ Finish(S)
  /\ UNCHANGED <<jobs, kill_requested, alloc, actor, sched_ready, end_ack, nb_submitted,
                 nb_running, actorCounts, submitVars, registration_finished,
                 outbox, helperActors>>

\* Mutant of NewlyRequested: a job is discarded after it has been marked.
NoneIsNew(S) == S \ (kill_requested \cup S)

\* The jobs whose kill has already been requested are discarded.
NewlyRequested(S) == S \ kill_requested

\* There is no killer when no job is left.
server_on_kill_jobs ==
  LET S == NewlyRequested(Received.about) IN
  /\ Receive("SCHED_KILL_JOB")
  /\ Assert(/\ Received.about \subseteq jobs
            /\ \A j \in S : state[j] = "RUNNING" \/ IsComplete(state[j]))
  /\ kill_requested' = kill_requested \cup S
  /\ killers' = IF S = {} THEN killers ELSE killers \cup {S}
  /\ nb_killers' = IF S = {} THEN nb_killers ELSE nb_killers + 1
  /\ UNCHANGED <<jobs, state, alloc, actor, traced, sched_ready, end_ack, jobCounters,
                 nb_waiters, submitVars, registration_finished, bufferVars, sleeping>>

----------------------------------------------------------------------------
\* Calls, registration, and the end of a reply

\* Is the target date in the future? Dates are not modelled: that of a LateCall may
\* be, or may have come while the message was held or waited.
InTheFuture(calls) == IF calls \cap LateCall = {} THEN {TRUE} ELSE BOOLEAN

server_on_call_me_later ==
  /\ Receive("SCHED_CALL_ME_LATER")
  /\ \E future \in InTheFuture(Received.about) : Assert(future)
  /\ sleeping' = sleeping \cup Received.about
  /\ nb_waiters' = nb_waiters + 1
  /\ UNCHANGED <<jobVars, sched_ready, end_ack, jobCounters, nb_killers, submitVars,
                 registration_finished, bufferVars, killers>>

\* Mutant of server_on_waiting_done: the waiter is not uncounted.
WaiterStaysCounted ==
  /\ Receive("WAITING_DONE")
  /\ outbox' = Append(outbox, Ev("REQUESTED_CALL", {}))
  /\ UNCHANGED <<jobVars, sched_ready, end_ack, jobCounters, actorCounts, submitVars,
                 registration_finished, to_delete, helperActors, aborted>>

server_on_waiting_done ==
  /\ Receive("WAITING_DONE")
  /\ outbox' = Append(outbox, Ev("REQUESTED_CALL", {}))
  /\ nb_waiters' = nb_waiters - 1
  /\ UNCHANGED <<jobVars, sched_ready, end_ack, jobCounters, nb_killers, submitVars,
                 registration_finished, to_delete, helperActors, aborted>>

server_on_end_dynamic_register ==
  /\ Receive("END_DYNAMIC_REGISTER")
  /\ registration_finished' = TRUE
  /\ UNCHANGED <<jobVars, sched_ready, end_ack, jobCounters, actorCounts, submitVars,
                 bufferVars, helperActors, aborted>>

server_on_continue_dynamic_register ==
  /\ Receive("CONTINUE_DYNAMIC_REGISTER")
  /\ registration_finished' = FALSE
  /\ UNCHANGED <<jobVars, sched_ready, end_ack, jobCounters, actorCounts, submitVars,
                 bufferVars, helperActors, aborted>>

server_on_sched_ready ==
  /\ Receive("SCHED_READY")
  /\ sched_ready' = TRUE
  /\ end_ack' = (end_ack \/ end_sent)
  /\ UNCHANGED <<jobVars, jobCounters, actorCounts, submitVars, registration_finished,
                 bufferVars, helperActors, aborted>>

Handle ==
  \/ server_on_submitter_hello
  \/ server_on_submitter_bye
  \/ server_on_job_submitted
  \/ server_on_event_occurred
  \/ server_on_job_completed
  \/ server_on_killing_done
  \/ server_on_register_job
  \/ server_on_execute_job
  \/ server_on_reject_job
  \/ server_on_kill_jobs
  \/ server_on_call_me_later
  \/ server_on_waiting_done
  \/ server_on_end_dynamic_register
  \/ server_on_continue_dynamic_register
  \/ server_on_sched_ready

----------------------------------------------------------------------------
(***************************************************************************)
(* The end of the loop's body: is the scheduler to be called?              *)
(***************************************************************************)
SubmittersFinished == \A k \in {"job", "event"} : nb_finished[k] = Expected[k]

\* Mutant of is_simulation_finished: it forgets the registration.
FinishedButRegistration ==
  /\ SubmittersFinished
  /\ nb_completed = nb_submitted
  /\ nb_running = 0 /\ nb_waiters = 0 /\ nb_killers = 0

is_simulation_finished ==
  /\ SubmittersFinished
  /\ ~RegistrationEnabled \/ registration_finished
  /\ nb_completed = nb_submitted
  /\ nb_running = 0 /\ nb_waiters = 0 /\ nb_killers = 0

\* generate_and_send_message: a new REQ-REP actor sends the events, which the
\* scheduler learns.
generate_and_send_message(events) ==
  /\ sched_ready' = FALSE
  /\ outbox' = <<>>
  /\ reader' = "run"
  /\ UNCHANGED held
  /\ view' = [j \in Job |-> CASE Says(events, "JOB_COMPLETED", j) -> "done"
                              [] Says(events, "JOB_SUBMITTED", j) -> "waiting"
                              [] OTHER -> view[j]]
  /\ told' = told \cup {events[i].type : i \in 1..Len(events)}
  /\ unacked' = unacked - Cardinality({i \in 1..Len(events) :
                                         events[i].type = "JOB_KILLED"})

checkUnchanged ==
  UNCHANGED <<state, kill_requested, alloc, actor, traced, machineVars, mailbox,
              jobCounters, actorCounts, submitVars, registration_finished,
              submitterActors, helperActors, asked, kill_asked, reg_over>>

\* Mutant of MayCallScheduler: messages may be waiting.
WithMessagesWaiting == sched_ready /\ ~end_ack

MayCallScheduler == sched_ready /\ ~end_ack /\ mailbox = <<>>

\* There is something to say: it is sent, and the jobs that are over are deleted
\* (Workloads::delete_jobs), each of which must still be in the table.
ServerSendsEvents ==
  /\ ~aborted
  /\ server = "check"
  /\ MayCallScheduler
  /\ outbox # <<>>
  /\ generate_and_send_message(outbox)
  /\ Assert(\A j \in Job : to_delete[j] <= IF j \in jobs THEN 1 ELSE 0)
  /\ jobs' = {j \in jobs : to_delete[j] = 0}
  /\ to_delete' = [j \in Job |-> 0]
  /\ server' = "receive"
  /\ UNCHANGED <<end_sent, end_ack>>
  /\ checkUnchanged

\* There is nothing to say and the simulation is finished.
ServerEndsSimulation ==
  /\ ~aborted
  /\ server = "check"
  /\ MayCallScheduler
  /\ outbox = <<>>
  /\ is_simulation_finished
  /\ ~end_sent
  /\ generate_and_send_message(<<Ev("SIMULATION_ENDS", {})>>)
  /\ end_sent' = TRUE
  /\ server' = "receive"
  /\ UNCHANGED <<jobs, to_delete, end_ack, aborted>>
  /\ checkUnchanged

\* The scheduler is not called: the server goes back to its mailbox.
ServerLoops ==
  /\ ~aborted
  /\ server = "check"
  /\ ~end_ack
  /\ ~ (/\ MayCallScheduler
        /\ \/ outbox # <<>>
           \/ is_simulation_finished /\ ~end_sent)
  /\ server' = "receive"
  /\ UNCHANGED <<jobs, to_delete, outbox, loopVars, readerActor, view, told, unacked, aborted>>
  /\ checkUnchanged

\* The scheduler has acknowledged the end: the assertions after the loop.
ServerLeavesLoop ==
  /\ ~aborted
  /\ server = "check"
  /\ end_ack
  /\ Assert(/\ end_sent /\ sched_ready
            /\ nb_running = 0 /\ nb_killers = 0 /\ nb_waiters = 0
            /\ nb_completed = nb_submitted)
  /\ server' = "done"
  /\ UNCHANGED <<jobs, to_delete, outbox, loopVars, readerActor, view, told, unacked>>
  /\ checkUnchanged

ServerStep == Deliver \/ Handle \/ ServerSendsEvents \/ ServerEndsSimulation
                \/ ServerLoops \/ ServerLeavesLoop
=============================================================================
