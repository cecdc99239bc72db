-------------------------- MODULE LifeCycleProofs ---------------------------
(***************************************************************************)
(* Every reachable state of Batsim is well typed, and LifeCycle holds in   *)
(* it, whatever the numbers of jobs, submitters, machines and waiters.     *)
(*                                                                         *)
(* LifeCycle is its own inductive invariant once TypeOK is known: its      *)
(* parts JobPhases, EventsAreTrue, MessagesAreTrue and SubmittedOnce need  *)
(* each other.                                                             *)
(*                                                                         *)
(* Two layers follow: the mail of the server and how the actors use it     *)
(* (LinkInv), then the decisions of the scheduler and the machines they    *)
(* give to the jobs (DecisionInv, MachinesInv).                            *)
(***************************************************************************)
EXTENDS Batsim, FiniteSetTheorems, SequenceTheorems, TLAPS

----------------------------------------------------------------------------
\* Lemmas on the constants, the messages and the sequences.

\* Every set of jobs, events or waiters is finite: the server can count it.
LEMMA ItemsAreFinite ==
  ASSUME NEW S \in SUBSET Item
  PROVE  IsFiniteSet(S) /\ Cardinality(S) \in Nat
<1>1. IsFiniteSet(Item)
  BY ConstantsAssumption, FS_Union DEF Item, Job
<1> QED
  BY <1>1, FS_Subset, FS_CardinalityType

\* What the type of a message says of its sender and of its subject.
LEMMA MessageKinds ==
  ASSUME NEW m \in Message
  PROVE  /\ m.about \in SUBSET Item
         /\ m.type \in {"SUBMITTER_HELLO", "SUBMITTER_BYE"} => m.from \in Submitter
         /\ m.type \in {"JOB_SUBMITTED", "JOB_COMPLETED", "KILLING_DONE",
                        "SCHED_EXECUTE_JOB", "SCHED_REJECT_JOB", "SCHED_KILL_JOB",
                        "JOB_REGISTERED_BY_DP"} => m.about \in SUBSET Job
         /\ m.type = "SCHED_CALL_ME_LATER" => m.about \in SUBSET Waiter
         /\ m.type = "EVENT_OCCURRED" => m.about \in SUBSET ExtEvent
  BY DEF Message, Item, Job

\* The message the server handles is one of the mailbox.
LEMMA ReceivedIsTyped ==
  ASSUME MailTypeOK, server = "handle"
  PROVE  /\ Received \in Message
         /\ Tail(mailbox) \in Seq(Message)
  BY HeadTailProperties DEF MailTypeOK, Received

\* A put keeps the mailbox a sequence of messages, and not empty.
LEMMA PutIsTyped ==
  ASSUME MailTypeOK, NEW m \in Message, Put(m)
  PROVE  mailbox' \in Seq(Message) /\ mailbox' # <<>>
  BY DEF MailTypeOK, Put

----------------------------------------------------------------------------
\* Type correctness, one lemma per component.

LEMMA TypeInit == Init => TypeOK
<1> SUFFICES ASSUME Init PROVE TypeOK
  OBVIOUS
<1>1. JobsTypeOK
  BY DEF Init, JobsTypeOK, Job, JobState
<1>2. MachinesTypeOK
  BY DEF Init, MachinesTypeOK
<1>3. MailTypeOK
  <2>1. <<>> \in Seq(Message)
    OBVIOUS
  <2> QED
    BY <2>1 DEF Init, MailTypeOK
<1>4. ServerTypeOK
  <2>1. <<>> \in Seq(Event)
    OBVIOUS
  <2>2. /\ sched_ready \in BOOLEAN /\ end_sent \in BOOLEAN /\ end_ack \in BOOLEAN
        /\ registration_finished \in BOOLEAN
    BY Zenon DEF Init
  <2>3. nb_finished \in [{"job", "event"} -> Nat] /\ to_delete \in [Job -> Nat]
    BY DEF Init
  <2>4. /\ nb_submitted \in Nat /\ nb_running \in Int /\ nb_completed \in Nat
        /\ nb_killers \in Int /\ nb_waiters \in Int
    BY DEF Init
  <2>5. submitters \in SUBSET Submitter /\ outbox \in Seq(Event)
    BY <2>1 DEF Init
  <2> QED
    BY <2>2, <2>3, <2>4, <2>5 DEF ServerTypeOK
<1>5. ActorsTypeOK
  BY DEF Init, ActorsTypeOK
<1>6. SchedulerTypeOK
  <2>1. reg_over \in BOOLEAN /\ aborted \in BOOLEAN
    BY Zenon DEF Init
  <2>2. unacked \in Int /\ view \in [Job -> {"unknown", "waiting", "running", "done"}]
    BY DEF Init
  <2>3. told \in SUBSET EventType /\ asked \in SUBSET Waiter /\ kill_asked \in SUBSET Job
    BY DEF Init
  <2> QED
    BY <2>1, <2>2, <2>3 DEF SchedulerTypeOK
<1> QED
  BY <1>1, <1>2, <1>3, <1>4, <1>5, <1>6 DEF TypeOK

\* What a submitter sends is typed by its kind.
LEMMA BatchIsTyped ==
  ASSUME TypeOK, NEW s \in Submitter
  PROVE  Msg(IF s \in JobSubmitter THEN "JOB_SUBMITTED" ELSE "EVENT_OCCURRED",
             s, NextBatch(s)) \in Message
<1>1. \A i \in NextBatch(s) : i \in todo[s] /\ i \in StaticJob \cup ExtEvent /\ Owner[i] = s
  BY DEF TypeOK, ActorsTypeOK, NextBatch
<1>2. CASE s \in JobSubmitter
  <2>1. NextBatch(s) \subseteq StaticJob
    BY <1>1, <1>2, ConstantsAssumption
  <2> QED
    BY <1>2, <2>1 DEF Msg, Message
<1>3. CASE s \notin JobSubmitter
  <2>1. NextBatch(s) \subseteq ExtEvent /\ s \in EventSubmitter
    BY <1>1, <1>3, ConstantsAssumption DEF Submitter
  <2> QED
    BY <1>3, <2>1 DEF Msg, Message
<1> QED
  BY <1>2, <1>3

LEMMA SubmitterTypes ==
  ASSUME TypeOK, NEW s \in Submitter, SubmitterStep(s)
  PROVE  TypeOK'
<1> USE DEF TypeOK
<1>0. /\ JobsTypeOK' /\ MachinesTypeOK' /\ ServerTypeOK' /\ SchedulerTypeOK'
  BY DEF JobsTypeOK, MachinesTypeOK, ServerTypeOK, SchedulerTypeOK, SubmitterStep,
         SubmitterHello, SubmitBatch, SubmitterBye, submitterUnchanged, jobVars,
         machineVars, loopVars, jobCounters, actorCounts, submitVars, bufferVars,
         schedVars
<1>1. MailTypeOK'
  <2>1. PICK m \in Message : Put(m)
    BY BatchIsTyped DEF SubmitterStep, SubmitterHello, SubmitBatch, SubmitterBye, Msg, Message
  <2> QED
    BY <2>1, PutIsTyped DEF MailTypeOK, SubmitterStep, SubmitterHello, SubmitBatch,
         SubmitterBye, submitterUnchanged, readerActor
<1>2. ActorsTypeOK'
  BY DEF ActorsTypeOK, SubmitterStep, SubmitterHello, SubmitBatch, SubmitterBye, Unsent,
         submitterUnchanged, helperActors
<1> QED
  BY <1>0, <1>1, <1>2

LEMMA ExecutionTypes ==
  ASSUME TypeOK, ExecutionStep
  PROVE  TypeOK'
<1> USE DEF TypeOK
<1> SUFFICES ASSUME ExecutionStep PROVE TypeOK'
  OBVIOUS
<1>0. ServerTypeOK'
  BY DEF ServerTypeOK, ExecutionStep, JobStarts, JobEnds, JobCancelled, killer_process,
         WaiterWakes, executionUnchanged, loopVars, jobCounters, actorCounts, submitVars,
         bufferVars
<1>1. ASSUME NEW j \in Job, JobStarts(j) PROVE TypeOK'
  BY <1>0, <1>1 DEF JobsTypeOK, MachinesTypeOK, MailTypeOK, ActorsTypeOK, SchedulerTypeOK,
         JobStarts, update_machines_on_job_run, executionUnchanged, helperActors,
         submitterActors, readerActor, schedVars
<1>2. ASSUME NEW j \in Job, JobCancelled(j) PROVE TypeOK'
  BY <1>0, <1>2 DEF JobsTypeOK, MachinesTypeOK, MailTypeOK, ActorsTypeOK, SchedulerTypeOK,
         JobCancelled, update_machines_on_job_end, executionUnchanged, helperActors,
         submitterActors, readerActor, schedVars, Assert, JobState
<1>3. ASSUME NEW j \in Job, NEW outcome \in Outcome, JobEnds(j, outcome) PROVE TypeOK'
  <2>1. Msg("JOB_COMPLETED", "job", {j}) \in Message /\ outcome \in JobState
    BY ConstantsAssumption DEF Msg, Message, JobState
  <2>2. mailbox' \in Seq(Message) /\ mailbox' # <<>>
    BY <1>3, <2>1, PutIsTyped DEF JobEnds
  <2> QED
    BY <1>0, <1>3, <2>1, <2>2 DEF JobsTypeOK, MachinesTypeOK, MailTypeOK, ActorsTypeOK,
         SchedulerTypeOK, JobEnds, update_machines_on_job_end, executionUnchanged,
         helperActors, submitterActors, readerActor, schedVars, Assert
<1>4. ASSUME NEW S \in killers, NEW inPtask \in SUBSET S, killer_process(S, inPtask)
      PROVE  TypeOK'
  <2>1. Msg("KILLING_DONE", "killer", S) \in Message
    BY DEF Msg, Message, ActorsTypeOK
  <2>2. mailbox' \in Seq(Message) /\ mailbox' # <<>>
    BY <1>4, <2>1, PutIsTyped DEF killer_process
  <2> QED
    BY <1>0, <1>4, <2>2 DEF JobsTypeOK, MachinesTypeOK, MailTypeOK, ActorsTypeOK,
         SchedulerTypeOK, killer_process, update_machines_on_job_end, executionUnchanged,
         submitterActors, readerActor, schedVars, Assert, JobState
<1>5. ASSUME NEW w \in Waiter, WaiterWakes(w) PROVE TypeOK'
  <2>1. Msg("WAITING_DONE", w, {}) \in Message
    BY DEF Msg, Message
  <2>2. mailbox' \in Seq(Message) /\ (server = "handle" => mailbox' # <<>>)
    BY <1>5, <2>1, PutIsTyped DEF WaiterWakes, MailTypeOK
  <2> QED
    BY <1>0, <1>5, <2>2 DEF JobsTypeOK, MachinesTypeOK, MailTypeOK, ActorsTypeOK,
         SchedulerTypeOK, WaiterWakes, executionUnchanged, jobVars, machineVars,
         submitterActors, readerActor, schedVars
<1> QED
  BY <1>1, <1>2, <1>3, <1>4, <1>5 DEF ExecutionStep

\* The parts of the state the scheduler and its REQ-REP actor never touch.
LEMMA LinkLeavesServer ==
  ASSUME TypeOK, linkUnchanged
  PROVE  MachinesTypeOK' /\ ServerTypeOK' /\ ActorsTypeOK'
  BY DEF TypeOK, MachinesTypeOK, ServerTypeOK, ActorsTypeOK, linkUnchanged, machineVars,
         loopVars, jobCounters, actorCounts, submitVars, bufferVars, submitterActors,
         helperActors

\* Reading an event of a reply leaves the mailbox alone and holds a message.
LEMMA ApplyIsTyped ==
  ASSUME TypeOK, NEW type, NEW about, Msg(type, "sched", about) \in Message,
         Apply(type, about)
  PROVE  MailTypeOK' /\ MachinesTypeOK' /\ ServerTypeOK' /\ ActorsTypeOK'
<1>1. MachinesTypeOK' /\ ServerTypeOK' /\ ActorsTypeOK'
  BY LinkLeavesServer DEF Apply
<1>2. held' \in Seq(Message)
  BY DEF Apply
<1> QED
  BY <1>1, <1>2 DEF TypeOK, MailTypeOK, Apply, linkUnchanged

LEMMA SchedulerTypes ==
  ASSUME TypeOK, SchedulerStep
  PROVE  TypeOK'
<1> USE DEF TypeOK
<1>1. ASSUME NEW j \in Job, NEW machines \in SUBSET Machine, handle_execute_job(j, machines)
      PROVE  TypeOK'
  <2>1. Msg("SCHED_EXECUTE_JOB", "sched", {j}) \in Message
    BY DEF Msg, Message
  <2>2. MailTypeOK' /\ MachinesTypeOK' /\ ServerTypeOK' /\ ActorsTypeOK'
    BY <1>1, <2>1, ApplyIsTyped DEF handle_execute_job, Decide
  <2> QED
    BY <1>1, <2>2 DEF JobsTypeOK, SchedulerTypeOK, handle_execute_job, Decide, Apply,
         linkUnchanged, Assert
<1>2. ASSUME NEW j \in Job, handle_reject_job(j)
      PROVE  TypeOK'
  <2>1. Msg("SCHED_REJECT_JOB", "sched", {j}) \in Message
    BY DEF Msg, Message
  <2>2. MailTypeOK' /\ MachinesTypeOK' /\ ServerTypeOK' /\ ActorsTypeOK'
    BY <1>2, <2>1, ApplyIsTyped DEF handle_reject_job, Decide
  <2> QED
    BY <1>2, <2>2 DEF JobsTypeOK, SchedulerTypeOK, handle_reject_job, Decide, Apply,
         linkUnchanged, jobVars
<1>3. ASSUME NEW S \in SUBSET Job, handle_kill_job(S)
      PROVE  TypeOK'
  <2>1. Msg("SCHED_KILL_JOB", "sched", S) \in Message
    BY DEF Msg, Message
  <2>2. MailTypeOK' /\ MachinesTypeOK' /\ ServerTypeOK' /\ ActorsTypeOK'
    BY <1>3, <2>1, ApplyIsTyped DEF handle_kill_job, Decide
  <2> QED
    BY <1>3, <2>2 DEF JobsTypeOK, SchedulerTypeOK, handle_kill_job, Decide, Apply,
         linkUnchanged, jobVars
<1>4. ASSUME NEW w \in Waiter, handle_call_me_later(w)
      PROVE  TypeOK'
  <2>1. Msg("SCHED_CALL_ME_LATER", "sched", {w}) \in Message
    BY DEF Msg, Message
  <2>2. MailTypeOK' /\ MachinesTypeOK' /\ ServerTypeOK' /\ ActorsTypeOK'
    BY <1>4, <2>1, ApplyIsTyped DEF handle_call_me_later, Decide
  <2> QED
    BY <1>4, <2>2 DEF JobsTypeOK, SchedulerTypeOK, handle_call_me_later, Decide, Apply,
         linkUnchanged, jobVars
<1>5. ASSUME NEW j \in DynJob, handle_register_job(j)
      PROVE  TypeOK'
  <2>1. Msg("JOB_REGISTERED_BY_DP", "sched", {j}) \in Message /\ j \in Job
    BY DEF Msg, Message, Job
  <2>2. MailTypeOK' /\ MachinesTypeOK' /\ ServerTypeOK' /\ ActorsTypeOK'
    BY <1>5, <2>1, ApplyIsTyped DEF handle_register_job, Decide
  <2> QED
    BY <1>5, <2>1, <2>2 DEF JobsTypeOK, SchedulerTypeOK, handle_register_job, Decide, Apply,
         linkUnchanged, Assert, JobState
<1>6. ASSUME NotifyRegistrationFinished
      PROVE  TypeOK'
  <2>1. Msg("END_DYNAMIC_REGISTER", "sched", {}) \in Message
    BY DEF Msg, Message
  <2>2. MailTypeOK' /\ MachinesTypeOK' /\ ServerTypeOK' /\ ActorsTypeOK'
    BY <1>6, <2>1, ApplyIsTyped DEF NotifyRegistrationFinished, Decide
  <2> QED
    BY <1>6, <2>2 DEF JobsTypeOK, SchedulerTypeOK, NotifyRegistrationFinished, Decide, Apply,
         linkUnchanged, jobVars
<1>7. ASSUME NotifyContinueRegistration
      PROVE  TypeOK'
  <2>1. Msg("CONTINUE_DYNAMIC_REGISTER", "sched", {}) \in Message
    BY DEF Msg, Message
  <2>2. MailTypeOK' /\ MachinesTypeOK' /\ ServerTypeOK' /\ ActorsTypeOK'
    BY <1>7, <2>1, ApplyIsTyped DEF NotifyContinueRegistration, Decide
  <2> QED
    BY <1>7, <2>2 DEF JobsTypeOK, SchedulerTypeOK, NotifyContinueRegistration, Decide, Apply,
         linkUnchanged, jobVars
<1>8. ASSUME ReplyApplied
      PROVE  TypeOK'
  <2>1. Msg("SCHED_READY", "sched", {}) \in Message
    BY DEF Msg, Message
  <2>2. MailTypeOK' /\ MachinesTypeOK' /\ ServerTypeOK' /\ ActorsTypeOK'
    BY <1>8, <2>1, ApplyIsTyped DEF ReplyApplied
  <2> QED
    BY <1>8, <2>2 DEF JobsTypeOK, SchedulerTypeOK, ReplyApplied, Apply, linkUnchanged, jobVars
<1>9. ASSUME send_message_at_time
      PROVE  TypeOK'
  <2>1. MachinesTypeOK' /\ ServerTypeOK' /\ ActorsTypeOK'
    BY <1>9, LinkLeavesServer DEF send_message_at_time
  <2>2. mailbox' \in Seq(Message) /\ (mailbox # <<>> => mailbox' # <<>>)
    BY <1>9, ConcatProperties, ConcatEqualIffEmpty DEF send_message_at_time, MailTypeOK
  <2>3. held' \in Seq(Message)
    BY <1>9 DEF send_message_at_time
  <2> QED
    BY <1>9, <2>1, <2>2, <2>3 DEF JobsTypeOK, SchedulerTypeOK, MailTypeOK,
         send_message_at_time, linkUnchanged, jobVars
<1> QED
  BY <1>1, <1>2, <1>3, <1>4, <1>5, <1>6, <1>7, <1>8, <1>9 DEF SchedulerStep

----------------------------------------------------------------------------
\* The server's handlers.

\* What taking a message leaves typed, whatever the handler does next.
LEMMA ReceiveIsTyped ==
  ASSUME TypeOK, NEW type, Receive(type)
  PROVE  /\ MachinesTypeOK' /\ MailTypeOK'
         /\ submitter' = submitter /\ todo' = todo
         /\ Received \in Message /\ Received.type = type
<1>1. Received \in Message /\ Tail(mailbox) \in Seq(Message)
  BY ReceivedIsTyped DEF TypeOK, Receive
<1> QED
  BY <1>1 DEF TypeOK, MachinesTypeOK, MailTypeOK, Receive, machineVars, submitterActors,
         readerActor

\* The end of a list of jobs: the trace, the deletions and the counter.
LEMMA FinishIsTyped ==
  ASSUME TypeOK, NEW S \in SUBSET Job, Finish(S)
  PROVE  /\ traced' \in [Job -> Nat] /\ to_delete' \in [Job -> Nat]
         /\ nb_completed' \in Nat
<1>1. Cardinality(S) \in Nat
  BY ItemsAreFinite DEF Item
<1> QED
  BY <1>1 DEF Finish, TypeOK, JobsTypeOK, ServerTypeOK

\* The events of a kill are events.
LEMMA KillingEventsAreTyped ==
  ASSUME NEW S \in SUBSET Job
  PROVE  KillingEvents(S) \in Seq(Event)
<1>1. ReallyKilled(S) \in SUBSET Job
  BY DEF ReallyKilled
<1>2. \A T \in SUBSET Job : Ev("JOB_COMPLETED", T) \in Event /\ Ev("JOB_KILLED", T) \in Event
  BY DEF Ev, Event
<1>3. CompletionOf(ReallyKilled(S)) \in Seq(Event)
  BY <1>1, <1>2 DEF CompletionOf
<1>4. <<Ev("JOB_KILLED", S)>> \in Seq(Event)
  BY <1>2
<1> QED
  BY <1>3, <1>4, ConcatProperties DEF KillingEvents

LEMMA HandlerTypes ==
  ASSUME TypeOK, Handle
  PROVE  TypeOK'
<1> USE DEF TypeOK
<1>1. CASE server_on_submitter_hello
  <2>1. MachinesTypeOK' /\ MailTypeOK' /\ Received.from \in Submitter
    BY <1>1, ReceiveIsTyped, MessageKinds DEF server_on_submitter_hello
  <2> QED
    BY <1>1, <2>1 DEF server_on_submitter_hello, Receive, JobsTypeOK, ServerTypeOK,
         ActorsTypeOK, SchedulerTypeOK, Assert, jobVars, jobCounters, actorCounts,
         bufferVars, helperActors, schedVars, submitterActors
<1>2. CASE server_on_submitter_bye
  <2>1. MachinesTypeOK' /\ MailTypeOK' /\ Received.from \in Submitter
    BY <1>2, ReceiveIsTyped, MessageKinds DEF server_on_submitter_bye
  <2>2. nb_finished' \in [{"job", "event"} -> Nat]
    BY <1>2 DEF server_on_submitter_bye, ServerTypeOK, Kind
  <2>3. outbox' \in Seq(Event)
    <3>1. Ev("NO_MORE_STATIC_JOB", {}) \in Event /\ Ev("NO_MORE_EXTERNAL_EVENT", {}) \in Event
      BY DEF Ev, Event
    <3>2. PICK e \in Event : outbox' = outbox \/ outbox' = Append(outbox, e)
      BY <1>2, <3>1 DEF server_on_submitter_bye
    <3> QED
      BY <3>2 DEF ServerTypeOK
  <2> QED
    BY <1>2, <2>1, <2>2, <2>3 DEF server_on_submitter_bye, Receive, JobsTypeOK, ServerTypeOK,
         ActorsTypeOK, SchedulerTypeOK, Assert, jobVars, jobCounters, actorCounts,
         helperActors, schedVars, submitterActors
<1>3. CASE server_on_job_submitted
  <2>1. MachinesTypeOK' /\ MailTypeOK' /\ Received.about \in SUBSET Job
    BY <1>3, ReceiveIsTyped, MessageKinds DEF server_on_job_submitted
  <2>2. Cardinality(Received.about) \in Nat
    BY <2>1, ItemsAreFinite DEF Item
  <2>3. outbox' \in Seq(Event)
    BY <1>3, <2>1 DEF server_on_job_submitted, ServerTypeOK, Ev, Event
  <2>4. JobsTypeOK'
    BY <1>3 DEF server_on_job_submitted, JobsTypeOK, JobState
  <2>5. ServerTypeOK'
    BY <1>3, <2>2, <2>3 DEF server_on_job_submitted, Receive, ServerTypeOK, actorCounts,
         submitVars
  <2>6. ActorsTypeOK' /\ SchedulerTypeOK'
    BY <1>3 DEF server_on_job_submitted, Receive, ActorsTypeOK, SchedulerTypeOK, Assert,
         helperActors, schedVars, submitterActors
  <2> QED
    BY <2>1, <2>4, <2>5, <2>6
<1>4. CASE server_on_event_occurred
  <2>1. MachinesTypeOK' /\ MailTypeOK' /\ Received.about \in SUBSET ExtEvent
    BY <1>4, ReceiveIsTyped, MessageKinds DEF server_on_event_occurred
  <2>2. outbox' \in Seq(Event)
    BY <1>4, <2>1 DEF server_on_event_occurred, ServerTypeOK, Ev, Event
  <2> QED
    BY <1>4, <2>1, <2>2 DEF server_on_event_occurred, Receive, JobsTypeOK, ServerTypeOK,
         ActorsTypeOK, SchedulerTypeOK, jobVars, jobCounters, actorCounts, submitVars,
         helperActors, schedVars, submitterActors
<1>5. CASE server_on_job_completed
  <2>1. MachinesTypeOK' /\ MailTypeOK' /\ Received.about \in SUBSET Job
    BY <1>5, ReceiveIsTyped, MessageKinds DEF server_on_job_completed
  <2>2. Cardinality(Received.about) \in Nat
    BY <2>1, ItemsAreFinite DEF Item
  <2>3. /\ traced' \in [Job -> Nat] /\ to_delete' \in [Job -> Nat]
        /\ nb_completed' \in Nat
    BY <1>5, <2>1, FinishIsTyped DEF server_on_job_completed
  <2>4. outbox' \in Seq(Event)
    BY <1>5, <2>1 DEF server_on_job_completed, ServerTypeOK, Ev, Event
  <2>5. JobsTypeOK'
    BY <1>5, <2>3 DEF server_on_job_completed, JobsTypeOK
  <2>6. ServerTypeOK'
    BY <1>5, <2>2, <2>3, <2>4 DEF server_on_job_completed, Receive, ServerTypeOK, actorCounts,
         submitVars
  <2>7. ActorsTypeOK' /\ SchedulerTypeOK'
    BY <1>5 DEF server_on_job_completed, Receive, ActorsTypeOK, SchedulerTypeOK, Assert,
         helperActors, schedVars, submitterActors
  <2> QED
    BY <2>1, <2>5, <2>6, <2>7
<1>6. CASE server_on_killing_done
  <2>1. MachinesTypeOK' /\ MailTypeOK' /\ Received.about \in SUBSET Job
    BY <1>6, ReceiveIsTyped, MessageKinds DEF server_on_killing_done
  <2>2. ReallyKilled(Received.about) \in SUBSET Job
    BY <2>1 DEF ReallyKilled
  <2>3. Cardinality(ReallyKilled(Received.about)) \in Nat
    BY <2>2, ItemsAreFinite DEF Item
  <2>4. /\ traced' \in [Job -> Nat] /\ to_delete' \in [Job -> Nat]
        /\ nb_completed' \in Nat
    BY <1>6, <2>2, FinishIsTyped DEF server_on_killing_done
  <2>5. outbox' \in Seq(Event)
    BY <1>6, <2>1, KillingEventsAreTyped, ConcatProperties
       DEF server_on_killing_done, ServerTypeOK
  <2>6. JobsTypeOK'
    BY <1>6, <2>4 DEF server_on_killing_done, JobsTypeOK
  <2>7. ServerTypeOK'
    BY <1>6, <2>3, <2>4, <2>5 DEF server_on_killing_done, Receive, ServerTypeOK, submitVars
  <2>8. ActorsTypeOK' /\ SchedulerTypeOK'
    BY <1>6 DEF server_on_killing_done, Receive, ActorsTypeOK, SchedulerTypeOK, Assert,
         helperActors, schedVars, submitterActors
  <2> QED
    BY <2>1, <2>6, <2>7, <2>8
<1>7. CASE server_on_register_job
  <2>1. MachinesTypeOK' /\ MailTypeOK' /\ Received.about \in SUBSET Job
    BY <1>7, ReceiveIsTyped, MessageKinds DEF server_on_register_job
  <2>2. outbox' \in Seq(Event)
    <3>1. Ev("JOB_SUBMITTED", Received.about) \in Event
      BY <2>1 DEF Ev, Event
    <3> QED
      BY <1>7, <3>1 DEF server_on_register_job, ServerTypeOK
  <2> QED
    BY <1>7, <2>1, <2>2 DEF server_on_register_job, Receive, JobsTypeOK, ServerTypeOK,
         ActorsTypeOK, SchedulerTypeOK, jobVars, actorCounts, submitVars, helperActors,
         schedVars, submitterActors
<1>8. CASE server_on_execute_job
  <2>1. MachinesTypeOK' /\ MailTypeOK'
    BY <1>8, ReceiveIsTyped DEF server_on_execute_job
  <2>2. JobsTypeOK'
    BY <1>8 DEF server_on_execute_job, JobsTypeOK, JobState
  <2>3. ServerTypeOK'
    BY <1>8 DEF server_on_execute_job, Receive, ServerTypeOK, actorCounts, submitVars, bufferVars
  <2>4. ActorsTypeOK' /\ SchedulerTypeOK'
    BY <1>8 DEF server_on_execute_job, Receive, ActorsTypeOK, SchedulerTypeOK, Assert,
         helperActors, schedVars, submitterActors
  <2> QED
    BY <2>1, <2>2, <2>3, <2>4
<1>9. CASE server_on_reject_job
  <2>1. MachinesTypeOK' /\ MailTypeOK' /\ Received.about \in SUBSET Job
    BY <1>9, ReceiveIsTyped, MessageKinds DEF server_on_reject_job
  <2>2. /\ traced' \in [Job -> Nat] /\ to_delete' \in [Job -> Nat]
        /\ nb_completed' \in Nat
    BY <1>9, <2>1, FinishIsTyped DEF server_on_reject_job
  <2>3. JobsTypeOK'
    BY <1>9, <2>2 DEF server_on_reject_job, JobsTypeOK, JobState
  <2>4. ServerTypeOK'
    BY <1>9, <2>2 DEF server_on_reject_job, Receive, ServerTypeOK, actorCounts, submitVars
  <2>5. ActorsTypeOK' /\ SchedulerTypeOK'
    BY <1>9 DEF server_on_reject_job, Receive, ActorsTypeOK, SchedulerTypeOK, Assert,
         helperActors, schedVars, submitterActors
  <2> QED
    BY <2>1, <2>3, <2>4, <2>5
<1>10. CASE server_on_kill_jobs
  <2>1. MachinesTypeOK' /\ MailTypeOK' /\ Received.about \in SUBSET Job
    BY <1>10, ReceiveIsTyped, MessageKinds DEF server_on_kill_jobs
  <2>2. NewlyRequested(Received.about) \in SUBSET Job
    BY <2>1 DEF NewlyRequested
  <2> QED
    BY <1>10, <2>1, <2>2 DEF server_on_kill_jobs, Receive, JobsTypeOK, ServerTypeOK,
         ActorsTypeOK, SchedulerTypeOK, Assert, jobCounters, submitVars, bufferVars,
         schedVars, submitterActors
<1>11. CASE server_on_call_me_later
  <2>1. MachinesTypeOK' /\ MailTypeOK' /\ Received.about \in SUBSET Waiter
    BY <1>11, ReceiveIsTyped, MessageKinds DEF server_on_call_me_later
  <2> QED
    BY <1>11, <2>1 DEF server_on_call_me_later, Receive, JobsTypeOK, ServerTypeOK,
         ActorsTypeOK, SchedulerTypeOK, Assert, jobVars, jobCounters, submitVars, bufferVars,
         schedVars, submitterActors
<1>12. CASE server_on_waiting_done
  <2>1. MachinesTypeOK' /\ MailTypeOK'
    BY <1>12, ReceiveIsTyped DEF server_on_waiting_done
  <2>2. outbox' \in Seq(Event)
    BY <1>12 DEF server_on_waiting_done, ServerTypeOK, Ev, Event
  <2> QED
    BY <1>12, <2>1, <2>2 DEF server_on_waiting_done, Receive, JobsTypeOK, ServerTypeOK,
         ActorsTypeOK, SchedulerTypeOK, jobVars, jobCounters, submitVars, helperActors,
         schedVars, submitterActors
<1>13. CASE server_on_end_dynamic_register \/ server_on_continue_dynamic_register
  <2>1. MachinesTypeOK' /\ MailTypeOK'
    BY <1>13, ReceiveIsTyped DEF server_on_end_dynamic_register,
         server_on_continue_dynamic_register
  <2> QED
    BY <1>13, <2>1 DEF server_on_end_dynamic_register, server_on_continue_dynamic_register,
         Receive, JobsTypeOK, ServerTypeOK, ActorsTypeOK, SchedulerTypeOK, jobVars,
         jobCounters, actorCounts, submitVars, bufferVars, helperActors, schedVars,
         submitterActors
<1>14. CASE server_on_sched_ready
  <2>1. MachinesTypeOK' /\ MailTypeOK'
    BY <1>14, ReceiveIsTyped DEF server_on_sched_ready
  <2> QED
    BY <1>14, <2>1 DEF server_on_sched_ready, Receive, JobsTypeOK, ServerTypeOK,
         ActorsTypeOK, SchedulerTypeOK, jobVars, jobCounters, actorCounts, submitVars,
         bufferVars, helperActors, schedVars, submitterActors
<1> QED
  BY <1>1, <1>2, <1>3, <1>4, <1>5, <1>6, <1>7, <1>8, <1>9, <1>10, <1>11, <1>12, <1>13, <1>14
     DEF Handle

\* The delivery of a message and the end of the server's loop.
LEMMA LoopTypes ==
  ASSUME TypeOK,
         Deliver \/ ServerSendsEvents \/ ServerEndsSimulation \/ ServerLoops \/ ServerLeavesLoop
  PROVE  TypeOK'
<1> USE DEF TypeOK
<1>1. CASE Deliver
  BY <1>1 DEF Deliver, JobsTypeOK, MachinesTypeOK, MailTypeOK, ServerTypeOK, ActorsTypeOK,
         SchedulerTypeOK, jobVars, machineVars, loopVars, jobCounters, actorCounts,
         submitVars, bufferVars, helperActors, schedVars
<1>2. ASSUME NEW events \in Seq(Event), generate_and_send_message(events)
      PROVE  /\ outbox' \in Seq(Event) /\ reader' = "run" /\ held' = held
             /\ sched_ready' \in BOOLEAN
             /\ view' \in [Job -> {"unknown", "waiting", "running", "done"}]
             /\ told' \in SUBSET EventType
             /\ unacked' \in Int
  <2>1. \A i \in 1..Len(events) : events[i] \in Event
    BY <1>2
  <2>2. told' \in SUBSET EventType
    <3>1. \A i \in 1..Len(events) : events[i].type \in EventType
      BY <2>1 DEF Event, EventType
    <3>2. told' = told \cup {events[i].type : i \in 1..Len(events)}
      BY <1>2 DEF generate_and_send_message
    <3> QED
      BY <3>1, <3>2 DEF SchedulerTypeOK
  <2>3. unacked' \in Int
    <3> DEFINE K == {i \in 1..Len(events) : events[i].type = "JOB_KILLED"}
    <3>1. Len(events) \in Nat
      BY <1>2
    <3>2. IsFiniteSet(1..Len(events)) /\ K \in SUBSET (1..Len(events))
      BY <3>1, FS_Interval
    <3>3. Cardinality(K) \in Nat
      BY <3>2, FS_Subset, FS_CardinalityType
    <3>4. unacked' = unacked - Cardinality(K)
      BY <1>2 DEF generate_and_send_message
    <3> QED
      BY <3>3, <3>4 DEF SchedulerTypeOK
  <2>4. view' \in [Job -> {"unknown", "waiting", "running", "done"}]
    BY <1>2 DEF generate_and_send_message, SchedulerTypeOK
  <2>5. outbox' \in Seq(Event) /\ reader' = "run" /\ held' = held
    BY <1>2 DEF generate_and_send_message
  <2>6. sched_ready' \in BOOLEAN
    BY <1>2, Zenon DEF generate_and_send_message
  <2> QED
    BY <2>2, <2>3, <2>4, <2>5, <2>6
<1>3. CASE ServerSendsEvents
  <2>1. /\ outbox' \in Seq(Event) /\ reader' = "run" /\ held' = held
        /\ sched_ready' \in BOOLEAN
        /\ view' \in [Job -> {"unknown", "waiting", "running", "done"}]
        /\ told' \in SUBSET EventType
        /\ unacked' \in Int
    BY <1>2, <1>3 DEF ServerSendsEvents, ServerTypeOK
  <2> QED
    BY <1>3, <2>1 DEF ServerSendsEvents, checkUnchanged, Assert, JobsTypeOK, MachinesTypeOK,
         MailTypeOK, ServerTypeOK, ActorsTypeOK, SchedulerTypeOK, machineVars, jobCounters,
         actorCounts, submitVars, submitterActors, helperActors
<1>4. CASE ServerEndsSimulation
  <2>0. <<Ev("SIMULATION_ENDS", {})>> \in Seq(Event)
    BY DEF Ev, Event
  <2>1. /\ outbox' \in Seq(Event) /\ reader' = "run" /\ held' = held
        /\ sched_ready' \in BOOLEAN
        /\ view' \in [Job -> {"unknown", "waiting", "running", "done"}]
        /\ told' \in SUBSET EventType
        /\ unacked' \in Int
    BY <1>2, <1>4, <2>0 DEF ServerEndsSimulation
  <2> QED
    BY <1>4, <2>1 DEF ServerEndsSimulation, checkUnchanged, JobsTypeOK, MachinesTypeOK,
         MailTypeOK, ServerTypeOK, ActorsTypeOK, SchedulerTypeOK, machineVars, jobCounters,
         actorCounts, submitVars, submitterActors, helperActors
<1>5. CASE ServerLoops \/ ServerLeavesLoop
  BY <1>5 DEF ServerLoops, ServerLeavesLoop, checkUnchanged, Assert, JobsTypeOK,
         MachinesTypeOK, MailTypeOK, ServerTypeOK, ActorsTypeOK, SchedulerTypeOK, machineVars,
         loopVars, jobCounters, actorCounts, submitVars, submitterActors, readerActor,
         helperActors
<1> QED
  BY <1>1, <1>3, <1>4, <1>5

----------------------------------------------------------------------------
(***************************************************************************)
(* Every reachable state of Batsim is well typed: in particular every      *)
(* message the server receives has the sender and the subject its handler  *)
(* expects (the static_cast of each server_on_... is right), and the       *)
(* server handles a message only when there is one.                        *)
(***************************************************************************)
THEOREM TypeCorrect == Spec => []TypeOK
<1>1. Init => TypeOK
  BY TypeInit
<1>2. TypeOK /\ [Next]_vars => TypeOK'
  <2> SUFFICES ASSUME TypeOK, [Next]_vars PROVE TypeOK'
    OBVIOUS
  <2>1. ASSUME NEW s \in Submitter, SubmitterStep(s) PROVE TypeOK'
    BY <2>1, SubmitterTypes
  <2>2. CASE ExecutionStep
    BY <2>2, ExecutionTypes
  <2>3. CASE SchedulerStep
    BY <2>3, SchedulerTypes
  <2>4. CASE ServerStep
    BY <2>4, HandlerTypes, LoopTypes DEF ServerStep
  <2>5. CASE UNCHANGED vars
    BY <2>5 DEF vars, TypeOK, JobsTypeOK, MachinesTypeOK, MailTypeOK, ServerTypeOK,
         ActorsTypeOK, SchedulerTypeOK, jobVars, machineVars, loopVars, jobCounters,
         actorCounts, submitVars, bufferVars, submitterActors, readerActor, helperActors,
         schedVars
  <2> QED
    BY <2>1, <2>2, <2>3, <2>4, <2>5 DEF Next
<1> QED
  BY <1>1, <1>2, PTL DEF Spec

----------------------------------------------------------------------------
\* Lemmas on the four ways the messages in flight change.

\* Where the elements of a longer, a shorter and a joined sequence come from.
LEMMA AppendLookup ==
  ASSUME NEW S, NEW s \in Seq(S), NEW e \in S, NEW i \in 1..Len(Append(s, e))
  PROVE  \/ i \in 1..Len(s) /\ Append(s, e)[i] = s[i]
         \/ i = Len(s) + 1 /\ Append(s, e)[i] = e
  OBVIOUS

LEMMA TailLookup ==
  ASSUME NEW S, NEW s \in Seq(S), s # <<>>, NEW i \in 1..Len(Tail(s))
  PROVE  i + 1 \in 1..Len(s) /\ i + 1 # 1 /\ Tail(s)[i] = s[i+1]
  OBVIOUS

LEMMA ConcatLookup ==
  ASSUME NEW S, NEW s \in Seq(S), NEW t \in Seq(S), NEW i \in 1..Len(s \o t)
  PROVE  \/ i \in 1..Len(s) /\ (s \o t)[i] = s[i]
         \/ i - Len(s) \in 1..Len(t) /\ (s \o t)[i] = t[i - Len(s)]
  OBVIOUS

\* What the messages claim stays true.
ClaimsKept == \A m \in Message : IsTrue(m) => IsTrue(m)'

\* What the submitters hold has not been submitted.
TodoIsTrue == \A s \in Submitter : \A j \in todo[s] \cap Job : state[j] = "NOT_SUBMITTED"

\* A put: the new message is true and announces no job that another one announces.
LEMMA PutKeepsMail ==
  ASSUME MailTypeOK, MessagesAreTrue, SubmittedOnce,
         NEW n \in Message, Put(n), UNCHANGED held, ClaimsKept, IsTrue(n)', TodoIsTrue',
         \A i \in 1..Len(mailbox) : Disjoint(mailbox[i], n),
         \A k \in 1..Len(held) : Disjoint(n, held[k])
  PROVE  MessagesAreTrue' /\ SubmittedOnce'
<1>1. \A i \in 1..Len(mailbox') : \/ i \in 1..Len(mailbox) /\ mailbox'[i] = mailbox[i]
                                  \/ i = Len(mailbox) + 1 /\ mailbox'[i] = n
  BY AppendLookup DEF MailTypeOK, Put
<1>2. \A i \in 1..Len(mailbox) : mailbox[i] \in Message
  BY DEF MailTypeOK
<1>3. \A i \in 1..Len(held) : held[i] \in Message
  BY DEF MailTypeOK
<1>4. (\A i \in 1..Len(mailbox) : IsTrue(mailbox[i]))'
  BY <1>1, <1>2 DEF ClaimsKept, MessagesAreTrue, IsTrue
<1>5. (\A i \in 1..Len(held) : IsTrue(held[i]))'
  BY <1>3 DEF ClaimsKept, MessagesAreTrue, IsTrue
<1>6. SubmittedOnce'
  <2>1. \A m, o \in Message : Disjoint(m, o) => Disjoint(o, m)
    BY DEF Disjoint
  <2> QED
    BY <1>1, <1>2, <1>3, <2>1 DEF SubmittedOnce
<1> QED
  BY <1>4, <1>5, <1>6 DEF MessagesAreTrue, TodoIsTrue

\* A handler takes the oldest message: the claims of the others have to be kept.
LEMMA TakeKeepsMail ==
  ASSUME MailTypeOK, SubmittedOnce, mailbox # <<>>, mailbox' = Tail(mailbox), UNCHANGED held,
         \A i \in 1..Len(mailbox) : i # 1 => (\A m \in Message : m = mailbox[i] => IsTrue(m)'),
         \A i \in 1..Len(held) : (\A m \in Message : m = held[i] => IsTrue(m)'),
         TodoIsTrue'
  PROVE  MessagesAreTrue' /\ SubmittedOnce'
<1>1. \A i \in 1..Len(mailbox') : i + 1 \in 1..Len(mailbox) /\ i + 1 # 1 /\ mailbox'[i] = mailbox[i+1]
  BY TailLookup DEF MailTypeOK
<1>2. \A i \in 1..Len(mailbox) : mailbox[i] \in Message
  BY DEF MailTypeOK
<1>3. \A i \in 1..Len(held) : held[i] \in Message
  BY DEF MailTypeOK
<1>4. (\A i \in 1..Len(mailbox) : IsTrue(mailbox[i]))'
  BY <1>1, <1>2 DEF IsTrue
<1>5. (\A i \in 1..Len(held) : IsTrue(held[i]))'
  BY <1>3 DEF IsTrue
<1>6. SubmittedOnce'
  <2>1. \A i \in 1..Len(mailbox') : i \in Int
    BY <1>1
  <2> QED
    BY <1>1, <2>1 DEF SubmittedOnce
<1> QED
  BY <1>4, <1>5, <1>6 DEF MessagesAreTrue, TodoIsTrue

\* The REQ-REP actor reads an event and holds the message.
LEMMA HoldKeepsMail ==
  ASSUME MailTypeOK, MessagesAreTrue, SubmittedOnce, UNCHANGED mailbox,
         NEW n \in Message, held' = <<n>>, ClaimsKept, IsTrue(n)', TodoIsTrue',
         \A i \in 1..Len(mailbox) : Disjoint(mailbox[i], n)
  PROVE  MessagesAreTrue' /\ SubmittedOnce'
<1>1. Len(held') = 1 /\ \A k \in 1..Len(held') : held'[k] = n
  OBVIOUS
<1>2. \A i \in 1..Len(mailbox) : mailbox[i] \in Message
  BY DEF MailTypeOK
<1>3. (\A i \in 1..Len(mailbox) : IsTrue(mailbox[i]))'
  BY <1>2 DEF ClaimsKept, MessagesAreTrue, IsTrue
<1>4. (\A i \in 1..Len(held) : IsTrue(held[i]))'
  BY <1>1 DEF IsTrue
<1>5. SubmittedOnce'
  BY <1>1 DEF SubmittedOnce
<1> QED
  BY <1>3, <1>4, <1>5 DEF MessagesAreTrue, TodoIsTrue

\* The REQ-REP actor wakes up and puts the message it holds.
LEMMA SendKeepsMail ==
  ASSUME MailTypeOK, MessagesAreTrue, SubmittedOnce,
         mailbox' = mailbox \o held, held' = <<>>, ClaimsKept, TodoIsTrue'
  PROVE  MessagesAreTrue' /\ SubmittedOnce'
<1>1. \A i \in 1..Len(mailbox') :
        \/ i \in 1..Len(mailbox) /\ mailbox'[i] = mailbox[i]
        \/ i - Len(mailbox) \in 1..Len(held) /\ mailbox'[i] = held[i - Len(mailbox)]
  BY ConcatLookup DEF MailTypeOK
<1>2. \A i \in 1..Len(mailbox) : mailbox[i] \in Message
  BY DEF MailTypeOK
<1>3. \A i \in 1..Len(held) : held[i] \in Message
  BY DEF MailTypeOK
<1>4. (\A i \in 1..Len(mailbox) : IsTrue(mailbox[i]))'
  <2>1. \A m \in Message : (\E i \in 1..Len(mailbox) : m = mailbox[i]) => IsTrue(m)'
    BY DEF ClaimsKept, MessagesAreTrue
  <2>2. \A m \in Message : (\E i \in 1..Len(held) : m = held[i]) => IsTrue(m)'
    BY DEF ClaimsKept, MessagesAreTrue
  <2>3. \A i \in 1..Len(mailbox') : \E m \in Message : m = mailbox'[i] /\ IsTrue(m)'
    BY <1>1, <1>2, <1>3, <2>1, <2>2
  <2> QED
    BY <2>3 DEF IsTrue
<1>5. Len(held') = 0 /\ (\A i \in 1..Len(held) : IsTrue(held[i]))'
  OBVIOUS
<1>6. SubmittedOnce'
  <2>1. \A m, o \in Message : Disjoint(m, o) => Disjoint(o, m)
    BY DEF Disjoint
  <2>2. ASSUME NEW i \in 1..Len(mailbox'), NEW k \in 1..Len(mailbox'), i # k
        PROVE  Disjoint(mailbox'[i], mailbox'[k])
    <3>1. Len(mailbox) \in Nat /\ Len(held) \in Nat /\ Len(held) <= 1
      BY DEF MailTypeOK, SubmittedOnce
    <3>2. CASE i \in 1..Len(mailbox) /\ k \in 1..Len(mailbox)
      BY <1>1, <2>2, <3>1, <3>2 DEF SubmittedOnce
    <3>3. CASE i \in 1..Len(mailbox) /\ k \notin 1..Len(mailbox)
      BY <1>1, <3>3 DEF SubmittedOnce
    <3>4. CASE i \notin 1..Len(mailbox) /\ k \in 1..Len(mailbox)
      BY <1>1, <1>2, <1>3, <2>1, <3>4 DEF SubmittedOnce
    <3>5. CASE i \notin 1..Len(mailbox) /\ k \notin 1..Len(mailbox)
      BY <1>1, <2>2, <3>1, <3>5
    <3> QED
      BY <3>2, <3>3, <3>4, <3>5
  <2> QED
    BY <1>5, <2>2 DEF SubmittedOnce
<1> QED
  BY <1>4, <1>5, <1>6 DEF MessagesAreTrue, TodoIsTrue

\* The claims stay true when what they are about does not change.
LEMMA NothingChangesNoClaim ==
  ASSUME MessagesAreTrue, UNCHANGED <<state, view, todo, outbox>>
  PROVE  ClaimsKept /\ TodoIsTrue'
  BY DEF ClaimsKept, IsTrue, Says, MessagesAreTrue, TodoIsTrue

\* A message that claims nothing about a job.
LEMMA NoClaim ==
  ASSUME NEW n \in Message,
         n.type \notin {"JOB_SUBMITTED", "JOB_REGISTERED_BY_DP",
                       "SCHED_EXECUTE_JOB", "SCHED_REJECT_JOB"}
  PROVE  /\ IsTrue(n) /\ IsTrue(n)'
         /\ \A m \in Message : Disjoint(m, n) /\ Disjoint(n, m)
  BY DEF IsTrue, Disjoint

----------------------------------------------------------------------------
\* The steps of the submitters.

LEMMA SubmitterLife ==
  ASSUME TypeOK, LifeCycle, NEW s \in Submitter, SubmitterStep(s)
  PROVE  LifeCycle'
<1>0. /\ ~aborted /\ JobPhases /\ EventsAreTrue /\ MessagesAreTrue /\ SubmittedOnce
      /\ MailTypeOK
  BY DEF LifeCycle, TypeOK, SubmitterStep, SubmitterHello, SubmitBatch, SubmitterBye
<1>1. UNCHANGED <<state, actor, view, outbox, held>>
  BY DEF SubmitterStep, SubmitterHello, SubmitBatch, SubmitterBye, submitterUnchanged,
         jobVars, schedVars, bufferVars, readerActor
<1>2. JobPhases' /\ EventsAreTrue'
  BY <1>0, <1>1 DEF JobPhases, EventsAreTrue
<1>3. MessagesAreTrue' /\ SubmittedOnce'
  <2>1. ASSUME NEW type \in {"SUBMITTER_HELLO", "SUBMITTER_BYE"},
               Put(Msg(type, s, {})), UNCHANGED todo
        PROVE  MessagesAreTrue' /\ SubmittedOnce'
    <3>0. PICK n \in Message : n = Msg(type, s, {})
      BY DEF Msg, Message
    <3>1. n.type = type
      BY <3>0 DEF Msg
    <3>2. /\ IsTrue(n)'
          /\ \A m \in Message : Disjoint(m, n) /\ Disjoint(n, m)
      BY <3>1, NoClaim
    <3>3. ClaimsKept /\ TodoIsTrue'
      BY <1>0, <1>1, <2>1, NothingChangesNoClaim
    <3>4. /\ \A i \in 1..Len(mailbox) : mailbox[i] \in Message
          /\ \A k \in 1..Len(held) : held[k] \in Message
      BY <1>0 DEF MailTypeOK
    <3> QED
      BY <1>0, <1>1, <2>1, <3>0, <3>2, <3>3, <3>4, PutKeepsMail
  <2>2. CASE SubmitBatch(s)
    <3>0. PICK n \in Message :
            n = Msg(IF s \in JobSubmitter THEN "JOB_SUBMITTED" ELSE "EVENT_OCCURRED",
                    s, NextBatch(s))
      BY BatchIsTyped
    <3>1. n.about = NextBatch(s) /\ n.type \in {"JOB_SUBMITTED", "EVENT_OCCURRED"}
      BY <3>0 DEF Msg
    <3>2. \A j \in NextBatch(s) : j \in todo[s] /\ Owner[j] = s
      BY DEF NextBatch, TypeOK, ActorsTypeOK
    <3>3. \A r \in Submitter : todo'[r] = IF r = s THEN todo[s] \ NextBatch(s) ELSE todo[r]
      BY <2>2 DEF SubmitBatch, Unsent, TypeOK, ActorsTypeOK
    <3>4. \A r \in Submitter : todo'[r] \subseteq todo[r] \ NextBatch(s)
      BY <3>2, <3>3 DEF TypeOK, ActorsTypeOK
    <3>5. ClaimsKept
      BY <1>1, <3>4 DEF ClaimsKept, IsTrue, Says
    <3>6. TodoIsTrue'
      BY <1>0, <1>1, <3>4 DEF TodoIsTrue, MessagesAreTrue
    <3>7. IsTrue(n)'
      <4>1. n.type = "JOB_SUBMITTED" => n.about \in SUBSET Job
        BY <3>1, MessageKinds
      <4>2. n.type = "JOB_SUBMITTED" => \A j \in n.about : state[j] = "NOT_SUBMITTED"
        BY <1>0, <3>1, <3>2, <4>1 DEF MessagesAreTrue
      <4> QED
        BY <1>1, <3>1, <3>4, <4>2 DEF IsTrue
    <3>8. \A m \in Message : IsTrue(m) => Disjoint(m, n) /\ Disjoint(n, m)
      BY <3>1, <3>2 DEF Disjoint, IsTrue
    <3>9. /\ \A i \in 1..Len(mailbox) : mailbox[i] \in Message /\ IsTrue(mailbox[i])
          /\ \A k \in 1..Len(held) : held[k] \in Message /\ IsTrue(held[k])
      BY <1>0 DEF MailTypeOK, MessagesAreTrue
    <3>10. Put(n)
      BY <2>2, <3>0 DEF SubmitBatch
    <3> QED
      BY <1>0, <1>1, <3>5, <3>6, <3>7, <3>8, <3>9, <3>10, PutKeepsMail
  <2> QED
    BY <2>1, <2>2 DEF SubmitterStep, SubmitterHello, SubmitterBye
<1> QED
  BY <1>2, <1>3 DEF LifeCycle

----------------------------------------------------------------------------
\* The steps of the job actors, the killers and the waiters.

\* An event about the life of a job is about jobs.
LEMMA JobEventsAreAboutJobs ==
  ASSUME TypeOK, NEW k \in 1..Len(outbox), NEW j \in outbox[k].about,
         outbox[k].type \in {"JOB_SUBMITTED", "JOB_COMPLETED"}
  PROVE  j \in Job
<1>1. outbox[k] \in Event
  BY DEF TypeOK, ServerTypeOK
<1> QED
  BY <1>1 DEF Event

\* A job ends, or starts: only jobs that have an actor change.
LEMMA RunningJobsMakeNoClaim ==
  ASSUME TypeOK, JobPhases, EventsAreTrue, MessagesAreTrue, NEW S \in SUBSET Job,
         \A j \in S : state[j] = "RUNNING",
         \A j \in S : IsComplete(state'[j]) \/ state'[j] = "RUNNING",
         \A j \in Job \ S : state'[j] = state[j] /\ actor'[j] = actor[j],
         UNCHANGED <<view, todo, outbox>>
  PROVE  EventsAreTrue' /\ ClaimsKept /\ TodoIsTrue'
<1>1. \A st \in {"ABSENT", "NOT_SUBMITTED", "SUBMITTED", "RUNNING"} : ~IsComplete(st)
  BY DEF IsComplete, OrdinaryEnds
<1>2. \A j \in Job : state[j] = "NOT_SUBMITTED" => state'[j] = "NOT_SUBMITTED"
  BY <1>1
<1>3. \A j \in Job : state[j] = "SUBMITTED" => state'[j] = "SUBMITTED"
  BY <1>1
<1>4. \A j \in Job : state[j] \notin {"ABSENT", "NOT_SUBMITTED"}
                      => state'[j] \notin {"ABSENT", "NOT_SUBMITTED"}
  BY <1>1
<1>5. \A j \in Job : IsComplete(state[j]) => IsComplete(state'[j])
  BY <1>1
<1>6. EventsAreTrue'
  <2> SUFFICES ASSUME NEW k \in 1..Len(outbox), NEW j \in outbox[k].about
               PROVE  /\ outbox[k].type = "JOB_SUBMITTED" => view[j] = "unknown" /\ state'[j] = "SUBMITTED"
                      /\ outbox[k].type = "JOB_COMPLETED" => IsComplete(state'[j])
    BY DEF EventsAreTrue, IsComplete
  <2>1. outbox[k].type \in {"JOB_SUBMITTED", "JOB_COMPLETED"} => j \in Job
    BY JobEventsAreAboutJobs
  <2> QED
    BY <1>3, <1>5, <2>1 DEF EventsAreTrue
<1>7. ClaimsKept
  BY <1>2, <1>4, MessageKinds DEF ClaimsKept, IsTrue, Says
<1>8. TodoIsTrue'
  BY <1>2 DEF TodoIsTrue, MessagesAreTrue
<1> QED
  BY <1>6, <1>7, <1>8

\* A put of a message that claims nothing.
LEMMA PutNoClaim ==
  ASSUME TypeOK, MessagesAreTrue, SubmittedOnce, NEW n \in Message,
         n.type \notin {"JOB_SUBMITTED", "JOB_REGISTERED_BY_DP",
                       "SCHED_EXECUTE_JOB", "SCHED_REJECT_JOB"},
         Put(n), UNCHANGED held, ClaimsKept, TodoIsTrue'
  PROVE  MessagesAreTrue' /\ SubmittedOnce'
<1>1. /\ IsTrue(n)'
      /\ \A m \in Message : Disjoint(m, n) /\ Disjoint(n, m)
  BY NoClaim
<1>2. /\ \A i \in 1..Len(mailbox) : mailbox[i] \in Message
      /\ \A k \in 1..Len(held) : held[k] \in Message
  BY DEF TypeOK, MailTypeOK
<1> QED
  BY <1>1, <1>2, PutKeepsMail DEF TypeOK

\* No message comes or goes.
LEMMA StillMail ==
  ASSUME TypeOK, MessagesAreTrue, SubmittedOnce, UNCHANGED <<mailbox, held>>,
         ClaimsKept, TodoIsTrue'
  PROVE  MessagesAreTrue' /\ SubmittedOnce'
<1>1. /\ \A i \in 1..Len(mailbox) : mailbox[i] \in Message
      /\ \A k \in 1..Len(held) : held[k] \in Message
  BY DEF TypeOK, MailTypeOK
<1>2. (\A i \in 1..Len(mailbox) : IsTrue(mailbox[i]))'
  BY <1>1 DEF ClaimsKept, MessagesAreTrue, IsTrue
<1>3. (\A i \in 1..Len(held) : IsTrue(held[i]))'
  BY <1>1 DEF ClaimsKept, MessagesAreTrue, IsTrue
<1> QED
  BY <1>2, <1>3 DEF MessagesAreTrue, TodoIsTrue, SubmittedOnce

LEMMA ExecutionLife ==
  ASSUME TypeOK, LifeCycle, ExecutionStep
  PROVE  LifeCycle'
<1> SUFFICES ASSUME ~aborted'
             PROVE  JobPhases' /\ EventsAreTrue' /\ MessagesAreTrue' /\ SubmittedOnce'
  BY DEF LifeCycle
<1>0. JobPhases /\ EventsAreTrue /\ MessagesAreTrue /\ SubmittedOnce
  BY DEF LifeCycle, ExecutionStep, JobStarts, JobEnds, JobCancelled, killer_process, WaiterWakes
<1>a. UNCHANGED <<view, todo, outbox, held>>
  BY DEF ExecutionStep, JobStarts, JobEnds, JobCancelled, killer_process, WaiterWakes,
         executionUnchanged, schedVars, submitterActors, bufferVars, readerActor
<1>b. "RUNNING" \in JobState /\ ~IsComplete("RUNNING") /\ IsComplete("COMPLETED_KILLED")
  BY DEF JobState, IsComplete, OrdinaryEnds
<1>1. ASSUME NEW j \in Job, JobStarts(j)
      PROVE  JobPhases' /\ EventsAreTrue' /\ MessagesAreTrue' /\ SubmittedOnce'
  <2>1. JobPhases'
    BY <1>0, <1>a, <1>1 DEF JobStarts, JobPhases, TypeOK, JobsTypeOK
  <2>2. EventsAreTrue' /\ UNCHANGED <<state, mailbox>>
    BY <1>0, <1>a, <1>1 DEF JobStarts, EventsAreTrue
  <2>3. ClaimsKept /\ TodoIsTrue'
    BY <1>0, <1>a, <2>2, NothingChangesNoClaim
  <2> QED
    BY <1>0, <1>a, <2>1, <2>2, <2>3, StillMail
<1>2. ASSUME NEW j \in Job, JobCancelled(j)
      PROVE  JobPhases' /\ EventsAreTrue' /\ MessagesAreTrue' /\ SubmittedOnce'
  <2>1. JobPhases' /\ UNCHANGED mailbox /\ state[j] = "RUNNING"
    BY <1>0, <1>a, <1>2 DEF JobCancelled, JobPhases, TypeOK, JobsTypeOK
  <2>2. /\ state'[j] = "COMPLETED_KILLED"
        /\ \A k \in Job \ {j} : state'[k] = state[k] /\ actor'[k] = actor[k]
    BY <1>2 DEF JobCancelled, TypeOK, JobsTypeOK
  <2>3. EventsAreTrue' /\ ClaimsKept /\ TodoIsTrue'
    <3> DEFINE S == {j}
    <3>1. /\ S \in SUBSET Job
          /\ \A k \in S : state[k] = "RUNNING"
          /\ \A k \in S : IsComplete(state'[k]) \/ state'[k] = "RUNNING"
          /\ \A k \in Job \ S : state'[k] = state[k] /\ actor'[k] = actor[k]
      BY <1>b, <2>1, <2>2
    <3> HIDE DEF S
    <3> QED
      BY <1>0, <1>a, <3>1, RunningJobsMakeNoClaim
  <2> QED
    BY <1>0, <1>a, <2>1, <2>3, StillMail
<1>3. ASSUME NEW j \in Job, NEW outcome \in Outcome, JobEnds(j, outcome)
      PROVE  JobPhases' /\ EventsAreTrue' /\ MessagesAreTrue' /\ SubmittedOnce'
  <2>1. outcome \in OrdinaryEnds /\ IsComplete(outcome) /\ state[j] = "RUNNING"
    BY <1>0, <1>3, ConstantsAssumption DEF JobEnds, JobPhases, IsComplete
  <2>2. /\ state' = [state EXCEPT ![j] = outcome]
        /\ actor' = [actor EXCEPT ![j] = "notifying"]
        /\ actor[j] = "running"
    BY <1>3 DEF JobEnds
  <2>3. outcome \notin {"ABSENT", "NOT_SUBMITTED"}
    BY <2>1 DEF OrdinaryEnds
  <2>4. JobPhases'
    BY <1>0, <1>a, <2>1, <2>2, <2>3 DEF JobPhases, TypeOK, JobsTypeOK
  <2>5. EventsAreTrue' /\ ClaimsKept /\ TodoIsTrue'
    <3> DEFINE S == {j}
    <3>1. /\ S \in SUBSET Job
          /\ \A k \in S : state[k] = "RUNNING"
          /\ \A k \in S : IsComplete(state'[k]) \/ state'[k] = "RUNNING"
          /\ \A k \in Job \ S : state'[k] = state[k] /\ actor'[k] = actor[k]
      BY <2>1, <2>2 DEF TypeOK, JobsTypeOK
    <3> HIDE DEF S
    <3> QED
      BY <1>0, <1>a, <3>1, RunningJobsMakeNoClaim
  <2>6. PICK n \in Message : n = Msg("JOB_COMPLETED", "job", {j}) /\ Put(n)
    BY <1>3 DEF JobEnds, Msg, Message
  <2>7. n.type = "JOB_COMPLETED"
    BY <2>6 DEF Msg
  <2> QED
    BY <1>0, <1>a, <2>4, <2>5, <2>6, <2>7, PutNoClaim
<1>4. ASSUME NEW S \in killers, NEW inPtask \in SUBSET S, killer_process(S, inPtask)
      PROVE  JobPhases' /\ EventsAreTrue' /\ MessagesAreTrue' /\ SubmittedOnce'
  <2> DEFINE R == RunningJobs(S)
  <2>0. S \in SUBSET Job
    BY DEF TypeOK, ActorsTypeOK
  <2>1. R \in SUBSET Job /\ inPtask \in SUBSET R /\ \A j \in R : state[j] = "RUNNING"
    BY <1>4, <2>0 DEF killer_process, RunningJobs
  <2>2. \A j \in R : actor[j] = "running"
    BY <1>4 DEF killer_process, Assert
  <2>3. \A j \in Job : /\ state'[j] = IF j \in R \ inPtask THEN "COMPLETED_KILLED" ELSE state[j]
                       /\ actor'[j] = IF j \in R \ inPtask THEN "dead"
                                      ELSE IF j \in inPtask THEN "cancelled" ELSE actor[j]
    BY <1>4 DEF killer_process
  <2> HIDE DEF R
  <2>4. JobPhases'
    BY <1>0, <1>a, <2>1, <2>2, <2>3 DEF JobPhases
  <2>5. /\ \A k \in R : IsComplete(state'[k]) \/ state'[k] = "RUNNING"
        /\ \A k \in Job \ R : state'[k] = state[k] /\ actor'[k] = actor[k]
    BY <1>b, <2>1, <2>3
  <2>6. EventsAreTrue' /\ ClaimsKept /\ TodoIsTrue'
    BY <1>0, <1>a, <2>1, <2>5, RunningJobsMakeNoClaim
  <2>7. PICK n \in Message : n = Msg("KILLING_DONE", "killer", S) /\ Put(n)
    BY <1>4, <2>0 DEF killer_process, Msg, Message
  <2>8. n.type = "KILLING_DONE"
    BY <2>7 DEF Msg
  <2> QED
    BY <1>0, <1>a, <2>4, <2>6, <2>7, <2>8, PutNoClaim
<1>5. ASSUME NEW w \in Waiter, WaiterWakes(w)
      PROVE  JobPhases' /\ EventsAreTrue' /\ MessagesAreTrue' /\ SubmittedOnce'
  <2>1. UNCHANGED <<state, actor>>
    BY <1>5 DEF WaiterWakes, jobVars
  <2>2. JobPhases' /\ EventsAreTrue'
    BY <1>0, <1>a, <2>1 DEF JobPhases, EventsAreTrue
  <2>3. ClaimsKept /\ TodoIsTrue'
    BY <1>0, <1>a, <2>1, NothingChangesNoClaim
  <2>4. PICK n \in Message : n = Msg("WAITING_DONE", w, {})
    BY DEF Msg, Message
  <2>5. n.type = "WAITING_DONE"
    BY <2>4 DEF Msg
  <2>6. UNCHANGED mailbox \/ Put(n)
    BY <1>5, <2>4 DEF WaiterWakes
  <2> QED
    BY <1>0, <1>a, <2>2, <2>3, <2>5, <2>6, PutNoClaim, StillMail
<1> QED
  BY <1>1, <1>2, <1>3, <1>4, <1>5 DEF ExecutionStep

----------------------------------------------------------------------------
\* The steps of the REQ-REP actor and of the scheduler.

\* An event of a reply that claims nothing about a job.
LEMMA ApplyNoClaim ==
  ASSUME TypeOK, LifeCycle, NEW type, NEW about, Msg(type, "sched", about) \in Message,
         type \notin {"JOB_SUBMITTED", "JOB_REGISTERED_BY_DP",
                     "SCHED_EXECUTE_JOB", "SCHED_REJECT_JOB"},
         Apply(type, about), UNCHANGED <<jobVars, view, aborted>>
  PROVE  LifeCycle'
<1>1. /\ JobPhases /\ EventsAreTrue /\ MessagesAreTrue /\ SubmittedOnce
      /\ UNCHANGED <<state, actor, view, todo, outbox, mailbox>>
  BY DEF LifeCycle, Apply, linkUnchanged, jobVars, bufferVars, submitterActors
<1>2. JobPhases' /\ EventsAreTrue'
  BY <1>1 DEF JobPhases, EventsAreTrue
<1>3. ClaimsKept /\ TodoIsTrue'
  BY <1>1, NothingChangesNoClaim
<1>4. PICK n \in Message : n = Msg(type, "sched", about)
  OBVIOUS
<1>5. n.type = type /\ held' = <<n>>
  BY <1>4 DEF Msg, Apply
<1>6. /\ IsTrue(n)'
      /\ \A m \in Message : Disjoint(m, n)
  BY <1>5, NoClaim
<1>7. \A i \in 1..Len(mailbox) : mailbox[i] \in Message
  BY DEF TypeOK, MailTypeOK
<1>8. MessagesAreTrue' /\ SubmittedOnce'
  BY <1>1, <1>3, <1>5, <1>6, <1>7, HoldKeepsMail DEF TypeOK
<1> QED
  BY <1>2, <1>8 DEF LifeCycle

\* The scheduler decides on a job it knows to be waiting: nobody claims that it
\* does not know the job.
LEMMA DecisionLife ==
  ASSUME TypeOK, LifeCycle, NEW j \in Job, view[j] = "waiting",
         NEW type \in {"SCHED_EXECUTE_JOB", "SCHED_REJECT_JOB"}, Apply(type, {j}),
         NEW v \in {"running", "done"}, view' = [view EXCEPT ![j] = v],
         UNCHANGED <<state, actor>>
  PROVE  LifeCycle'
<1>1. /\ JobPhases /\ EventsAreTrue /\ MessagesAreTrue /\ SubmittedOnce
      /\ UNCHANGED <<state, actor, todo, outbox, mailbox>>
  BY DEF LifeCycle, Apply, linkUnchanged, bufferVars, submitterActors
<1>2. \A k \in Job : view'[k] = IF k = j THEN v ELSE view[k]
  BY DEF TypeOK, SchedulerTypeOK
<1>3. state[j] \notin {"ABSENT", "NOT_SUBMITTED"}
  BY <1>1 DEF JobPhases
<1>4. JobPhases'
  BY <1>1, <1>2, <1>3 DEF JobPhases
<1>5. EventsAreTrue'
  <2>1. \A k \in 1..Len(outbox) : outbox[k].type = "JOB_SUBMITTED" => j \notin outbox[k].about
    BY <1>1 DEF EventsAreTrue
  <2>2. \A k \in 1..Len(outbox) : \A i \in outbox[k].about :
          outbox[k].type = "JOB_SUBMITTED" => i \in Job /\ i # j
    BY <2>1, JobEventsAreAboutJobs
  <2> QED
    BY <1>1, <1>2, <2>2 DEF EventsAreTrue
<1>6. ClaimsKept
  <2> SUFFICES ASSUME NEW m \in Message, IsTrue(m) PROVE IsTrue(m)'
    BY DEF ClaimsKept
  <2>1. m.type \in {"JOB_SUBMITTED", "JOB_REGISTERED_BY_DP", "SCHED_EXECUTE_JOB",
                   "SCHED_REJECT_JOB"} => m.about \in SUBSET Job
    BY MessageKinds
  <2> QED
    BY <1>1, <1>2, <2>1 DEF IsTrue, Says
<1>7. TodoIsTrue'
  BY <1>1 DEF TodoIsTrue, MessagesAreTrue
<1>8. PICK n \in Message : n = Msg(type, "sched", {j})
  BY DEF Msg, Message
<1>9. n.type = type /\ n.about = {j} /\ held' = <<n>>
  BY <1>8 DEF Msg, Apply
<1>10. IsTrue(n)' /\ \A m \in Message : Disjoint(m, n)
  BY <1>2, <1>9 DEF IsTrue, Disjoint
<1>11. \A i \in 1..Len(mailbox) : mailbox[i] \in Message
  BY DEF TypeOK, MailTypeOK
<1>12. MessagesAreTrue' /\ SubmittedOnce'
  BY <1>1, <1>6, <1>7, <1>9, <1>10, <1>11, HoldKeepsMail DEF TypeOK
<1> QED
  BY <1>4, <1>5, <1>12 DEF LifeCycle

\* The scheduler registers a job: it did not exist, so nobody claims anything of it.
LEMMA RegistrationLife ==
  ASSUME TypeOK, LifeCycle, NEW j \in DynJob, handle_register_job(j)
  PROVE  LifeCycle'
<1>0. j \in Job
  BY DEF Job
<1>1. /\ JobPhases /\ EventsAreTrue /\ MessagesAreTrue /\ SubmittedOnce
      /\ UNCHANGED <<actor, todo, outbox, mailbox>>
      /\ state[j] = "ABSENT" /\ Apply("JOB_REGISTERED_BY_DP", {j})
  BY DEF LifeCycle, handle_register_job, Decide, Apply, linkUnchanged, bufferVars, submitterActors
<1>2. \A k \in Job : /\ state'[k] = IF k = j THEN "SUBMITTED" ELSE state[k]
                     /\ view'[k] = IF k = j /\ ~RegistrationAck THEN "waiting" ELSE view[k]
  BY <1>0 DEF handle_register_job, TypeOK, SchedulerTypeOK, JobsTypeOK
<1>3. view[j] = "unknown" /\ actor[j] = "none"
  BY <1>0, <1>1 DEF JobPhases
<1>4. JobPhases'
  BY <1>0, <1>1, <1>2, <1>3 DEF JobPhases
<1>5. \A k \in 1..Len(outbox) :
        outbox[k].type \in {"JOB_SUBMITTED", "JOB_COMPLETED"} =>
          outbox[k].about \in SUBSET Job /\ j \notin outbox[k].about
  BY <1>1, JobEventsAreAboutJobs DEF EventsAreTrue, IsComplete, OrdinaryEnds
<1>6. EventsAreTrue'
  BY <1>1, <1>2, <1>5 DEF EventsAreTrue, IsComplete
<1>7. ASSUME NEW m \in Message, IsTrue(m) PROVE IsTrue(m)'
  <2>1. m.type \in {"JOB_SUBMITTED", "JOB_REGISTERED_BY_DP", "SCHED_EXECUTE_JOB",
                   "SCHED_REJECT_JOB"} => m.about \in SUBSET Job /\ j \notin m.about
    BY <1>1, <1>3, <1>7, MessageKinds DEF IsTrue
  <2> QED
    BY <1>1, <1>2, <1>7, <2>1 DEF IsTrue, Says
<1>8. TodoIsTrue'
  BY <1>1, <1>2 DEF TodoIsTrue, MessagesAreTrue
<1>9. PICK n \in Message : n = Msg("JOB_REGISTERED_BY_DP", "sched", {j})
  BY <1>0 DEF Msg, Message
<1>10. n.type = "JOB_REGISTERED_BY_DP" /\ n.about = {j} /\ held' = <<n>>
  BY <1>1, <1>9 DEF Msg, Apply
<1>11. IsTrue(n)'
  <2>1. ~Says(outbox, "JOB_SUBMITTED", j)
    BY <1>5 DEF Says
  <2> QED
    BY <1>0, <1>1, <1>2, <1>3, <1>10, <2>1 DEF IsTrue, Says
<1>12. \A i \in 1..Len(mailbox) : Disjoint(mailbox[i], n)
  BY <1>1, <1>10 DEF MessagesAreTrue, IsTrue, Disjoint
<1>13. MessagesAreTrue' /\ SubmittedOnce'
  BY <1>1, <1>7, <1>8, <1>10, <1>11, <1>12, HoldKeepsMail DEF TypeOK, ClaimsKept
<1> QED
  BY <1>4, <1>6, <1>13 DEF LifeCycle

LEMMA SchedulerLife ==
  ASSUME TypeOK, LifeCycle, SchedulerStep
  PROVE  LifeCycle'
<1>1. ASSUME NEW j \in Job, NEW machines \in SUBSET Machine, handle_execute_job(j, machines)
      PROVE  LifeCycle'
  BY <1>1, DecisionLife DEF handle_execute_job, Decide
<1>2. ASSUME NEW j \in Job, handle_reject_job(j)
      PROVE  LifeCycle'
  BY <1>2, DecisionLife DEF handle_reject_job, Decide, jobVars
<1>3. ASSUME NEW S \in SUBSET Job, handle_kill_job(S)
      PROVE  LifeCycle'
  <2>1. Msg("SCHED_KILL_JOB", "sched", S) \in Message
    BY DEF Msg, Message
  <2> QED
    BY <1>3, <2>1, ApplyNoClaim DEF handle_kill_job, Decide
<1>4. ASSUME NEW w \in Waiter, handle_call_me_later(w)
      PROVE  LifeCycle'
  <2>1. Msg("SCHED_CALL_ME_LATER", "sched", {w}) \in Message
    BY DEF Msg, Message
  <2> QED
    BY <1>4, <2>1, ApplyNoClaim DEF handle_call_me_later, Decide
<1>5. CASE NotifyRegistrationFinished \/ NotifyContinueRegistration \/ ReplyApplied
  <2>1. /\ Msg("END_DYNAMIC_REGISTER", "sched", {}) \in Message
        /\ Msg("CONTINUE_DYNAMIC_REGISTER", "sched", {}) \in Message
        /\ Msg("SCHED_READY", "sched", {}) \in Message
    BY DEF Msg, Message
  <2> QED
    BY <1>5, <2>1, ApplyNoClaim DEF NotifyRegistrationFinished, NotifyContinueRegistration,
         ReplyApplied, Decide
<1>6. CASE send_message_at_time
  <2>1. /\ JobPhases /\ EventsAreTrue /\ MessagesAreTrue /\ SubmittedOnce
        /\ UNCHANGED <<state, actor, view, todo, outbox>>
    BY <1>6 DEF LifeCycle, send_message_at_time, linkUnchanged, jobVars, bufferVars, submitterActors
  <2>2. JobPhases' /\ EventsAreTrue'
    BY <2>1 DEF JobPhases, EventsAreTrue
  <2>3. ClaimsKept /\ TodoIsTrue'
    BY <2>1, NothingChangesNoClaim
  <2>4. MessagesAreTrue' /\ SubmittedOnce'
    BY <1>6, <2>1, <2>3, SendKeepsMail DEF send_message_at_time, TypeOK
  <2> QED
    BY <2>2, <2>4 DEF LifeCycle
<1> QED
  BY <1>1, <1>2, <1>3, <1>4, <1>5, <1>6, RegistrationLife DEF SchedulerStep

----------------------------------------------------------------------------
\* The server's handlers.

\* A handler that breaks no claim at all.
LEMMA TakeNoClaim ==
  ASSUME TypeOK, MessagesAreTrue, SubmittedOnce, NEW type, Receive(type), ClaimsKept, TodoIsTrue'
  PROVE  MessagesAreTrue' /\ SubmittedOnce'
<1>1. mailbox # <<>> /\ mailbox' = Tail(mailbox) /\ UNCHANGED held
  BY DEF Receive, TypeOK, MailTypeOK, readerActor
<1>2. /\ \A i \in 1..Len(mailbox) : mailbox[i] \in Message /\ IsTrue(mailbox[i])
      /\ \A k \in 1..Len(held) : held[k] \in Message /\ IsTrue(held[k])
  BY DEF TypeOK, MailTypeOK, MessagesAreTrue
<1>3. \A i \in 1..Len(mailbox) : \A m \in Message : m = mailbox[i] => IsTrue(m)'
  <2> SUFFICES ASSUME NEW i \in 1..Len(mailbox), NEW m \in Message, m = mailbox[i]
               PROVE  IsTrue(m)'
    OBVIOUS
  <2>1. IsTrue(m)
    BY <1>2
  <2> QED
    BY <2>1 DEF ClaimsKept
<1>4. \A k \in 1..Len(held) : \A m \in Message : m = held[k] => IsTrue(m)'
  <2> SUFFICES ASSUME NEW k \in 1..Len(held), NEW m \in Message, m = held[k]
               PROVE  IsTrue(m)'
    OBVIOUS
  <2>1. IsTrue(m)
    BY <1>2
  <2> QED
    BY <2>1 DEF ClaimsKept
<1> QED
  BY <1>1, <1>3, <1>4, TakeKeepsMail DEF TypeOK

\* The buffer has grown, by events of N.
Grows(N) ==
  \A k \in 1..Len(outbox') :
    \/ k \in 1..Len(outbox) /\ outbox'[k] = outbox[k]
    \/ outbox'[k] \in N

LEMMA AppendGrows ==
  ASSUME TypeOK, NEW e \in Event, outbox' = outbox \/ outbox' = Append(outbox, e)
  PROVE  Grows({e})
<1>1. CASE outbox' = outbox
  BY <1>1 DEF Grows
<1>2. CASE outbox' = Append(outbox, e)
  BY <1>2, AppendLookup DEF Grows, TypeOK, ServerTypeOK
<1> QED
  BY <1>1, <1>2

\* The handlers that change no job and announce none.
LEMMA QuietHandlerLife ==
  ASSUME TypeOK, LifeCycle, NEW type, Receive(type), UNCHANGED <<state, actor>>,
         NEW N \in SUBSET Event, Grows(N),
         \A e \in N : e.type \notin {"JOB_SUBMITTED", "JOB_COMPLETED"}
  PROVE  LifeCycle'
<1>1. /\ JobPhases /\ EventsAreTrue /\ MessagesAreTrue /\ SubmittedOnce
      /\ UNCHANGED <<view, todo>>
  BY DEF LifeCycle, Receive, schedVars, submitterActors
<1>2. JobPhases' /\ EventsAreTrue'
  BY <1>1 DEF JobPhases, EventsAreTrue, Grows
<1>3. \A j : Says(outbox', "JOB_SUBMITTED", j) => Says(outbox, "JOB_SUBMITTED", j)
  BY DEF Says, Grows
<1>4. ClaimsKept /\ TodoIsTrue'
  BY <1>1, <1>3 DEF ClaimsKept, IsTrue, MessagesAreTrue, TodoIsTrue
<1>5. MessagesAreTrue' /\ SubmittedOnce'
  BY <1>1, <1>4, TakeNoClaim
<1> QED
  BY <1>2, <1>5 DEF LifeCycle

\* Jobs of S, submitted and decided on, start or are rejected.
LEMMA StartOrRejectLife ==
  ASSUME TypeOK, LifeCycle, NEW type \in {"SCHED_EXECUTE_JOB", "SCHED_REJECT_JOB"},
         Receive(type), UNCHANGED outbox,
         \A j \in Received.about : state[j] = "SUBMITTED",
         NEW st \in {"RUNNING", "REJECTED"},
         state' = [j \in Job |-> IF j \in Received.about THEN st ELSE state[j]],
         NEW act \in {"none", "created"}, act = "created" => st = "RUNNING",
         actor' = [j \in Job |-> IF j \in Received.about /\ act = "created" THEN act ELSE actor[j]]
  PROVE  LifeCycle'
<1>1. /\ JobPhases /\ EventsAreTrue /\ MessagesAreTrue /\ SubmittedOnce
      /\ UNCHANGED <<view, todo>>
  BY DEF LifeCycle, Receive, schedVars, submitterActors
<1>2. IsTrue(Received) /\ Received.type = type
  <2>1. 1 \in 1..Len(mailbox) /\ Received = mailbox[1]
    BY DEF Received, Receive, TypeOK, MailTypeOK
  <2> QED
    BY <1>1, <2>1 DEF MessagesAreTrue, Receive
<1>3. \A j \in Received.about : view[j] \in {"running", "done"} /\ state[j] = "SUBMITTED"
  BY <1>2 DEF IsTrue
<1>4. JobPhases'
  BY <1>1, <1>3 DEF JobPhases, OrdinaryEnds
<1>5. EventsAreTrue'
  <2> SUFFICES ASSUME NEW k \in 1..Len(outbox), NEW j \in outbox[k].about,
                      outbox[k].type \in {"JOB_SUBMITTED", "JOB_COMPLETED"}
               PROVE  state'[j] = state[j]
    BY <1>1 DEF EventsAreTrue, IsComplete
  <2>1. j \in Job
    BY JobEventsAreAboutJobs
  <2>2. j \notin Received.about
    BY <1>1, <1>3 DEF EventsAreTrue, IsComplete, OrdinaryEnds
  <2> QED
    BY <2>1, <2>2
<1>6. ClaimsKept
  <2> SUFFICES ASSUME NEW m \in Message, IsTrue(m) PROVE IsTrue(m)'
    BY DEF ClaimsKept
  <2>1. m.type \in {"JOB_SUBMITTED", "JOB_REGISTERED_BY_DP", "SCHED_EXECUTE_JOB",
                   "SCHED_REJECT_JOB"} => m.about \in SUBSET Job
    BY MessageKinds
  <2> QED
    BY <1>1, <1>3, <2>1 DEF IsTrue
<1>7. TodoIsTrue'
  BY <1>1, <1>3 DEF TodoIsTrue, MessagesAreTrue
<1>8. MessagesAreTrue' /\ SubmittedOnce'
  BY <1>1, <1>6, <1>7, TakeNoClaim
<1> QED
  BY <1>4, <1>5, <1>8 DEF LifeCycle

\* Jobs of S are reported as completed.
LEMMA CompletionLife ==
  ASSUME TypeOK, LifeCycle, NEW type, Receive(type), UNCHANGED state,
         NEW S \in SUBSET Job, \A j \in S : IsComplete(state[j]),
         NEW N \in SUBSET Event, Grows(N),
         \A e \in N : /\ e.type # "JOB_SUBMITTED"
                      /\ e.type = "JOB_COMPLETED" => e.about = S,
         \A j \in Job : actor'[j] = actor[j] \/ (j \in S /\ actor'[j] = "dead")
  PROVE  LifeCycle'
<1>1. /\ JobPhases /\ EventsAreTrue /\ MessagesAreTrue /\ SubmittedOnce
      /\ UNCHANGED <<view, todo>>
  BY DEF LifeCycle, Receive, schedVars, submitterActors
<1>2. \A st \in {"ABSENT", "NOT_SUBMITTED", "SUBMITTED"} : ~IsComplete(st)
  BY DEF IsComplete, OrdinaryEnds
<1>3. JobPhases'
  BY <1>1, <1>2 DEF JobPhases
<1>4. EventsAreTrue'
  BY <1>1 DEF EventsAreTrue, Grows, IsComplete
<1>5. \A j : Says(outbox', "JOB_SUBMITTED", j) => Says(outbox, "JOB_SUBMITTED", j)
  BY DEF Says, Grows
<1>6. ClaimsKept /\ TodoIsTrue'
  BY <1>1, <1>5 DEF ClaimsKept, IsTrue, MessagesAreTrue, TodoIsTrue
<1>7. MessagesAreTrue' /\ SubmittedOnce'
  BY <1>1, <1>6, TakeNoClaim
<1> QED
  BY <1>3, <1>4, <1>7 DEF LifeCycle

\* The messages other than the one that is handled announce other jobs.
LEMMA OthersAnnounceOthers ==
  ASSUME TypeOK, MessagesAreTrue, SubmittedOnce,
         NEW type \in {"JOB_SUBMITTED", "JOB_REGISTERED_BY_DP"}, Receive(type)
  PROVE  /\ mailbox # <<>> /\ mailbox' = Tail(mailbox) /\ UNCHANGED held
         /\ Received \in Message /\ Received.type = type /\ IsTrue(Received)
         /\ \A i \in 1..Len(mailbox) : i # 1 =>
              /\ mailbox[i] \in Message /\ IsTrue(mailbox[i])
              /\ mailbox[i].type = type => mailbox[i].about \cap Received.about = {}
         /\ \A k \in 1..Len(held) :
              /\ held[k] \in Message /\ IsTrue(held[k])
              /\ held[k].type = type => held[k].about \cap Received.about = {}
<1>1. mailbox # <<>> /\ mailbox' = Tail(mailbox) /\ UNCHANGED held
  BY DEF Receive, TypeOK, MailTypeOK, readerActor
<1>2. 1 \in 1..Len(mailbox) /\ Received = mailbox[1] /\ Received.type = type
  BY <1>1 DEF Received, Receive, TypeOK, MailTypeOK
<1>3. /\ \A i \in 1..Len(mailbox) : mailbox[i] \in Message /\ IsTrue(mailbox[i])
      /\ \A k \in 1..Len(held) : held[k] \in Message /\ IsTrue(held[k])
  BY DEF TypeOK, MailTypeOK, MessagesAreTrue
<1>4. /\ \A i \in 1..Len(mailbox) : i # 1 => Disjoint(mailbox[i], Received)
      /\ \A k \in 1..Len(held) : Disjoint(Received, held[k])
  BY <1>2 DEF SubmittedOnce
<1> QED
  BY <1>1, <1>2, <1>3, <1>4 DEF Disjoint

LEMMA SubmissionLife ==
  ASSUME TypeOK, LifeCycle, server_on_job_submitted
  PROVE  LifeCycle'
<1>1. /\ JobPhases /\ EventsAreTrue /\ MessagesAreTrue /\ SubmittedOnce
      /\ UNCHANGED <<view, todo, actor>> /\ Receive("JOB_SUBMITTED")
  BY DEF LifeCycle, server_on_job_submitted, Receive, schedVars, submitterActors
<1>2. PICK batch : batch = Received.about
  OBVIOUS
<1>3. /\ batch \in SUBSET Job
      /\ \A j \in batch : state[j] = "NOT_SUBMITTED" /\ view[j] = "unknown" /\ actor[j] = "none"
      /\ \A j \in batch : \A s \in Submitter : j \notin todo[s]
  BY <1>1, <1>2, OthersAnnounceOthers, MessageKinds DEF IsTrue, JobPhases
<1>4. state' = [j \in Job |-> IF j \in batch THEN "SUBMITTED" ELSE state[j]]
  BY <1>2 DEF server_on_job_submitted
<1>5. PICK e \in Event : e = Ev("JOB_SUBMITTED", batch)
  BY <1>3 DEF Ev, Event
<1>6. e.type = "JOB_SUBMITTED" /\ e.about = batch /\ Grows({e})
  BY <1>2, <1>5, AppendGrows DEF Ev, server_on_job_submitted
<1>7. JobPhases'
  BY <1>1, <1>3, <1>4 DEF JobPhases
<1>8. EventsAreTrue'
  <2> SUFFICES ASSUME NEW k \in 1..Len(outbox'), NEW j \in outbox'[k].about
               PROVE  /\ outbox'[k].type = "JOB_SUBMITTED" => view[j] = "unknown" /\ state'[j] = "SUBMITTED"
                      /\ outbox'[k].type = "JOB_COMPLETED" => IsComplete(state'[j])
    BY <1>1 DEF EventsAreTrue, IsComplete
  <2>1. CASE outbox'[k] = e
    BY <1>3, <1>4, <1>6, <2>1
  <2>2. CASE k \in 1..Len(outbox) /\ outbox'[k] = outbox[k]
    <3>1. outbox[k].type \in {"JOB_SUBMITTED", "JOB_COMPLETED"} => j \in Job /\ j \notin batch
      BY <1>1, <1>3, <2>2, JobEventsAreAboutJobs DEF EventsAreTrue, IsComplete, OrdinaryEnds
    <3> QED
      BY <1>1, <1>4, <2>2, <3>1 DEF EventsAreTrue
  <2> QED
    BY <1>6, <2>1, <2>2 DEF Grows
<1>9. TodoIsTrue'
  BY <1>1, <1>3, <1>4 DEF TodoIsTrue, MessagesAreTrue
<1>10. ASSUME NEW m \in Message, IsTrue(m), m.type = "JOB_SUBMITTED" => m.about \cap batch = {}
       PROVE  IsTrue(m)'
  <2>1. m.type \in {"JOB_SUBMITTED", "JOB_REGISTERED_BY_DP", "SCHED_EXECUTE_JOB",
                   "SCHED_REJECT_JOB"} => m.about \in SUBSET Job
    BY MessageKinds
  <2>2. \A j \in Job : j \notin batch /\ Says(outbox', "JOB_SUBMITTED", j)
                          => Says(outbox, "JOB_SUBMITTED", j)
    BY <1>6 DEF Says, Grows
  <2> QED
    BY <1>1, <1>3, <1>4, <1>10, <2>1, <2>2 DEF IsTrue
<1>11. /\ mailbox # <<>> /\ mailbox' = Tail(mailbox) /\ UNCHANGED held
       /\ \A i \in 1..Len(mailbox) : i # 1 => (\A m \in Message : m = mailbox[i] => IsTrue(m)')
       /\ \A i \in 1..Len(held) : (\A m \in Message : m = held[i] => IsTrue(m)')
  <2>1. /\ mailbox # <<>> /\ mailbox' = Tail(mailbox) /\ UNCHANGED held
        /\ \A i \in 1..Len(mailbox) : i # 1 =>
              /\ mailbox[i] \in Message /\ IsTrue(mailbox[i])
              /\ mailbox[i].type = "JOB_SUBMITTED" => mailbox[i].about \cap batch = {}
        /\ \A k \in 1..Len(held) :
              /\ held[k] \in Message /\ IsTrue(held[k])
              /\ held[k].type = "JOB_SUBMITTED" => held[k].about \cap batch = {}
    BY <1>1, <1>2, OthersAnnounceOthers
  <2>2. ASSUME NEW i \in 1..Len(mailbox), i # 1, NEW m \in Message, m = mailbox[i] PROVE IsTrue(m)'
    <3>1. IsTrue(m) /\ (m.type = "JOB_SUBMITTED" => m.about \cap batch = {})
      BY <2>1, <2>2
    <3> QED
      BY <3>1, <1>10
  <2>3. ASSUME NEW i \in 1..Len(held), NEW m \in Message, m = held[i] PROVE IsTrue(m)'
    <3>1. IsTrue(m) /\ (m.type = "JOB_SUBMITTED" => m.about \cap batch = {})
      BY <2>1, <2>3
    <3> QED
      BY <3>1, <1>10
  <2> QED
    BY <2>1, <2>2, <2>3
<1>12. MessagesAreTrue' /\ SubmittedOnce'
  BY <1>1, <1>9, <1>11, TakeKeepsMail DEF TypeOK
<1> QED
  BY <1>7, <1>8, <1>12 DEF LifeCycle

LEMMA RegistrationHandledLife ==
  ASSUME TypeOK, LifeCycle, server_on_register_job
  PROVE  LifeCycle'
<1>1. /\ JobPhases /\ EventsAreTrue /\ MessagesAreTrue /\ SubmittedOnce
      /\ UNCHANGED <<state, view, todo, actor>> /\ Receive("JOB_REGISTERED_BY_DP")
  BY DEF LifeCycle, server_on_register_job, Receive, schedVars, submitterActors, jobVars
<1>2. PICK S : S = Received.about
  OBVIOUS
<1>3. /\ S \in SUBSET Job
      /\ \A j \in S : state[j] \notin {"ABSENT", "NOT_SUBMITTED"}
      /\ \A j \in S : RegistrationAck => view[j] = "unknown" /\ state[j] = "SUBMITTED"
  BY <1>1, <1>2, OthersAnnounceOthers, MessageKinds DEF IsTrue, JobPhases
<1>4. PICK e \in Event : e = Ev("JOB_SUBMITTED", S)
  BY <1>3 DEF Ev, Event
<1>5. e.type = "JOB_SUBMITTED" /\ e.about = S
  BY <1>4 DEF Ev
<1>6. Grows({e}) /\ (~RegistrationAck => outbox' = outbox)
  BY <1>2, <1>4, AppendGrows DEF server_on_register_job
<1>7. JobPhases'
  BY <1>1 DEF JobPhases
<1>8. EventsAreTrue'
  BY <1>1, <1>3, <1>5, <1>6 DEF EventsAreTrue, Grows, IsComplete
<1>9. TodoIsTrue'
  BY <1>1 DEF TodoIsTrue, MessagesAreTrue
<1>10. ASSUME NEW m \in Message, IsTrue(m), m.type = "JOB_REGISTERED_BY_DP" => m.about \cap S = {}
       PROVE  IsTrue(m)'
  <2>1. RegistrationAck \in BOOLEAN
    BY ConstantsAssumption
  <2>2. \A j : j \notin S /\ Says(outbox', "JOB_SUBMITTED", j) => Says(outbox, "JOB_SUBMITTED", j)
    BY <1>5, <1>6 DEF Says, Grows
  <2> QED
    BY <1>1, <1>6, <1>10, <2>1, <2>2 DEF IsTrue
<1>11. /\ mailbox # <<>> /\ mailbox' = Tail(mailbox) /\ UNCHANGED held
       /\ \A i \in 1..Len(mailbox) : i # 1 => (\A m \in Message : m = mailbox[i] => IsTrue(m)')
       /\ \A i \in 1..Len(held) : (\A m \in Message : m = held[i] => IsTrue(m)')
  <2>1. /\ mailbox # <<>> /\ mailbox' = Tail(mailbox) /\ UNCHANGED held
        /\ \A i \in 1..Len(mailbox) : i # 1 =>
              /\ mailbox[i] \in Message /\ IsTrue(mailbox[i])
              /\ mailbox[i].type = "JOB_REGISTERED_BY_DP" => mailbox[i].about \cap S = {}
        /\ \A k \in 1..Len(held) :
              /\ held[k] \in Message /\ IsTrue(held[k])
              /\ held[k].type = "JOB_REGISTERED_BY_DP" => held[k].about \cap S = {}
    BY <1>1, <1>2, OthersAnnounceOthers
  <2>2. ASSUME NEW i \in 1..Len(mailbox), i # 1, NEW m \in Message, m = mailbox[i] PROVE IsTrue(m)'
    <3>1. IsTrue(m) /\ (m.type = "JOB_REGISTERED_BY_DP" => m.about \cap S = {})
      BY <2>1, <2>2
    <3> QED
      BY <3>1, <1>10
  <2>3. ASSUME NEW i \in 1..Len(held), NEW m \in Message, m = held[i] PROVE IsTrue(m)'
    <3>1. IsTrue(m) /\ (m.type = "JOB_REGISTERED_BY_DP" => m.about \cap S = {})
      BY <2>1, <2>3
    <3> QED
      BY <3>1, <1>10
  <2> QED
    BY <2>1, <2>2, <2>3
<1>12. MessagesAreTrue' /\ SubmittedOnce'
  BY <1>1, <1>9, <1>11, TakeKeepsMail DEF TypeOK
<1> QED
  BY <1>7, <1>8, <1>12 DEF LifeCycle

LEMMA HandlerLife ==
  ASSUME TypeOK, LifeCycle, Handle
  PROVE  LifeCycle'
<1>1. ASSUME NEW type, Receive(type), UNCHANGED <<state, actor, outbox>>
      PROVE  LifeCycle'
  <2>1. {} \in SUBSET Event /\ Grows({})
    BY <1>1 DEF Grows
  <2> QED
    BY <1>1, <2>1, QuietHandlerLife
<1>2. ASSUME NEW type, Receive(type), UNCHANGED <<state, actor>>,
             NEW e \in Event, e.type \notin {"JOB_SUBMITTED", "JOB_COMPLETED"},
             outbox' = outbox \/ outbox' = Append(outbox, e)
      PROVE  LifeCycle'
  <2>1. {e} \in SUBSET Event /\ Grows({e})
    BY <1>2, AppendGrows
  <2> QED
    BY <1>2, <2>1, QuietHandlerLife
<1>3. CASE \/ server_on_submitter_hello \/ server_on_kill_jobs \/ server_on_call_me_later
           \/ server_on_end_dynamic_register \/ server_on_continue_dynamic_register
           \/ server_on_sched_ready
  <2>1. UNCHANGED <<state, actor, outbox>>
    BY <1>3 DEF server_on_submitter_hello, server_on_kill_jobs, server_on_call_me_later,
         server_on_end_dynamic_register, server_on_continue_dynamic_register,
         server_on_sched_ready, jobVars, bufferVars
  <2>2. PICK type : Receive(type)
    BY <1>3 DEF server_on_submitter_hello, server_on_kill_jobs, server_on_call_me_later,
         server_on_end_dynamic_register, server_on_continue_dynamic_register,
         server_on_sched_ready
  <2> QED
    BY <1>1, <2>1, <2>2
<1>4. CASE server_on_submitter_bye
  <2>1. /\ Ev("NO_MORE_STATIC_JOB", {}) \in Event /\ Ev("NO_MORE_EXTERNAL_EVENT", {}) \in Event
        /\ Ev("NO_MORE_STATIC_JOB", {}).type = "NO_MORE_STATIC_JOB"
        /\ Ev("NO_MORE_EXTERNAL_EVENT", {}).type = "NO_MORE_EXTERNAL_EVENT"
    BY DEF Ev, Event
  <2>2. PICK e \in Event : /\ e.type \notin {"JOB_SUBMITTED", "JOB_COMPLETED"}
                           /\ outbox' = outbox \/ outbox' = Append(outbox, e)
    BY <1>4, <2>1 DEF server_on_submitter_bye
  <2>3. UNCHANGED <<state, actor>> /\ Receive("SUBMITTER_BYE")
    BY <1>4 DEF server_on_submitter_bye, jobVars
  <2> QED
    BY <1>2, <2>2, <2>3
<1>5. CASE server_on_event_occurred
  <2>1. UNCHANGED <<state, actor>> /\ Receive("EVENT_OCCURRED")
    BY <1>5 DEF server_on_event_occurred, jobVars
  <2>2. Received.about \in SUBSET ExtEvent
    BY <2>1, ReceiveIsTyped, MessageKinds
  <2>3. PICK e \in Event : e = Ev("EXTERNAL_EVENT", Received.about)
    BY <2>2 DEF Ev, Event
  <2>4. e.type = "EXTERNAL_EVENT" /\ outbox' = Append(outbox, e)
    BY <1>5, <2>3 DEF server_on_event_occurred, Ev
  <2> QED
    BY <1>2, <2>1, <2>4
<1>6. CASE server_on_waiting_done
  <2>1. UNCHANGED <<state, actor>> /\ Receive("WAITING_DONE")
    BY <1>6 DEF server_on_waiting_done, jobVars
  <2>2. PICK e \in Event : e = Ev("REQUESTED_CALL", {})
    BY DEF Ev, Event
  <2>3. e.type = "REQUESTED_CALL" /\ outbox' = Append(outbox, e)
    BY <1>6, <2>2 DEF server_on_waiting_done, Ev
  <2> QED
    BY <1>2, <2>1, <2>3
<1>7. CASE server_on_execute_job
  <2> SUFFICES ASSUME ~aborted' PROVE LifeCycle'
    BY DEF LifeCycle
  <2>1. \A j \in Received.about : state[j] = "SUBMITTED"
    BY <1>7 DEF server_on_execute_job, Assert
  <2>2. /\ Receive("SCHED_EXECUTE_JOB") /\ UNCHANGED outbox
        /\ state' = [j \in Job |-> IF j \in Received.about THEN "RUNNING" ELSE state[j]]
        /\ actor' = [j \in Job |-> IF j \in Received.about /\ "created" = "created"
                                   THEN "created" ELSE actor[j]]
    BY <1>7 DEF server_on_execute_job, bufferVars
  <2> QED
    BY <2>1, <2>2, StartOrRejectLife
<1>8. CASE server_on_reject_job
  <2> SUFFICES ASSUME ~aborted' PROVE LifeCycle'
    BY DEF LifeCycle
  <2>1. \A j \in Received.about : state[j] = "SUBMITTED"
    BY <1>8 DEF server_on_reject_job, Assert
  <2>2. actor' = [j \in Job |-> IF j \in Received.about /\ "none" = "created"
                                THEN "none" ELSE actor[j]]
    BY <1>8 DEF server_on_reject_job, TypeOK, JobsTypeOK
  <2>3. /\ Receive("SCHED_REJECT_JOB") /\ UNCHANGED outbox
        /\ state' = [j \in Job |-> IF j \in Received.about THEN "REJECTED" ELSE state[j]]
    BY <1>8 DEF server_on_reject_job
  <2> QED
    BY <2>1, <2>2, <2>3, StartOrRejectLife
<1>9. CASE server_on_job_completed
  <2> SUFFICES ASSUME ~aborted' PROVE LifeCycle'
    BY DEF LifeCycle
  <2>1. /\ Receive("JOB_COMPLETED") /\ UNCHANGED state
        /\ \A j \in Received.about : IsComplete(state[j])
    BY <1>9 DEF server_on_job_completed, Assert
  <2>2. Received.about \in SUBSET Job
    BY <2>1, ReceiveIsTyped, MessageKinds
  <2>3. PICK S \in SUBSET Job : S = Received.about
    BY <2>2
  <2>4. PICK e \in Event : e = Ev("JOB_COMPLETED", S)
    BY DEF Ev, Event
  <2>5. e.type = "JOB_COMPLETED" /\ e.about = S /\ Grows({e})
    BY <1>9, <2>3, <2>4, AppendGrows DEF server_on_job_completed, Ev
  <2>6. \A j \in Job : actor'[j] = actor[j] \/ (j \in S /\ actor'[j] = "dead")
    BY <1>9, <2>3 DEF server_on_job_completed
  <2>7. /\ {e} \in SUBSET Event
        /\ \A x \in {e} : x.type # "JOB_SUBMITTED" /\ (x.type = "JOB_COMPLETED" => x.about = S)
    BY <2>5
  <2>8. \A j \in S : IsComplete(state[j])
    BY <2>1, <2>3
  <2> QED
    BY <2>1, <2>5, <2>6, <2>7, <2>8, CompletionLife
<1>10. CASE server_on_killing_done
  <2>1. Receive("KILLING_DONE") /\ UNCHANGED <<state, actor>>
    BY <1>10 DEF server_on_killing_done
  <2>2. Received.about \in SUBSET Job
    BY <2>1, ReceiveIsTyped, MessageKinds
  <2>3. PICK S \in SUBSET Job : S = ReallyKilled(Received.about)
    BY <2>2 DEF ReallyKilled
  <2>4. \A j \in S : IsComplete(state[j])
    BY <2>3 DEF ReallyKilled, IsComplete
  <2>5. PICK c \in Event : c = Ev("JOB_COMPLETED", S)
    BY DEF Ev, Event
  <2>6. PICK d \in Event : d = Ev("JOB_KILLED", Received.about)
    BY <2>2 DEF Ev, Event
  <2>7. c.type = "JOB_COMPLETED" /\ c.about = S /\ d.type = "JOB_KILLED"
    BY <2>5, <2>6 DEF Ev
  <2>8. PICK t \in Seq(Event) : t = KillingEvents(Received.about)
    BY <2>2, KillingEventsAreTyped
  <2>9. \A k \in 1..Len(t) : t[k] \in {c, d}
    <3>1. t = <<>> \o <<d>> \/ t = <<c>> \o <<d>>
      BY <2>3, <2>5, <2>6, <2>8 DEF KillingEvents, CompletionOf
    <3> QED
      BY <3>1
  <2>10. outbox \in Seq(Event) /\ outbox' = outbox \o t
    BY <1>10, <2>8 DEF server_on_killing_done, TypeOK, ServerTypeOK
  <2>11. Grows({c, d})
    BY <2>9, <2>10, ConcatLookup DEF Grows
  <2>12. /\ {c, d} \in SUBSET Event
         /\ \A x \in {c, d} : x.type # "JOB_SUBMITTED" /\ (x.type = "JOB_COMPLETED" => x.about = S)
         /\ \A j \in Job : actor'[j] = actor[j] \/ (j \in S /\ actor'[j] = "dead")
    BY <2>1, <2>7
  <2> QED
    BY <2>1, <2>4, <2>11, <2>12, CompletionLife
<1> QED
  BY <1>3, <1>4, <1>5, <1>6, <1>7, <1>8, <1>9, <1>10, SubmissionLife, RegistrationHandledLife
     DEF Handle

----------------------------------------------------------------------------
\* The delivery of a message and the end of the server's loop.

\* The scheduler learns the buffered events, which are true.
LEMMA SendingLife ==
  ASSUME TypeOK, LifeCycle, ServerSendsEvents \/ ServerEndsSimulation
  PROVE  LifeCycle'
<1>1. /\ JobPhases /\ EventsAreTrue /\ MessagesAreTrue /\ SubmittedOnce
      /\ UNCHANGED <<state, actor, todo, mailbox, held>> /\ outbox' = <<>>
  BY DEF LifeCycle, ServerSendsEvents, ServerEndsSimulation, checkUnchanged, submitterActors,
         generate_and_send_message
<1>2. \A j \in Job : \/ Says(outbox, "JOB_COMPLETED", j) /\ view'[j] = "done"
                     \/ Says(outbox, "JOB_SUBMITTED", j) /\ view'[j] = "waiting"
                     \/ ~Says(outbox, "JOB_SUBMITTED", j) /\ view'[j] = view[j]
  <2>1. CASE ServerSendsEvents
    BY <2>1 DEF ServerSendsEvents, generate_and_send_message
  <2>2. CASE ServerEndsSimulation
    <3>1. PICK events : events = <<Ev("SIMULATION_ENDS", {})>>
      OBVIOUS
    <3>2. Len(events) = 1 /\ events[1].type = "SIMULATION_ENDS"
      BY <3>1 DEF Ev
    <3>3. \A j : ~Says(events, "JOB_COMPLETED", j) /\ ~Says(events, "JOB_SUBMITTED", j)
      BY <3>2 DEF Says
    <3>4. \A j \in Job : view'[j] = view[j]
      BY <2>2, <3>1, <3>3 DEF ServerEndsSimulation, generate_and_send_message
    <3>5. \A j : ~Says(outbox, "JOB_SUBMITTED", j)
      BY <2>2 DEF ServerEndsSimulation, Says
    <3> QED
      BY <3>4, <3>5
  <2> QED
    BY <2>1, <2>2
<1>3. \A j \in Job : /\ Says(outbox, "JOB_COMPLETED", j) => IsComplete(state[j])
                     /\ Says(outbox, "JOB_SUBMITTED", j) =>
                          view[j] = "unknown" /\ state[j] = "SUBMITTED"
  BY <1>1 DEF EventsAreTrue, Says
<1>4. \A st \in {"ABSENT", "NOT_SUBMITTED", "SUBMITTED"} : ~IsComplete(st)
  BY DEF IsComplete, OrdinaryEnds
<1>5. JobPhases'
  BY <1>1, <1>2, <1>3, <1>4 DEF JobPhases
<1>6. EventsAreTrue' /\ \A j : ~Says(outbox', "JOB_SUBMITTED", j)
  BY <1>1 DEF EventsAreTrue, Says
<1>7. ClaimsKept
  <2> SUFFICES ASSUME NEW m \in Message, IsTrue(m) PROVE IsTrue(m)'
    BY DEF ClaimsKept
  <2>1. m.type \in {"JOB_SUBMITTED", "JOB_REGISTERED_BY_DP", "SCHED_EXECUTE_JOB",
                   "SCHED_REJECT_JOB"} => m.about \in SUBSET Job
    BY MessageKinds
  <2>2. \A j \in Job : view[j] \in {"running", "done"} => view'[j] \in {"running", "done"}
    BY <1>2, <1>3
  <2>3. \A j \in Job : view[j] = "unknown" /\ ~Says(outbox, "JOB_SUBMITTED", j)
                          => view'[j] = "unknown"
    BY <1>1, <1>2, <1>3, <1>4 DEF JobPhases
  <2> QED
    BY <1>1, <1>6, <2>1, <2>2, <2>3 DEF IsTrue
<1>8. TodoIsTrue'
  BY <1>1 DEF TodoIsTrue, MessagesAreTrue
<1>9. MessagesAreTrue' /\ SubmittedOnce'
  BY <1>1, <1>7, <1>8, StillMail
<1> QED
  BY <1>5, <1>6, <1>9 DEF LifeCycle

\* A step that changes nothing the life cycle is about.
LEMMA IdleLife ==
  ASSUME TypeOK, LifeCycle, UNCHANGED <<state, actor, view, todo, outbox, mailbox, held>>,
         ~aborted \/ UNCHANGED aborted
  PROVE  LifeCycle'
<1> SUFFICES ASSUME ~aborted
             PROVE  JobPhases' /\ EventsAreTrue' /\ MessagesAreTrue' /\ SubmittedOnce'
  BY DEF LifeCycle
<1>1. JobPhases /\ EventsAreTrue /\ MessagesAreTrue /\ SubmittedOnce
  BY DEF LifeCycle
<1>2. JobPhases' /\ EventsAreTrue'
  BY <1>1 DEF JobPhases, EventsAreTrue
<1>3. ClaimsKept /\ TodoIsTrue'
  BY <1>1, NothingChangesNoClaim
<1> QED
  BY <1>1, <1>2, <1>3, StillMail

LEMMA LifeInit == Init => LifeCycle
<1> SUFFICES ASSUME Init PROVE JobPhases /\ EventsAreTrue /\ MessagesAreTrue /\ SubmittedOnce
  BY DEF LifeCycle
<1>1. JobPhases
  BY DEF Init, JobPhases
<1>2. EventsAreTrue /\ SubmittedOnce
  BY DEF Init, EventsAreTrue, SubmittedOnce
<1>3. MessagesAreTrue
  <2>1. \A s \in Submitter : \A j \in todo[s] \cap Job : j \in StaticJob
    BY ConstantsAssumption DEF Init, Job
  <2> QED
    BY <2>1 DEF Init, MessagesAreTrue, Job
<1> QED
  BY <1>1, <1>2, <1>3

(***************************************************************************)
(* However the actors interleave and however late messages and events are, *)
(* a job's state, its actor, the scheduler's view of it, the messages in   *)
(* flight and the buffered events agree: no job is submitted or announced  *)
(* twice, an event is still true when it is sent, and a job has an actor   *)
(* only while it runs.                                                     *)
(***************************************************************************)
THEOREM LifeCycleHolds == Spec => []LifeCycle
<1>1. Init => LifeCycle
  BY LifeInit
<1>2. TypeOK /\ LifeCycle /\ [Next]_vars => LifeCycle'
  <2> SUFFICES ASSUME TypeOK, LifeCycle, [Next]_vars PROVE LifeCycle'
    OBVIOUS
  <2>1. ASSUME NEW s \in Submitter, SubmitterStep(s) PROVE LifeCycle'
    BY <2>1, SubmitterLife
  <2>2. CASE ExecutionStep
    BY <2>2, ExecutionLife
  <2>3. CASE SchedulerStep
    BY <2>3, SchedulerLife
  <2>4. CASE Handle
    BY <2>4, HandlerLife
  <2>5. CASE ServerSendsEvents \/ ServerEndsSimulation
    BY <2>5, SendingLife
  <2>6. CASE Deliver \/ ServerLoops \/ ServerLeavesLoop \/ UNCHANGED vars
    <3>1. UNCHANGED <<state, actor, view, todo, outbox, mailbox, held>>
      BY <2>6 DEF Deliver, ServerLoops, ServerLeavesLoop, checkUnchanged, jobVars, bufferVars,
           submitterActors, readerActor, schedVars, vars
    <3>2. ~aborted \/ UNCHANGED aborted
      BY <2>6 DEF Deliver, ServerLoops, ServerLeavesLoop, vars
    <3> QED
      BY <3>1, <3>2, IdleLife
  <2> QED
    BY <2>1, <2>2, <2>3, <2>4, <2>5, <2>6 DEF Next, ServerStep
<1> QED
  BY <1>1, <1>2, TypeCorrect, PTL DEF Spec

----------------------------------------------------------------------------
(***************************************************************************)
(* The mail of the server, seen as a set of messages in flight and an      *)
(* order between them, and the discipline with which the actors use it     *)
(* (LinkInv). The proofs of the later layers see the mailbox only through  *)
(* this.                                                                   *)
(*                                                                         *)
(* Then the scheduler's decisions, from the reply that carries them to the *)
(* server's handler (DecisionInv), and the machines they give to the jobs  *)
(* (MachinesInv).                                                          *)
(***************************************************************************)

\* The messages in flight, as a set, and the order in which they will be handled.

Flight == {mailbox[i] : i \in 1..Len(mailbox)} \cup {held[k] : k \in 1..Len(held)}

\* Any message comes before the later ones in the sense of R.
InOrder(R) ==
  /\ \A i, k \in 1..Len(mailbox) : i < k => <<mailbox[i], mailbox[k]>> \in R
  /\ \A i \in 1..Len(mailbox), k \in 1..Len(held) : <<mailbox[i], held[k]>> \in R

\* The messages in flight are messages.
LEMMA FlightIsTyped ==
  ASSUME TypeOK
  PROVE  Flight \subseteq Message /\ \A k \in 1..Len(held) : held[k] \in Message
  BY DEF TypeOK, MailTypeOK, Flight

\* They are the elements of the mailbox and of what is held.
LEMMA FlightIsAll ==
  ASSUME TypeOK
  PROVE  /\ \A i \in 1..Len(mailbox \o held) : (mailbox \o held)[i] \in Flight
         /\ \A m \in Flight : \E i \in 1..Len(mailbox \o held) : (mailbox \o held)[i] = m
<1>1. mailbox \in Seq(Message) /\ held \in Seq(Message)
  BY DEF TypeOK, MailTypeOK
<1>2. \A i \in 1..Len(mailbox \o held) : (mailbox \o held)[i] \in Flight
  BY <1>1, ConcatLookup DEF Flight
<1>3. ASSUME NEW m \in Flight
      PROVE  \E i \in 1..Len(mailbox \o held) : (mailbox \o held)[i] = m
  <2>1. ASSUME NEW i \in 1..Len(mailbox), m = mailbox[i]
        PROVE  \E k \in 1..Len(mailbox \o held) : (mailbox \o held)[k] = m
    <3>1. i \in 1..Len(mailbox \o held) /\ (mailbox \o held)[i] = mailbox[i]
      BY <1>1
    <3> QED
      BY <2>1, <3>1
  <2>2. ASSUME NEW i \in 1..Len(held), m = held[i]
        PROVE  \E k \in 1..Len(mailbox \o held) : (mailbox \o held)[k] = m
    <3>1. /\ Len(mailbox) + i \in 1..Len(mailbox \o held)
          /\ (mailbox \o held)[Len(mailbox) + i] = held[i]
      BY <1>1
    <3> QED
      BY <2>2, <3>1
  <2> QED
    BY <2>1, <2>2 DEF Flight
<1> QED
  BY <1>2, <1>3

\* A put adds the message; it comes after those of the mailbox, before the held one.
LEMMA PutFlight ==
  ASSUME TypeOK, NEW n \in Message, Put(n), UNCHANGED held
  PROVE  /\ Flight' = Flight \cup {n}
         /\ \A R : /\ InOrder(R)
                   /\ \A m \in Flight : <<m, n>> \in R
                   /\ \A k \in 1..Len(held) : <<n, held[k]>> \in R
                   => InOrder(R)'
<1>1. \A i \in 1..Len(mailbox') : \/ i \in 1..Len(mailbox) /\ mailbox'[i] = mailbox[i]
                                  \/ i = Len(mailbox) + 1 /\ mailbox'[i] = n
  BY AppendLookup DEF TypeOK, MailTypeOK, Put
<1>2. /\ Len(mailbox) \in Nat /\ Len(mailbox') = Len(mailbox) + 1
      /\ \A i \in 1..Len(mailbox) : i \in 1..Len(mailbox') /\ mailbox'[i] = mailbox[i]
      /\ mailbox'[Len(mailbox) + 1] = n
  BY DEF TypeOK, MailTypeOK, Put
<1>3. Flight' = Flight \cup {n}
  <2>1. \A m \in Flight' : m \in Flight \cup {n}
    BY <1>1 DEF Flight
  <2>2. n \in Flight'
    <3>1. Len(mailbox) + 1 \in 1..Len(mailbox')
      BY <1>2
    <3> QED
      BY <1>2, <3>1 DEF Flight
  <2>3. \A m \in Flight : m \in Flight'
    BY <1>2 DEF Flight
  <2> QED
    BY <2>1, <2>2, <2>3
<1>4. ASSUME NEW R, InOrder(R), \A m \in Flight : <<m, n>> \in R,
             \A k \in 1..Len(held) : <<n, held[k]>> \in R
      PROVE  InOrder(R)'
  <2>1. \A i \in 1..Len(mailbox) : <<mailbox[i], n>> \in R
    BY <1>4 DEF Flight
  <2>2. ASSUME NEW i \in 1..Len(mailbox'), NEW k \in 1..Len(mailbox'), i < k
        PROVE  <<mailbox'[i], mailbox'[k]>> \in R
    <3>1. i \in 1..Len(mailbox) /\ mailbox'[i] = mailbox[i]
      BY <1>2, <2>2
    <3> QED
      BY <1>1, <1>4, <2>1, <2>2, <3>1 DEF InOrder
  <2>3. ASSUME NEW i \in 1..Len(mailbox'), NEW k \in 1..Len(held')
        PROVE  <<mailbox'[i], held'[k]>> \in R
    BY <1>1, <1>4 DEF InOrder
  <2> QED
    BY <2>2, <2>3 DEF InOrder
<1> QED
  BY <1>3, <1>4

\* The REQ-REP actor holds a new message: it comes last.
LEMMA HoldFlight ==
  ASSUME TypeOK, held = <<>>, UNCHANGED mailbox, NEW n \in Message, held' = <<n>>
  PROVE  /\ Flight' = Flight \cup {n}
         /\ \A R : InOrder(R) /\ (\A m \in Flight : <<m, n>> \in R) => InOrder(R)'
<1>1. Len(held) = 0 /\ Len(held') = 1 /\ held'[1] = n
  OBVIOUS
<1>2. Flight' = Flight \cup {n}
  BY <1>1 DEF Flight
<1>3. \A i \in 1..Len(mailbox) : mailbox[i] \in Flight
  BY DEF Flight
<1> QED
  BY <1>1, <1>2, <1>3 DEF InOrder

\* It puts the message: nothing is reordered.
LEMMA SendFlight ==
  ASSUME TypeOK, Len(held) <= 1, mailbox' = mailbox \o held, held' = <<>>
  PROVE  /\ Flight' = Flight
         /\ \A R : InOrder(R) => InOrder(R)'
<1>1. \A i \in 1..Len(mailbox') :
        \/ i \in 1..Len(mailbox) /\ mailbox'[i] = mailbox[i]
        \/ i - Len(mailbox) \in 1..Len(held) /\ mailbox'[i] = held[i - Len(mailbox)]
  BY ConcatLookup DEF TypeOK, MailTypeOK
<1>2. /\ Len(mailbox) \in Nat /\ Len(held) \in Nat /\ Len(mailbox') = Len(mailbox) + Len(held)
      /\ \A i \in 1..Len(mailbox) : i \in 1..Len(mailbox') /\ mailbox'[i] = mailbox[i]
      /\ \A k \in 1..Len(held) : Len(mailbox) + k \in 1..Len(mailbox')
                                 /\ mailbox'[Len(mailbox) + k] = held[k]
  BY DEF TypeOK, MailTypeOK
<1>3. Len(held') = 0
  OBVIOUS
<1>4. Flight' = Flight
  <2>1. \A m \in Flight' : m \in Flight
    BY <1>1, <1>3 DEF Flight
  <2>2. \A m \in Flight : m \in Flight'
    BY <1>2 DEF Flight
  <2> QED
    BY <2>1, <2>2
<1>5. ASSUME NEW R, InOrder(R) PROVE InOrder(R)'
  <2>1. ASSUME NEW i \in 1..Len(mailbox'), NEW k \in 1..Len(mailbox'), i < k
        PROVE  <<mailbox'[i], mailbox'[k]>> \in R
    <3>1. i \in 1..Len(mailbox) /\ mailbox'[i] = mailbox[i]
      BY <1>2, <2>1
    <3> QED
      BY <1>1, <1>5, <2>1, <3>1 DEF InOrder
  <2> QED
    BY <1>3, <2>1 DEF InOrder
<1> QED
  BY <1>4, <1>5

\* A handler takes the oldest message: it comes before all the others.
LEMMA TakeFlight ==
  ASSUME TypeOK, NEW type, Receive(type)
  PROVE  /\ Received \in Flight /\ Received \in Message /\ Received.type = type
         /\ Flight' \subseteq Flight /\ Flight \subseteq Flight' \cup {Received}
         /\ \A R : InOrder(R) => InOrder(R)' /\ \A m \in Flight' : <<Received, m>> \in R
<1>1. mailbox # <<>> /\ mailbox' = Tail(mailbox) /\ UNCHANGED held
  BY DEF Receive, TypeOK, MailTypeOK, readerActor
<1>2. /\ 1 \in 1..Len(mailbox) /\ Received = mailbox[1] /\ Received.type = type
      /\ Len(mailbox) \in Nat
  BY <1>1 DEF Received, Receive, TypeOK, MailTypeOK
<1>3. \A i \in 1..Len(mailbox') : i + 1 \in 1..Len(mailbox) /\ i + 1 > 1 /\ mailbox'[i] = mailbox[i+1]
  BY <1>1, TailLookup DEF TypeOK, MailTypeOK
<1>4. \A i \in 1..Len(mailbox) : i # 1 => i - 1 \in 1..Len(mailbox') /\ mailbox[i] = mailbox'[i-1]
  <2>1. Len(mailbox') = Len(mailbox) - 1
    BY <1>1 DEF TypeOK, MailTypeOK
  <2>2. ASSUME NEW i \in 1..Len(mailbox), i # 1
        PROVE  i - 1 \in 1..Len(mailbox') /\ (i - 1) + 1 = i
    BY <1>2, <2>1, <2>2
  <2> QED
    BY <1>3, <2>2
<1>5. Received \in Flight /\ Received \in Message
  BY <1>2, FlightIsTyped DEF Flight
<1>6. \A m \in Flight' : m \in Flight
  BY <1>1, <1>3 DEF Flight
<1>7. \A m \in Flight : m \in Flight' \cup {Received}
  <2>1. ASSUME NEW i \in 1..Len(mailbox) PROVE mailbox[i] \in Flight' \cup {Received}
    <3>1. CASE i = 1
      BY <1>2, <3>1
    <3>2. CASE i # 1
      BY <1>4, <3>2 DEF Flight
    <3> QED
      BY <3>1, <3>2
  <2>2. ASSUME NEW k \in 1..Len(held) PROVE held[k] \in Flight'
    BY <1>1 DEF Flight
  <2> QED
    BY <2>1, <2>2 DEF Flight
<1>8. ASSUME NEW R, InOrder(R)
      PROVE  InOrder(R)' /\ \A m \in Flight' : <<Received, m>> \in R
  <2>1. \A m \in Flight' : <<Received, m>> \in R
    BY <1>1, <1>2, <1>3, <1>8 DEF Flight, InOrder
  <2>2. ASSUME NEW i \in 1..Len(mailbox'), NEW k \in 1..Len(mailbox'), i < k
        PROVE  <<mailbox'[i], mailbox'[k]>> \in R
    <3>1. i + 1 < k + 1
      BY <1>2, <2>2
    <3> QED
      BY <1>3, <1>8, <3>1 DEF InOrder
  <2>3. ASSUME NEW i \in 1..Len(mailbox'), NEW k \in 1..Len(held')
        PROVE  <<mailbox'[i], held'[k]>> \in R
    BY <1>1, <1>3, <1>8 DEF InOrder
  <2> QED
    BY <2>1, <2>2, <2>3 DEF InOrder
<1> QED
  BY <1>2, <1>5, <1>6, <1>7, <1>8

\* The mail does not change.
LEMMA StillFlight ==
  ASSUME UNCHANGED <<mailbox, held>>
  PROVE  Flight' = Flight /\ \A R : InOrder(R) => InOrder(R)'
  BY DEF Flight, InOrder

----------------------------------------------------------------------------
(***************************************************************************)
(* The discipline of the mail. The REQ-REP actor and a submitter have at   *)
(* most one message that the network has not delivered, and are blocked    *)
(* until it is. Nothing is delivered while a killer or a job actor is      *)
(* about to run; the scheduler is called only when the last reply has been *)
(* applied to its end.                                                     *)
(***************************************************************************)
Undelivered(i) == i \in 1..Len(mailbox) /\ (server = "handle" => i # 1)

\* The held message is the sleeping REQ-REP actor's.
ReaderHolds ==
  /\ held # <<>> <=> reader = "asleep"
  /\ Len(held) <= 1
  /\ \A k \in 1..Len(held) : held[k].from = "sched"

SendersWait ==
  \A i \in 1..Len(mailbox) : Undelivered(i) =>
    /\ mailbox[i].from = "sched" => reader = "blocked"
    /\ mailbox[i].from \in Submitter => submitter[mailbox[i].from] = "blocked"

OneEach ==
  \A i, k \in 1..Len(mailbox) :
    /\ Undelivered(i) /\ Undelivered(k) /\ mailbox[i].from = mailbox[k].from
    /\ mailbox[i].from \in Submitter \cup {"sched"}
    => i = k

ReadyComesLast ==
  /\ server = "handle" /\ Received.type = "SCHED_READY" => reader = "none"
  /\ sched_ready => /\ reader = "none"
                    /\ \A i \in 1..Len(mailbox) : mailbox[i].from # "sched"

Settled ==
  /\ sched_ready \/ server = "handle" => killers = {}
  /\ server = "handle" => \A j \in Job : actor[j] \notin {"created", "cancelled"}
  /\ killers # {} => \A j \in Job : actor[j] # "created"

LinkInv == ReaderHolds /\ SendersWait /\ OneEach /\ ReadyComesLast /\ Settled

Link == ~aborted => LinkInv

\* To join a sequence of one element is to append the element.
LEMMA ConcatOne ==
  ASSUME NEW S, NEW s \in Seq(S), NEW t \in Seq(S), Len(t) = 1
  PROVE  s \o t = Append(s, t[1])
<1>1. /\ s \o t \in Seq(S) /\ Append(s, t[1]) \in Seq(S)
      /\ Len(s \o t) = Len(s) + 1 /\ Len(Append(s, t[1])) = Len(s) + 1 /\ Len(s) \in Nat
  <2>1. 1 \in 1..Len(t)
    OBVIOUS
  <2>2. t[1] \in S
    BY <2>1, ElementOfSeq
  <2>3. Len(s) \in Nat
    BY LenProperties
  <2> QED
    BY <2>2, <2>3, ConcatProperties, AppendProperties
<1>2. \A i \in 1..Len(s \o t) : (s \o t)[i] = Append(s, t[1])[i]
  <2> SUFFICES ASSUME NEW i \in 1..(Len(s) + 1) PROVE (s \o t)[i] = Append(s, t[1])[i]
    BY <1>1
  <2>1. CASE i <= Len(s)
    BY <2>1
  <2>2. CASE i = Len(s) + 1
    BY <1>1, <2>2
  <2> QED
    BY <1>1, <2>1, <2>2
<1> QED
  BY <1>1, <1>2, SeqEqual

\* Every step is one of a process that is alive.
LEMMA StepsOfTheLiving ==
  ASSUME Next
  PROVE  ~aborted
  BY DEF Next, SubmitterStep, SubmitterHello, SubmitBatch, SubmitterBye, ExecutionStep, JobStarts,
         JobEnds, JobCancelled, killer_process, WaiterWakes, SchedulerStep, handle_execute_job,
         handle_reject_job, handle_kill_job, handle_call_me_later, handle_register_job,
         NotifyRegistrationFinished, NotifyContinueRegistration, ReplyApplied, Decide, Apply,
         send_message_at_time, ServerStep, Deliver, Handle, Receive, server_on_submitter_hello,
         server_on_submitter_bye, server_on_job_submitted, server_on_event_occurred,
         server_on_job_completed, server_on_killing_done, server_on_register_job,
         server_on_execute_job, server_on_reject_job, server_on_kill_jobs,
         server_on_call_me_later, server_on_waiting_done, server_on_end_dynamic_register,
         server_on_continue_dynamic_register, server_on_sched_ready, ServerSendsEvents,
         ServerEndsSimulation, ServerLoops, ServerLeavesLoop

\* A message is put by an actor that had none undelivered.
LEMMA PutLink ==
  ASSUME TypeOK, SendersWait, OneEach, ReadyComesLast, NEW n \in Message, Put(n), UNCHANGED server,
         \A i \in 1..Len(mailbox) : Undelivered(i) => mailbox[i].from # n.from
                                                      \/ n.from \notin Submitter \cup {"sched"},
         n.from = "sched" => reader' = "blocked" /\ ~sched_ready,
         reader' # reader => \A i \in 1..Len(mailbox) : Undelivered(i) => mailbox[i].from # "sched",
         n.from \in Submitter => submitter'[n.from] = "blocked",
         \A s \in Submitter : submitter'[s] = submitter[s] \/ submitter'[s] = "blocked",
         sched_ready' = sched_ready, reader' = reader \/ reader # "none"
  PROVE  SendersWait' /\ OneEach' /\ ReadyComesLast'
<1>1. \A i \in 1..Len(mailbox') : \/ i \in 1..Len(mailbox) /\ mailbox'[i] = mailbox[i]
                                  \/ i = Len(mailbox) + 1 /\ mailbox'[i] = n
  BY AppendLookup DEF TypeOK, MailTypeOK, Put
<1>2. \A i \in 1..Len(mailbox) : Undelivered(i)' => Undelivered(i)
  BY DEF Undelivered
<1>3. SendersWait'
  BY <1>1, <1>2 DEF SendersWait
<1>4. OneEach'
  BY <1>1, <1>2 DEF OneEach
<1>5. server = "handle" => Received' = Received
  BY DEF TypeOK, MailTypeOK, Received, Put
<1>6. ReadyComesLast'
  BY <1>1, <1>5 DEF ReadyComesLast
<1> QED
  BY <1>3, <1>4, <1>6

LEMMA SubmittersKeepLink ==
  ASSUME TypeOK, LinkInv, NEW s \in Submitter, SubmitterStep(s)
  PROVE  LinkInv'
<1>1. PICK n \in Message : Put(n) /\ n.from = s
  <2>1. /\ Msg("SUBMITTER_HELLO", s, {}) \in Message /\ Msg("SUBMITTER_BYE", s, {}) \in Message
        /\ \A type, about : Msg(type, s, about).from = s
    BY DEF Msg, Message
  <2> QED
    BY <2>1, BatchIsTyped DEF SubmitterStep, SubmitterHello, SubmitBatch, SubmitterBye
<1>2. /\ submitter[s] # "blocked" /\ submitter' = [submitter EXCEPT ![s] = "blocked"]
      /\ UNCHANGED <<server, reader, held, killers, actor, sched_ready>>
  BY DEF SubmitterStep, SubmitterHello, SubmitBatch, SubmitterBye, submitterUnchanged, jobVars,
         readerActor, helperActors, loopVars
<1>3. s # "sched"
  BY ConstantsAssumption
<1>4. SendersWait' /\ OneEach' /\ ReadyComesLast'
  <2>1. \A i \in 1..Len(mailbox) : Undelivered(i) => mailbox[i].from # n.from
    BY <1>1, <1>2 DEF LinkInv, SendersWait
  <2>2. submitter'[n.from] = "blocked" /\ \A r \in Submitter : submitter'[r] = submitter[r] \/ submitter'[r] = "blocked"
    BY <1>1, <1>2 DEF TypeOK, ActorsTypeOK
  <2> QED
    BY <1>1, <1>2, <1>3, <2>1, <2>2, PutLink DEF LinkInv
<1> QED
  BY <1>2, <1>4 DEF LinkInv, ReaderHolds, Settled

LEMMA ExecutionKeepsLink ==
  ASSUME TypeOK, LinkInv, ExecutionStep
  PROVE  LinkInv'
<1>1. UNCHANGED <<server, reader, held, submitter, sched_ready>>
  BY DEF ExecutionStep, JobStarts, JobEnds, JobCancelled, killer_process, WaiterWakes,
         executionUnchanged, loopVars, submitterActors, readerActor
<1>2. ASSUME NEW n \in Message, Put(n), n.from \in {"job", "killer"} \cup Waiter
      PROVE  SendersWait' /\ OneEach' /\ ReadyComesLast'
  <2>1. n.from \notin Submitter \cup {"sched"}
    BY <1>2, ConstantsAssumption
  <2> QED
    BY <1>1, <1>2, <2>1, PutLink DEF LinkInv
<1>3. SendersWait' /\ OneEach' /\ ReadyComesLast'
  <2>1. CASE UNCHANGED mailbox
    BY <1>1, <2>1 DEF LinkInv, SendersWait, OneEach, ReadyComesLast, Undelivered, Received
  <2>2. ASSUME NEW j \in Job, NEW outcome \in Outcome, JobEnds(j, outcome)
        PROVE  SendersWait' /\ OneEach' /\ ReadyComesLast'
    BY <1>2, <2>2 DEF JobEnds, Msg, Message
  <2>3. ASSUME NEW S \in killers, NEW inPtask \in SUBSET S, killer_process(S, inPtask)
        PROVE  SendersWait' /\ OneEach' /\ ReadyComesLast'
    BY <1>2, <2>3 DEF killer_process, Msg, Message, TypeOK, ActorsTypeOK
  <2>4. ASSUME NEW w \in Waiter, Put(Msg("WAITING_DONE", w, {}))
        PROVE  SendersWait' /\ OneEach' /\ ReadyComesLast'
    BY <1>2, <2>4 DEF Msg, Message
  <2> QED
    BY <2>1, <2>2, <2>3, <2>4 DEF ExecutionStep, JobStarts, JobCancelled, WaiterWakes
<1>4. Settled'
  <2>1. \A j \in Job : /\ actor'[j] = "created" => actor[j] = "created"
                       /\ actor'[j] = "cancelled" => actor[j] = "cancelled" \/ killers # {}
    BY DEF ExecutionStep, JobStarts, JobEnds, JobCancelled, killer_process, WaiterWakes, jobVars,
           TypeOK, JobsTypeOK
  <2>2. killers' \subseteq killers
    BY DEF ExecutionStep, JobStarts, JobEnds, JobCancelled, killer_process, WaiterWakes, helperActors
  <2> QED
    BY <1>1, <2>1, <2>2 DEF LinkInv, Settled
<1> QED
  BY <1>1, <1>3, <1>4 DEF LinkInv, ReaderHolds

LEMMA SchedulerKeepsLink ==
  ASSUME TypeOK, LinkInv, SchedulerStep
  PROVE  LinkInv'
<1>1. UNCHANGED <<server, submitter, sched_ready, killers, actor>>
  BY DEF SchedulerStep, handle_execute_job, handle_reject_job, handle_kill_job,
         handle_call_me_later, handle_register_job, NotifyRegistrationFinished,
         NotifyContinueRegistration, ReplyApplied, Decide, Apply, send_message_at_time,
         linkUnchanged, loopVars, submitterActors, helperActors, jobVars
<1>2. ASSUME NEW type, NEW about, Apply(type, about) PROVE LinkInv'
  <2>1. /\ held' = <<Msg(type, "sched", about)>> /\ UNCHANGED mailbox
        /\ reader = "run" /\ reader' = "asleep"
    BY <1>2 DEF Apply
  <2>2. Len(held') = 1 /\ held'[1].from = "sched" /\ held' # <<>>
    BY <2>1 DEF Msg
  <2>3. ReaderHolds'
    BY <2>1, <2>2 DEF ReaderHolds
  <2> QED
    BY <1>1, <2>1, <2>3 DEF LinkInv, SendersWait, OneEach, ReadyComesLast, Undelivered, Received,
         Settled
<1>3. CASE send_message_at_time
  <2>1. /\ mailbox' = mailbox \o held /\ held' = <<>> /\ reader = "asleep" /\ reader' = "blocked"
    BY <1>3 DEF send_message_at_time
  <2>2. ReaderHolds'
    BY <2>1 DEF ReaderHolds
  <2>3. PICK n \in Message : n.from = "sched" /\ Put(n)
    <3>0. held # <<>> /\ held \in Seq(Message) /\ mailbox \in Seq(Message)
      BY <2>1 DEF LinkInv, ReaderHolds, TypeOK, MailTypeOK
    <3>1. Len(held) = 1 /\ held[1] \in Message /\ held[1].from = "sched"
      <4>1. Len(held) \in Nat /\ Len(held) # 0
        BY <3>0, EmptySeq, LenProperties
      <4>2. Len(held) <= 1
        BY DEF LinkInv, ReaderHolds
      <4>3. \A n \in Nat : n # 0 /\ n <= 1 => n = 1 /\ 1 \in 1..n
        OBVIOUS
      <4>4. Len(held) = 1 /\ 1 \in 1..Len(held)
        BY <4>1, <4>2, <4>3
      <4> QED
        BY <3>0, <4>4, ElementOfSeq DEF LinkInv, ReaderHolds
    <3>2. mailbox \o held = Append(mailbox, held[1])
      BY <3>0, <3>1, ConcatOne
    <3> QED
      BY <2>1, <3>1, <3>2 DEF Put
  <2>4. \A i \in 1..Len(mailbox) : Undelivered(i) => mailbox[i].from # "sched"
    BY <2>1 DEF LinkInv, SendersWait
  <2>5. ~sched_ready /\ n.from \notin Submitter
    BY <2>1, <2>3, ConstantsAssumption DEF LinkInv, ReadyComesLast
  <2>6. SendersWait' /\ OneEach' /\ ReadyComesLast'
    BY <1>1, <2>1, <2>3, <2>4, <2>5, PutLink DEF LinkInv
  <2> QED
    BY <1>1, <2>2, <2>6 DEF LinkInv, Settled
<1> QED
  BY <1>2, <1>3 DEF SchedulerStep, handle_execute_job, handle_reject_job, handle_kill_job,
         handle_call_me_later, handle_register_job, NotifyRegistrationFinished,
         NotifyContinueRegistration, ReplyApplied, Decide

\* The network delivers a message once nobody is about to run.
LEMMA DeliverKeepsLink ==
  ASSUME TypeOK, LinkInv, Deliver
  PROVE  LinkInv'
<1>1. /\ server = "receive" /\ server' = "handle" /\ ~Runnable /\ mailbox # <<>>
      /\ UNCHANGED <<mailbox, held, killers, actor, sched_ready>>
  BY DEF Deliver, loopVars, jobVars, helperActors
<1>2. 1 \in 1..Len(mailbox) /\ Received = mailbox[1] /\ Received \in Message /\ Received' = Received
  BY <1>1 DEF Received, TypeOK, MailTypeOK
<1>3. \A i \in 1..Len(mailbox) : Undelivered(i) /\ (Undelivered(i)' <=> i # 1)
  BY <1>1 DEF Undelivered
<1>4. /\ reader' = IF Received.from # "sched" THEN reader
                   ELSE IF Received.type = "SCHED_READY" THEN "none" ELSE "run"
      /\ \A s \in Submitter : s # Received.from => submitter'[s] = submitter[s]
  BY DEF Deliver
<1>5. Received.type = "SCHED_READY" => Received.from = "sched"
  BY <1>2 DEF Message
<1>6. Received.from = "sched" => reader = "blocked"
  BY <1>2, <1>3 DEF LinkInv, SendersWait
<1>7. ReaderHolds'
  BY <1>1, <1>4, <1>6 DEF LinkInv, ReaderHolds
<1>8. SendersWait' /\ OneEach'
  BY <1>1, <1>2, <1>3, <1>4 DEF LinkInv, SendersWait, OneEach
<1>9. ReadyComesLast'
  BY <1>1, <1>2, <1>4, <1>5 DEF LinkInv, ReadyComesLast
<1>10. Settled'
  BY <1>1 DEF LinkInv, Settled, Runnable
<1> QED
  BY <1>7, <1>8, <1>9, <1>10 DEF LinkInv

\* A handler takes its message; only KILL_JOB makes a killer, only SCHED_READY
\* makes the scheduler ready.
LEMMA TakeKeepsLink ==
  ASSUME TypeOK, LinkInv, NEW type, Receive(type),
         killers' = {} \/ (type = "SCHED_KILL_JOB" /\ UNCHANGED <<actor, sched_ready>>),
         sched_ready' = sched_ready \/ type = "SCHED_READY"
  PROVE  LinkInv'
<1>1. /\ server = "handle" /\ server' = "check" /\ Received.type = type
      /\ mailbox # <<>> /\ mailbox' = Tail(mailbox)
      /\ UNCHANGED <<held, reader, submitter>>
  BY DEF Receive, TypeOK, MailTypeOK, readerActor, submitterActors
<1>2. /\ 1 \in 1..Len(mailbox) /\ Received = mailbox[1] /\ Received \in Message
  BY <1>1 DEF Received, TypeOK, MailTypeOK
<1>3. \A i \in 1..Len(mailbox') : /\ i + 1 \in 1..Len(mailbox) /\ i + 1 # 1 /\ i \in Int
                                  /\ mailbox'[i] = mailbox[i+1]
  BY <1>1, TailLookup DEF TypeOK, MailTypeOK
<1>4. \A i \in 1..Len(mailbox') : Undelivered(i+1)
  BY <1>3 DEF Undelivered
<1>5. SendersWait'
  BY <1>1, <1>3, <1>4 DEF LinkInv, SendersWait
<1>6. OneEach'
  BY <1>1, <1>3, <1>4 DEF LinkInv, OneEach
<1>7. ReadyComesLast'
  <2>1. CASE sched_ready' = sched_ready
    BY <1>1, <1>3, <2>1 DEF LinkInv, ReadyComesLast
  <2>2. CASE type = "SCHED_READY"
    <3>1. reader = "none"
      BY <1>1, <2>2 DEF LinkInv, ReadyComesLast
    <3>2. \A i \in 1..Len(mailbox') : mailbox'[i].from # "sched"
      BY <1>3, <1>4, <3>1 DEF LinkInv, SendersWait
    <3> QED
      BY <1>1, <3>1, <3>2 DEF ReadyComesLast
  <2> QED
    BY <2>1, <2>2
<1>8. Settled'
  <2>1. type = "SCHED_KILL_JOB" => ~sched_ready
    <3>1. type = "SCHED_KILL_JOB" => mailbox[1].from = "sched"
      BY <1>1, <1>2 DEF Message
    <3> QED
      BY <1>2, <3>1 DEF LinkInv, ReadyComesLast
  <2> QED
    BY <1>1, <2>1 DEF LinkInv, Settled
<1> QED
  BY <1>1, <1>5, <1>6, <1>7, <1>8 DEF LinkInv, ReaderHolds

LEMMA HandlersKeepLink ==
  ASSUME TypeOK, LinkInv, Handle
  PROVE  LinkInv'
<1>1. ASSUME NEW type, Receive(type), UNCHANGED killers,
             sched_ready' = sched_ready \/ type = "SCHED_READY"
      PROVE  LinkInv'
  <2>1. killers' = {}
    BY <1>1 DEF Receive, LinkInv, Settled
  <2> QED
    BY <1>1, <2>1, TakeKeepsLink
<1>2. CASE server_on_kill_jobs
  <2>1. Receive("SCHED_KILL_JOB") /\ UNCHANGED <<actor, sched_ready>>
    BY <1>2 DEF server_on_kill_jobs
  <2> QED
    BY <2>1, TakeKeepsLink
<1> QED
  BY <1>1, <1>2 DEF Handle, server_on_submitter_hello, server_on_submitter_bye,
         server_on_job_submitted, server_on_event_occurred, server_on_job_completed,
         server_on_killing_done, server_on_register_job, server_on_execute_job,
         server_on_reject_job, server_on_call_me_later, server_on_waiting_done,
         server_on_end_dynamic_register, server_on_continue_dynamic_register,
         server_on_sched_ready, helperActors

\* The scheduler is called when nothing is in flight.
LEMMA CallsWhenAllIsQuiet ==
  ASSUME TypeOK, LinkInv, ServerSendsEvents \/ ServerEndsSimulation
  PROVE  /\ mailbox = <<>> /\ held = <<>> /\ killers = {} /\ Flight = {}
         /\ reader' = "run" /\ ~sched_ready' /\ server' = "receive"
         /\ UNCHANGED <<mailbox, held, killers, submitter, actor, state>>
<1>1. /\ sched_ready /\ mailbox = <<>> /\ reader' = "run" /\ ~sched_ready' /\ server' = "receive"
      /\ UNCHANGED <<mailbox, held, killers, submitter, actor, state>>
  BY DEF ServerSendsEvents, ServerEndsSimulation, MayCallScheduler, generate_and_send_message,
         checkUnchanged, helperActors, submitterActors
<1>2. held = <<>> /\ killers = {}
  BY <1>1 DEF LinkInv, ReadyComesLast, ReaderHolds, Settled
<1>3. Flight = {}
  BY <1>1, <1>2 DEF Flight
<1> QED
  BY <1>1, <1>2, <1>3

LEMMA LoopKeepsLink ==
  ASSUME TypeOK, LinkInv,
         ServerSendsEvents \/ ServerEndsSimulation \/ ServerLoops \/ ServerLeavesLoop
  PROVE  LinkInv'
<1>1. CASE ServerSendsEvents \/ ServerEndsSimulation
  <2>1. /\ mailbox = <<>> /\ held = <<>> /\ killers = {}
        /\ reader' = "run" /\ ~sched_ready' /\ server' = "receive"
        /\ UNCHANGED <<mailbox, held, killers, submitter, actor, state>>
    BY <1>1, CallsWhenAllIsQuiet
  <2>2. Len(held') = 0 /\ Len(mailbox') = 0
    BY <2>1
  <2> QED
    BY <2>1, <2>2 DEF LinkInv, ReaderHolds, SendersWait, OneEach, ReadyComesLast, Settled
<1>2. CASE ServerLoops \/ ServerLeavesLoop
  <2>1. /\ server = "check" /\ server' # "handle"
        /\ UNCHANGED <<mailbox, held, reader, killers, submitter, actor, sched_ready>>
    BY <1>2 DEF ServerLoops, ServerLeavesLoop, checkUnchanged, helperActors, submitterActors,
         readerActor, loopVars
  <2>2. \A i \in 1..Len(mailbox) : Undelivered(i)
    BY <2>1 DEF Undelivered
  <2> QED
    BY <2>1, <2>2 DEF LinkInv, ReaderHolds, SendersWait, OneEach, ReadyComesLast, Settled
<1> QED
  BY <1>1, <1>2

\* The discipline of the mail holds: in particular the scheduler is called only
\* when no message is in flight and no killer is alive.
LEMMA LinkHolds == Spec => []Link
<1>1. Init => Link
  <2> SUFFICES ASSUME Init PROVE LinkInv
    BY DEF Link
  <2>1. Len(held) = 0 /\ Len(mailbox) = 0
    BY DEF Init
  <2> QED
    BY <2>1 DEF Init, LinkInv, ReaderHolds, SendersWait, OneEach, ReadyComesLast, Settled
<1>2. TypeOK /\ Link /\ [Next]_vars => Link'
  <2> SUFFICES ASSUME TypeOK, Link, [Next]_vars PROVE Link'
    OBVIOUS
  <2>1. CASE Next
    <3>1. LinkInv
      BY <2>1, StepsOfTheLiving DEF Link
    <3>2. LinkInv'
      BY <2>1, <3>1, SubmittersKeepLink, ExecutionKeepsLink, SchedulerKeepsLink,
         DeliverKeepsLink, HandlersKeepLink, LoopKeepsLink DEF Next, ServerStep
    <3> QED
      BY <3>2 DEF Link
  <2>2. CASE UNCHANGED vars
    BY <2>2 DEF vars, jobVars, loopVars, submitterActors, readerActor, helperActors, Link, LinkInv,
         ReaderHolds, SendersWait, OneEach, ReadyComesLast, Settled, Undelivered, Received
  <2> QED
    BY <2>1, <2>2
<1> QED
  BY <1>1, <1>2, TypeCorrect, PTL DEF Spec

----------------------------------------------------------------------------
Decision == {"SCHED_EXECUTE_JOB", "SCHED_REJECT_JOB"}
OfScheduler == Decision \cup {"SCHED_KILL_JOB", "JOB_REGISTERED_BY_DP"}
Ended == OrdinaryEnds \cup {"COMPLETED_KILLED"}

\* The decision on job j has not been handled yet.
Decided(j) == \E m \in Flight : m.type \in Decision /\ j \in m.about

\* A decision is on a job that waits for it, a kill on a job that is executed.
Founded(m) ==
  /\ m.type \in Decision \cup {"JOB_REGISTERED_BY_DP"} => \E j \in Job : m.about = {j}
  /\ \A j \in m.about :
       /\ m.type = "SCHED_EXECUTE_JOB" => view[j] = "running" /\ state[j] = "SUBMITTED"
       /\ m.type = "SCHED_REJECT_JOB" => view[j] = "done" /\ state[j] = "SUBMITTED"
       /\ m.type = "SCHED_KILL_JOB" => view[j] = "running"
       /\ m.type = "JOB_REGISTERED_BY_DP" => state[j] = "SUBMITTED"

\* A job is decided on once, killed after it is executed, and registered first.
DecisionOrder ==
  {p \in Message \X Message :
     /\ p[1].type \in Decision \cup {"SCHED_KILL_JOB"} /\ p[2].type \in Decision =>
          p[1].about \cap p[2].about = {}
     /\ p[1].type \in Decision /\ p[2].type = "JOB_REGISTERED_BY_DP" =>
          p[1].about \cap p[2].about = {}}

\* What the scheduler believes of a job is what it is, or a decision is in flight.
BeliefsAreTrue ==
  \A j \in Job :
    /\ state[j] = "SUBMITTED" /\ view[j] \in {"running", "done"} => Decided(j)
    /\ state[j] = "RUNNING" => view[j] = "running"
    /\ state[j] \in Ended => view[j] \in {"running", "done"}
    /\ state[j] = "REJECTED" => view[j] = "done"

DecisionInv == (\A m \in Flight : Founded(m)) /\ InOrder(DecisionOrder) /\ BeliefsAreTrue

Decisions == ~aborted => DecisionInv

----------------------------------------------------------------------------
\* A message that is not the scheduler's may come anywhere.
LEMMA NoDecision ==
  ASSUME NEW n \in Message, n.type \notin OfScheduler
  PROVE  \A m \in Message : <<m, n>> \in DecisionOrder /\ <<n, m>> \in DecisionOrder
  BY DEF DecisionOrder, OfScheduler, Decision

\* A step that handles no decision and makes none.
LEMMA NothingDecided ==
  ASSUME TypeOK, JobPhases, DecisionInv, UNCHANGED view,
         \A j \in Job : \/ state'[j] = state[j]
                        \/ state[j] = "NOT_SUBMITTED" /\ state'[j] = "SUBMITTED"
                        \/ state[j] = "RUNNING" /\ state'[j] \in Ended,
         \A m \in Flight' : m \in Flight \/ m.type \notin OfScheduler,
         \A m \in Flight : m.type \in Decision => m \in Flight',
         Flight' \subseteq Message, InOrder(DecisionOrder)'
  PROVE  DecisionInv'
<1>1. \A j \in Job : state[j] \in JobState
  BY DEF TypeOK, JobsTypeOK
<1>2. ASSUME NEW m \in Flight' PROVE Founded(m)'
  <2>1. CASE m.type \notin OfScheduler
    BY <2>1 DEF Founded, OfScheduler, Decision
  <2>2. CASE m \in Flight /\ m.type \in OfScheduler
    <3>1. Founded(m)
      BY <2>2 DEF DecisionInv
    <3>2. \A j \in m.about : j \in Job
      BY <2>2, MessageKinds DEF OfScheduler, Decision
    <3> QED
      BY <3>1, <3>2 DEF Founded
  <2> QED
    BY <1>2, <2>1, <2>2
<1>3. BeliefsAreTrue'
  <2> SUFFICES ASSUME NEW j \in Job
               PROVE  /\ state'[j] = "SUBMITTED" /\ view'[j] \in {"running", "done"} => Decided(j)'
                      /\ state'[j] = "RUNNING" => view'[j] = "running"
                      /\ state'[j] \in Ended => view'[j] \in {"running", "done"}
                      /\ state'[j] = "REJECTED" => view'[j] = "done"
    BY DEF BeliefsAreTrue
  <2>1. Decided(j) => Decided(j)'
    BY DEF Decided
  <2>2. /\ state[j] = "SUBMITTED" /\ view[j] \in {"running", "done"} => Decided(j)
        /\ state[j] = "RUNNING" => view[j] = "running"
        /\ state[j] \in Ended => view[j] \in {"running", "done"}
        /\ state[j] = "REJECTED" => view[j] = "done"
        /\ state[j] = "NOT_SUBMITTED" => view[j] = "unknown"
    BY DEF DecisionInv, BeliefsAreTrue, JobPhases
  <2>3. CASE state'[j] = state[j]
    BY <2>1, <2>2, <2>3
  <2>4. CASE state[j] = "NOT_SUBMITTED" /\ state'[j] = "SUBMITTED"
    BY <2>2, <2>4 DEF Ended, OrdinaryEnds
  <2>5. CASE state[j] = "RUNNING" /\ state'[j] \in Ended
    BY <2>2, <2>5 DEF Ended, OrdinaryEnds
  <2> QED
    BY <2>3, <2>4, <2>5
<1> QED
  BY <1>2, <1>3 DEF DecisionInv

\* The same, for a step that puts a message of another actor.
LEMMA PutDecides ==
  ASSUME TypeOK, JobPhases, DecisionInv, NEW n \in Message, n.type \notin OfScheduler,
         Put(n), UNCHANGED <<held, view>>,
         \A j \in Job : state'[j] = state[j] \/ (state[j] = "RUNNING" /\ state'[j] \in Ended)
  PROVE  DecisionInv'
<1>1. Flight' = Flight \cup {n}
  BY PutFlight
<1>2. InOrder(DecisionOrder)'
  <2>1. /\ \A m \in Flight : <<m, n>> \in DecisionOrder
        /\ \A k \in 1..Len(held) : <<n, held[k]>> \in DecisionOrder
    BY NoDecision, FlightIsTyped
  <2> QED
    BY <2>1, PutFlight DEF DecisionInv
<1>3. Flight' \subseteq Message
  BY <1>1, FlightIsTyped
<1> QED
  BY <1>1, <1>2, <1>3, NothingDecided

\* The same, for a handler.
LEMMA TakeDecides ==
  ASSUME TypeOK, JobPhases, DecisionInv, NEW type, type \notin Decision, Receive(type),
         \A j \in Job : \/ state'[j] = state[j]
                        \/ state[j] = "NOT_SUBMITTED" /\ state'[j] = "SUBMITTED"
  PROVE  DecisionInv'
<1>1. /\ Flight' \subseteq Flight /\ Flight \subseteq Flight' \cup {Received}
      /\ Received.type = type /\ InOrder(DecisionOrder)'
  BY TakeFlight DEF DecisionInv
<1>2. UNCHANGED view
  BY DEF Receive, schedVars
<1>3. Flight' \subseteq Message
  BY <1>1, FlightIsTyped
<1> QED
  BY <1>1, <1>2, <1>3, NothingDecided

\* The same, for a step that leaves the mail alone.
LEMMA StillDecides ==
  ASSUME TypeOK, JobPhases, DecisionInv, UNCHANGED <<mailbox, held, view>>,
         \A j \in Job : state'[j] = state[j] \/ (state[j] = "RUNNING" /\ state'[j] \in Ended)
  PROVE  DecisionInv'
<1>1. Flight' = Flight /\ InOrder(DecisionOrder)'
  BY StillFlight DEF DecisionInv
<1> QED
  BY <1>1, FlightIsTyped, NothingDecided

LEMMA SubmittersKeepDecisions ==
  ASSUME TypeOK, JobPhases, DecisionInv, NEW s \in Submitter, SubmitterStep(s)
  PROVE  DecisionInv'
<1>1. PICK n \in Message : Put(n) /\ n.type \notin OfScheduler
  <2>1. /\ Msg("SUBMITTER_HELLO", s, {}) \in Message /\ Msg("SUBMITTER_BYE", s, {}) \in Message
        /\ \A type, about : Msg(type, s, about).type = type
    BY DEF Msg, Message
  <2> QED
    BY <2>1, BatchIsTyped DEF SubmitterStep, SubmitterHello, SubmitBatch, SubmitterBye, OfScheduler,
       Decision
<1>2. UNCHANGED <<held, view, state>>
  BY DEF SubmitterStep, SubmitterHello, SubmitBatch, SubmitterBye, submitterUnchanged, jobVars,
         readerActor, schedVars
<1> QED
  BY <1>1, <1>2, PutDecides

LEMMA ExecutionKeepsDecisions ==
  ASSUME TypeOK, JobPhases, DecisionInv, ExecutionStep
  PROVE  DecisionInv'
<1>1. UNCHANGED <<held, view>>
  BY DEF ExecutionStep, JobStarts, JobEnds, JobCancelled, killer_process, WaiterWakes,
         executionUnchanged, readerActor, schedVars
<1>2. ASSUME NEW j \in Job, JobStarts(j) \/ JobCancelled(j) PROVE DecisionInv'
  <2>1. UNCHANGED mailbox
    BY <1>2 DEF JobStarts, JobCancelled
  <2>2. \A i \in Job : state'[i] = state[i] \/ (state[i] = "RUNNING" /\ state'[i] \in Ended)
    BY <1>2 DEF JobStarts, JobCancelled, TypeOK, JobsTypeOK, JobPhases, Ended
  <2> QED
    BY <1>1, <2>1, <2>2, StillDecides
<1>3. ASSUME NEW j \in Job, NEW outcome \in Outcome, JobEnds(j, outcome) PROVE DecisionInv'
  <2>1. \A i \in Job : state'[i] = state[i] \/ (state[i] = "RUNNING" /\ state'[i] \in Ended)
    BY <1>3, ConstantsAssumption DEF JobEnds, TypeOK, JobsTypeOK, JobPhases, Ended
  <2>2. /\ Msg("JOB_COMPLETED", "job", {j}) \in Message
        /\ Msg("JOB_COMPLETED", "job", {j}).type \notin OfScheduler
    BY DEF Msg, Message, OfScheduler, Decision
  <2> QED
    BY <1>1, <1>3, <2>1, <2>2, PutDecides DEF JobEnds
<1>4. ASSUME NEW S \in killers, NEW inPtask \in SUBSET S, killer_process(S, inPtask)
      PROVE  DecisionInv'
  <2>1. \A i \in Job : state'[i] = state[i] \/ (state[i] = "RUNNING" /\ state'[i] \in Ended)
    BY <1>4 DEF killer_process, RunningJobs, Ended
  <2>2. /\ Msg("KILLING_DONE", "killer", S) \in Message
        /\ Msg("KILLING_DONE", "killer", S).type \notin OfScheduler
    BY DEF Msg, Message, OfScheduler, Decision, TypeOK, ActorsTypeOK
  <2> QED
    BY <1>1, <1>4, <2>1, <2>2, PutDecides DEF killer_process
<1>5. ASSUME NEW w \in Waiter, WaiterWakes(w) PROVE DecisionInv'
  <2>1. UNCHANGED state
    BY <1>5 DEF WaiterWakes, jobVars
  <2>2. /\ Msg("WAITING_DONE", w, {}) \in Message
        /\ Msg("WAITING_DONE", w, {}).type \notin OfScheduler
    BY DEF Msg, Message, OfScheduler, Decision
  <2> QED
    BY <1>1, <1>5, <2>1, <2>2, PutDecides, StillDecides DEF WaiterWakes
<1> QED
  BY <1>2, <1>3, <1>4, <1>5 DEF ExecutionStep

LEMMA SchedulerKeepsDecisions ==
  ASSUME TypeOK, LifeCycle, LinkInv, DecisionInv, SchedulerStep
  PROVE  DecisionInv'
<1>0. /\ JobPhases /\ MessagesAreTrue /\ ~aborted
      /\ \A m \in Flight : m \in Message /\ IsTrue(m) /\ Founded(m)
  <2>1. ~aborted
    BY StepsOfTheLiving DEF Next
  <2>2. JobPhases /\ MessagesAreTrue
    BY <2>1 DEF LifeCycle
  <2>3. \A m \in Flight : IsTrue(m)
    BY <2>2 DEF Flight, MessagesAreTrue
  <2> QED
    BY <2>1, <2>2, <2>3, FlightIsTyped DEF DecisionInv
<1>1. ASSUME NEW type, NEW about, Apply(type, about), Msg(type, "sched", about) \in Message,
             \A m \in Flight : <<m, Msg(type, "sched", about)>> \in DecisionOrder
      PROVE  Flight' = Flight \cup {Msg(type, "sched", about)} /\ InOrder(DecisionOrder)'
  <2>1. /\ held' = <<Msg(type, "sched", about)>> /\ UNCHANGED mailbox /\ held = <<>>
    BY <1>1 DEF Apply, LinkInv, ReaderHolds
  <2> QED
    BY <1>1, <2>1, HoldFlight DEF DecisionInv
<1>2. ASSUME NEW j \in Job, NEW type \in Decision, NEW v \in {"running", "done"},
             Apply(type, {j}), view[j] = "waiting", view' = [view EXCEPT ![j] = v],
             v = IF type = "SCHED_EXECUTE_JOB" THEN "running" ELSE "done", UNCHANGED state
      PROVE  DecisionInv'
  <2> DEFINE n == Msg(type, "sched", {j})
  <2>1. n \in Message /\ n.type = type /\ n.about = {j}
    BY DEF Msg, Message, Decision
  <2>2. \A m \in Flight : j \in m.about => m.type \notin Decision \cup {"SCHED_KILL_JOB"}
    BY <1>0, <1>2 DEF IsTrue, Founded, Decision
  <2>3. \A m \in Flight : <<m, n>> \in DecisionOrder
    BY <1>0, <2>1, <2>2 DEF DecisionOrder, Decision
  <2> HIDE DEF n
  <2>4. Flight' = Flight \cup {n} /\ InOrder(DecisionOrder)'
    BY <1>1, <1>2, <2>1, <2>3 DEF n
  <2>5. /\ state[j] = "SUBMITTED" /\ view'[j] = v
        /\ \A i \in Job : i # j => view'[i] = view[i]
    BY <1>0, <1>2 DEF JobPhases, TypeOK, JobsTypeOK, SchedulerTypeOK, BeliefsAreTrue
  <2>6. n.type \in Decision /\ j \in n.about
    BY <2>1
  <2>7. ASSUME NEW m \in Flight' PROVE Founded(m)'
    <3>1. CASE m = n
      BY <1>2, <2>1, <2>5, <3>1 DEF Founded, Decision
    <3>2. CASE m \in Flight
      <4>1. Founded(m) /\ m \in Message
        BY <1>0, <3>2
      <4>2. CASE j \in m.about
        <5>1. m.type \notin Decision \cup {"SCHED_KILL_JOB"}
          BY <2>2, <3>2, <4>2
        <5> QED
          BY <1>2, <4>1, <5>1 DEF Founded, Decision
      <4>3. CASE j \notin m.about
        <5>1. m.type \in OfScheduler => \A i \in m.about : i \in Job /\ view'[i] = view[i]
          BY <2>5, <4>1, <4>3, MessageKinds DEF OfScheduler, Decision
        <5> QED
          BY <1>2, <4>1, <5>1 DEF Founded, OfScheduler, Decision
      <4> QED
        BY <4>2, <4>3
    <3> QED
      BY <2>4, <3>1, <3>2
  <2>8. \A i \in Job : Decided(i) => Decided(i)'
    BY <2>4 DEF Decided
  <2>9. Decided(j)'
    BY <2>4, <2>6 DEF Decided
  <2>10. BeliefsAreTrue'
    <3> SUFFICES ASSUME NEW i \in Job
                 PROVE  /\ state[i] = "SUBMITTED" /\ view'[i] \in {"running", "done"} => Decided(i)'
                        /\ state[i] = "RUNNING" => view'[i] = "running"
                        /\ state[i] \in Ended => view'[i] \in {"running", "done"}
                        /\ state[i] = "REJECTED" => view'[i] = "done"
      BY <1>2 DEF BeliefsAreTrue
    <3>1. CASE i = j
      BY <2>5, <2>9, <3>1 DEF Ended, OrdinaryEnds
    <3>2. CASE i # j
      BY <2>5, <2>8, <3>2 DEF BeliefsAreTrue, DecisionInv
    <3> QED
      BY <3>1, <3>2
  <2> QED
    BY <2>4, <2>7, <2>10 DEF DecisionInv
<1>3. ASSUME NEW type, NEW about, Apply(type, about), Msg(type, "sched", about) \in Message,
             type \notin Decision, type \notin {"JOB_REGISTERED_BY_DP"},
             type = "SCHED_KILL_JOB" => \A j \in about : view[j] = "running",
             UNCHANGED <<state, view>>
      PROVE  DecisionInv'
  <2> DEFINE n == Msg(type, "sched", about)
  <2>1. n \in Message /\ n.type = type /\ n.about = about
    BY <1>3 DEF Msg
  <2>2. \A m \in Flight : <<m, n>> \in DecisionOrder
    BY <1>0, <1>3, <2>1 DEF DecisionOrder
  <2> HIDE DEF n
  <2>3. Flight' = Flight \cup {n} /\ InOrder(DecisionOrder)'
    BY <1>1, <1>3, <2>2 DEF n
  <2>4. Founded(n)'
    BY <1>3, <2>1 DEF Founded, Decision
  <2>5. \A m \in Flight : Founded(m)'
    BY <1>0, <1>3 DEF Founded
  <2>6. BeliefsAreTrue'
    <3>1. \A j \in Job : Decided(j) => Decided(j)'
      BY <2>3 DEF Decided
    <3> QED
      BY <1>3, <3>1 DEF BeliefsAreTrue, DecisionInv
  <2> QED
    BY <2>3, <2>4, <2>5, <2>6 DEF DecisionInv
<1>4. ASSUME NEW j \in DynJob, handle_register_job(j) PROVE DecisionInv'
  <2> DEFINE n == Msg("JOB_REGISTERED_BY_DP", "sched", {j})
  <2>0. /\ j \in Job /\ state[j] = "ABSENT" /\ Apply("JOB_REGISTERED_BY_DP", {j})
        /\ state'[j] = "SUBMITTED" /\ \A i \in Job : i # j => state'[i] = state[i] /\ view'[i] = view[i]
        /\ view[j] = "unknown" /\ view'[j] \in {"unknown", "waiting"}
    BY <1>0, <1>4 DEF handle_register_job, Decide, Job, TypeOK, JobsTypeOK, SchedulerTypeOK, JobPhases
  <2>1. n \in Message /\ n.type = "JOB_REGISTERED_BY_DP" /\ n.about = {j}
    BY <2>0 DEF Msg, Message
  <2>2. \A m \in Flight : j \in m.about => m.type \notin OfScheduler
    BY <1>0, <2>0 DEF Founded, OfScheduler, Decision
  <2>3. \A m \in Flight : <<m, n>> \in DecisionOrder
    BY <1>0, <2>1, <2>2 DEF DecisionOrder, Decision, OfScheduler
  <2> HIDE DEF n
  <2>4. Flight' = Flight \cup {n} /\ InOrder(DecisionOrder)'
    BY <1>1, <2>0, <2>1, <2>3 DEF n
  <2>5. Founded(n)'
    BY <2>0, <2>1 DEF Founded, Decision
  <2>6. ASSUME NEW m \in Flight PROVE Founded(m)'
    <3>1. CASE m.type \notin OfScheduler
      BY <3>1 DEF Founded, OfScheduler, Decision
    <3>2. CASE m.type \in OfScheduler
      <4>1. \A i \in m.about : i \in Job /\ i # j
        BY <1>0, <2>2, <3>2, MessageKinds DEF OfScheduler, Decision
      <4> QED
        BY <1>0, <2>0, <4>1 DEF Founded
    <3> QED
      BY <3>1, <3>2
  <2>7. BeliefsAreTrue'
    <3>1. \A i \in Job : Decided(i) => Decided(i)'
      BY <2>4 DEF Decided
    <3> QED
      BY <2>0, <3>1 DEF BeliefsAreTrue, DecisionInv, Ended, OrdinaryEnds
  <2> QED
    BY <2>4, <2>5, <2>6, <2>7 DEF DecisionInv
<1>5. CASE send_message_at_time
  <2>1. Flight' = Flight /\ InOrder(DecisionOrder)'
    BY <1>5, SendFlight DEF send_message_at_time, LinkInv, ReaderHolds, DecisionInv
  <2>2. UNCHANGED <<state, view>>
    BY <1>5 DEF send_message_at_time, jobVars
  <2> QED
    BY <1>0, <2>1, <2>2, FlightIsTyped, NothingDecided
<1>6. ASSUME NEW j \in Job, NEW machines \in SUBSET Machine, handle_execute_job(j, machines)
      PROVE  DecisionInv'
  BY <1>2, <1>6 DEF handle_execute_job, Decide, Decision
<1>7. ASSUME NEW j \in Job, handle_reject_job(j) PROVE DecisionInv'
  BY <1>2, <1>7 DEF handle_reject_job, Decide, Decision, jobVars
<1>8. ASSUME NEW S \in SUBSET Job, handle_kill_job(S) PROVE DecisionInv'
  <2>1. Msg("SCHED_KILL_JOB", "sched", S) \in Message
    BY DEF Msg, Message
  <2> QED
    BY <1>3, <1>8, <2>1 DEF handle_kill_job, Decide, Decision, jobVars
<1>9. ASSUME NEW w \in Waiter, handle_call_me_later(w) PROVE DecisionInv'
  <2>1. Msg("SCHED_CALL_ME_LATER", "sched", {w}) \in Message
    BY DEF Msg, Message
  <2> QED
    BY <1>3, <1>9, <2>1 DEF handle_call_me_later, Decide, Decision, jobVars
<1>10. CASE NotifyRegistrationFinished \/ NotifyContinueRegistration \/ ReplyApplied
  <2>1. \A type \in {"END_DYNAMIC_REGISTER", "CONTINUE_DYNAMIC_REGISTER", "SCHED_READY"} :
          Msg(type, "sched", {}) \in Message
    BY DEF Msg, Message
  <2> QED
    BY <1>3, <1>10, <2>1 DEF NotifyRegistrationFinished, NotifyContinueRegistration, ReplyApplied,
       Decide, Decision, jobVars
<1> QED
  BY <1>4, <1>5, <1>6, <1>7, <1>8, <1>9, <1>10 DEF SchedulerStep

\* A decision is handled: the job starts, or is rejected.
LEMMA DecisionsAreApplied ==
  ASSUME TypeOK, JobPhases, DecisionInv, NEW type \in Decision, Receive(type),
         state' = [j \in Job |-> IF j \in Received.about
                                 THEN IF type = "SCHED_EXECUTE_JOB" THEN "RUNNING" ELSE "REJECTED"
                                 ELSE state[j]]
  PROVE  DecisionInv'
<1>1. /\ Flight' \subseteq Flight /\ Flight \subseteq Flight' \cup {Received}
      /\ Received \in Message /\ Received \in Flight /\ Received.type = type
      /\ InOrder(DecisionOrder)' /\ \A m \in Flight' : <<Received, m>> \in DecisionOrder
  BY TakeFlight DEF DecisionInv
<1>2. PICK j \in Job : Received.about = {j}
  BY <1>1 DEF DecisionInv, Founded
<1>3. UNCHANGED view
  BY DEF Receive, schedVars
<1>4. /\ view[j] = IF type = "SCHED_EXECUTE_JOB" THEN "running" ELSE "done"
      /\ state'[j] = IF type = "SCHED_EXECUTE_JOB" THEN "RUNNING" ELSE "REJECTED"
      /\ \A i \in Job : i # j => state'[i] = state[i]
  BY <1>1, <1>2 DEF DecisionInv, Founded, Decision
<1>5. ASSUME NEW m \in Flight' PROVE Founded(m)'
  <2>1. m \in Message /\ Founded(m)
    BY <1>1, FlightIsTyped DEF DecisionInv
  <2>2. j \in m.about => m.type \notin Decision \cup {"JOB_REGISTERED_BY_DP"}
    BY <1>1, <1>2 DEF DecisionOrder
  <2>3. CASE m.type \notin Decision \cup {"JOB_REGISTERED_BY_DP"}
    BY <1>3, <2>1, <2>3 DEF Founded, Decision
  <2>4. CASE m.type \in Decision \cup {"JOB_REGISTERED_BY_DP"}
    <3>1. \A i \in m.about : i \in Job /\ i # j
      BY <2>1, <2>2, <2>4, MessageKinds DEF Decision
    <3> QED
      BY <1>3, <1>4, <2>1, <3>1 DEF Founded
  <2> QED
    BY <2>3, <2>4
<1>6. BeliefsAreTrue'
  <2>1. \A i \in Job : i # j /\ Decided(i) => Decided(i)'
    BY <1>1, <1>2 DEF Decided
  <2> QED
    BY <1>3, <1>4, <2>1 DEF BeliefsAreTrue, DecisionInv, Ended, OrdinaryEnds
<1> QED
  BY <1>1, <1>5, <1>6 DEF DecisionInv

LEMMA HandlersKeepDecisions ==
  ASSUME TypeOK, LifeCycle, DecisionInv, Handle
  PROVE  DecisionInv'
<1>0. JobPhases /\ MessagesAreTrue
  BY StepsOfTheLiving DEF LifeCycle, Next, ServerStep
<1>1. ASSUME NEW type, type \notin Decision, Receive(type), UNCHANGED state
      PROVE  DecisionInv'
  BY <1>0, <1>1, TakeDecides
<1>2. CASE server_on_job_submitted
  <2>1. \A j \in Job : state'[j] = state[j] \/ (state[j] = "NOT_SUBMITTED" /\ state'[j] = "SUBMITTED")
    <3>1. IsTrue(Received) /\ Received.type = "JOB_SUBMITTED"
      BY <1>0, <1>2 DEF server_on_job_submitted, Receive, MessagesAreTrue, Received, TypeOK, MailTypeOK
    <3> QED
      BY <1>2, <3>1 DEF server_on_job_submitted, IsTrue
  <2> QED
    BY <1>0, <1>2, <2>1, TakeDecides DEF server_on_job_submitted, Decision
<1>3. CASE server_on_execute_job
  BY <1>0, <1>3, DecisionsAreApplied DEF server_on_execute_job, Decision
<1>4. CASE server_on_reject_job
  BY <1>0, <1>4, DecisionsAreApplied DEF server_on_reject_job, Decision
<1> QED
  BY <1>1, <1>2, <1>3, <1>4 DEF Handle, server_on_submitter_hello, server_on_submitter_bye,
         server_on_event_occurred, server_on_job_completed,
         server_on_killing_done, server_on_register_job, server_on_kill_jobs,
         server_on_call_me_later, server_on_waiting_done,
         server_on_end_dynamic_register, server_on_continue_dynamic_register,
         server_on_sched_ready, Decision, jobVars

\* What the scheduler learns with the events: of a job that completed, or is new.
LEMMA WhatIsLearnt ==
  ASSUME TypeOK, EventsAreTrue, ServerSendsEvents \/ ServerEndsSimulation, NEW j \in Job
  PROVE  \/ view'[j] = view[j] /\ ~Says(outbox, "JOB_COMPLETED", j)
         \/ /\ view'[j] = "done" /\ Says(outbox, "JOB_COMPLETED", j)
            /\ IsComplete(state[j])
         \/ /\ view'[j] = "waiting" /\ Says(outbox, "JOB_SUBMITTED", j)
            /\ state[j] = "SUBMITTED" /\ view[j] = "unknown" /\ ~Says(outbox, "JOB_COMPLETED", j)
<1>1. /\ Says(outbox, "JOB_COMPLETED", j) => IsComplete(state[j])
      /\ Says(outbox, "JOB_SUBMITTED", j) => state[j] = "SUBMITTED" /\ view[j] = "unknown"
  BY DEF EventsAreTrue, Says
<1>2. CASE ServerSendsEvents
  <2>1. view'[j] = CASE Says(outbox, "JOB_COMPLETED", j) -> "done"
                     [] Says(outbox, "JOB_SUBMITTED", j) -> "waiting"
                     [] OTHER -> view[j]
    BY <1>2 DEF ServerSendsEvents, generate_and_send_message
  <2>2. CASE Says(outbox, "JOB_COMPLETED", j)
    BY <1>1, <2>1, <2>2 DEF IsComplete, OrdinaryEnds
  <2>3. CASE ~Says(outbox, "JOB_COMPLETED", j) /\ Says(outbox, "JOB_SUBMITTED", j)
    BY <1>1, <2>1, <2>3
  <2>4. CASE ~Says(outbox, "JOB_COMPLETED", j) /\ ~Says(outbox, "JOB_SUBMITTED", j)
    BY <2>1, <2>4
  <2> QED
    BY <2>2, <2>3, <2>4
<1>3. CASE ServerEndsSimulation
  <2>1. \A type : type # "SIMULATION_ENDS" => ~Says(<<Ev("SIMULATION_ENDS", {})>>, type, j)
    BY DEF Says, Ev
  <2>2. view'[j] = view[j]
    BY <1>3, <2>1 DEF ServerEndsSimulation, generate_and_send_message
  <2>3. ~Says(outbox, "JOB_COMPLETED", j)
    BY <1>3 DEF ServerEndsSimulation, Says
  <2> QED
    BY <2>2, <2>3
<1> QED
  BY <1>2, <1>3

LEMMA LoopKeepsDecisions ==
  ASSUME TypeOK, LifeCycle, LinkInv, DecisionInv,
         Deliver \/ ServerSendsEvents \/ ServerEndsSimulation \/ ServerLoops \/ ServerLeavesLoop
  PROVE  DecisionInv'
<1>0. JobPhases /\ EventsAreTrue
  BY StepsOfTheLiving DEF LifeCycle, Next, ServerStep
<1>1. CASE ServerSendsEvents \/ ServerEndsSimulation
  <2>1. Flight = {} /\ UNCHANGED <<mailbox, held, state>>
    BY <1>1, CallsWhenAllIsQuiet
  <2>2. Flight' = {} /\ InOrder(DecisionOrder)'
    BY <2>1, StillFlight DEF DecisionInv
  <2>3. BeliefsAreTrue'
    <3> SUFFICES ASSUME NEW j \in Job
                 PROVE  /\ ~(state[j] = "SUBMITTED" /\ view'[j] \in {"running", "done"})
                        /\ state[j] = "RUNNING" => view'[j] = "running"
                        /\ state[j] \in Ended => view'[j] \in {"running", "done"}
                        /\ state[j] = "REJECTED" => view'[j] = "done"
      BY <2>1 DEF BeliefsAreTrue
    <3>1. ~Decided(j)
      BY <2>1 DEF Decided
    <3>2. /\ ~(state[j] = "SUBMITTED" /\ view[j] \in {"running", "done"})
          /\ state[j] = "RUNNING" => view[j] = "running"
          /\ state[j] \in Ended => view[j] \in {"running", "done"}
          /\ state[j] = "REJECTED" => view[j] = "done"
      BY <3>1 DEF DecisionInv, BeliefsAreTrue
    <3> QED
      BY <1>0, <1>1, <3>2, WhatIsLearnt DEF IsComplete, Ended, OrdinaryEnds
  <2> QED
    BY <2>2, <2>3 DEF DecisionInv
<1>2. CASE Deliver \/ ServerLoops \/ ServerLeavesLoop
  <2>1. UNCHANGED <<mailbox, held, view, state>>
    BY <1>2 DEF Deliver, ServerLoops, ServerLeavesLoop, checkUnchanged, readerActor, schedVars, jobVars
  <2> QED
    BY <1>0, <2>1, StillDecides
<1> QED
  BY <1>1, <1>2

\* The decisions in flight are founded.
LEMMA DecisionsHold == Spec => []Decisions
<1>1. Init => Decisions
  <2> SUFFICES ASSUME Init PROVE DecisionInv
    BY DEF Decisions
  <2>1. Len(mailbox) = 0 /\ Len(held) = 0
    BY DEF Init
  <2>2. Flight = {} /\ InOrder(DecisionOrder)
    BY <2>1 DEF Flight, InOrder
  <2>3. BeliefsAreTrue
    BY DEF Init, BeliefsAreTrue, Ended, OrdinaryEnds
  <2> QED
    BY <2>2, <2>3 DEF DecisionInv
<1>2. TypeOK /\ LifeCycle /\ Link /\ Decisions /\ [Next]_vars => Decisions'
  <2> SUFFICES ASSUME TypeOK, LifeCycle, Link, Decisions, [Next]_vars PROVE Decisions'
    OBVIOUS
  <2>1. CASE Next
    <3>1. ~aborted /\ LinkInv /\ DecisionInv /\ JobPhases
      BY <2>1, StepsOfTheLiving DEF Link, Decisions, LifeCycle
    <3>2. DecisionInv'
      BY <2>1, <3>1, SubmittersKeepDecisions, ExecutionKeepsDecisions, SchedulerKeepsDecisions,
         HandlersKeepDecisions, LoopKeepsDecisions DEF Next, ServerStep
    <3> QED
      BY <3>2 DEF Decisions
  <2>2. CASE UNCHANGED vars
    <3>1. UNCHANGED <<mailbox, held, state, view, aborted>>
      BY <2>2 DEF vars, jobVars, readerActor, schedVars
    <3>2. SUFFICES ASSUME DecisionInv, ~aborted PROVE DecisionInv'
      BY <3>1 DEF Decisions
    <3>3. JobPhases
      BY <3>2 DEF LifeCycle
    <3> QED
      BY <3>1, <3>2, <3>3, StillDecides
  <2> QED
    BY <2>1, <2>2
<1> QED
  BY <1>1, <1>2, TypeCorrect, LifeCycleHolds, LinkHolds, PTL DEF Spec

----------------------------------------------------------------------------
(***************************************************************************)
(* The machines. Machine::jobs_being_computed and Machine::state follow    *)
(* the job actors, and the scheduler allocates from what it believes to be *)
(* free: since a job holds its machines only while the scheduler believes  *)
(* it to run, belief is enough.                                            *)
(***************************************************************************)
OnMachine(j) == actor[j] \in {"running", "cancelled"}

MachineSets ==
  \A m \in Machine :
    /\ computing[m] = {j \in Job : m \in alloc[j] /\ OnMachine(j)}
    /\ machine_state[m] = IF computing[m] = {} THEN "IDLE" ELSE "COMPUTING"

Exclusive ==
  AllowSharing \/ \A j, k \in Job : j # k /\ view[j] = "running" /\ view[k] = "running" =>
                                      alloc[j] \cap alloc[k] = {}

RightSize == \A j \in Job : view[j] = "running" => Cardinality(alloc[j]) = NbRes[j]

MachinesInv == MachineSets /\ Exclusive /\ RightSize

Machines == ~aborted => MachinesInv

\* A set without two different elements has one at most.
LEMMA AtMostOne ==
  ASSUME NEW S, \A x, y \in S : x = y
  PROVE  Cardinality(S) <= 1
<1>1. CASE S = {}
  BY <1>1, FS_EmptySet
<1>2. ASSUME NEW x \in S PROVE Cardinality(S) <= 1
  <2>1. S = {x}
    BY <1>2
  <2> QED
    BY <2>1, FS_Singleton
<1> QED
  BY <1>1, <1>2

\* A job on its machines is one the scheduler believes to run.
LEMMA MachinesAreConsistent ==
  ASSUME TypeOK, JobPhases, BeliefsAreTrue, MachinesInv
  PROVE  MachinesConsistent
<1> SUFFICES ASSUME NEW m \in Machine, ~AllowSharing PROVE Cardinality(computing[m]) <= 1
  BY DEF MachinesInv, MachineSets, MachinesConsistent, OnMachine
<1>1. \A j \in computing[m] : j \in Job /\ m \in alloc[j] /\ view[j] = "running"
  BY DEF MachinesInv, MachineSets, OnMachine, JobPhases, BeliefsAreTrue
<1>2. \A j, k \in computing[m] : j = k
  BY <1>1 DEF MachinesInv, Exclusive
<1> QED
  BY <1>2, AtMostOne

\* No job gets on or off its machines.
LEMMA MachinesStay ==
  ASSUME MachinesInv, UNCHANGED <<machineVars, alloc>>,
         \A j \in Job : OnMachine(j)' <=> OnMachine(j),
         \A j \in Job : view'[j] = "running" => view[j] = "running"
  PROVE  MachinesInv'
<1>1. MachineSets'
  BY DEF MachinesInv, MachineSets, machineVars
<1> QED
  BY <1>1 DEF MachinesInv, Exclusive, RightSize

\* The jobs S get off their machines.
LEMMA JobsLeaveMachines ==
  ASSUME TypeOK, MachinesInv, NEW S \in SUBSET Job, update_machines_on_job_end(S),
         UNCHANGED <<alloc, view>>,
         \A j \in S : ~OnMachine(j)',
         \A j \in Job \ S : OnMachine(j)' <=> OnMachine(j)
  PROVE  MachinesInv'
<1>1. ASSUME NEW m \in Machine
      PROVE  /\ computing'[m] = {j \in Job : m \in alloc[j] /\ OnMachine(j)'}
             /\ machine_state'[m] = IF computing'[m] = {} THEN "IDLE" ELSE "COMPUTING"
  <2>1. /\ computing[m] = {j \in Job : m \in alloc[j] /\ OnMachine(j)}
        /\ machine_state[m] = IF computing[m] = {} THEN "IDLE" ELSE "COMPUTING"
    BY DEF MachinesInv, MachineSets
  <2>2. computing'[m] = computing[m] \ {j \in S : m \in alloc[j]}
    BY DEF update_machines_on_job_end
  <2>3. computing'[m] = {j \in Job : m \in alloc[j] /\ OnMachine(j)'}
    BY <2>1, <2>2
  <2>4. machine_state'[m] = IF /\ \E j \in S : m \in alloc[j] /\ TRUE
                               /\ computing'[m] = {}
                            THEN "IDLE" ELSE machine_state[m]
    BY DEF update_machines_on_job_end
  <2>5. CASE \E j \in S : m \in alloc[j]
    <3>1. CASE computing'[m] = {}
      BY <2>3, <2>4, <2>5, <3>1
    <3>2. CASE computing'[m] # {}
      <4>1. computing[m] # {}
        BY <2>2, <3>2
      <4> QED
        BY <2>1, <2>3, <2>4, <3>2, <4>1
    <3> QED
      BY <3>1, <3>2
  <2>6. CASE ~ \E j \in S : m \in alloc[j]
    <3>1. computing'[m] = computing[m]
      BY <2>2, <2>6
    <3> QED
      BY <2>1, <2>3, <2>4, <2>6, <3>1
  <2> QED
    BY <2>5, <2>6
<1>2. MachineSets'
  BY <1>1 DEF MachineSets
<1> QED
  BY <1>2 DEF MachinesInv, Exclusive, RightSize

LEMMA ExecutionKeepsMachines ==
  ASSUME TypeOK, MachinesInv, ExecutionStep, ~aborted'
  PROVE  MachinesInv'
<1>1. UNCHANGED <<alloc, view>>
  BY DEF ExecutionStep, JobStarts, JobEnds, JobCancelled, killer_process, WaiterWakes,
         executionUnchanged, schedVars, jobVars
<1>2. ASSUME NEW j \in Job, JobStarts(j) PROVE MachinesInv'
  <2>1. /\ OnMachine(j)' /\ \A k \in Job : k # j => (OnMachine(k)' <=> OnMachine(k))
        /\ \A m \in Machine :
             /\ computing'[m] = IF m \in alloc[j] THEN computing[m] \cup {j} ELSE computing[m]
             /\ machine_state'[m] = IF m \in alloc[j] THEN "COMPUTING" ELSE machine_state[m]
        /\ ~OnMachine(j)
    BY <1>2 DEF JobStarts, update_machines_on_job_run, OnMachine, TypeOK, JobsTypeOK
  <2>2. ASSUME NEW m \in Machine
        PROVE  /\ computing'[m] = {k \in Job : m \in alloc[k] /\ OnMachine(k)'}
               /\ machine_state'[m] = IF computing'[m] = {} THEN "IDLE" ELSE "COMPUTING"
    <3>1. /\ computing[m] = {k \in Job : m \in alloc[k] /\ OnMachine(k)}
          /\ machine_state[m] = IF computing[m] = {} THEN "IDLE" ELSE "COMPUTING"
      BY DEF MachinesInv, MachineSets
    <3>2. CASE m \in alloc[j]
      <4>1. computing'[m] = computing[m] \cup {j} /\ machine_state'[m] = "COMPUTING"
        BY <2>1, <3>2
      <4> QED
        BY <2>1, <3>1, <3>2, <4>1
    <3>3. CASE m \notin alloc[j]
      BY <2>1, <3>1, <3>3
    <3> QED
      BY <3>2, <3>3
  <2>3. MachineSets'
    BY <1>1, <2>2 DEF MachineSets
  <2> QED
    BY <1>1, <2>3 DEF MachinesInv, Exclusive, RightSize
<1>3. ASSUME NEW j \in Job, JobCancelled(j) \/ \E outcome \in Outcome : JobEnds(j, outcome)
      PROVE  MachinesInv'
  <2>1. /\ update_machines_on_job_end({j}) /\ ~OnMachine(j)'
        /\ \A k \in Job \ {j} : OnMachine(k)' <=> OnMachine(k)
    BY <1>3 DEF JobCancelled, JobEnds, OnMachine, TypeOK, JobsTypeOK
  <2> QED
    BY <1>1, <2>1, JobsLeaveMachines
<1>4. ASSUME NEW S \in killers, NEW inPtask \in SUBSET S, killer_process(S, inPtask)
      PROVE  MachinesInv'
  <2> DEFINE toKill == RunningJobs(S) \ inPtask
  <2>1. /\ toKill \in SUBSET Job /\ update_machines_on_job_end(toKill)
        /\ \A j \in S : state[j] = "RUNNING" => actor[j] = "running"
    BY <1>4 DEF killer_process, RunningJobs, TypeOK, ActorsTypeOK, Assert
  <2>2. \A j \in toKill : ~OnMachine(j)'
    BY <1>4, <2>1 DEF killer_process, OnMachine
  <2>3. ASSUME NEW j \in Job \ toKill PROVE OnMachine(j)' <=> OnMachine(j)
    <3>1. actor'[j] = IF j \in inPtask THEN "cancelled" ELSE actor[j]
      BY <1>4, <2>3 DEF killer_process
    <3>2. j \in inPtask => actor[j] = "running"
      BY <1>4, <2>1 DEF killer_process, RunningJobs
    <3> QED
      BY <3>1, <3>2 DEF OnMachine
  <2> HIDE DEF toKill
  <2> QED
    BY <1>1, <2>1, <2>2, <2>3, JobsLeaveMachines
<1>5. ASSUME NEW w \in Waiter, WaiterWakes(w) PROVE MachinesInv'
  BY <1>1, <1>5, MachinesStay DEF WaiterWakes, jobVars, OnMachine
<1> QED
  BY <1>2, <1>3, <1>4, <1>5 DEF ExecutionStep

LEMMA SchedulerKeepsMachines ==
  ASSUME TypeOK, JobPhases, MachinesInv, SchedulerStep
  PROVE  MachinesInv'
<1>1. ASSUME NEW j \in Job, NEW machines \in SUBSET Machine, handle_execute_job(j, machines)
      PROVE  MachinesInv'
  <2>1. /\ view[j] = "waiting" /\ ~OnMachine(j) /\ UNCHANGED <<actor, machineVars>>
        /\ alloc'[j] = machines /\ view'[j] = "running"
        /\ \A k \in Job : k # j => alloc'[k] = alloc[k] /\ view'[k] = view[k]
        /\ Cardinality(machines) = NbRes[j]
        /\ AllowSharing \/ \A m \in machines : \A k \in Job : view[k] = "running" => m \notin alloc[k]
    BY <1>1 DEF handle_execute_job, Decide, Apply, linkUnchanged, FreeMachines, OnMachine,
       JobPhases, TypeOK, JobsTypeOK, SchedulerTypeOK
  <2>2. ASSUME NEW m \in Machine
        PROVE  /\ computing'[m] = {k \in Job : m \in alloc'[k] /\ OnMachine(k)'}
               /\ machine_state'[m] = IF computing'[m] = {} THEN "IDLE" ELSE "COMPUTING"
    <3>1. \A k \in Job : m \in alloc'[k] /\ OnMachine(k)' <=> m \in alloc[k] /\ OnMachine(k)
      BY <2>1 DEF OnMachine
    <3> QED
      BY <2>1, <3>1 DEF MachinesInv, MachineSets, machineVars
  <2>3. MachineSets'
    BY <2>2 DEF MachineSets
  <2>4. RightSize'
    BY <2>1 DEF MachinesInv, RightSize
  <2>5. Exclusive'
    BY <2>1 DEF MachinesInv, Exclusive
  <2> QED
    BY <2>3, <2>4, <2>5 DEF MachinesInv
<1>2. ASSUME UNCHANGED <<actor, alloc, machineVars>>,
             \A j \in Job : view'[j] = "running" => view[j] = "running"
      PROVE  MachinesInv'
  BY <1>2, MachinesStay DEF OnMachine
<1>3. ASSUME NEW j \in Job, handle_reject_job(j) PROVE MachinesInv'
  BY <1>2, <1>3 DEF handle_reject_job, Decide, Apply, linkUnchanged, jobVars, TypeOK, SchedulerTypeOK
<1>4. ASSUME NEW j \in DynJob, handle_register_job(j) PROVE MachinesInv'
  BY <1>2, <1>4 DEF handle_register_job, Decide, Apply, linkUnchanged, TypeOK, SchedulerTypeOK, Job
<1> QED
  BY <1>1, <1>2, <1>3, <1>4 DEF SchedulerStep, handle_kill_job, handle_call_me_later,
     NotifyRegistrationFinished, NotifyContinueRegistration, ReplyApplied, send_message_at_time,
     Decide, Apply, linkUnchanged, jobVars

LEMMA ServerKeepsMachines ==
  ASSUME TypeOK, LifeCycle, ~aborted, MachinesInv, ServerStep, ~aborted'
  PROVE  MachinesInv'
<1>0. JobPhases /\ EventsAreTrue
  BY DEF LifeCycle
<1>1. ASSUME UNCHANGED <<actor, alloc, view, machineVars>> PROVE MachinesInv'
  BY <1>1, MachinesStay DEF OnMachine
<1>2. ASSUME NEW type, Receive(type), UNCHANGED <<actor, alloc>> PROVE MachinesInv'
  BY <1>1, <1>2 DEF Receive, schedVars
<1>3. ASSUME NEW type, Receive(type), UNCHANGED alloc,
             \A j \in Job : actor'[j] = actor[j] \/ (~OnMachine(j) /\ ~OnMachine(j)')
      PROVE  MachinesInv'
  <2>1. \A j \in Job : OnMachine(j)' <=> OnMachine(j)
    BY <1>3 DEF OnMachine
  <2> QED
    BY <1>3, <2>1, MachinesStay DEF Receive, schedVars
<1>4. CASE server_on_execute_job
  BY <1>0, <1>3, <1>4 DEF server_on_execute_job, Assert, JobPhases, OnMachine
<1>5. CASE server_on_job_completed
  BY <1>0, <1>3, <1>5 DEF server_on_job_completed, Assert, JobPhases, OnMachine, IsComplete,
     OrdinaryEnds
<1>6. CASE Handle /\ ~server_on_execute_job /\ ~server_on_job_completed
  BY <1>2, <1>6 DEF Handle, server_on_submitter_hello, server_on_submitter_bye,
         server_on_job_submitted, server_on_event_occurred, server_on_killing_done,
         server_on_register_job, server_on_reject_job, server_on_kill_jobs,
         server_on_call_me_later, server_on_waiting_done,
         server_on_end_dynamic_register, server_on_continue_dynamic_register,
         server_on_sched_ready, jobVars
<1>7. CASE ServerSendsEvents \/ ServerEndsSimulation
  <2>1. \A j \in Job : view'[j] = "running" => view[j] = "running"
    BY <1>0, <1>7, WhatIsLearnt
  <2>2. UNCHANGED <<actor, alloc, machineVars>>
    BY <1>7 DEF ServerSendsEvents, ServerEndsSimulation, checkUnchanged
  <2> QED
    BY <2>1, <2>2, MachinesStay DEF OnMachine
<1>8. CASE Deliver \/ ServerLoops \/ ServerLeavesLoop
  BY <1>1, <1>8 DEF Deliver, ServerLoops, ServerLeavesLoop, checkUnchanged, jobVars, schedVars
<1> QED
  BY <1>4, <1>5, <1>6, <1>7, <1>8 DEF ServerStep

\* The invariant of the machines.
LEMMA MachinesHold == Spec => []Machines
<1>1. Init => Machines
  <2> SUFFICES ASSUME Init PROVE MachinesInv
    BY DEF Machines
  <2>1. MachineSets
    BY DEF Init, MachineSets, OnMachine
  <2> QED
    BY <2>1 DEF Init, MachinesInv, Exclusive, RightSize
<1>2. TypeOK /\ LifeCycle /\ Machines /\ [Next]_vars => Machines'
  <2> SUFFICES ASSUME TypeOK, LifeCycle, Machines, [Next]_vars, ~aborted' PROVE MachinesInv'
    BY DEF Machines
  <2>1. CASE Next
    <3>1. ~aborted /\ MachinesInv /\ JobPhases
      BY <2>1, StepsOfTheLiving DEF Machines, LifeCycle
    <3>2. ASSUME NEW s \in Submitter, SubmitterStep(s) PROVE MachinesInv'
      <4>1. UNCHANGED <<actor, alloc, view, machineVars>>
        BY <3>2 DEF SubmitterStep, SubmitterHello, SubmitBatch, SubmitterBye, submitterUnchanged,
           jobVars, schedVars
      <4> QED
        BY <3>1, <4>1, MachinesStay DEF OnMachine
    <3> QED
      BY <2>1, <3>1, <3>2, ExecutionKeepsMachines, SchedulerKeepsMachines, ServerKeepsMachines DEF Next
  <2>2. CASE UNCHANGED vars
    <3>1. UNCHANGED <<actor, alloc, view, machineVars, aborted>>
      BY <2>2 DEF vars, jobVars, schedVars
    <3> QED
      BY <3>1, MachinesStay DEF OnMachine, Machines
  <2> QED
    BY <2>1, <2>2
<1> QED
  BY <1>1, <1>2, TypeCorrect, LifeCycleHolds, PTL DEF Spec

(***************************************************************************)
(* As long as no assertion has failed, update_machines_on_job_run and      *)
(* update_machines_on_job_end keep each machine's job set and state exact, *)
(* and without compute sharing no machine computes two jobs, for any       *)
(* number of jobs and machines and any scheduler of the protocol: that a   *)
(* machine is given again only after its job is known to have ended is     *)
(* enough, although the scheduler's knowledge is always late.              *)
(***************************************************************************)
THEOREM MachinesStayConsistent == Spec => [](NoAbort => MachinesConsistent)
<1>1. TypeOK /\ LifeCycle /\ Decisions /\ Machines => (NoAbort => MachinesConsistent)
  BY MachinesAreConsistent DEF LifeCycle, Decisions, DecisionInv, Machines, NoAbort
<1> QED
  BY <1>1, TypeCorrect, LifeCycleHolds, DecisionsHold, MachinesHold, PTL
=============================================================================
