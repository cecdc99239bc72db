------------------------ MODULE AvailabilityProofs --------------------------
(***************************************************************************)
(* Machines, jobs and availability events (PStates): what Machine::state   *)
(* says, which jobs a machine computes, and which assertions can fail.     *)
(***************************************************************************)
EXTENDS PStatesProofs

----------------------------------------------------------------------------
\* The invariants

\* Where a job is, and what the scheduler makes of it.
JobsInv ==
  /\ \A j \in Job : /\ actor[j] \in {"created", "running"} => view[j] = "running"
                    /\ view[j] = "waiting" => actor[j] = "none"
                    /\ view[j] = "done" => actor[j] = "ended"
  /\ \A x \in Mailed, j \in Job : j \in x.about =>
       /\ x.type = "SCHED_EXECUTE_JOB" => actor[j] = "none" /\ view[j] = "running"
       /\ x.type = "JOB_COMPLETED" => actor[j] = "ended"
  /\ \A x \in Buffered, j \in Job : j \in x.about /\ x.type = "JOB_COMPLETED" => actor[j] = "ended"
  /\ \A x \in Mailed : x.type = "PSTATE_MODIFICATION" /\ x.target \in SleepPState =>
       \A m \in x.about, j \in Job : ~ (view[j] = "running" /\ m \in alloc[j])

TransitingTo(target) ==
  IF target \in CompPState THEN "TRANSITING_FROM_SLEEPING_TO_COMPUTING"
                           ELSE "TRANSITING_FROM_COMPUTING_TO_SLEEPING"

\* Machines, switchers and jobs: a machine computes the jobs whose actor runs on it;
\* those jobs have their machines awake; a switcher starts on a machine in transition;
\* a machine that is never switched stays awake.
ComputesRunning ==
  \A m \in Machine : computing[m] = {j \in Job : actor[j] = "running" /\ m \in alloc[j]}
JobsAwake ==
  \A j \in Job : \A m \in alloc[j] :
    /\ actor[j] \in {"created", "running"} => pstate[m] \in CompPState
    /\ actor[j] = "created" => mstate[m] \in {"IDLE", "COMPUTING"}
SwitchersTransit ==
  \A s \in switcher : s.phase = "created" => mstate[s.machine] = TransitingTo(s.target)
SparedInv == \A m \in Machine \ Switchable : pstate[m] \in CompPState
MachinesInv ==
  ~aborted => StateMatchesPState /\ ComputesRunning /\ JobsAwake /\ SwitchersTransit /\ SparedInv

\* One event is on its way at most, the last one that occurred.
ChangesInv ==
  /\ CountIn(mailbox, Changes) <= 1
  /\ \A x \in Mailed : x.type \in {"available", "unavailable"} =>
       /\ occurred > 0
       /\ x.type = AvailabilityEvents[occurred].type
       /\ x.about = AvailabilityEvents[occurred].about

\* An UNAVAILABLE machine is one that the events handled so far make unavailable; the
\* converse is true of the machines that are never switched.
DownInv ==
  \A m \in Machine : /\ mstate[m] = "UNAVAILABLE" => Down(m)
                     /\ Down(m) /\ m \notin Switchable => mstate[m] = "UNAVAILABLE"

\* What the scheduler believes of the machines of a job on its way.
ExecuteInv ==
  \A x \in Mailed, j \in Job : x.type = "SCHED_EXECUTE_JOB" /\ j \in x.about =>
    \A m \in alloc[j] :
      /\ m \notin told_down /\ pending[m] = 0 /\ wanted[m] \in CompPState
      /\ AllowSharing \/ \A i \in Job \ {j} : ~ (view[i] = "running" /\ m \in alloc[i])

----------------------------------------------------------------------------
\* JobsInv, for any scheduler

\* Received messages and buffered events, for the handlers.
LEMMA TakeStep ==
  ASSUME Types, NEW type, Receive(type)
  PROVE  /\ Mailed' \subseteq Mailed /\ Received \in Mailed /\ Received \in Mail /\ Received.type = type
         /\ UNCHANGED <<occurred, view, pending, wanted, told_down, asked>> /\ ~aborted
         /\ \A s \in switcher : s.phase # "created"
         /\ \A j \in Job : actor[j] # "created"
  BY ReceiveMail DEF Runnable

\* While the scheduler is not blocked, none of its decisions is on its way.
LEMMA NoDecision ==
  ASSUME Types, OneDecision, sched # "blocked"
  PROVE  \A x \in Mailed : x.type \notin {"SCHED_EXECUTE_JOB", "PSTATE_MODIFICATION", "SCHED_READY"}
  BY MailCount, OtherKinds DEF OneDecision

\* The same after a step.
LEMMA NoDecisionNext ==
  ASSUME Types', OneDecision', sched' # "blocked"
  PROVE  \A x \in Mailed' : x.type \notin {"SCHED_EXECUTE_JOB", "PSTATE_MODIFICATION", "SCHED_READY"}
  BY MailCountNext, OtherKinds DEF OneDecision

\* Only the server's handler of JOB_COMPLETED buffers that event.
LEMMA CompletedEvents ==
  ASSUME Base, [Next]_vars, NEW x \in Buffered', x.type = "JOB_COMPLETED"
  PROVE  \/ x \in Buffered
         \/ server_on_job_completed /\ x.about = Received.about
<1>0. Types /\ RequestsInv
  BY DEF Base
<1>1. CASE UNCHANGED outbox
  BY <1>1 DEF Buffered
<1>2. CASE ServerSendsEvents
  BY <1>2 DEF Buffered, ServerSendsEvents
<1>3. ASSUME NEW R \in SUBSET Request, IsFiniteSet(R),
             \A q, r \in R : q.number = r.number => q = r,
             NEW S, NEW target, Answering(R, S, target)
      PROVE  x \in Buffered
  <2>1. \/ x \in Buffered
        \/ \E r \in R : x = Msg("RESOURCE_STATE_CHANGED", r.all, r.target)
    BY <1>0, <1>3, AnsweringLemma
  <2> QED
    BY <2>1 DEF Msg
<1>4. CASE server_on_pstate_modification
  <2> DEFINE R == switches \cup {NewRequest}
  <2>1. /\ R \in SUBSET Request /\ IsFiniteSet(R)
        /\ \A q, r \in R : q.number = r.number => q = r
        /\ Answering(R, AtOnce, Received.target)
    BY <1>0, <1>4, NewRequestLemma, Recording
  <2> HIDE DEF R
  <2> QED
    BY <1>3, <2>1
<1>5. CASE server_on_switched
  <2>1. /\ switches \in SUBSET Request /\ IsFiniteSet(switches)
        /\ \A q, r \in switches : q.number = r.number => q = r
        /\ Answering(switches, Received.about, Received.target)
    BY <1>0, <1>5, Reporting DEF Types, RequestsInv
  <2> QED
    BY <1>3, <2>1
<1>6. CASE server_on_event_machine_unavailable \/ server_on_event_machine_available
  <2> DEFINE S == Received.about
  <2>1. S \in SUBSET Machine
    BY <1>0, <1>6, ReceiveMail, MailKinds
       DEF server_on_event_machine_unavailable, server_on_event_machine_available
  <2>2. \/ outbox' = outbox
        \/ \E type \in {"event_machine_unavailable", "event_machine_available"} :
             outbox' = Append(outbox, Msg(type, S, Virtual))
    BY <1>6 DEF server_on_event_machine_unavailable, server_on_event_machine_available
  <2>3. ASSUME NEW type \in {"event_machine_unavailable", "event_machine_available"},
               outbox' = Append(outbox, Msg(type, S, Virtual))
        PROVE  x \in Buffered
    <3>1. Msg(type, S, Virtual) \in Event /\ Msg(type, S, Virtual).type # "JOB_COMPLETED"
      BY <2>1, MailOf DEF Msg
    <3> QED
      BY <1>0, <2>3, <3>1, AppendEvent
  <2> QED
    BY <1>1, <2>2, <2>3
<1>7. CASE server_on_job_completed
  <2> DEFINE e == Msg("JOB_COMPLETED", Received.about, Virtual)
  <2>1. Receive("JOB_COMPLETED") /\ outbox' = Append(outbox, e)
    BY <1>7 DEF server_on_job_completed
  <2>2. e \in Event /\ e.about = Received.about
    BY <1>0, <2>1, ReceiveMail, MailKinds, MailOf DEF Msg
  <2> HIDE DEF e
  <2> QED
    BY <1>0, <1>7, <2>1, <2>2, AppendEvent
<1>8. CASE \/ server_on_execute_job \/ server_on_sched_ready
           \/ \E s \in switcher : SwitcherStarts(s) \/ SwitcherEnds(s)
           \/ \E j \in Job : JobStarts(j) \/ JobEnds(j)
           \/ EventOccurs
           \/ \E j \in Job, S \in SUBSET Machine : Execute(j, S)
           \/ \E S \in SUBSET Switchable, target \in PState : SetResourceState(S, target)
           \/ EndReply \/ UNCHANGED vars
  <2>1. UNCHANGED outbox
    BY <1>8 DEF server_on_execute_job, server_on_sched_ready, SwitcherStarts, SwitcherEnds, JobStarts,
                JobEnds, EventOccurs, Execute, SetResourceState, EndReply, vars
  <2> QED
    BY <1>1, <2>1
<1> QED
  BY <1>2, <1>4, <1>5, <1>6, <1>7, <1>8 DEF Next, ServerStep

\* Steps that leave the jobs alone.
LEMMA JobsFrame ==
  ASSUME Base, JobsInv, [Next]_vars, UNCHANGED <<actor, view, alloc>>,
         \A x \in Mailed' : x.type \in {"SCHED_EXECUTE_JOB", "JOB_COMPLETED", "PSTATE_MODIFICATION"}
                              => x \in Mailed,
         server_on_job_completed => \A j \in Received.about : actor[j] = "ended"
  PROVE  JobsInv'
<1>1. \A x \in Mailed', j \in Job : j \in x.about =>
       /\ x.type = "SCHED_EXECUTE_JOB" => actor'[j] = "none" /\ view'[j] = "running"
       /\ x.type = "JOB_COMPLETED" => actor'[j] = "ended"
  BY DEF JobsInv
<1>2. \A x \in Buffered', j \in Job : j \in x.about /\ x.type = "JOB_COMPLETED" => actor'[j] = "ended"
  BY CompletedEvents DEF JobsInv
<1>3. \A x \in Mailed' : x.type = "PSTATE_MODIFICATION" /\ x.target \in SleepPState =>
       \A m \in x.about, j \in Job : ~ (view'[j] = "running" /\ m \in alloc'[j])
  BY DEF JobsInv
<1> QED
  BY <1>1, <1>2, <1>3 DEF JobsInv

----------------------------------------------------------------------------
\* Every step preserves JobsInv.
LEMMA JobsKept ==
  ASSUME Base, Base', JobsInv, [Next]_vars
  PROVE  JobsInv'
<1>0. /\ Types /\ Types' /\ OneDecision /\ OneDecision'
      /\ Mailed \subseteq Mail /\ Mailed' \subseteq Mail
      /\ actor \in [Job -> {"none", "created", "running", "ended"}]
      /\ alloc \in [Job -> SUBSET Machine]
      /\ view \in [Job -> {"waiting", "running", "done"}]
  BY MailCount, MailCountNext DEF Base, Types
\* Any step, by what it does to the jobs, the mail and the events.
<1> DEFINE Views == \A j \in Job : /\ actor'[j] \in {"created", "running"} => view'[j] = "running"
                                   /\ view'[j] = "waiting" => actor'[j] = "none"
                                   /\ view'[j] = "done" => actor'[j] = "ended"
           Executing == \A x \in Mailed', j \in Job : j \in x.about /\ x.type = "SCHED_EXECUTE_JOB" =>
                          actor'[j] = "none" /\ view'[j] = "running"
           Completed == \A x \in Mailed', j \in Job : j \in x.about /\ x.type = "JOB_COMPLETED" =>
                          actor'[j] = "ended"
           Told == \A x \in Buffered', j \in Job : j \in x.about /\ x.type = "JOB_COMPLETED" =>
                     actor'[j] = "ended"
           Spared == \A x \in Mailed' : x.type = "PSTATE_MODIFICATION" /\ x.target \in SleepPState =>
                       \A m \in x.about, j \in Job : ~ (view'[j] = "running" /\ m \in alloc'[j])
<1>1. ASSUME Views, Executing, Completed, Told, Spared PROVE JobsInv'
  BY <1>1 DEF JobsInv
<1>2. CASE server_on_execute_job
  <2>1. /\ Receive("SCHED_EXECUTE_JOB") /\ sched' = "run" /\ UNCHANGED <<alloc, outbox>>
        /\ actor' = [j \in Job |-> IF j \in Received.about THEN "created" ELSE actor[j]]
    BY <1>2 DEF server_on_execute_job
  <2>2. /\ Mailed' \subseteq Mailed /\ Received \in Mailed /\ Received.type = "SCHED_EXECUTE_JOB"
        /\ UNCHANGED view
    BY <1>0, <2>1, TakeStep
  <2>3. \A j \in Job : j \in Received.about => actor[j] = "none" /\ view[j] = "running"
    BY <2>2 DEF JobsInv
  <2>4. \A x \in Mailed' : x.type \notin {"SCHED_EXECUTE_JOB", "PSTATE_MODIFICATION"}
    BY <1>0, <2>1, NoDecisionNext
  <2>5. \A j \in Job : actor[j] = "ended" => actor'[j] = "ended"
    BY <1>0, <2>1, <2>3
  <2>6. Views
    BY <1>0, <2>1, <2>2, <2>3 DEF JobsInv
  <2>7. Executing /\ Spared
    BY <2>4
  <2>8. Completed
    BY <2>2, <2>5 DEF JobsInv
  <2>9. Told
    BY <2>1, <2>5 DEF JobsInv, Buffered
  <2> QED
    BY <1>1, <2>6, <2>7, <2>8, <2>9
<1>3. CASE server_on_job_completed
  <2>1. Receive("JOB_COMPLETED") /\ UNCHANGED <<actor, alloc>>
    BY <1>3 DEF server_on_job_completed, jobVars
  <2>2. /\ Mailed' \subseteq Mailed /\ Received \in Mailed /\ Received.type = "JOB_COMPLETED"
        /\ UNCHANGED view /\ \E j \in Job : Received.about = {j}
    BY <1>0, <2>1, TakeStep, MailKinds
  <2> QED
    BY <2>1, <2>2, JobsFrame DEF JobsInv
<1>4. CASE \/ server_on_pstate_modification \/ server_on_switched
           \/ server_on_event_machine_unavailable \/ server_on_event_machine_available
           \/ server_on_sched_ready
  <2>1. /\ UNCHANGED <<actor, alloc>>
        /\ \E type \in {"PSTATE_MODIFICATION", "SWITCHED", "unavailable", "available", "SCHED_READY"} :
             Receive(type)
    <3>1. server_on_pstate_modification => UNCHANGED <<actor, alloc>> /\ Receive("PSTATE_MODIFICATION")
      BY Recording DEF jobVars
    <3>2. server_on_switched => UNCHANGED <<actor, alloc>> /\ Receive("SWITCHED")
      BY Reporting DEF jobVars
    <3> QED
      BY <1>4, <3>1, <3>2 DEF server_on_event_machine_unavailable,
         server_on_event_machine_available, server_on_sched_ready, jobVars
  <2>2. Mailed' \subseteq Mailed /\ UNCHANGED view /\ Received.type # "JOB_COMPLETED"
    BY <1>0, <2>1, TakeStep
  <2>3. ~server_on_job_completed
    BY <2>2 DEF server_on_job_completed, Receive
  <2> QED
    BY <2>1, <2>2, <2>3, JobsFrame
<1>5. CASE ServerSendsEvents
  <2>1. /\ sched = "ready" /\ UNCHANGED <<actor, alloc, mailbox>> /\ outbox' = <<>>
        /\ view' = [j \in Job |->
                IF \E k \in 1..Len(outbox) : outbox[k].type = "JOB_COMPLETED" /\ j \in outbox[k].about
                THEN "done" ELSE view[j]]
    BY <1>5 DEF ServerSendsEvents, jobVars
  <2>2. Mailed' = Mailed /\ Buffered' = {}
    BY <2>1 DEF Mailed, Buffered
  <2>3. \A x \in Mailed : x.type \notin {"SCHED_EXECUTE_JOB", "PSTATE_MODIFICATION"}
    BY <1>0, <2>1, NoDecision
  <2>4. \A j \in Job : view'[j] = view[j] \/ (view'[j] = "done" /\ actor[j] = "ended")
    BY <1>0, <2>1 DEF JobsInv, Buffered
  <2>5. Views
    BY <2>1, <2>4 DEF JobsInv
  <2>6. Completed
    BY <2>1, <2>2 DEF JobsInv
  <2> QED
    BY <1>1, <2>2, <2>3, <2>5, <2>6
<1>6. ASSUME NEW j \in Job, JobStarts(j) PROVE JobsInv'
  <2>1. /\ actor[j] = "created" /\ actor' = [actor EXCEPT ![j] = "running"]
        /\ UNCHANGED <<view, alloc, mailbox, outbox>>
    BY <1>6 DEF JobStarts, schedVars
  <2>2. Mailed' = Mailed /\ Buffered' = Buffered
    BY <2>1 DEF Mailed, Buffered
  <2>3. \A i \in Job : actor[i] \in {"none", "ended"} => actor'[i] = actor[i]
    BY <1>0, <2>1
  <2>4. Views
    BY <1>0, <2>1 DEF JobsInv
  <2>5. Executing /\ Completed /\ Told
    BY <2>1, <2>2, <2>3 DEF JobsInv
  <2>6. Spared
    BY <2>1, <2>2 DEF JobsInv
  <2> QED
    BY <1>1, <2>4, <2>5, <2>6
<1>7. ASSUME NEW j \in Job, JobEnds(j) PROVE JobsInv'
  <2>1. /\ actor[j] = "running" /\ actor' = [actor EXCEPT ![j] = "ended"]
        /\ UNCHANGED <<view, alloc, outbox>>
    BY <1>7 DEF JobEnds, schedVars
  <2>2. PICK n \in Mail : Put(n) /\ n.type = "JOB_COMPLETED" /\ n.about = {j}
    BY <1>0, <1>7, Puts
  <2>3. Mailed' = Mailed \cup {n} /\ Buffered' = Buffered
    BY <1>0, <2>1, <2>2, PutMail DEF Buffered
  <2>4. (\A i \in Job : actor[i] \in {"none", "ended"} => actor'[i] = actor[i]) /\ actor'[j] = "ended"
    BY <1>0, <2>1
  <2>5. Views
    BY <1>0, <2>1 DEF JobsInv
  <2>6. Executing
    BY <2>1, <2>2, <2>3, <2>4 DEF JobsInv
  <2>7. Completed
    BY <2>1, <2>2, <2>3, <2>4 DEF JobsInv
  <2>8. Told
    BY <2>1, <2>3, <2>4 DEF JobsInv
  <2>9. Spared
    BY <2>1, <2>2, <2>3 DEF JobsInv
  <2> QED
    BY <1>1, <2>5, <2>6, <2>7, <2>8, <2>9
<1>8. ASSUME NEW j \in Job, NEW S \in SUBSET Machine, Execute(j, S) PROVE JobsInv'
  <2>1. /\ sched = "run" /\ view[j] = "waiting" /\ view' = [view EXCEPT ![j] = "running"]
        /\ alloc' = [alloc EXCEPT ![j] = S] /\ UNCHANGED <<actor, outbox>>
    BY <1>8 DEF Execute
  <2>2. PICK n \in Mail : Put(n) /\ n.type = "SCHED_EXECUTE_JOB" /\ n.about = {j}
    BY <1>0, <1>8, Puts
  <2>3. Mailed' = Mailed \cup {n} /\ Buffered' = Buffered
    BY <1>0, <2>1, <2>2, PutMail DEF Buffered
  <2>4. \A x \in Mailed : x.type \notin {"SCHED_EXECUTE_JOB", "PSTATE_MODIFICATION"}
    BY <1>0, <2>1, NoDecision
  <2>5. actor[j] = "none" /\ view'[j] = "running" /\ \A i \in Job : i # j => view'[i] = view[i]
    BY <1>0, <2>1 DEF JobsInv
  <2>6. Views
    BY <2>1, <2>5 DEF JobsInv
  <2>7. Executing
    BY <2>1, <2>2, <2>3, <2>4, <2>5
  <2>8. Completed /\ Told
    BY <2>1, <2>2, <2>3 DEF JobsInv
  <2>9. Spared
    BY <2>2, <2>3, <2>4
  <2> QED
    BY <1>1, <2>6, <2>7, <2>8, <2>9
<1>9. ASSUME NEW S \in SUBSET Switchable, NEW target \in PState, SetResourceState(S, target)
      PROVE  JobsInv'
  <2>1. /\ UNCHANGED <<actor, view, alloc, outbox>>
        /\ \A m \in S : target \in SleepPState => Busy(m) = {}
    BY <1>9 DEF SetResourceState, jobVars
  <2>2. PICK n \in Mail : Put(n) /\ n.type = "PSTATE_MODIFICATION" /\ n.about = S /\ n.target = target
    BY <1>0, <1>9, Puts
  <2>3. Mailed' = Mailed \cup {n} /\ Buffered' = Buffered
    BY <1>0, <2>1, <2>2, PutMail DEF Buffered
  <2>4. Views /\ Told
    BY <2>1, <2>3 DEF JobsInv
  <2>5. Executing /\ Completed
    BY <2>1, <2>2, <2>3 DEF JobsInv
  <2>6. target \in SleepPState => \A m \in S, j \in Job : ~ (view[j] = "running" /\ m \in alloc[j])
    BY <2>1 DEF Busy
  <2>7. Spared
    BY <2>1, <2>2, <2>3, <2>6 DEF JobsInv
  <2> QED
    BY <1>1, <2>4, <2>5, <2>7
<1>10. CASE \/ \E s \in switcher : SwitcherStarts(s) \/ SwitcherEnds(s)
            \/ EventOccurs \/ EndReply \/ UNCHANGED vars
  <2>1. UNCHANGED <<actor, view, alloc, outbox>>
    BY <1>10 DEF SwitcherStarts, SwitcherEnds, EventOccurs, EndReply, vars, schedVars, jobVars
  <2>2. \/ \E x \in Mail : /\ Put(x)
                           /\ x.type \in {"SWITCHED", "available", "unavailable", "SCHED_READY"}
        \/ UNCHANGED mailbox
    BY <1>0, <1>10, Puts DEF SwitcherStarts, vars
  <2>3. \A x \in Mailed' : x.type \in {"SCHED_EXECUTE_JOB", "JOB_COMPLETED", "PSTATE_MODIFICATION"}
                              => x \in Mailed
    <3>1. CASE UNCHANGED mailbox
      BY <3>1 DEF Mailed
    <3>2. ASSUME NEW x \in Mail, Put(x), x.type \in {"SWITCHED", "available", "unavailable", "SCHED_READY"}
          PROVE  \A y \in Mailed' : y.type \in {"SCHED_EXECUTE_JOB", "JOB_COMPLETED", "PSTATE_MODIFICATION"}
                              => y \in Mailed
      BY <1>0, <3>2, PutMail
    <3> QED
      BY <2>2, <3>1, <3>2
  <2>4. Views /\ Executing /\ Completed /\ Spared
    BY <2>1, <2>3 DEF JobsInv
  <2>5. Told
    BY <2>1 DEF JobsInv, Buffered
  <2> QED
    BY <1>1, <2>4, <2>5
<1> QED
  BY <1>2, <1>3, <1>4, <1>5, <1>6, <1>7, <1>8, <1>9, <1>10 DEF Next, ServerStep

----------------------------------------------------------------------------
\* The availability events

\* The events that have been handled are those not on their way.
LEMMA HandledIs ==
  ASSUME Types
  PROVE  Handled = occurred - CountIn(mailbox, Changes)
<1>1. \A i \in 1..Len(mailbox) : mailbox[i] \in Mail
  BY DEF Types
<1>2. {i \in 1..Len(mailbox) : mailbox[i].type \in {"available", "unavailable"}}
        = {i \in 1..Len(mailbox) : mailbox[i] \in Changes}
  BY <1>1, OtherKinds
<1> QED
  BY <1>2 DEF Handled, CountIn

\* The same after a step.
LEMMA HandledIsNext ==
  ASSUME Types'
  PROVE  Handled' = occurred' - CountIn(mailbox', Changes)
<1>1. \A i \in 1..Len(mailbox') : mailbox'[i] \in Mail
  BY DEF Types
<1>2. {i \in 1..Len(mailbox') : mailbox'[i].type \in {"available", "unavailable"}}
        = {i \in 1..Len(mailbox') : mailbox'[i] \in Changes}
  BY <1>1, OtherKinds
<1> QED
  BY <1>2 DEF Handled, CountIn

\* One more event: the last one about a machine counts.
LEMMA DownStep ==
  ASSUME NEW n \in Nat, NEW m
  PROVE  DownAfter(n + 1, m) <=> IF m \in AvailabilityEvents[n + 1].about
                                 THEN AvailabilityEvents[n + 1].type = "unavailable"
                                 ELSE DownAfter(n, m)
<1>1. \A k : k \in 1..(n + 1) <=> k \in 1..n \/ k = n + 1
  OBVIOUS
<1>2. \A k \in 1..n : \A i : i \in (k+1)..(n + 1) <=> i \in (k+1)..n \/ i = n + 1
  OBVIOUS
<1>3. \A i : i \notin (n+2)..(n + 1)
  OBVIOUS
<1>4. CASE m \in AvailabilityEvents[n + 1].about
  <2>1. \A k \in 1..n : ~ \A i \in (k+1)..(n + 1) : m \notin AvailabilityEvents[i].about
    BY <1>2, <1>4
  <2>2. \A i \in ((n+1)+1)..(n + 1) : m \notin AvailabilityEvents[i].about
    OBVIOUS
  <2> QED
    BY <1>1, <1>4, <2>1, <2>2 DEF DownAfter
<1>5. CASE m \notin AvailabilityEvents[n + 1].about
  <2>1. ASSUME NEW k \in 1..n
        PROVE  (\A i \in (k+1)..(n + 1) : m \notin AvailabilityEvents[i].about)
                 <=> (\A i \in (k+1)..n : m \notin AvailabilityEvents[i].about)
    BY <1>2, <1>5
  <2> QED
    BY <1>1, <1>5, <2>1 DEF DownAfter
<1> QED
  BY <1>4, <1>5

\* The server is about to handle, or handles, an availability event.
Handles == server_on_event_machine_unavailable \/ server_on_event_machine_available

\* Every step preserves ChangesInv; the number of events handled moves with the handlers
\* of the events, to the last one that occurred.
LEMMA ChangesKept ==
  ASSUME Types, Types', ChangesInv, [Next]_vars
  PROVE  /\ ChangesInv'
         /\ \/ ~Handles /\ Handled' = Handled
            \/ /\ Handles /\ occurred \in 1..Len(AvailabilityEvents)
               /\ Handled = occurred - 1 /\ Handled' = occurred
               /\ Received.type = AvailabilityEvents[occurred].type
               /\ Received.about = AvailabilityEvents[occurred].about
<1>0. /\ CountIn(mailbox, Changes) \in Nat /\ CountIn(mailbox', Changes) \in Nat
      /\ CountIn(mailbox', Changes) = 0 <=> Mailed' \cap Changes = {}
      /\ CountIn(mailbox, Changes) = 0 <=> Mailed \cap Changes = {}
      /\ Mailed \subseteq Mail /\ Mailed' \subseteq Mail
      /\ occurred \in 0..Len(AvailabilityEvents) /\ Len(AvailabilityEvents) \in Nat
      /\ Handled = occurred - CountIn(mailbox, Changes)
      /\ Handled' = occurred' - CountIn(mailbox', Changes)
      /\ CountIn(mailbox, Changes) <= 1
  BY MailCount, MailCountNext, HandledIs, HandledIsNext, EventsOfList DEF Types, ChangesInv
<1>1. ASSUME SameCount(Changes), UNCHANGED occurred, ~Handles,
             \A x \in Mailed' : x.type \in {"available", "unavailable"} => x \in Mailed
      PROVE  ChangesInv' /\ ~Handles /\ Handled' = Handled
  BY <1>0, <1>1 DEF SameCount, ChangesInv
<1>2. CASE Handles
  <2>1. UNCHANGED occurred /\ \E type \in {"available", "unavailable"} : Receive(type)
    BY <1>2 DEF Handles, server_on_event_machine_unavailable, server_on_event_machine_available, Receive
  <2>2. /\ Received \in Mailed /\ Received \in Mail /\ Received.type \in {"available", "unavailable"}
        /\ Mailed' \subseteq Mailed
        /\ \A K : CountIn(mailbox, K) = CountIn(mailbox', K) + (IF Received \in K THEN 1 ELSE 0)
    BY <2>1, ReceiveMail
  <2>3. Received \in Changes
    BY <2>2, OtherKinds
  <2>4. CountIn(mailbox, Changes) = CountIn(mailbox', Changes) + 1
    BY <2>2, <2>3
  <2>5. CountIn(mailbox, Changes) = 1 /\ CountIn(mailbox', Changes) = 0
    BY <1>0, <2>4
  <2>6. /\ occurred > 0 /\ Received.type = AvailabilityEvents[occurred].type
        /\ Received.about = AvailabilityEvents[occurred].about
    BY <2>2 DEF ChangesInv
  <2>7. ChangesInv'
    BY <2>1, <2>2, <2>5 DEF ChangesInv
  <2>8. occurred \in 1..Len(AvailabilityEvents) /\ Handled = occurred - 1 /\ Handled' = occurred
    BY <1>0, <2>1, <2>5, <2>6
  <2> QED
    BY <1>2, <2>6, <2>7, <2>8
<1>3. CASE EventOccurs
  <2>1. ~ \E i \in 1..Len(mailbox) : mailbox[i].type \in {"available", "unavailable"}
    BY <1>3 DEF EventOccurs
  <2>2. occurred' = occurred + 1
    BY <1>3 DEF EventOccurs
  <2>3. \A x \in Mailed : x.type \notin {"available", "unavailable"}
    BY <2>1 DEF Mailed
  <2>4. CountIn(mailbox, Changes) = 0
    BY <1>0, <2>3, OtherKinds
  <2>5. PICK n \in Mail : /\ Put(n) /\ n.type \in {"available", "unavailable"}
                          /\ n.type = AvailabilityEvents[occurred'].type
                          /\ n.about = AvailabilityEvents[occurred'].about
    BY <1>3, Puts
  <2>6. Mailed' = Mailed \cup {n} /\ CountIn(mailbox', Changes) = 1
    <3>1. /\ Mailed' = Mailed \cup {n}
          /\ \A K : CountIn(mailbox', K) = CountIn(mailbox, K) + (IF n \in K THEN 1 ELSE 0)
      BY <2>5, PutMail
    <3>2. n \in Changes
      BY <2>5, OtherKinds
    <3>3. CountIn(mailbox', Changes) = CountIn(mailbox, Changes) + 1
      BY <3>1, <3>2
    <3> QED
      BY <2>4, <3>1, <3>3
  <2>7. ~Handles
    <3>1. mailbox' = Append(mailbox, n) /\ Len(mailbox) \in Nat /\ mailbox \in Seq(Mail)
      BY <2>5 DEF Put, Types
    <3>2. mailbox # <<>> => Received.type \notin {"available", "unavailable"}
      BY <2>1, <3>1 DEF Received
    <3> QED
      BY <3>2 DEF Handles, Receive, server_on_event_machine_unavailable, server_on_event_machine_available
  <2>8. Handled' = Handled /\ occurred' > 0
    BY <1>0, <2>2, <2>4, <2>6
  <2>9. ChangesInv'
    BY <2>3, <2>5, <2>6, <2>8 DEF ChangesInv
  <2> QED
    BY <2>7, <2>8, <2>9
<1>4. CASE ~Handles /\ ~EventOccurs
  <2>1. \/ \E type \in {"SCHED_EXECUTE_JOB", "PSTATE_MODIFICATION", "SWITCHED", "JOB_COMPLETED", "SCHED_READY"} :
             Receive(type)
        \/ /\ UNCHANGED occurred
           /\ \E x \in Mail : Put(x) /\ x.type \notin {"available", "unavailable"}
        \/ UNCHANGED <<occurred, mailbox>>
    <3>1. ServerStep => \/ \E type \in {"SCHED_EXECUTE_JOB", "PSTATE_MODIFICATION", "SWITCHED",
                                        "JOB_COMPLETED", "SCHED_READY"} : Receive(type)
                        \/ UNCHANGED <<occurred, mailbox>>
      BY <1>4, Recording, Reporting DEF ServerStep, Handles, server_on_execute_job, server_on_job_completed,
         server_on_sched_ready, ServerSendsEvents
    <3>2. ASSUME NEW s \in switcher, SwitcherStarts(s) PROVE UNCHANGED <<occurred, mailbox>>
      BY <3>2 DEF SwitcherStarts
    <3>3. ASSUME NEW s \in switcher, SwitcherEnds(s)
          PROVE UNCHANGED occurred /\ \E x \in Mail : Put(x) /\ x.type \notin {"available", "unavailable"}
      BY <3>3, Puts DEF SwitcherEnds
    <3>4. ASSUME NEW j \in Job, JobStarts(j) PROVE UNCHANGED <<occurred, mailbox>>
      BY <3>4 DEF JobStarts
    <3>5. ASSUME NEW j \in Job, JobEnds(j)
          PROVE UNCHANGED occurred /\ \E x \in Mail : Put(x) /\ x.type \notin {"available", "unavailable"}
      BY <3>5, Puts DEF JobEnds
    <3>6. ASSUME NEW j \in Job, NEW S \in SUBSET Machine, Execute(j, S)
          PROVE UNCHANGED occurred /\ \E x \in Mail : Put(x) /\ x.type \notin {"available", "unavailable"}
      BY <3>6, Puts DEF Execute
    <3>7. ASSUME NEW S \in SUBSET Switchable, NEW target \in PState, SetResourceState(S, target)
          PROVE UNCHANGED occurred /\ \E x \in Mail : Put(x) /\ x.type \notin {"available", "unavailable"}
      BY <3>7, Puts DEF SetResourceState
    <3>8. ASSUME EndReply
          PROVE UNCHANGED occurred /\ \E x \in Mail : Put(x) /\ x.type \notin {"available", "unavailable"}
      BY <3>8, Puts DEF EndReply
    <3>9. UNCHANGED vars => UNCHANGED <<occurred, mailbox>>
      BY DEF vars
    <3> QED
      BY <1>4, <3>1, <3>2, <3>3, <3>4, <3>5, <3>6, <3>7, <3>8, <3>9 DEF Next
  <2>2. ASSUME NEW type \in {"SCHED_EXECUTE_JOB", "PSTATE_MODIFICATION", "SWITCHED", "JOB_COMPLETED",
                             "SCHED_READY"}, Receive(type)
        PROVE  ChangesInv' /\ ~Handles /\ Handled' = Handled
    <3>1. /\ Mailed' \subseteq Mailed /\ Received \in Mail /\ Received.type = type /\ UNCHANGED occurred
          /\ mailbox # <<>> /\ mailbox' = Tail(mailbox)
      BY <2>2, ReceiveMail DEF Receive
    <3>2. Received \notin Changes
      BY <3>1, OtherKinds
    <3> QED
      BY <1>1, <1>4, <3>1, <3>2, TakeOther
  <2>3. ASSUME UNCHANGED occurred, NEW x \in Mail, Put(x), x.type \notin {"available", "unavailable"}
        PROVE  ChangesInv' /\ ~Handles /\ Handled' = Handled
    <3>1. Mailed' = Mailed \cup {x} /\ x \notin Changes
      BY <2>3, PutMail, OtherKinds
    <3>2. SameCount(Changes)
      BY <2>3, <3>1, PutOther
    <3> QED
      BY <1>1, <1>4, <2>3, <3>1, <3>2
  <2>4. ASSUME UNCHANGED <<occurred, mailbox>>
        PROVE  ChangesInv' /\ ~Handles /\ Handled' = Handled
    BY <1>1, <1>4, <2>4 DEF SameCount, Mailed
  <2> QED
    BY <2>1, <2>2, <2>3, <2>4
<1> QED
  BY <1>2, <1>3, <1>4

\* What events made available stays made available.
StillBack == \A m \in Machine : CameBack(m) => CameBack(m)'

\* The number of events handled never shrinks, and a machine that is made available
\* and that is switched has come back.
LEMMA ComingBack ==
  ASSUME Types, Types', ChangesInv, [Next]_vars
  PROVE  /\ StillBack
         /\ server_on_event_machine_available =>
              \A m \in Received.about : m \in Switchable => CameBack(m)'
<1>0. Handled \in Int
  BY MailCount, HandledIs DEF Types
<1>1. CASE Handled' = Handled /\ ~Handles
  BY <1>1 DEF StillBack, CameBack, Handles
<1>2. CASE /\ Handles /\ occurred \in 1..Len(AvailabilityEvents)
           /\ Handled = occurred - 1 /\ Handled' = occurred
           /\ Received.type = AvailabilityEvents[occurred].type
           /\ Received.about = AvailabilityEvents[occurred].about
  <2>1. occurred \in 1..Handled' /\ \A k \in 1..Handled : k \in 1..Handled'
    BY <1>0, <1>2, EventsOfList
  <2>2. server_on_event_machine_available => Received.type = "available"
    BY DEF server_on_event_machine_available, Receive
  <2> QED
    BY <1>2, <2>1, <2>2 DEF StillBack, CameBack
<1> QED
  BY <1>1, <1>2, ChangesKept

----------------------------------------------------------------------------
\* MachinesInv

\* No job is on a machine that is switching or sleeping.
LEMMA SwitchingIsFree ==
  ASSUME Types, SwitchersInv, MachinesInv, ~aborted
  PROVE  /\ \A s \in switcher : /\ s.machine \in Machine /\ computing[s.machine] = {}
                                /\ \A j \in Job : s.machine \in alloc[j] =>
                                     actor[j] \notin {"created", "running"}
         /\ \A m \in Machine : pstate[m] \in SleepPState => computing[m] = {}
<1>0. /\ StateMatchesPState /\ ComputesRunning /\ JobsAwake /\ SwitchersTransit
      /\ CompPState \cap SleepPState = {} /\ Virtual \notin CompPState /\ Switchable \subseteq Machine
  BY PStatesAssumption DEF MachinesInv, PState
<1>1. ASSUME NEW m \in Machine, pstate[m] \notin CompPState
      PROVE  /\ computing[m] = {}
             /\ \A j \in Job : m \in alloc[j] => actor[j] \notin {"created", "running"}
  BY <1>0, <1>1 DEF ComputesRunning, JobsAwake
<1>2. ASSUME NEW s \in switcher
      PROVE  /\ s.machine \in Machine
             /\ computing[s.machine] = {}
             /\ \A j \in Job : s.machine \in alloc[j] => actor[j] \notin {"created", "running"}
  <2>1. s.machine \in Machine /\ s.phase \in {"created", "computing"}
    BY <1>0 DEF Types, Switcher
  <2>2. CASE s.phase = "computing"
    <3>1. pstate[s.machine] = Virtual
      BY <2>2 DEF SwitchersInv
    <3> QED
      BY <1>0, <1>1, <2>1, <3>1
  <2>3. CASE s.phase = "created"
    <3>1. mstate[s.machine] \notin {"IDLE", "COMPUTING", "UNAVAILABLE"}
      BY <1>0, <2>3 DEF SwitchersTransit, TransitingTo
    <3>2. computing[s.machine] = {}
      BY <1>0, <2>1, <3>1 DEF StateMatchesPState
    <3>3. \A j \in Job : s.machine \in alloc[j] => actor[j] # "running"
      BY <1>0, <2>1, <3>2 DEF ComputesRunning
    <3>4. \A j \in Job : s.machine \in alloc[j] => actor[j] # "created"
      BY <1>0, <2>1, <3>1 DEF JobsAwake
    <3> QED
      BY <2>1, <3>2, <3>3, <3>4
  <2> QED
    BY <2>1, <2>2, <2>3
<1> QED
  BY <1>0, <1>1, <1>2

\* The steps that change none of this.
LEMMA MachinesFrame ==
  ASSUME MachinesInv, StillBack, aborted => aborted',
         UNCHANGED <<pstate, mstate, computing, switcher, actor, alloc>>
  PROVE  MachinesInv'
<1> SUFFICES ASSUME ~aborted, ~aborted'
             PROVE  (StateMatchesPState /\ ComputesRunning /\ JobsAwake /\ SwitchersTransit /\ SparedInv)'
  BY DEF MachinesInv
<1>1. StateMatchesPState /\ ComputesRunning /\ JobsAwake /\ SwitchersTransit /\ SparedInv
  BY DEF MachinesInv
<1>2. StateMatchesPState'
  BY <1>1 DEF StateMatchesPState, StillBack
<1>3. ComputesRunning'
  BY <1>1 DEF ComputesRunning
<1>4. JobsAwake'
  BY <1>1 DEF JobsAwake
<1>5. SwitchersTransit' /\ SparedInv'
  BY <1>1 DEF SwitchersTransit, SparedInv
<1> QED
  BY <1>2, <1>3, <1>4, <1>5

\* What the parts say, without the abort.
StateOK(m) ==
  /\ mstate[m] = "COMPUTING" => pstate[m] \in CompPState
  /\ mstate[m] = "IDLE" => pstate[m] \in CompPState \/ CameBack(m)
  /\ mstate[m] = "SLEEPING" => pstate[m] \in SleepPState
  /\ Transiting(mstate[m]) => \E s \in switcher : s.machine = m
  /\ mstate[m] # "UNAVAILABLE" => (mstate[m] = "COMPUTING" <=> computing[m] # {})

\* From the invariant to its parts.
LEMMA MachinesParts ==
  ASSUME MachinesInv, ~aborted
  PROVE  (\A m \in Machine : StateOK(m)) /\ ComputesRunning /\ JobsAwake /\ SwitchersTransit /\ SparedInv
  BY DEF MachinesInv, StateMatchesPState, StateOK

\* From the parts to the invariant.
LEMMA MachinesWhole ==
  ASSUME ~aborted' => /\ \A m \in Machine : StateOK(m)'
                      /\ ComputesRunning' /\ JobsAwake' /\ SwitchersTransit' /\ SparedInv'
  PROVE  MachinesInv'
  BY DEF MachinesInv, StateMatchesPState, StateOK

\* A switcher starts on a machine in transition that computes nothing: its assertion holds.
LEMMA MachinesStart ==
  ASSUME Types, SwitchersInv, MachinesInv, StillBack, NEW s \in switcher, SwitcherStarts(s)
  PROVE  MachinesInv' /\ ~aborted'
<1> DEFINE t == [s EXCEPT !.phase = "computing"]
           m0 == s.machine
<1>1. /\ ~aborted /\ UNCHANGED <<mstate, computing, actor, alloc>> /\ s.phase = "created"
      /\ pstate' = [pstate EXCEPT ![m0] = Virtual]
      /\ switcher' = (switcher \ {s}) \cup {t}
      /\ aborted' = ~ (mstate[m0] = TransitingTo(s.target) /\ computing[m0] = {})
  BY DEF SwitcherStarts, jobVars, xbt_assert, TransitingTo
<1>2. (\A m \in Machine : StateOK(m)) /\ ComputesRunning /\ JobsAwake /\ SwitchersTransit /\ SparedInv
  BY <1>1, MachinesParts
<1>3. /\ m0 \in Machine /\ m0 \in Switchable /\ mstate[m0] = TransitingTo(s.target) /\ computing[m0] = {}
      /\ \A j \in Job : m0 \in alloc[j] => actor[j] \notin {"created", "running"}
  BY <1>1, <1>2, SwitchingIsFree DEF Types, Switcher, SwitchersTransit
<1>4. t.machine = m0 /\ t.phase = "computing"
  BY DEF Types, Switcher
<1> HIDE DEF t
<1>5. \A m \in Machine : m # m0 => pstate'[m] = pstate[m]
  BY <1>1, <1>3 DEF Types
<1>6. ~aborted'
  BY <1>1, <1>3
<1>7. ASSUME NEW m \in Machine PROVE StateOK(m)'
  <2>1. Transiting(mstate[m]) => \E u \in switcher' : u.machine = m
    BY <1>1, <1>2, <1>4 DEF StateOK
  <2>2. mstate[m0] \notin {"IDLE", "COMPUTING", "SLEEPING"}
    BY <1>3 DEF TransitingTo
  <2> QED
    BY <1>1, <1>2, <1>5, <2>1, <2>2 DEF StateOK, StillBack
<1>8. ComputesRunning'
  BY <1>1, <1>2 DEF ComputesRunning
<1>9. JobsAwake'
  BY <1>1, <1>2, <1>3, <1>5 DEF JobsAwake, Types
<1>10. SwitchersTransit'
  BY <1>1, <1>2, <1>4 DEF SwitchersTransit
<1>11. SparedInv'
  BY <1>1, <1>2, <1>3, <1>5 DEF SparedInv
<1> QED
  BY <1>6, <1>7, <1>8, <1>9, <1>10, <1>11, MachinesWhole

\* A switcher ends.
LEMMA MachinesSwitched ==
  ASSUME Types, SwitchersInv, MachinesInv, StillBack, NEW s \in switcher, SwitcherEnds(s)
  PROVE  MachinesInv'
<1> DEFINE m0 == s.machine
<1>1. /\ ~aborted /\ UNCHANGED <<aborted, computing, actor, alloc>>
      /\ pstate' = [pstate EXCEPT ![m0] = s.target]
      /\ mstate' = [mstate EXCEPT ![m0] = SwitchedState(s.target)]
      /\ switcher' = switcher \ {s}
  BY DEF SwitcherEnds, jobVars
<1>2. (\A m \in Machine : StateOK(m)) /\ ComputesRunning /\ JobsAwake /\ SwitchersTransit /\ SparedInv
  BY <1>1, MachinesParts
<1>3. /\ m0 \in Machine /\ m0 \in Switchable /\ computing[m0] = {} /\ s.target \in PState
      /\ \A j \in Job : m0 \in alloc[j] => actor[j] \notin {"created", "running"}
  BY <1>1, SwitchingIsFree DEF Types, Switcher
<1>4. /\ \A m \in Machine : m # m0 => pstate'[m] = pstate[m] /\ mstate'[m] = mstate[m]
      /\ pstate'[m0] = s.target /\ mstate'[m0] = SwitchedState(s.target)
  BY <1>1, <1>3 DEF Types
<1>5. /\ SwitchedState(s.target) = "IDLE" => s.target \in CompPState
      /\ SwitchedState(s.target) = "SLEEPING" => s.target \in SleepPState
      /\ SwitchedState(s.target) \in {"IDLE", "SLEEPING"}
  BY <1>3 DEF SwitchedState, PState
<1>6. ASSUME NEW m \in Machine PROVE StateOK(m)'
  <2>1. CASE m = m0
    BY <1>1, <1>3, <1>4, <1>5, <2>1 DEF StateOK, Transiting
  <2>2. CASE m # m0
    BY <1>1, <1>2, <1>4, <2>2 DEF StateOK, StillBack
  <2> QED
    BY <2>1, <2>2
<1>7. ComputesRunning'
  BY <1>1, <1>2 DEF ComputesRunning
<1>8. JobsAwake'
  BY <1>1, <1>2, <1>3, <1>4 DEF JobsAwake, Types
<1>9. SwitchersTransit'
  <2>1. \A t \in switcher : t # s => t.machine # m0
    BY DEF SwitchersInv
  <2>2. \A t \in switcher : t.machine \in Machine
    BY PStatesAssumption DEF Types, Switcher
  <2> QED
    BY <1>1, <1>2, <1>4, <2>1, <2>2 DEF SwitchersTransit
<1>10. SparedInv'
  BY <1>2, <1>3, <1>4, <1>5 DEF SparedInv
<1> QED
  BY <1>6, <1>7, <1>8, <1>9, <1>10, MachinesWhole

----------------------------------------------------------------------------
\* A job starts on machines that are awake and available.
LEMMA MachinesRun ==
  ASSUME Types, SwitchersInv, MachinesInv, StillBack, NEW j \in Job, JobStarts(j)
  PROVE  MachinesInv'
<1>1. /\ ~aborted /\ UNCHANGED <<aborted, pstate, switcher, alloc>> /\ actor[j] = "created"
      /\ actor' = [actor EXCEPT ![j] = "running"]
      /\ mstate' = [m \in Machine |-> IF m \in alloc[j] THEN "COMPUTING" ELSE mstate[m]]
      /\ computing' = [m \in Machine |-> IF m \in alloc[j] THEN computing[m] \cup {j} ELSE computing[m]]
  BY DEF JobStarts, switchVars
<1>2. (\A m \in Machine : StateOK(m)) /\ ComputesRunning /\ JobsAwake /\ SwitchersTransit /\ SparedInv
  BY <1>1, MachinesParts
<1>3. \A i \in Job : /\ i # j => actor'[i] = actor[i]
                     /\ alloc[i] \subseteq Machine
  BY <1>1 DEF Types
<1>4. actor'[j] = "running"
  BY <1>1 DEF Types
<1>5. \A m \in alloc[j] : pstate[m] \in CompPState /\ mstate[m] \in {"IDLE", "COMPUTING"}
  BY <1>1, <1>2 DEF JobsAwake
<1>6. ASSUME NEW m \in Machine PROVE StateOK(m)'
  <2>1. CASE m \in alloc[j]
    <3>1. mstate'[m] = "COMPUTING" /\ computing'[m] # {} /\ pstate'[m] \in CompPState
      BY <1>1, <1>5, <2>1
    <3> QED
      BY <3>1 DEF StateOK, Transiting
  <2>2. CASE m \notin alloc[j]
    BY <1>1, <1>2, <2>2 DEF StateOK, StillBack
  <2> QED
    BY <2>1, <2>2
<1>7. ComputesRunning'
  <2> SUFFICES ASSUME NEW m \in Machine
               PROVE  computing'[m] = {i \in Job : actor'[i] = "running" /\ m \in alloc[i]}
    BY <1>1 DEF ComputesRunning
  <2>1. computing[m] = {i \in Job : actor[i] = "running" /\ m \in alloc[i]}
    BY <1>2 DEF ComputesRunning
  <2>2. computing'[m] = IF m \in alloc[j] THEN computing[m] \cup {j} ELSE computing[m]
    BY <1>1
  <2> QED
    BY <1>1, <1>3, <1>4, <2>1, <2>2
<1>8. JobsAwake'
  <2> SUFFICES ASSUME NEW i \in Job, NEW m \in alloc[i]
               PROVE  /\ actor'[i] \in {"created", "running"} => pstate[m] \in CompPState
                      /\ actor'[i] = "created" => mstate'[m] \in {"IDLE", "COMPUTING"}
    BY <1>1 DEF JobsAwake
  <2>1. m \in Machine
    BY <1>3
  <2> QED
    BY <1>1, <1>2, <1>3, <1>4, <1>5, <2>1 DEF JobsAwake
<1>9. SwitchersTransit'
  <2>1. \A s \in switcher : s.machine \notin alloc[j] /\ s.machine \in Machine
    BY <1>1, SwitchingIsFree
  <2> QED
    BY <1>1, <1>2, <2>1 DEF SwitchersTransit
<1>10. SparedInv'
  BY <1>1, <1>2 DEF SparedInv
<1> QED
  BY <1>6, <1>7, <1>8, <1>9, <1>10, MachinesWhole

\* A job ends on the machines that compute it: its assertion holds.
LEMMA MachinesEnd ==
  ASSUME Types, SwitchersInv, MachinesInv, StillBack, NEW j \in Job, JobEnds(j)
  PROVE  MachinesInv' /\ ~aborted'
<1>1. /\ ~aborted /\ UNCHANGED <<pstate, switcher, alloc>> /\ actor[j] = "running"
      /\ aborted' = ~ \A m \in alloc[j] : j \in computing[m]
      /\ actor' = [actor EXCEPT ![j] = "ended"]
      /\ computing' = [m \in Machine |-> computing[m] \ {j}]
      /\ mstate' = [m \in Machine |-> IF m \in alloc[j] /\ IdleAgain(m) THEN "IDLE" ELSE mstate[m]]
  BY DEF JobEnds, switchVars, xbt_assert
<1>2. (\A m \in Machine : StateOK(m)) /\ ComputesRunning /\ JobsAwake /\ SwitchersTransit /\ SparedInv
  BY <1>1, MachinesParts
<1>3. /\ \A i \in Job : i # j => actor'[i] = actor[i]
      /\ \A i \in Job : alloc[i] \subseteq Machine
      /\ actor'[j] = "ended"
  BY <1>1 DEF Types
<1>4. /\ \A m \in alloc[j] : pstate[m] \in CompPState
      /\ \A m \in Machine : m \in alloc[j] <=> j \in computing[m]
  BY <1>1, <1>2 DEF JobsAwake, ComputesRunning
<1>5. ~aborted'
  BY <1>1, <1>3, <1>4
<1>6. \A m \in Machine : /\ computing'[m] = computing[m] \ {j}
                         /\ mstate'[m] = IF m \in alloc[j] /\ computing'[m] = {} /\ mstate[m] # "UNAVAILABLE"
                                         THEN "IDLE" ELSE mstate[m]
  BY <1>1 DEF IdleAgain
<1>7. ASSUME NEW m \in Machine PROVE StateOK(m)'
  <2>1. CASE m \in alloc[j]
    <3>1. j \in computing[m] /\ pstate[m] \in CompPState
      BY <1>4, <2>1
    <3>2. mstate[m] # "UNAVAILABLE" => mstate[m] = "COMPUTING"
      BY <1>2, <3>1 DEF StateOK
    <3>3. CASE mstate[m] = "UNAVAILABLE"
      BY <1>6, <3>3 DEF StateOK, Transiting
    <3>4. CASE mstate[m] = "COMPUTING" /\ computing'[m] = {}
      <4>1. mstate'[m] = "IDLE" /\ pstate'[m] \in CompPState
        BY <1>1, <1>6, <2>1, <3>1, <3>4
      <4> QED
        BY <3>4, <4>1 DEF StateOK, Transiting
    <3>5. CASE mstate[m] = "COMPUTING" /\ computing'[m] # {}
      <4>1. mstate'[m] = "COMPUTING" /\ pstate'[m] \in CompPState
        BY <1>1, <1>6, <3>1, <3>5
      <4> QED
        BY <3>5, <4>1 DEF StateOK, Transiting
    <3> QED
      BY <3>2, <3>3, <3>4, <3>5
  <2>2. CASE m \notin alloc[j]
    <3>0. computing[m] \ {j} = computing[m]
      BY <1>4, <2>2
    <3>1. computing'[m] = computing[m] /\ mstate'[m] = mstate[m]
      BY <1>6, <2>2, <3>0
    <3> QED
      BY <1>1, <1>2, <3>1 DEF StateOK, StillBack
  <2> QED
    BY <2>1, <2>2
<1>8. ComputesRunning'
  <2> SUFFICES ASSUME NEW m \in Machine
               PROVE  computing'[m] = {i \in Job : actor'[i] = "running" /\ m \in alloc[i]}
    BY <1>1 DEF ComputesRunning
  <2>1. computing[m] = {i \in Job : actor[i] = "running" /\ m \in alloc[i]}
    BY <1>2 DEF ComputesRunning
  <2> QED
    BY <1>1, <1>3, <1>6, <2>1
<1>9. JobsAwake'
  <2> SUFFICES ASSUME NEW i \in Job, NEW m \in alloc[i]
               PROVE  /\ actor'[i] \in {"created", "running"} => pstate[m] \in CompPState
                      /\ actor'[i] = "created" => mstate'[m] \in {"IDLE", "COMPUTING"}
    BY <1>1 DEF JobsAwake
  <2>1. m \in Machine
    BY <1>3
  <2> QED
    BY <1>2, <1>3, <1>6, <2>1 DEF JobsAwake
<1>10. SwitchersTransit'
  <2>1. \A s \in switcher : s.machine \notin alloc[j] /\ s.machine \in Machine
    BY <1>1, SwitchingIsFree
  <2> QED
    BY <1>1, <1>2, <1>6, <2>1 DEF SwitchersTransit
<1>11. SparedInv'
  BY <1>1, <1>2, <1>6 DEF SparedInv
<1> QED
  BY <1>5, <1>7, <1>8, <1>9, <1>10, <1>11, MachinesWhole

\* server_on_execute_job creates the actor of a job that had none.
LEMMA MachinesExecute ==
  ASSUME Types, JobsInv, MachinesInv, StillBack, server_on_execute_job
  PROVE  MachinesInv'
<1>1. /\ Receive("SCHED_EXECUTE_JOB") /\ UNCHANGED <<pstate, mstate, computing, switcher, alloc>>
      /\ actor' = [j \in Job |-> IF j \in Received.about THEN "created" ELSE actor[j]]
  BY DEF server_on_execute_job, machineVars, switchVars
<1>2. ~aborted /\ Received \in Mailed /\ Received \in Mail /\ Received.type = "SCHED_EXECUTE_JOB"
  BY <1>1, TakeStep
<1>3. (\A m \in Machine : StateOK(m)) /\ ComputesRunning /\ JobsAwake /\ SwitchersTransit /\ SparedInv
  BY <1>2, MachinesParts
<1>4. PICK j \in Job : Received.about = {j} /\ actor[j] = "none"
  BY <1>2, MailKinds DEF JobsInv
<1> SUFFICES ASSUME ~aborted' PROVE ComputesRunning' /\ JobsAwake'
  <2>1. \A m \in Machine : StateOK(m)'
    BY <1>1, <1>3 DEF StateOK, StillBack
  <2>2. SwitchersTransit' /\ SparedInv'
    BY <1>1, <1>3 DEF SwitchersTransit, SparedInv
  <2> QED
    BY <2>1, <2>2, MachinesWhole
<1>5. \A m \in alloc[j] : mstate[m] \in {"COMPUTING", "IDLE"} /\ pstate[m] \in CompPState
  <2>1. \A m \in UNION {alloc[i] : i \in Received.about} :
          mstate[m] \in {"COMPUTING", "IDLE"} /\ pstate[m] \in CompPState
    BY DEF server_on_execute_job, xbt_assert
  <2> QED
    BY <1>4, <2>1
<1>6. actor'[j] = "created" /\ \A i \in Job : i # j => actor'[i] = actor[i]
  BY <1>1, <1>4
<1>7. ComputesRunning'
  BY <1>1, <1>3, <1>4, <1>6 DEF ComputesRunning
<1>8. JobsAwake'
  BY <1>1, <1>3, <1>5, <1>6 DEF JobsAwake
<1> QED
  BY <1>7, <1>8

\* server_on_pstate_modification switches machines that compute nothing.
LEMMA MachinesRecorded ==
  ASSUME Types, SwitchersInv, RequestsInv, JobsInv, MachinesInv, StillBack,
         server_on_pstate_modification
  PROVE  MachinesInv'
<1> DEFINE T == Received.target
<1>1. /\ Receive("PSTATE_MODIFICATION") /\ UNCHANGED <<computing, actor, alloc>>
      /\ aborted' = (Asleep # {} /\ T \notin CompPState)
      /\ pstate' = [m \in Machine |-> IF m \in AtOnce THEN T ELSE pstate[m]]
      /\ mstate' = [m \in Machine |->
           CASE m \in Slow /\ T \in CompPState -> "TRANSITING_FROM_SLEEPING_TO_COMPUTING"
             [] m \in Slow /\ T \in SleepPState -> "TRANSITING_FROM_COMPUTING_TO_SLEEPING"
             [] OTHER -> mstate[m]]
      /\ switcher' = switcher \cup NewSwitchers
  BY Recording DEF jobVars
<1>2. ~aborted /\ Received \in Mailed /\ Received.type = "PSTATE_MODIFICATION" /\ ~Runnable
  BY <1>1, ReceiveMail
<1>3. (\A m \in Machine : StateOK(m)) /\ ComputesRunning /\ JobsAwake /\ SwitchersTransit /\ SparedInv
  BY <1>2, MachinesParts
<1>4. /\ Received.about \in SUBSET Switchable /\ T \in PState /\ Switchable \subseteq Machine
      /\ T \in CompPState \/ T \in SleepPState
      /\ CompPState \cap SleepPState = {} /\ Virtual \notin CompPState /\ Virtual \notin SleepPState
  BY NewRequestLemma, PStatesAssumption DEF PState
<1>5. /\ Slow \subseteq Received.about /\ AtOnce \subseteq Received.about /\ Slow \cap AtOnce = {}
      /\ \A m \in Slow : pstate[m] \in CompPState \cup SleepPState
      /\ \A m \in AtOnce : pstate[m] \in CompPState /\ T \in CompPState
      /\ \A m \in Slow : pstate[m] \in CompPState => T \notin CompPState
  BY <1>4 DEF Slow, AtOnce, Awake, Asleep
<1>6. \A s \in switcher : s.machine \in Machine /\ s.machine \notin Slow
  <2>1. \A s \in switcher : s.machine \in Machine /\ pstate[s.machine] = Virtual
    BY <1>2, <1>4, SwitchersCompute DEF Types, Switcher
  <2> QED
    BY <1>4, <1>5, <2>1
<1>7. /\ \A m \in Machine : /\ m \in Slow => mstate'[m] = TransitingTo(T) /\ pstate'[m] = pstate[m]
                            /\ m \notin Slow => mstate'[m] = mstate[m]
      /\ \A m \in Machine : m \in AtOnce => pstate'[m] = T
      /\ \A m \in Machine : m \notin AtOnce => pstate'[m] = pstate[m]
  BY <1>1, <1>4, <1>5 DEF TransitingTo
<1>8. \A j \in Job : actor[j] # "created"
  BY <1>2 DEF Runnable
<1>9. \A m \in Slow : computing[m] = {}
  <2> SUFFICES ASSUME NEW m \in Slow PROVE computing[m] = {}
    OBVIOUS
  <2>1. m \in Machine /\ m \in Received.about
    BY <1>4, <1>5
  <2>2. CASE pstate[m] \in SleepPState
    BY <1>2, <2>1, <2>2, SwitchingIsFree
  <2>3. CASE pstate[m] \in CompPState
    <3>1. T \in SleepPState
      BY <1>4, <1>5, <2>3
    <3>2. \A j \in Job : ~ (view[j] = "running" /\ m \in alloc[j])
      BY <1>2, <2>1, <3>1 DEF JobsInv
    <3>3. \A j \in Job : actor[j] = "running" => view[j] = "running"
      BY DEF JobsInv
    <3> QED
      BY <1>3, <2>1, <3>2, <3>3 DEF ComputesRunning
  <2> QED
    BY <1>5, <2>2, <2>3
<1>10. /\ \A m \in Slow : \E s \in switcher' : s.machine = m
       /\ \A s \in switcher' : s \in switcher \/ (s.machine \in Slow /\ s.target = T)
       /\ switcher \subseteq switcher'
  <2>1. ASSUME NEW m \in Slow PROVE \E s \in switcher' : s.machine = m
    <3> DEFINE s == [machine |-> m, target |-> T, phase |-> "created"]
    <3>1. s \in switcher' /\ s.machine = m
      BY <1>1 DEF NewSwitchers
    <3> QED
      BY <3>1
  <2> QED
    BY <1>1, <2>1 DEF NewSwitchers
<1> HIDE DEF T
<1>11. ASSUME NEW m \in Machine PROVE StateOK(m)'
  <2>1. CASE m \in Slow
    <3>1. Transiting(mstate'[m]) /\ mstate'[m] \notin {"IDLE", "COMPUTING", "SLEEPING", "UNAVAILABLE"}
      BY <1>7, <2>1 DEF Transiting, TransitingTo
    <3> QED
      BY <1>1, <1>9, <1>10, <2>1, <3>1 DEF StateOK
  <2>2. CASE m \in AtOnce
    <3>1. /\ mstate'[m] = mstate[m] /\ pstate'[m] \in CompPState /\ mstate[m] # "SLEEPING"
          /\ computing'[m] = computing[m]
      BY <1>1, <1>3, <1>4, <1>5, <1>7, <2>2 DEF StateOK
    <3> QED
      BY <1>3, <1>10, <3>1 DEF StateOK
  <2>3. CASE m \notin Slow /\ m \notin AtOnce
    BY <1>1, <1>3, <1>7, <1>10, <2>3 DEF StateOK, StillBack
  <2> QED
    BY <2>1, <2>2, <2>3
<1>12. ComputesRunning'
  BY <1>1, <1>3 DEF ComputesRunning
<1>13. JobsAwake'
  <2>1. \A j \in Job : alloc[j] \subseteq Machine
    BY DEF Types
  <2>2. \A m \in Machine : pstate[m] \in CompPState => pstate'[m] \in CompPState
    BY <1>5, <1>7
  <2> QED
    BY <1>1, <1>3, <1>8, <2>1, <2>2 DEF JobsAwake
<1>14. SwitchersTransit'
  <2>1. \A s \in switcher' : s.machine \in Slow => s.machine \in Machine
    BY <1>4, <1>5
  <2> QED
    BY <1>3, <1>6, <1>7, <1>10, <2>1 DEF SwitchersTransit
<1>15. SparedInv'
  BY <1>3, <1>4, <1>5, <1>7 DEF SparedInv
<1> QED
  BY <1>11, <1>12, <1>13, <1>14, <1>15, MachinesWhole

----------------------------------------------------------------------------
\* An availability event, whether its machines are switched or not: it leaves their
\* jobs, their power states and their switchers alone.
LEMMA MachinesEvents ==
  ASSUME Types, MachinesInv, StillBack, Handles,
         server_on_event_machine_available =>
           \A m \in Received.about : m \in Switchable => CameBack(m)'
  PROVE  MachinesInv'
<1> DEFINE S == Received.about
<1>1. PICK type \in {"available", "unavailable"} : Receive(type)
  BY DEF Handles, server_on_event_machine_unavailable, server_on_event_machine_available
<1>2. /\ ~aborted /\ \A j \in Job : actor[j] # "created"
      /\ \A s \in switcher : s.phase # "created"
  BY <1>1, TakeStep
<1>3. (\A m \in Machine : StateOK(m)) /\ ComputesRunning /\ JobsAwake /\ SwitchersTransit /\ SparedInv
  BY <1>2, MachinesParts
<1>4. UNCHANGED <<pstate, computing, actor, alloc, switcher>>
  BY DEF Handles, server_on_event_machine_unavailable, server_on_event_machine_available,
         jobVars, switchVars
<1> SUFFICES ASSUME ~aborted' PROVE MachinesInv'
  BY MachinesWhole
<1>5. \A m \in Machine :
        /\ m \notin S => mstate'[m] = mstate[m]
        /\ m \in S => \/ mstate'[m] = "UNAVAILABLE"
                      \/ server_on_event_machine_available /\ mstate'[m] = BackTo(m)
  BY DEF Handles, server_on_event_machine_unavailable, server_on_event_machine_available
<1>6. \A m \in Machine : computing[m] # {} => pstate[m] \in CompPState
  BY <1>3 DEF ComputesRunning, JobsAwake
<1>7. ASSUME NEW m \in Machine PROVE StateOK(m)'
  <2>1. CASE m \notin S
    BY <1>3, <1>4, <1>5, <2>1 DEF StateOK, StillBack
  <2>2. CASE m \in S /\ mstate'[m] = "UNAVAILABLE"
    BY <2>2 DEF StateOK, Transiting
  <2>3. CASE m \in S /\ server_on_event_machine_available /\ mstate'[m] = BackTo(m)
    <3>1. mstate'[m] = IF computing'[m] = {} THEN "IDLE" ELSE "COMPUTING"
      BY <1>4, <2>3 DEF BackTo
    <3>2. /\ pstate'[m] \in CompPState \/ CameBack(m)'
          /\ computing'[m] # {} => pstate'[m] \in CompPState
      BY <1>3, <1>4, <1>6, <2>3 DEF SparedInv
    <3> QED
      BY <3>1, <3>2 DEF StateOK, Transiting
  <2> QED
    BY <1>5, <2>1, <2>2, <2>3
<1>8. ComputesRunning'
  BY <1>3, <1>4 DEF ComputesRunning
<1>9. JobsAwake'
  BY <1>2, <1>3, <1>4 DEF JobsAwake
<1>10. SwitchersTransit'
  BY <1>2, <1>4 DEF SwitchersTransit
<1>11. SparedInv'
  BY <1>3, <1>4 DEF SparedInv
<1> QED
  BY <1>7, <1>8, <1>9, <1>10, <1>11, MachinesWhole

\* The other steps change neither machines nor actors.
LEMMA MachinesElsewhere ==
  ASSUME Types, JobsInv, MachinesInv, StillBack, [Next]_vars
  PROVE  \/ MachinesInv' /\ UNCHANGED <<pstate, mstate, computing, switcher, actor>>
         \/ server_on_execute_job \/ server_on_pstate_modification \/ Handles
         \/ \E s \in switcher : SwitcherStarts(s) \/ SwitcherEnds(s)
         \/ \E j \in Job : JobStarts(j) \/ JobEnds(j)
<1>1. CASE server_on_switched \/ server_on_job_completed \/ server_on_sched_ready \/ ServerSendsEvents
  <2>1. ~aborted /\ UNCHANGED <<pstate, mstate, computing, switcher, actor, alloc>>
    BY <1>1 DEF server_on_switched, server_on_job_completed, server_on_sched_ready, ServerSendsEvents,
       Receive, machineVars, jobVars, switchVars
  <2> QED
    BY <2>1, MachinesFrame
<1>2. CASE \/ EventOccurs \/ EndReply \/ UNCHANGED vars
           \/ \E S \in SUBSET Switchable, target \in PState : SetResourceState(S, target)
  <2>1. UNCHANGED <<pstate, mstate, computing, switcher, actor, alloc, aborted>>
    BY <1>2 DEF EventOccurs, EndReply, vars, SetResourceState, machineVars, jobVars, switchVars
  <2> QED
    BY <2>1, MachinesFrame
<1>3. ASSUME NEW j \in Job, NEW S \in SUBSET Machine, Execute(j, S)
      PROVE  MachinesInv' /\ UNCHANGED <<pstate, mstate, computing, switcher, actor>>
  <2>1. /\ ~aborted /\ UNCHANGED <<pstate, mstate, computing, switcher, actor, aborted>>
        /\ alloc' = [alloc EXCEPT ![j] = S] /\ view[j] = "waiting"
    BY <1>3 DEF Execute, machineVars, switchVars
  <2>2. actor[j] = "none" /\ \A i \in Job : i # j => alloc'[i] = alloc[i]
    BY <2>1 DEF JobsInv, Types
  <2>3. (\A m \in Machine : StateOK(m)) /\ ComputesRunning /\ JobsAwake /\ SwitchersTransit /\ SparedInv
    BY <2>1, MachinesParts
  <2>4. \A m \in Machine : StateOK(m)'
    BY <2>1, <2>3 DEF StateOK, StillBack
  <2>5. ComputesRunning'
    <3> SUFFICES ASSUME NEW m \in Machine
                 PROVE  computing[m] = {i \in Job : actor[i] = "running" /\ m \in alloc'[i]}
      BY <2>1 DEF ComputesRunning
    <3>1. computing[m] = {i \in Job : actor[i] = "running" /\ m \in alloc[i]}
      BY <2>3 DEF ComputesRunning
    <3>2. \A i \in Job : actor[i] = "running" => alloc'[i] = alloc[i]
      BY <2>2
    <3> QED
      BY <3>1, <3>2
  <2>6. JobsAwake'
    <3>2. \A i \in Job : actor[i] \in {"created", "running"} => alloc'[i] = alloc[i]
      BY <2>2
    <3> QED
      BY <2>1, <2>3, <3>2 DEF JobsAwake
  <2>7. SwitchersTransit' /\ SparedInv'
    BY <2>1, <2>3 DEF SwitchersTransit, SparedInv
  <2> QED
    BY <2>1, <2>4, <2>5, <2>6, <2>7, MachinesWhole
<1> QED
  BY <1>1, <1>2, <1>3 DEF Next, ServerStep, Handles

\* Every step preserves MachinesInv.
LEMMA MachinesKept ==
  ASSUME Base, Types', ChangesInv, JobsInv, MachinesInv, [Next]_vars
  PROVE  MachinesInv'
<1>1. Types /\ SwitchersInv /\ RequestsInv
  BY DEF Base
<1>2. StillBack
  BY <1>1, ComingBack
<1>3. CASE Handles
  BY <1>1, <1>2, <1>3, ComingBack, MachinesEvents
<1> QED
  BY <1>1, <1>2, <1>3, MachinesElsewhere, MachinesExecute, MachinesRecorded, MachinesStart, MachinesSwitched,
     MachinesRun, MachinesEnd

----------------------------------------------------------------------------
\* DownInv

\* Every step preserves DownInv.
LEMMA DownKept ==
  ASSUME Base, Types', ChangesInv, JobsInv, MachinesInv, DownInv, [Next]_vars
  PROVE  DownInv'
<1>0. Types /\ Len(AvailabilityEvents) \in Nat /\ Switchable \subseteq Machine
  BY EventsOfList, PStatesAssumption DEF Base
<1>1. CASE ~Handles
  <2>1. Handled' = Handled
    BY <1>0, <1>1, ChangesKept
  <2>2. \A m \in Machine : Down(m)' <=> Down(m)
    BY <2>1 DEF Down, DownAfter
  <2> SUFFICES ASSUME NEW m \in Machine
               PROVE  /\ mstate[m] # "UNAVAILABLE" => mstate'[m] # "UNAVAILABLE"
                      /\ m \notin Switchable /\ mstate[m] = "UNAVAILABLE" => mstate'[m] = "UNAVAILABLE"
    BY <2>2 DEF DownInv
  <2>3. CASE UNCHANGED mstate
    BY <2>3
  <2>4. ASSUME NEW s \in switcher, SwitcherEnds(s)
        PROVE  /\ mstate[m] # "UNAVAILABLE" => mstate'[m] # "UNAVAILABLE"
               /\ m \notin Switchable => mstate'[m] = mstate[m]
    <3>1. s.machine \in Switchable /\ mstate \in [Machine -> MState]
      BY <1>0 DEF Types, Switcher
    <3> QED
      BY <2>4, <3>1 DEF SwitcherEnds, SwitchedState
  <2>5. ASSUME NEW j \in Job, JobStarts(j) \/ JobEnds(j)
        PROVE  mstate[m] = "UNAVAILABLE" <=> mstate'[m] = "UNAVAILABLE"
    <3>1. JobStarts(j) => ~aborted /\ actor[j] = "created"
      BY DEF JobStarts
    <3>2. JobStarts(j) /\ m \in alloc[j] => mstate[m] \in {"IDLE", "COMPUTING"}
      BY <3>1, MachinesParts DEF JobsAwake
    <3> QED
      BY <2>5, <3>2 DEF JobStarts, JobEnds, IdleAgain
  <2>6. CASE server_on_pstate_modification
    <3>1. Received.about \in SUBSET Switchable
      BY <1>0, <2>6, NewRequestLemma DEF Base
    <3>2. m \notin Switchable => m \notin Slow
      BY <3>1 DEF Slow, Awake, Asleep
    <3> QED
      BY <2>6, <3>2, Recording
  <2>7. server_on_execute_job \/ (\E s \in switcher : SwitcherStarts(s)) => UNCHANGED mstate
    BY DEF server_on_execute_job, machineVars, SwitcherStarts
  <2>8. StillBack
    BY <1>0, ComingBack
  <2> QED
    BY <1>0, <1>1, <2>3, <2>4, <2>5, <2>6, <2>7, <2>8, MachinesElsewhere
<1>2. CASE Handles
  <2> DEFINE S == Received.about
             n == occurred - 1
  <2>1. /\ occurred \in 1..Len(AvailabilityEvents) /\ Handled = n /\ Handled' = n + 1
        /\ Received.type = AvailabilityEvents[n + 1].type /\ S = AvailabilityEvents[n + 1].about
        /\ n \in Nat
    BY <1>0, <1>2, ChangesKept
  <2> SUFFICES ASSUME NEW m \in Machine
               PROVE  /\ mstate'[m] = "UNAVAILABLE" => Down(m)'
                      /\ Down(m)' /\ m \notin Switchable => mstate'[m] = "UNAVAILABLE"
    BY DEF DownInv
  <2>2. Down(m)' <=> DownAfter(n + 1, m)
    BY <2>1 DEF Down, DownAfter
  <2>3. Down(m) <=> DownAfter(n, m)
    BY <2>1 DEF Down
  <2>4. DownAfter(n + 1, m) <=> IF m \in S THEN Received.type = "unavailable" ELSE DownAfter(n, m)
    BY <2>1, DownStep
  <2>5. CASE server_on_event_machine_unavailable
    <3>1. Received.type = "unavailable" /\ mstate'[m] = IF m \in S THEN "UNAVAILABLE" ELSE mstate[m]
      BY <2>5 DEF server_on_event_machine_unavailable, Receive
    <3> QED
      BY <2>2, <2>3, <2>4, <3>1 DEF DownInv
  <2>6. CASE server_on_event_machine_available
    <3>1. Received.type = "available" /\ mstate'[m] = IF m \in S THEN BackTo(m) ELSE mstate[m]
      BY <2>6 DEF server_on_event_machine_available, Receive
    <3>2. BackTo(m) # "UNAVAILABLE"
      BY DEF BackTo
    <3> QED
      BY <2>2, <2>3, <2>4, <3>1, <3>2 DEF DownInv
  <2> QED
    BY <1>2, <2>5, <2>6 DEF Handles
<1> QED
  BY <1>1, <1>2

----------------------------------------------------------------------------
\* The invariant, for any scheduler.
MachineBase == Base /\ ChangesInv /\ JobsInv /\ MachinesInv /\ DownInv

\* MachineBase holds initially.
LEMMA MachineInit ==
  ASSUME Init
  PROVE  MachineBase
<1>1. Base /\ Types /\ Mailed = {} /\ Buffered = {}
  BY BaseInit, Initially DEF Base
<1>2. /\ pstate \in [Machine -> CompPState] /\ mstate = [m \in Machine |-> "IDLE"]
      /\ computing = [m \in Machine |-> {}] /\ alloc = [j \in Job |-> {}]
      /\ actor = [j \in Job |-> "none"] /\ switcher = {} /\ mailbox = <<>> /\ occurred = 0
      /\ view = [j \in Job |-> "waiting"]
  BY DEF Init
<1>3. CountIn(mailbox, Changes) = 0
  BY <1>2, CountEmpty
<1>4. ChangesInv
  BY <1>1, <1>3 DEF ChangesInv
<1>5. JobsInv
  BY <1>1, <1>2 DEF JobsInv
<1>6. MachinesInv
  BY <1>2 DEF MachinesInv, StateMatchesPState, ComputesRunning, JobsAwake, SwitchersTransit, SparedInv,
     Transiting
<1>7. DownInv
  <2>1. Handled = 0
    BY <1>1, <1>2, <1>3, HandledIs
  <2> QED
    BY <1>2, <2>1 DEF DownInv, Down, DownAfter
<1> QED
  BY <1>1, <1>4, <1>5, <1>6, <1>7 DEF MachineBase

\* Every step preserves MachineBase.
LEMMA MachineKept ==
  ASSUME MachineBase, [Next]_vars
  PROVE  MachineBase'
<1>1. Base /\ ChangesInv /\ JobsInv /\ MachinesInv /\ DownInv /\ Types
  BY DEF MachineBase, Base
<1>2. Base' /\ Types'
  BY <1>1, BaseKept DEF Base
<1>3. ChangesInv'
  BY <1>1, <1>2, ChangesKept
<1>4. JobsInv'
  BY <1>1, <1>2, JobsKept
<1>5. MachinesInv' /\ DownInv'
  BY <1>1, <1>2, MachinesKept, DownKept
<1> QED
  BY <1>2, <1>3, <1>4, <1>5 DEF MachineBase

\* MachineBase is an invariant.
LEMMA MachineHolds == Spec => []MachineBase
<1>1. Init => MachineBase
  BY MachineInit
<1>2. MachineBase /\ [Next]_vars => MachineBase'
  BY MachineKept
<1> QED
  BY <1>1, <1>2, PTL DEF Spec

(***************************************************************************)
(* Machine::state, which the server, the switchers, the job actors and the *)
(* availability events all write, says what the host is doing, whatever    *)
(* the scheduler asks for and however often, and whichever machines fail.  *)
(***************************************************************************)
THEOREM StatesMatch == Spec => []StateMatchesPState
<1>1. MachineBase => StateMatchesPState
  BY DEF MachineBase, MachinesInv, StateMatchesPState
<1> QED
  BY <1>1, MachineHolds, PTL

----------------------------------------------------------------------------
\* The assertions, for a patient scheduler and alternating events.

\* Every step preserves ExecuteInv.
LEMMA ExecuteKept ==
  ASSUME Base, Base', ExecuteInv, [Next]_vars
  PROVE  ExecuteInv'
<1>0. Types /\ Types' /\ OneDecision /\ OneDecision'
  BY DEF Base
<1>1. CASE sched' # "blocked"
  BY <1>0, <1>1, NoDecisionNext DEF ExecuteInv
<1>2. ASSUME NEW j \in Job, NEW S \in SUBSET Machine, Execute(j, S) PROVE ExecuteInv'
  <2>1. /\ sched = "run" /\ \A m \in S : Usable(m)
        /\ alloc' = [alloc EXCEPT ![j] = S] /\ view' = [view EXCEPT ![j] = "running"]
        /\ UNCHANGED <<pending, wanted, told_down>>
    BY <1>2 DEF Execute
  <2>2. PICK n \in Mail : Put(n) /\ n.type = "SCHED_EXECUTE_JOB" /\ n.about = {j}
    BY <1>0, <1>2, Puts
  <2>3. Mailed' = Mailed \cup {n}
    BY <1>0, <2>2, PutMail
  <2>4. \A x \in Mailed : x.type # "SCHED_EXECUTE_JOB"
    BY <1>0, <2>1, NoDecision
  <2>5. alloc'[j] = S /\ \A i \in Job \ {j} : alloc'[i] = alloc[i] /\ view'[i] = view[i]
    BY <1>0, <2>1 DEF Types
  <2>6. \A m \in S : /\ m \notin told_down /\ pending[m] = 0 /\ wanted[m] \in CompPState
                     /\ AllowSharing \/ \A i \in Job : ~ (view[i] = "running" /\ m \in alloc[i])
    BY <2>1 DEF Usable, Busy
  <2> SUFFICES ASSUME NEW x \in Mailed', NEW i \in Job, x.type = "SCHED_EXECUTE_JOB", i \in x.about,
                      NEW m \in alloc'[i]
               PROVE  /\ m \notin told_down' /\ pending'[m] = 0 /\ wanted'[m] \in CompPState
                      /\ AllowSharing \/ \A k \in Job \ {i} : ~ (view'[k] = "running" /\ m \in alloc'[k])
    BY DEF ExecuteInv
  <2>7. i = j
    BY <2>2, <2>3, <2>4
  <2> QED
    BY <2>1, <2>5, <2>6, <2>7
<1>3. CASE \/ \E S \in SUBSET Switchable, target \in PState : SetResourceState(S, target)
           \/ EndReply
  <2>1. sched = "run" /\ \E n \in Mail : Put(n) /\ n.type # "SCHED_EXECUTE_JOB"
    BY <1>0, <1>3, Puts DEF SetResourceState, EndReply
  <2>2. \A x \in Mailed : x.type # "SCHED_EXECUTE_JOB"
    BY <1>0, <2>1, NoDecision
  <2>3. \A x \in Mailed' : x.type # "SCHED_EXECUTE_JOB"
    BY <1>0, <2>1, <2>2, PutMail
  <2> QED
    BY <2>3 DEF ExecuteInv
<1>4. ASSUME UNCHANGED <<alloc, view, told_down, pending, wanted>>,
             \A x \in Mailed' : x.type = "SCHED_EXECUTE_JOB" => x \in Mailed
      PROVE  ExecuteInv'
  BY <1>4 DEF ExecuteInv
<1>5. CASE ServerStep /\ sched' = "blocked"
  <2>1. UNCHANGED alloc /\ \E type \in {"SWITCHED", "unavailable", "available", "JOB_COMPLETED"} : Receive(type)
    BY <1>5, Reporting DEF ServerStep, server_on_execute_job, server_on_pstate_modification,
       server_on_event_machine_unavailable, server_on_event_machine_available, server_on_job_completed,
       server_on_sched_ready, ServerSendsEvents, jobVars
  <2> QED
    BY <1>0, <1>4, <2>1, TakeStep
<1>6. CASE \/ \E s \in switcher : SwitcherStarts(s) \/ SwitcherEnds(s)
           \/ \E j \in Job : JobStarts(j) \/ JobEnds(j)
           \/ EventOccurs \/ UNCHANGED vars
  <2>1. UNCHANGED <<alloc, view, told_down, pending, wanted>>
    BY <1>6 DEF SwitcherStarts, SwitcherEnds, JobStarts, JobEnds, EventOccurs, vars, schedVars, jobVars
  <2>2. \/ \E x \in Mail : Put(x) /\ x.type # "SCHED_EXECUTE_JOB"
        \/ UNCHANGED mailbox
    BY <1>0, <1>6, Puts DEF SwitcherStarts, JobStarts, vars
  <2>3. \A x \in Mailed' : x.type = "SCHED_EXECUTE_JOB" => x \in Mailed
    BY <1>0, <2>2, PutMail DEF Mailed
  <2> QED
    BY <1>4, <2>1, <2>3
<1> QED
  BY <1>1, <1>2, <1>3, <1>5, <1>6 DEF Next

\* ExecuteInv is an invariant.
LEMMA ExecuteHolds == Spec => []ExecuteInv
<1>1. Init => ExecuteInv /\ Base
  BY BaseInit, Initially DEF ExecuteInv
<1>2. ExecuteInv /\ Base /\ [Next]_vars => ExecuteInv' /\ Base'
  BY BaseKept, ExecuteKept
<1> QED
  BY <1>1, <1>2, PTL DEF Spec

----------------------------------------------------------------------------
\* The assertion of server_on_execute_job fails only on a machine that has become
\* unavailable.
LEMMA ExecuteAborts ==
  ASSUME PatientBase, MachineBase, ExecuteInv, server_on_execute_job, aborted'
  PROVE  StaleExecution
<1>0. Types /\ JobsInv /\ MachinesInv /\ DownInv
  BY DEF MachineBase, Base
<1>1. /\ Receive("SCHED_EXECUTE_JOB")
      /\ ~ \A m \in UNION {alloc[j] : j \in Received.about} :
             /\ AllowSharing \/ computing[m] = {}
             /\ mstate[m] \in {"COMPUTING", "IDLE"}
             /\ pstate[m] \in CompPState
  BY DEF server_on_execute_job, xbt_assert
<1>2. ~aborted /\ Received \in Mailed /\ Received \in Mail /\ Received.type = "SCHED_EXECUTE_JOB"
  BY <1>0, <1>1, TakeStep
<1>3. PICK j \in Job : Received.about = {j}
  BY <1>2, MailKinds
<1>4. PICK m \in alloc[j] : ~ (/\ AllowSharing \/ computing[m] = {}
                               /\ mstate[m] \in {"COMPUTING", "IDLE"}
                               /\ pstate[m] \in CompPState)
  BY <1>1, <1>3
<1>5. m \in Machine /\ mstate[m] \in MState
  BY <1>0 DEF Types
<1>6. (\A k \in Machine : StateOK(k)) /\ ComputesRunning
  BY <1>0, <1>2, MachinesParts
<1>7. /\ m \notin told_down /\ pending[m] = 0 /\ wanted[m] \in CompPState
      /\ AllowSharing \/ \A i \in Job \ {j} : ~ (view[i] = "running" /\ m \in alloc[i])
  BY <1>2, <1>3, <1>4 DEF ExecuteInv
<1>8. pstate[m] \in CompPState
  BY <1>5, <1>7 DEF PatientBase, WantedInv
<1>9. AllowSharing \/ computing[m] = {}
  <2>1. actor[j] = "none"
    BY <1>0, <1>2, <1>3 DEF JobsInv
  <2>2. \A i \in Job : actor[i] = "running" => view[i] = "running" /\ i # j
    BY <1>0, <2>1 DEF JobsInv
  <2> QED
    BY <1>5, <1>6, <1>7, <2>2 DEF ComputesRunning
<1>10. ~Transiting(mstate[m])
  <2>1. \A s \in switcher : s.machine # m
    <3> SUFFICES ASSUME NEW s \in switcher, s.machine = m PROVE FALSE
      OBVIOUS
    <3>1. PICK r \in switches : m \in r.left
      BY DEF PatientBase, SwitchInv, SwitchersAwaited
    <3>2. m \in r.all
      BY <3>1 DEF PatientBase, Base, RequestsInv
    <3> QED
      BY <1>5, <1>7, <3>2, OneRequestEach DEF PatientBase
  <2> QED
    BY <1>5, <1>6, <2>1 DEF StateOK
<1>11. mstate[m] = "UNAVAILABLE"
  <2>1. CompPState \cap SleepPState = {}
    BY PStatesAssumption
  <2> QED
    BY <1>4, <1>5, <1>6, <1>8, <1>9, <1>10, <2>1 DEF MState, StateOK, Transiting
<1> QED
  BY <1>0, <1>3, <1>5, <1>7, <1>11 DEF DownInv, StaleExecution

\* Of the other assertions, only that of a machine's return can fail.
LEMMA NothingElseAborts ==
  ASSUME Patient, EventsAlternate, PatientBase, MachineBase, Next, aborted'
  PROVE  server_on_execute_job \/ SwitchedWhileDown
<1>0. Base /\ Types /\ SwitchersInv /\ RequestsInv /\ JobsInv /\ MachinesInv /\ DownInv /\ ChangesInv
  BY DEF MachineBase, Base
<1>1. Types' /\ Base'
  BY <1>0, BaseKept DEF Base
<1>2. \A s \in switcher : ~SwitcherStarts(s) /\ ~SwitcherEnds(s)
  BY <1>0, <1>1, ComingBack, MachinesStart DEF SwitcherEnds
<1>3. \A j \in Job : ~JobStarts(j) /\ ~JobEnds(j)
  BY <1>0, <1>1, ComingBack, MachinesEnd DEF JobStarts
<1>4. ~server_on_pstate_modification
  <2> SUFFICES ASSUME server_on_pstate_modification PROVE FALSE
    OBVIOUS
  <2>1. Receive("PSTATE_MODIFICATION") /\ Asleep # {} /\ Received.target \notin CompPState
    BY Recording
  <2>2. Received \in Mailed /\ Received.type = "PSTATE_MODIFICATION" /\ Received.target \in SleepPState
    BY <1>0, <2>1, TakeStep, NewRequestLemma DEF PState
  <2>3. \A m \in Received.about : pstate[m] \in CompPState
    BY <2>2 DEF PatientBase, WantedInv
  <2> QED
    BY <2>1, <2>3, PStatesAssumption DEF Asleep
<1>5. ~server_on_switched
  <2> SUFFICES ASSUME server_on_switched PROVE FALSE
    OBVIOUS
  <2>1. PICK m \in Machine, r \in switches :
          /\ ReportsTo(m, r) /\ pstate[m] = r.target /\ \A q \in switches : m \in q.all => q = r
    BY <1>0, <1>1, ReportedRequest DEF PatientBase
  <2>2. Received.about = {m} /\ r.target = Received.target /\ m \in r.left
    BY <2>1 DEF ReportsTo
  <2>3. r \in Credited(switches, m, Received.target)
    <3>1. r.number <= r.number /\ \A q \in switches : q.left \subseteq q.all
      BY <1>0 DEF Types, Request, RequestsInv
    <3> QED
      BY <2>1, <2>2, <3>1 DEF Credited
  <2>4. ~ \A k \in Received.about : /\ pstate[k] = Received.target
                                    /\ Credited(switches, k, Received.target) # {}
    BY Reporting
  <2> QED
    BY <2>1, <2>2, <2>3, <2>4
<1>6. ASSUME Handles PROVE SwitchedWhileDown
  <2>1. /\ occurred \in 1..Len(AvailabilityEvents) /\ Handled = occurred - 1
        /\ Received.type = AvailabilityEvents[occurred].type
        /\ Received.about = AvailabilityEvents[occurred].about
    BY <1>0, <1>1, <1>6, ChangesKept
  <2>2. \A m \in Received.about : m \in Machine
    BY <2>1, EventsOfList
  <2>3. \A m \in Received.about : Received.type = "unavailable" <=> ~Down(m)
    BY <2>1 DEF EventsAlternate, Down
  <2>4. \A m \in Received.about : Received.type = "unavailable" => mstate[m] # "UNAVAILABLE"
    BY <1>0, <2>2, <2>3 DEF DownInv
  <2>5. \/ Received.type = "unavailable" /\ ~ \A m \in Received.about : mstate[m] # "UNAVAILABLE"
        \/ /\ server_on_event_machine_available /\ Received.type = "available"
           /\ ~ \A m \in Received.about : mstate[m] = "UNAVAILABLE"
    BY <1>6 DEF Handles, server_on_event_machine_unavailable, server_on_event_machine_available, Receive,
                xbt_assert
  <2>6. PICK m \in Received.about : mstate[m] # "UNAVAILABLE"
    BY <2>4, <2>5
  <2>7. server_on_event_machine_available /\ Down(m)
    BY <2>3, <2>4, <2>5
  <2>8. m \in Switchable
    BY <1>0, <2>2, <2>6, <2>7 DEF DownInv
  <2> QED
    BY <2>6, <2>7, <2>8 DEF SwitchedWhileDown
<1>7. /\ ~server_on_job_completed /\ ~server_on_sched_ready /\ ~ServerSendsEvents /\ ~EventOccurs
      /\ \A j \in Job, S \in SUBSET Machine : ~Execute(j, S)
      /\ \A S \in SUBSET Switchable, target \in PState : ~SetResourceState(S, target)
      /\ ~EndReply
  BY DEF server_on_job_completed, server_on_sched_ready, ServerSendsEvents, EventOccurs, Execute,
         SetResourceState, EndReply, Receive
<1> QED
  BY <1>2, <1>3, <1>4, <1>5, <1>6, <1>7 DEF Next, ServerStep, Handles

(***************************************************************************)
(* With a patient scheduler and alternating events, of all the assertions  *)
(* of the handlers, the switchers and the job actors two only can fail:    *)
(* that of server_on_execute_job, on a machine whose unavailability the    *)
(* scheduler has not been told, and that of the return of a machine which  *)
(* was switched while it was away.                                         *)
(***************************************************************************)
THEOREM OnlyStaleAborts ==
  ASSUME Patient, EventsAlternate
  PROVE  Spec => OnlyStaleDecisionsAbort
<1>1. PatientBase /\ MachineBase /\ ExecuteInv /\ [Next]_vars
        => [aborted' => aborted \/ StaleExecution \/ SwitchedWhileDown]_vars
  BY NothingElseAborts, ExecuteAborts
<1> QED
  BY <1>1, PatientHolds, MachineHolds, ExecuteHolds, PTL DEF Spec, OnlyStaleDecisionsAbort

----------------------------------------------------------------------------
\* Jobs and machines that went away

\* What the scheduler knows when it has read the buffer.
ToldNext(m) ==
  \/ Notified(m, "event_machine_unavailable")
  \/ m \in told_down /\ ~Notified(m, "event_machine_available")

\* The scheduler has been told, or will be with the next events, that a machine went
\* away; when the state of that machine was overwritten by a switch, it has been told
\* or it still waits for the answer to its request.
ToldInv ==
  \A m \in Machine : Down(m) =>
    /\ ToldNext(m)
    /\ mstate[m] # "UNAVAILABLE" => m \in told_down \/ pending[m] # 0

\* The jobs about to start are not on machines that went away.
StartInv == ~aborted => \A j \in Job : actor[j] = "created" => \A m \in alloc[j] : ~Down(m)

\* Events that are not about the availability of a machine do not change what the
\* buffer says of it.
LEMMA SameNotified ==
  ASSUME Types, NEW t \in Seq(Event), outbox' = outbox \o t, NEW m,
         \A i \in 1..Len(t) : ~ (/\ t[i].type \in {"event_machine_available", "event_machine_unavailable"}
                                 /\ m \in t[i].about),
         NEW type \in {"event_machine_available", "event_machine_unavailable"}
  PROVE  Notified(m, type)' <=> Notified(m, type)
<1> DEFINE About(e) == /\ e.type \in {"event_machine_available", "event_machine_unavailable"}
                       /\ m \in e.about
<1>1. /\ outbox \in Seq(Event) /\ Len(outbox) \in Nat /\ Len(t) \in Nat
      /\ Len(outbox') = Len(outbox) + Len(t)
      /\ \A i \in 1..Len(outbox) : outbox'[i] = outbox[i]
      /\ \A i \in 1..Len(t) : outbox'[Len(outbox) + i] = t[i]
  BY DEF Types
<1>2. \A i \in 1..Len(outbox') : i \notin 1..Len(outbox) => ~About(outbox'[i])
  <2> SUFFICES ASSUME NEW i \in 1..Len(outbox'), i \notin 1..Len(outbox) PROVE ~About(outbox'[i])
    OBVIOUS
  <2>1. i - Len(outbox) \in 1..Len(t) /\ i = Len(outbox) + (i - Len(outbox))
    BY <1>1
  <2> QED
    BY <1>1, <2>1
<1>3. \A i \in 1..Len(outbox) : i \in 1..Len(outbox') /\ (About(outbox'[i]) <=> About(outbox[i]))
  BY <1>1
<1>4. \A k \in 1..Len(outbox) : /\ \A i \in (k+1)..Len(outbox) : i \in (k+1)..Len(outbox') /\ i \in 1..Len(outbox)
                                /\ \A i \in (k+1)..Len(outbox') : i \in 1..Len(outbox') /\
                                     (i \in 1..Len(outbox) => i \in (k+1)..Len(outbox))
  BY <1>1
<1>5. Notified(m, type) <=> \E k \in 1..Len(outbox) :
         /\ outbox[k].type = type /\ m \in outbox[k].about
         /\ \A i \in (k+1)..Len(outbox) : ~About(outbox[i])
  BY DEF Notified
<1>6. Notified(m, type)' <=> \E k \in 1..Len(outbox') :
         /\ outbox'[k].type = type /\ m \in outbox'[k].about
         /\ \A i \in (k+1)..Len(outbox') : ~About(outbox'[i])
  BY DEF Notified
<1>7. ASSUME NEW k \in 1..Len(outbox')
      PROVE  outbox'[k].type = type /\ m \in outbox'[k].about => k \in 1..Len(outbox)
  BY <1>2
<1>8. ASSUME NEW k \in 1..Len(outbox)
      PROVE  (\A i \in (k+1)..Len(outbox') : ~About(outbox'[i]))
               <=> (\A i \in (k+1)..Len(outbox) : ~About(outbox[i]))
  <2> HIDE DEF About
  <2> QED
    BY <1>2, <1>3, <1>4
<1> HIDE DEF About
<1> QED
  BY <1>1, <1>3, <1>5, <1>6, <1>7, <1>8

\* What a step buffers: nothing, an event about a job or power states, or the
\* notification of the event it handles.
LEMMA Buffering ==
  ASSUME Base, [Next]_vars, ~ServerSendsEvents, NEW m \in Machine,
         Handles => m \notin Received.about,
         NEW type \in {"event_machine_available", "event_machine_unavailable"}
  PROVE  Notified(m, type)' <=> Notified(m, type)
<1>0. Types /\ RequestsInv
  BY DEF Base
<1>1. CASE UNCHANGED outbox
  BY <1>1 DEF Notified
<1>2. ASSUME NEW e \in Event, outbox' = Append(outbox, e),
             ~ (/\ e.type \in {"event_machine_available", "event_machine_unavailable"}
                /\ m \in e.about)
      PROVE  Notified(m, type)' <=> Notified(m, type)
  <2> DEFINE t == <<e>>
  <2>1. t \in Seq(Event) /\ Len(t) = 1 /\ t[1] = e /\ outbox' = outbox \o t
    BY <1>0, <1>2 DEF Types
  <2> HIDE DEF t
  <2>2. \A i \in 1..Len(t) : ~ (/\ t[i].type \in {"event_machine_available", "event_machine_unavailable"}
                                /\ m \in t[i].about)
    BY <1>2, <2>1
  <2> QED
    BY <1>0, <2>1, <2>2, SameNotified
<1>3. ASSUME NEW R \in SUBSET Request, IsFiniteSet(R),
             \A q, r \in R : q.number = r.number => q = r,
             NEW S, NEW target, Answering(R, S, target)
      PROVE  Notified(m, type)' <=> Notified(m, type)
  <2> DEFINE marked == mark_switch_as_done(R, S, target)
  <2>1. marked \in SUBSET Request /\ IsFiniteSet(marked)
    BY <1>3, MarkedRequests
  <2>2. PICK t \in StateChanged(marked) : outbox' = outbox \o t
    BY <1>3 DEF Answering
  <2> HIDE DEF marked
  <2>3. /\ t \in Seq(Event)
        /\ \A i \in 1..Len(t) : \E r \in Finished(marked) : t[i] = Msg("RESOURCE_STATE_CHANGED", r.all, r.target)
    BY <2>1, <2>2, AnsweredRequests
  <2>4. ASSUME NEW i \in 1..Len(t) PROVE t[i].type = "RESOURCE_STATE_CHANGED"
    <3>1. PICK r \in Finished(marked) : t[i] = Msg("RESOURCE_STATE_CHANGED", r.all, r.target)
      BY <2>3
    <3> QED
      BY <3>1 DEF Msg
  <2> QED
    BY <1>0, <2>2, <2>3, <2>4, SameNotified
<1>4. CASE server_on_pstate_modification
  <2> DEFINE R == switches \cup {NewRequest}
  <2>1. /\ R \in SUBSET Request /\ IsFiniteSet(R)
        /\ \A q, r \in R : q.number = r.number => q = r
        /\ Answering(R, AtOnce, Received.target)
    BY <1>0, <1>4, NewRequestLemma, Recording
  <2> HIDE DEF R
  <2> QED
    BY <1>3, <2>1
<1>5. CASE server_on_switched
  <2>1. /\ switches \in SUBSET Request /\ IsFiniteSet(switches)
        /\ \A q, r \in switches : q.number = r.number => q = r
        /\ Answering(switches, Received.about, Received.target)
    BY <1>0, <1>5, Reporting DEF Types, RequestsInv
  <2> QED
    BY <1>3, <2>1
<1>6. CASE Handles
  <2>1. Received.about \in SUBSET Machine
    BY <1>0, <1>6, ReceiveMail, MailKinds
       DEF Handles, server_on_event_machine_unavailable, server_on_event_machine_available
  <2>2. \/ outbox' = outbox
        \/ \E ty \in {"event_machine_unavailable", "event_machine_available"} :
             outbox' = Append(outbox, Msg(ty, Received.about, Virtual))
    BY <1>6 DEF Handles, server_on_event_machine_unavailable, server_on_event_machine_available
  <2>3. ASSUME NEW ty \in {"event_machine_unavailable", "event_machine_available"},
               outbox' = Append(outbox, Msg(ty, Received.about, Virtual))
        PROVE  Notified(m, type)' <=> Notified(m, type)
    <3>1. Msg(ty, Received.about, Virtual) \in Event /\ m \notin Msg(ty, Received.about, Virtual).about
      BY <1>6, <2>1, MailOf DEF Msg
    <3> QED
      BY <1>2, <2>3, <3>1
  <2> QED
    BY <1>1, <2>2, <2>3
<1>7. CASE server_on_job_completed
  <2> DEFINE e == Msg("JOB_COMPLETED", Received.about, Virtual)
  <2>1. Receive("JOB_COMPLETED") /\ outbox' = Append(outbox, e)
    BY <1>7 DEF server_on_job_completed
  <2>2. e \in Event /\ e.type = "JOB_COMPLETED"
    BY <1>0, <2>1, ReceiveMail, MailKinds, MailOf DEF Msg
  <2> HIDE DEF e
  <2> QED
    BY <1>2, <2>1, <2>2
<1>8. CASE \/ server_on_execute_job \/ server_on_sched_ready
           \/ \E s \in switcher : SwitcherStarts(s) \/ SwitcherEnds(s)
           \/ \E j \in Job : JobStarts(j) \/ JobEnds(j)
           \/ EventOccurs
           \/ \E j \in Job, S \in SUBSET Machine : Execute(j, S)
           \/ \E S \in SUBSET Switchable, target \in PState : SetResourceState(S, target)
           \/ EndReply \/ UNCHANGED vars
  <2>1. UNCHANGED outbox
    BY <1>8 DEF server_on_execute_job, server_on_sched_ready, SwitcherStarts, SwitcherEnds, JobStarts,
                JobEnds, EventOccurs, Execute, SetResourceState, EndReply, vars
  <2> QED
    BY <1>1, <2>1
<1> QED
  BY <1>4, <1>5, <1>6, <1>7, <1>8 DEF Next, ServerStep, Handles

\* Every step preserves ToldInv.
LEMMA ToldKept ==
  ASSUME PatientBase, MachineBase, Types', ToldInv, [Next]_vars
  PROVE  ToldInv'
<1>0. /\ Base /\ Types /\ PatientInv /\ SwitchInv /\ RequestsInv /\ ChangesInv /\ JobsInv /\ MachinesInv
      /\ StillBack
  BY ComingBack DEF PatientBase, MachineBase, Base
<1> SUFFICES ASSUME NEW m \in Machine, Down(m)'
             PROVE  ToldNext(m)' /\ (mstate'[m] # "UNAVAILABLE" => m \in told_down' \/ pending'[m] # 0)
  BY DEF ToldInv
<1>1. CASE Handles
  <2>1. /\ occurred \in 1..Len(AvailabilityEvents) /\ Handled = occurred - 1 /\ Handled' = occurred
        /\ Received.type = AvailabilityEvents[occurred].type
        /\ Received.about = AvailabilityEvents[occurred].about
    BY <1>0, <1>1, ChangesKept
  <2>2. IF m \in Received.about THEN Received.type = "unavailable" ELSE Down(m)
    <3>1. occurred - 1 \in Nat /\ (occurred - 1) + 1 = occurred
      BY <2>1
    <3>2. DownAfter(occurred, m)
      BY <2>1 DEF Down, DownAfter
    <3> QED
      BY <2>1, <3>1, <3>2, DownStep DEF Down
  <2>3. UNCHANGED <<told_down, pending>>
    BY <1>1 DEF Handles, server_on_event_machine_unavailable, server_on_event_machine_available, Receive
  <2>4. CASE m \in Received.about
    <3>1. server_on_event_machine_unavailable
      BY <1>1, <2>2, <2>4 DEF Handles, server_on_event_machine_available, Receive
    <3>2. mstate'[m] = "UNAVAILABLE"
      BY <2>4, <3>1 DEF server_on_event_machine_unavailable
    <3>3. Notified(m, "event_machine_unavailable")'
      <4> DEFINE e == Msg("event_machine_unavailable", Received.about, Virtual)
      <4>1. outbox' = Append(outbox, e) /\ outbox \in Seq(Event)
        BY <1>0, <2>4, <3>1 DEF server_on_event_machine_unavailable, Types
      <4>2. e.type = "event_machine_unavailable" /\ e.about = Received.about
        BY DEF Msg
      <4> HIDE DEF e
      <4>3. /\ Len(outbox') \in 1..Len(outbox') /\ outbox'[Len(outbox')] = e
            /\ (Len(outbox') + 1)..Len(outbox') = {}
        BY <4>1
      <4> QED
        BY <2>4, <4>2, <4>3 DEF Notified
    <3> QED
      BY <3>2, <3>3 DEF ToldNext
  <2>5. CASE m \notin Received.about
    <3>1. mstate'[m] = mstate[m]
      BY <1>1, <2>5 DEF Handles, server_on_event_machine_unavailable, server_on_event_machine_available
    <3>2. ~ServerSendsEvents
      <4>1. mailbox # <<>>
        BY <1>1 DEF Handles, server_on_event_machine_unavailable, server_on_event_machine_available, Receive
      <4> QED
        BY <4>1 DEF ServerSendsEvents
    <3>3. /\ Notified(m, "event_machine_unavailable")' <=> Notified(m, "event_machine_unavailable")
          /\ Notified(m, "event_machine_available")' <=> Notified(m, "event_machine_available")
      BY <1>0, <2>5, <3>2, Buffering
    <3> QED
      BY <2>2, <2>3, <2>5, <3>1, <3>3 DEF ToldInv, ToldNext
  <2> QED
    BY <2>4, <2>5
<1>2. CASE ~Handles
  <2>1. Down(m)
    <3>1. Handled' = Handled
      BY <1>0, <1>2, ChangesKept
    <3> QED
      BY <3>1 DEF Down, DownAfter
  <2>2. CASE ServerSendsEvents
    <3>1. m \in told_down' /\ outbox' = <<>>
      BY <2>1, <2>2 DEF ServerSendsEvents, ToldInv, ToldNext
    <3>2. ~Notified(m, "event_machine_available")'
      BY <3>1 DEF Notified
    <3> QED
      BY <3>1, <3>2 DEF ToldNext
  <2>3. CASE ~ServerSendsEvents
    <3>1. told_down' = told_down /\ (pending[m] # 0 => pending'[m] # 0)
      <4>1. ASSUME NEW S \in SUBSET Switchable, NEW target \in PState, SetResourceState(S, target)
            PROVE  told_down' = told_down /\ (pending[m] # 0 => pending'[m] # 0)
        <5>1. pending[m] \in Nat
          BY <1>0, MailCount, RequestCount DEF Types, RequestsInv
        <5> QED
          BY <4>1, <5>1 DEF SetResourceState
      <4>2. CASE \/ ServerStep
                 \/ \E s \in switcher : SwitcherStarts(s) \/ SwitcherEnds(s)
                 \/ \E j \in Job : JobStarts(j) \/ JobEnds(j)
                 \/ EventOccurs
                 \/ \E j \in Job, S \in SUBSET Machine : Execute(j, S)
                 \/ EndReply \/ UNCHANGED vars
        <5>1. UNCHANGED <<told_down, pending>>
          BY <2>3, <4>2, Recording, Reporting DEF ServerStep, server_on_execute_job,
             server_on_event_machine_unavailable, server_on_event_machine_available, server_on_job_completed,
             server_on_sched_ready, Receive, SwitcherStarts, SwitcherEnds, JobStarts, JobEnds, EventOccurs,
             Execute, EndReply, vars, schedVars
        <5> QED
          BY <5>1
      <4> QED
        BY <4>1, <4>2 DEF Next
    <3>2. /\ Notified(m, "event_machine_unavailable")' <=> Notified(m, "event_machine_unavailable")
          /\ Notified(m, "event_machine_available")' <=> Notified(m, "event_machine_available")
      BY <1>0, <1>2, <2>3, Buffering
    <3>3. ToldNext(m)'
      BY <2>1, <3>1, <3>2 DEF ToldInv, ToldNext
    <3>4. mstate[m] = "UNAVAILABLE" /\ mstate'[m] # "UNAVAILABLE" => pending[m] # 0
      <4> SUFFICES ASSUME mstate[m] = "UNAVAILABLE", mstate'[m] # "UNAVAILABLE" PROVE pending[m] # 0
        OBVIOUS
      <4>1. ASSUME NEW s \in switcher, SwitcherEnds(s) PROVE pending[m] # 0
        <5>1. s.machine = m
          BY <1>0, <4>1 DEF SwitcherEnds, Types
        <5>2. PICK r \in switches : m \in r.left
          BY <1>0, <5>1 DEF SwitchInv, SwitchersAwaited
        <5>3. m \in r.all
          BY <1>0, <5>2 DEF RequestsInv
        <5> QED
          BY <1>0, <5>3, OneRequestEach
      <4>2. CASE server_on_pstate_modification
        <5>1. m \in Slow /\ Receive("PSTATE_MODIFICATION")
          BY <4>2, Recording
        <5>2. Received \in Mailed /\ Received.type = "PSTATE_MODIFICATION" /\ m \in Received.about
          BY <1>0, <5>1, TakeStep DEF Slow, Awake, Asleep
        <5> QED
          BY <1>0, <5>2, OneRequestEach
      <4>3. ASSUME NEW j \in Job PROVE ~JobStarts(j) /\ ~JobEnds(j)
        <5>1. JobStarts(j) => ~aborted /\ actor[j] = "created"
          BY DEF JobStarts
        <5>2. JobStarts(j) => m \notin alloc[j]
          BY <1>0, <5>1, MachinesParts DEF JobsAwake
        <5> QED
          BY <5>2 DEF JobStarts, JobEnds, IdleAgain
      <4>4. server_on_execute_job \/ (\E s \in switcher : SwitcherStarts(s)) => UNCHANGED mstate
        BY DEF server_on_execute_job, machineVars, SwitcherStarts
      <4> QED
        BY <1>0, <1>2, <4>1, <4>2, <4>3, <4>4, MachinesElsewhere
    <3> QED
      BY <2>1, <3>1, <3>3, <3>4 DEF ToldInv
  <2> QED
    BY <2>2, <2>3
<1> QED
  BY <1>1, <1>2

\* Every step preserves StartInv.
LEMMA StartKept ==
  ASSUME MachineBase, Types', ExecuteInv, ToldInv, StartInv, [Next]_vars
  PROVE  StartInv'
<1>0. Types /\ ChangesInv /\ JobsInv
  BY DEF MachineBase, Base
<1> SUFFICES ASSUME ~aborted', NEW j \in Job, actor'[j] = "created", NEW m \in alloc'[j], Down(m)'
             PROVE  FALSE
  BY DEF StartInv
<1>1. ~Handles
  <2>1. Handles => actor[j] # "created" /\ UNCHANGED actor
    BY <1>0, TakeStep DEF Handles, server_on_event_machine_unavailable,
       server_on_event_machine_available, jobVars
  <2> QED
    BY <2>1
<1>2. Down(m)
  <2>1. Handled' = Handled
    BY <1>0, <1>1, ChangesKept
  <2> QED
    BY <2>1 DEF Down, DownAfter
<1>3. CASE server_on_execute_job
  <2>1. /\ Receive("SCHED_EXECUTE_JOB") /\ UNCHANGED alloc
        /\ actor' = [i \in Job |-> IF i \in Received.about THEN "created" ELSE actor[i]]
        /\ \A k \in UNION {alloc[i] : i \in Received.about} : mstate[k] \in {"COMPUTING", "IDLE"}
    BY <1>3 DEF server_on_execute_job, xbt_assert
  <2>2. Received \in Mailed /\ Received.type = "SCHED_EXECUTE_JOB" /\ actor[j] # "created"
    BY <1>0, <2>1, TakeStep
  <2>3. j \in Received.about /\ m \in alloc[j]
    BY <2>1, <2>2
  <2>4. m \notin told_down /\ pending[m] = 0
    BY <2>2, <2>3 DEF ExecuteInv
  <2>5. m \in Machine /\ mstate[m] \in {"COMPUTING", "IDLE"}
    BY <1>0, <2>1, <2>3 DEF Types
  <2> QED
    BY <1>2, <2>4, <2>5 DEF ToldInv
<1>4. CASE ~server_on_execute_job
  <2>1. actor[j] = "created" /\ alloc'[j] = alloc[j] /\ (aborted => aborted')
    <3>1. ASSUME NEW i \in Job, NEW S \in SUBSET Machine, Execute(i, S)
          PROVE  actor[j] = "created" /\ alloc'[j] = alloc[j] /\ (aborted => aborted')
      <4>1. actor[j] = "created" /\ ~aborted /\ view[i] = "waiting" /\ alloc' = [alloc EXCEPT ![i] = S]
        BY <3>1 DEF Execute
      <4>2. i # j
        BY <1>0, <4>1 DEF JobsInv
      <4> QED
        BY <1>0, <4>1, <4>2 DEF Types
    <3>2. ASSUME NEW i \in Job, JobStarts(i) \/ JobEnds(i)
          PROVE  actor[j] = "created" /\ alloc'[j] = alloc[j] /\ (aborted => aborted')
      BY <1>0, <3>2 DEF JobStarts, JobEnds, Types
    <3>3. CASE ServerStep
      BY <1>4, <3>3, Recording, Reporting DEF ServerStep, server_on_event_machine_unavailable,
         server_on_event_machine_available, server_on_job_completed, server_on_sched_ready, Receive,
         ServerSendsEvents, jobVars
    <3>4. CASE \/ \E s \in switcher : SwitcherStarts(s) \/ SwitcherEnds(s)
               \/ EventOccurs \/ EndReply \/ UNCHANGED vars
               \/ \E S \in SUBSET Switchable, target \in PState : SetResourceState(S, target)
      <4>1. UNCHANGED <<actor, alloc>>
        BY <3>4 DEF SwitcherStarts, SwitcherEnds, EventOccurs, EndReply, vars, SetResourceState, jobVars
      <4>2. ~aborted \/ UNCHANGED aborted
        BY <3>4 DEF SwitcherStarts, SwitcherEnds, EventOccurs, EndReply, vars, SetResourceState
      <4> QED
        BY <4>1, <4>2
    <3> QED
      BY <3>1, <3>2, <3>3, <3>4 DEF Next
  <2> QED
    BY <1>2, <2>1 DEF StartInv
<1> QED
  BY <1>3, <1>4

(***************************************************************************)
(* input-events.rst, Machine_unavailable: "It is no longer possible to     *)
(* execute jobs on these machines". With a patient scheduler no step adds  *)
(* a job to a machine that the events handled so far make unavailable, be  *)
(* it switched meanwhile or not: a switch may overwrite UNAVAILABLE, but   *)
(* the scheduler hears of the unavailability before it hears of the end of *)
(* the switch.                                                             *)
(***************************************************************************)
THEOREM NothingStartsWhileDown ==
  ASSUME Patient
  PROVE  Spec => NoJobStartsWhileDown
<1> DEFINE Inv == PatientBase /\ MachineBase /\ ExecuteInv /\ ToldInv /\ StartInv
<1>1. Init => Inv
  <2> SUFFICES ASSUME Init PROVE Inv
    OBVIOUS
  <2>1. PatientBase /\ MachineBase /\ Types
    BY PatientInit, MachineInit DEF MachineBase, Base
  <2>2. /\ Mailed = {} /\ mailbox = <<>> /\ occurred = 0
        /\ actor = [j \in Job |-> "none"]
    BY Initially DEF Init
  <2>3. Handled = 0
    BY <2>1, <2>2, CountEmpty, HandledIs
  <2>4. \A m \in Machine : ~Down(m)
    BY <2>3 DEF Down, DownAfter
  <2> QED
    BY <2>1, <2>2, <2>4 DEF ExecuteInv, ToldInv, StartInv
<1>2. Inv /\ [Next]_vars => Inv'
  <2> SUFFICES ASSUME Inv, [Next]_vars PROVE Inv'
    OBVIOUS
  <2>1. PatientBase' /\ MachineBase' /\ Types' /\ Base /\ Base'
    BY PatientBaseKept, MachineKept DEF MachineBase, Base
  <2> QED
    BY <2>1, ExecuteKept, ToldKept, StartKept
<1>3. Inv /\ [Next]_vars
        => [\A m \in Machine : Down(m) => computing'[m] \subseteq computing[m]]_vars
  <2> SUFFICES ASSUME Inv, Next, NEW m \in Machine, Down(m)
               PROVE  computing'[m] \subseteq computing[m]
    OBVIOUS
  <2>1. Types /\ Types' /\ ChangesInv /\ JobsInv /\ MachinesInv
    BY <1>2 DEF MachineBase, Base
  <2>2. ASSUME NEW j \in Job, JobStarts(j) PROVE computing'[m] = computing[m]
    <3>1. ~aborted /\ actor[j] = "created"
      BY <2>2 DEF JobStarts
    <3>2. m \notin alloc[j]
      BY <3>1 DEF StartInv
    <3> QED
      BY <2>2, <3>2 DEF JobStarts
  <2>3. ASSUME NEW j \in Job, JobEnds(j) PROVE computing'[m] \subseteq computing[m]
    BY <2>3 DEF JobEnds
  <2>4. CASE \/ server_on_execute_job \/ server_on_pstate_modification \/ Handles
             \/ \E s \in switcher : SwitcherStarts(s) \/ SwitcherEnds(s)
    BY <2>4, Recording DEF server_on_execute_job, Handles, server_on_event_machine_unavailable,
       server_on_event_machine_available, SwitcherStarts, SwitcherEnds, machineVars
  <2> QED
    BY <2>1, <2>2, <2>3, <2>4, ComingBack, MachinesElsewhere
<1> QED
  BY <1>1, <1>2, <1>3, PTL DEF Spec, NoJobStartsWhileDown
=============================================================================
