----------------------------- MODULE EndProofs ------------------------------
(***************************************************************************)
(* How a job ends: alone, killed by a killer, or both at once. Four        *)
(* layers: the kills (KillInv), the reports of the ends and the job table  *)
(* (AccountInv), the server's counters of jobs (CountInv) and of killers   *)
(* (AckInv).                                                               *)
(***************************************************************************)
EXTENDS LifeCycleProofs

EndType == {"JOB_COMPLETED", "KILLING_DONE"}

Completing(j) == \E m \in Flight : m.type = "JOB_COMPLETED" /\ j \in m.about
Killing(j)    == \E m \in Flight : m.type = "KILLING_DONE" /\ j \in m.about

\* EndInFlight, in terms of the messages in flight.
Pending(j) == \/ actor[j] = "notifying"
              \/ state[j] = "COMPLETED_KILLED" /\ Killing(j)

\* The server has counted the end of job j.
Counted(j) == IsComplete(state[j]) /\ ~Pending(j)

\* An end message is about jobs that end.
Ending(m) ==
  /\ m.type = "JOB_COMPLETED" => \E j \in Job : m.about = {j} /\ actor[j] = "notifying"
  /\ m.type = "KILLING_DONE" =>
       /\ m.about # {} /\ m.about \subseteq kill_requested
       /\ \A j \in m.about : actor[j] = "cancelled" \/ state[j] \in Ended

\* A job ends once, is killed by one killer, and does not end after its killer ran.
EndOrder ==
  {p \in Message \X Message :
     \/ p[1].type \notin EndType \/ p[2].type \notin EndType
     \/ p[1].type = "JOB_COMPLETED" /\ p[2].type = "KILLING_DONE"
     \/ p[1].about \cap p[2].about = {}}

\* The killers are about different jobs, none of which a killer has dealt with.
KillersDiffer ==
  /\ \A S \in killers :
       /\ S # {} /\ S \subseteq kill_requested
       /\ \A j \in S : state[j] \in OrdinaryEnds \cup {"RUNNING"} /\ actor[j] # "cancelled"
  /\ \A S, T \in killers : S # T => S \cap T = {}
  /\ \A S \in killers, m \in Flight : m.type = "KILLING_DONE" => S \cap m.about = {}

\* The end of a job that has just ended is in flight, and kills are requested.
EndsAreOnTheirWay ==
  \A j \in Job :
    /\ actor[j] = "notifying" => Completing(j)
    /\ actor[j] = "cancelled" => Killing(j)
    /\ state[j] = "COMPLETED_KILLED" => j \in kill_requested

KillInv ==
  (\A m \in Flight : Ending(m)) /\ InOrder(EndOrder) /\ KillersDiffer /\ EndsAreOnTheirWay

Kills == ~aborted => KillInv

----------------------------------------------------------------------------
\* No message about an end is put or handled.
NoEndSent ==
  /\ \A m \in Message : m.type \in EndType => (m \in Flight' <=> m \in Flight)
  /\ InOrder(EndOrder)'

\* No job ends either.
NoEnd ==
  /\ UNCHANGED <<kill_requested, killers>>
  /\ \A j \in Job :
       /\ \/ state'[j] = state[j]
          \/ /\ state[j] \in {"ABSENT", "NOT_SUBMITTED", "SUBMITTED"}
             /\ state'[j] \in {"SUBMITTED", "RUNNING", "REJECTED"}
       /\ \/ actor'[j] = actor[j]
          \/ actor[j] \notin {"notifying", "cancelled"} /\ actor'[j] \in {"created", "running"}
  /\ NoEndSent

\* The messages that are not about an end may come anywhere.
LEMMA NotAnEnd ==
  ASSUME NEW n \in Message, n.type \notin EndType
  PROVE  \A m \in Message : <<m, n>> \in EndOrder /\ <<n, m>> \in EndOrder
  BY DEF EndOrder

\* What the REQ-REP actor holds is not about an end.
LEMMA HeldIsNoEnd ==
  ASSUME TypeOK, LinkInv, NEW n \in Message
  PROVE  \A k \in 1..Len(held) : <<n, held[k]>> \in EndOrder
<1>1. \A k \in 1..Len(held) : held[k] \in Message /\ held[k].from = "sched"
  BY FlightIsTyped DEF LinkInv, ReaderHolds
<1>2. \A m \in Message : m.from = "sched" => m.type \notin EndType
  BY DEF Message, EndType
<1> QED
  BY <1>1, <1>2 DEF EndOrder

LEMMA NoEndKeepsKills ==
  ASSUME TypeOK, TypeOK', JobPhases, KillInv, NoEnd
  PROVE  KillInv'
<1>1. \A j \in Job : /\ state[j] \in Ended => state'[j] = state[j]
                     /\ state[j] \in OrdinaryEnds \cup {"RUNNING"} => state'[j] = state[j]
                     /\ state'[j] = "COMPLETED_KILLED" => state[j] = "COMPLETED_KILLED"
  BY DEF NoEnd, Ended, OrdinaryEnds
<1>2. \A j \in Job : \A a \in {"notifying", "cancelled"} : actor'[j] = a <=> actor[j] = a
  BY DEF NoEnd
<1>3. \A m \in Flight' : m \in Message /\ (m.type \in EndType => m \in Flight)
  <2>1. Flight' \subseteq Message
    BY DEF TypeOK, MailTypeOK, Flight
  <2> QED
    BY <2>1 DEF NoEnd, NoEndSent
<1>4. \A m \in Flight : m \in Message /\ (m.type \in EndType => m \in Flight')
  BY FlightIsTyped DEF NoEnd, NoEndSent
<1>5. ASSUME NEW m \in Flight' PROVE Ending(m)'
  <2>1. CASE m.type \in EndType
    <3>1. Ending(m) /\ m.about \in SUBSET Job
      BY <1>3, <2>1, MessageKinds DEF KillInv, EndType
    <3> QED
      BY <1>1, <1>2, <3>1 DEF Ending, NoEnd
  <2>2. CASE m.type \notin EndType
    BY <2>2 DEF Ending, EndType
  <2> QED
    BY <2>1, <2>2
<1>6. KillersDiffer'
  <2>1. \A S \in killers : \A j \in S : j \in Job
    BY DEF TypeOK, ActorsTypeOK
  <2> QED
    BY <1>1, <1>2, <1>3, <2>1 DEF KillInv, KillersDiffer, NoEnd, EndType
<1>7. EndsAreOnTheirWay'
  <2>1. \A j \in Job : (Completing(j) => Completing(j)') /\ (Killing(j) => Killing(j)')
    BY <1>4 DEF Completing, Killing, EndType
  <2> QED
    BY <1>1, <1>2, <2>1 DEF KillInv, EndsAreOnTheirWay, NoEnd
<1> QED
  BY <1>5, <1>6, <1>7 DEF KillInv, NoEnd, NoEndSent

LEMMA PutNoEnd ==
  ASSUME TypeOK, LinkInv, KillInv, NEW n \in Message, n.type \notin EndType, Put(n), UNCHANGED held
  PROVE  NoEndSent
<1>1. /\ \A m \in Flight : <<m, n>> \in EndOrder
      /\ \A k \in 1..Len(held) : <<n, held[k]>> \in EndOrder
  BY NotAnEnd, FlightIsTyped
<1>2. Flight' = Flight \cup {n} /\ InOrder(EndOrder)'
  BY <1>1, PutFlight DEF KillInv
<1> QED
  BY <1>2 DEF NoEndSent

LEMMA TakeNoEnd ==
  ASSUME TypeOK, KillInv, NEW type, type \notin EndType, Receive(type)
  PROVE  NoEndSent
<1>1. /\ Flight' \subseteq Flight /\ Flight \subseteq Flight' \cup {Received}
      /\ Received.type = type /\ InOrder(EndOrder)'
  BY TakeFlight DEF KillInv
<1> QED
  BY <1>1 DEF NoEndSent

LEMMA ApplyNoEnd ==
  ASSUME TypeOK, LinkInv, KillInv, NEW type, NEW about, Msg(type, "sched", about) \in Message,
         Apply(type, about)
  PROVE  NoEndSent
<1> DEFINE n == Msg(type, "sched", about)
<1>1. held' = <<n>> /\ UNCHANGED mailbox /\ held = <<>>
  BY DEF Apply, LinkInv, ReaderHolds
<1>2. n \in Message /\ n.from = "sched" /\ n.type \notin EndType
  <2>1. n \in Message /\ n.from = "sched"
    BY DEF Msg
  <2> QED
    BY <2>1 DEF Message, EndType
<1> HIDE DEF n
<1>3. \A m \in Flight : <<m, n>> \in EndOrder
  BY <1>2, NotAnEnd, FlightIsTyped
<1>4. Flight' = Flight \cup {n} /\ InOrder(EndOrder)'
  BY <1>1, <1>2, <1>3, HoldFlight DEF KillInv
<1> QED
  BY <1>2, <1>4 DEF NoEndSent

LEMMA StillNoEnd ==
  ASSUME KillInv, UNCHANGED <<mailbox, held>>
  PROVE  NoEndSent
  BY StillFlight DEF NoEndSent, KillInv

LEMMA SubmitterEndsNone ==
  ASSUME TypeOK, LinkInv, KillInv, NEW s \in Submitter, SubmitterStep(s)
  PROVE  /\ NoEnd
         /\ UNCHANGED <<jobVars, bufferVars, view>>
<1>1. UNCHANGED <<jobVars, killers, held, bufferVars, view>>
  BY DEF SubmitterStep, SubmitterHello, SubmitBatch, SubmitterBye, submitterUnchanged, helperActors,
         readerActor, schedVars
<1>2. PICK n \in Message : Put(n) /\ n.type \notin EndType
  <2>1. /\ Msg("SUBMITTER_HELLO", s, {}) \in Message /\ Msg("SUBMITTER_BYE", s, {}) \in Message
        /\ \A type, about : Msg(type, s, about).type = type
    BY DEF Msg, Message
  <2> QED
    BY <2>1, BatchIsTyped DEF SubmitterStep, SubmitterHello, SubmitBatch, SubmitterBye, EndType
<1>3. NoEndSent
  BY <1>1, <1>2, PutNoEnd
<1> QED
  BY <1>1, <1>3 DEF NoEnd, jobVars

\* Every event of a reply is a message.
LEMMA ReplyEndsNone ==
  ASSUME TypeOK, LinkInv, KillInv, SchedulerStep
  PROVE  NoEndSent
<1>1. /\ \A j \in Job : /\ Msg("SCHED_EXECUTE_JOB", "sched", {j}) \in Message
                        /\ Msg("SCHED_REJECT_JOB", "sched", {j}) \in Message
                        /\ Msg("JOB_REGISTERED_BY_DP", "sched", {j}) \in Message
      /\ \A S \in SUBSET Job : Msg("SCHED_KILL_JOB", "sched", S) \in Message
      /\ \A w \in Waiter : Msg("SCHED_CALL_ME_LATER", "sched", {w}) \in Message
      /\ \A type \in {"END_DYNAMIC_REGISTER", "CONTINUE_DYNAMIC_REGISTER", "SCHED_READY"} :
           Msg(type, "sched", {}) \in Message
  BY DEF Msg, Message
<1>2. CASE send_message_at_time
  <2>1. Flight' = Flight /\ InOrder(EndOrder)'
    BY <1>2, SendFlight DEF send_message_at_time, LinkInv, ReaderHolds, KillInv
  <2> QED
    BY <2>1 DEF NoEndSent
<1>3. ASSUME NEW type, NEW about, Apply(type, about), Msg(type, "sched", about) \in Message
      PROVE  NoEndSent
  BY <1>3, ApplyNoEnd
<1> QED
  BY <1>1, <1>2, <1>3 DEF SchedulerStep, handle_execute_job, handle_reject_job, handle_kill_job,
         handle_call_me_later, handle_register_job, NotifyRegistrationFinished,
         NotifyContinueRegistration, ReplyApplied, Decide, Job

LEMMA SchedulerEndsNone ==
  ASSUME TypeOK, LinkInv, KillInv, SchedulerStep
  PROVE  NoEnd
<1>1. UNCHANGED <<kill_requested, killers, actor>>
  BY DEF SchedulerStep, handle_execute_job, handle_reject_job, handle_kill_job,
         handle_call_me_later, handle_register_job, NotifyRegistrationFinished,
         NotifyContinueRegistration, ReplyApplied, Decide, Apply, send_message_at_time,
         linkUnchanged, helperActors, jobVars
<1>2. \A j \in Job : state'[j] = state[j] \/ (state[j] = "ABSENT" /\ state'[j] = "SUBMITTED")
  <2>1. ASSUME NEW j \in DynJob, handle_register_job(j)
        PROVE  \A i \in Job : state'[i] = state[i] \/ (state[i] = "ABSENT" /\ state'[i] = "SUBMITTED")
    BY <2>1 DEF handle_register_job, TypeOK, JobsTypeOK
  <2> QED
    BY <2>1 DEF SchedulerStep, handle_execute_job, handle_reject_job, handle_kill_job,
         handle_call_me_later, NotifyRegistrationFinished,
         NotifyContinueRegistration, ReplyApplied, send_message_at_time, jobVars
<1> QED
  BY <1>1, <1>2, ReplyEndsNone DEF NoEnd

\* The handlers of the messages that are not about an end.
LEMMA HandlersEndNone ==
  ASSUME TypeOK, LifeCycle, KillInv, Handle, ~aborted', ~server_on_job_completed,
         ~server_on_killing_done, ~server_on_kill_jobs
  PROVE  NoEnd
<1>0. JobPhases /\ MessagesAreTrue
  BY StepsOfTheLiving DEF LifeCycle, Next, ServerStep
<1>1. ASSUME NEW type, type \notin EndType, Receive(type), UNCHANGED <<jobVars, killers>>
      PROVE  NoEnd
  BY <1>1, TakeNoEnd DEF NoEnd, jobVars
<1>2. CASE server_on_job_submitted
  <2>1. \A j \in Job : state'[j] = state[j] \/ (state[j] = "NOT_SUBMITTED" /\ state'[j] = "SUBMITTED")
    <3>1. IsTrue(Received) /\ Received.type = "JOB_SUBMITTED"
      BY <1>0, <1>2 DEF server_on_job_submitted, Receive, MessagesAreTrue, Received, TypeOK, MailTypeOK
    <3> QED
      BY <1>2, <3>1 DEF server_on_job_submitted, IsTrue
  <2>2. NoEndSent
    BY <1>2, TakeNoEnd DEF server_on_job_submitted, EndType
  <2> QED
    BY <1>2, <2>1, <2>2 DEF server_on_job_submitted, NoEnd, helperActors
<1>3. CASE server_on_execute_job
  <2>1. NoEndSent
    BY <1>3, TakeNoEnd DEF server_on_execute_job, EndType
  <2>2. \A j \in Received.about : state[j] = "SUBMITTED"
    BY <1>3 DEF server_on_execute_job, Assert
  <2>3. \A j \in Job : state[j] = "SUBMITTED" => actor[j] \notin {"notifying", "cancelled"}
    BY <1>0 DEF JobPhases, OrdinaryEnds
  <2> QED
    BY <1>3, <2>1, <2>2, <2>3 DEF server_on_execute_job, NoEnd, helperActors
<1>4. CASE server_on_reject_job
  <2>1. NoEndSent
    BY <1>4, TakeNoEnd DEF server_on_reject_job, EndType
  <2>2. \A j \in Received.about : state[j] = "SUBMITTED"
    BY <1>4 DEF server_on_reject_job, Assert
  <2> QED
    BY <1>4, <2>1, <2>2 DEF server_on_reject_job, NoEnd, helperActors
<1> QED
  BY <1>1, <1>2, <1>3, <1>4 DEF Handle, server_on_submitter_hello, server_on_submitter_bye,
         server_on_event_occurred, server_on_register_job, 
         server_on_call_me_later, server_on_waiting_done,
         server_on_end_dynamic_register, server_on_continue_dynamic_register,
         server_on_sched_ready, EndType, jobVars, helperActors

LEMMA ExecutionEndsNone ==
  ASSUME TypeOK, LinkInv, KillInv,
         \/ \E j \in Job : JobStarts(j)
         \/ \E w \in Waiter : WaiterWakes(w)
  PROVE  NoEnd
<1>1. ASSUME NEW j \in Job, JobStarts(j) PROVE NoEnd
  <2>1. NoEndSent
    BY <1>1, StillNoEnd DEF JobStarts, executionUnchanged, readerActor
  <2> QED
    BY <1>1, <2>1 DEF JobStarts, helperActors, NoEnd, TypeOK, JobsTypeOK
<1>2. ASSUME NEW w \in Waiter, WaiterWakes(w) PROVE NoEnd
  <2>1. /\ Msg("WAITING_DONE", w, {}) \in Message
        /\ Msg("WAITING_DONE", w, {}).type \notin EndType
    BY DEF Msg, Message, EndType
  <2>2. NoEndSent
    BY <1>2, <2>1, PutNoEnd, StillNoEnd DEF WaiterWakes, executionUnchanged, readerActor
  <2> QED
    BY <1>2, <2>2 DEF WaiterWakes, jobVars, NoEnd
<1> QED
  BY <1>1, <1>2

\* A job ends by itself: no killer has dealt with it.
LEMMA EndKeepsKills ==
  ASSUME TypeOK, LinkInv, JobPhases, KillInv, NEW j \in Job, NEW outcome \in Outcome,
         JobEnds(j, outcome)
  PROVE  KillInv'
<1> DEFINE n == Msg("JOB_COMPLETED", "job", {j})
<1>1. /\ actor[j] = "running" /\ state[j] = "RUNNING" /\ state'[j] \in OrdinaryEnds
      /\ actor'[j] = "notifying" /\ Put(n) /\ UNCHANGED <<held, kill_requested, killers>>
      /\ \A i \in Job : i # j => state'[i] = state[i] /\ actor'[i] = actor[i]
  BY ConstantsAssumption DEF JobEnds, JobPhases, TypeOK, JobsTypeOK, helperActors, executionUnchanged,
     readerActor
<1>2. n \in Message /\ n.type = "JOB_COMPLETED" /\ n.about = {j}
  BY DEF Msg, Message
<1> HIDE DEF n
<1>3. \A m \in Flight : m \in Message /\ Ending(m)
  BY FlightIsTyped DEF KillInv
<1>4. \A m \in Flight : m.type \in EndType => j \notin m.about
  BY <1>1, <1>3 DEF Ending, EndType, Ended, OrdinaryEnds
<1>5. Flight' = Flight \cup {n}
  BY <1>1, <1>2, PutFlight
<1>6. InOrder(EndOrder)'
  <2>1. \A m \in Flight : <<m, n>> \in EndOrder
    BY <1>2, <1>3, <1>4 DEF EndOrder
  <2>2. \A k \in 1..Len(held) : <<n, held[k]>> \in EndOrder
    BY <1>2, HeldIsNoEnd
  <2> QED
    BY <1>1, <1>2, <2>1, <2>2, PutFlight DEF KillInv
<1>7. ASSUME NEW m \in Flight' PROVE Ending(m)'
  <2>1. CASE m = n
    BY <1>1, <1>2, <2>1 DEF Ending
  <2>2. CASE m \in Flight /\ m.type \in EndType
    <3>1. Ending(m) /\ m.about \in SUBSET Job /\ j \notin m.about
      BY <1>3, <1>4, <2>2, MessageKinds DEF EndType
    <3> QED
      BY <1>1, <3>1 DEF Ending
  <2>3. CASE m.type \notin EndType
    BY <2>3 DEF Ending, EndType
  <2> QED
    BY <1>5, <2>1, <2>2, <2>3
<1>8. KillersDiffer'
  <2>1. \A S \in killers : \A i \in S : i \in Job
    BY DEF TypeOK, ActorsTypeOK
  <2> QED
    BY <1>1, <1>2, <1>5, <2>1 DEF KillInv, KillersDiffer
<1>9. EndsAreOnTheirWay'
  <2>1. \A i \in Job : (Completing(i) => Completing(i)') /\ (Killing(i) => Killing(i)')
    BY <1>5 DEF Completing, Killing
  <2>2. Completing(j)'
    BY <1>2, <1>5 DEF Completing
  <2> QED
    BY <1>1, <2>1, <2>2 DEF KillInv, EndsAreOnTheirWay, OrdinaryEnds
<1> QED
  BY <1>6, <1>7, <1>8, <1>9 DEF KillInv

\* A cancelled job ends: the message of its killer is in flight.
LEMMA CancelKeepsKills ==
  ASSUME TypeOK, JobPhases, KillInv, NEW j \in Job, JobCancelled(j)
  PROVE  KillInv'
<1>1. /\ actor[j] = "cancelled" /\ state[j] = "RUNNING" /\ state'[j] = "COMPLETED_KILLED"
      /\ actor'[j] = "dead" /\ UNCHANGED <<mailbox, held, kill_requested, killers>>
      /\ \A i \in Job : i # j => state'[i] = state[i] /\ actor'[i] = actor[i]
  BY DEF JobCancelled, JobPhases, TypeOK, JobsTypeOK, helperActors, executionUnchanged, readerActor
<1>2. Flight' = Flight /\ InOrder(EndOrder)'
  BY <1>1, StillFlight DEF KillInv
<1>3. ASSUME NEW m \in Flight' PROVE Ending(m)'
  <2>1. CASE m.type \in EndType
    <3>1. Ending(m) /\ m.about \in SUBSET Job
      BY <1>2, <2>1, MessageKinds, FlightIsTyped DEF EndType, KillInv
    <3> QED
      BY <1>1, <3>1 DEF Ending, Ended
  <2>2. CASE m.type \notin EndType
    BY <2>2 DEF Ending, EndType
  <2> QED
    BY <2>1, <2>2
<1>4. KillersDiffer'
  <2>1. \A S \in killers : \A i \in S : i \in Job /\ i # j
    BY <1>1 DEF TypeOK, ActorsTypeOK, KillInv, KillersDiffer
  <2> QED
    BY <1>1, <1>2, <2>1 DEF KillInv, KillersDiffer
<1>5. EndsAreOnTheirWay'
  <2>1. \A i \in Job : Completing(i)' = Completing(i) /\ Killing(i)' = Killing(i)
    BY <1>2 DEF Completing, Killing
  <2>2. j \in kill_requested
    BY <1>1, <1>2 DEF KillInv, EndsAreOnTheirWay, Killing, Ending
  <2> QED
    BY <1>1, <2>1, <2>2 DEF KillInv, EndsAreOnTheirWay
<1> QED
  BY <1>2, <1>3, <1>4, <1>5 DEF KillInv

\* A killer runs: what it kills is what still runs.
LEMMA KillerKeepsKills ==
  ASSUME TypeOK, LinkInv, JobPhases, KillInv, NEW S \in killers, NEW inPtask \in SUBSET S,
         killer_process(S, inPtask), ~aborted'
  PROVE  KillInv'
<1> DEFINE n == Msg("KILLING_DONE", "killer", S)
<1>0. S \in SUBSET Job
  BY DEF TypeOK, ActorsTypeOK
<1>1. /\ Put(n) /\ UNCHANGED <<held, kill_requested>> /\ killers' = killers \ {S}
      /\ \A j \in Job : \/ state'[j] = state[j] /\ actor'[j] = actor[j]
                        \/ j \in S /\ state[j] = "RUNNING" /\ state'[j] = "COMPLETED_KILLED"
                             /\ actor[j] = "running" /\ actor'[j] = "dead"
                        \/ j \in S /\ state[j] = "RUNNING" /\ state'[j] = "RUNNING"
                             /\ actor[j] = "running" /\ actor'[j] = "cancelled"
      /\ \A j \in S : state'[j] = "RUNNING" => actor'[j] = "cancelled"
  BY <1>0 DEF killer_process, RunningJobs, Assert, executionUnchanged, readerActor
<1>2. n \in Message /\ n.type = "KILLING_DONE" /\ n.about = S
  BY <1>0 DEF Msg, Message
<1> HIDE DEF n
<1>3. \A m \in Flight : m \in Message /\ Ending(m)
  BY FlightIsTyped DEF KillInv
<1>4. /\ \A m \in Flight : m.type = "KILLING_DONE" => S \cap m.about = {}
      /\ S # {} /\ S \subseteq kill_requested
      /\ \A j \in S : state[j] \in OrdinaryEnds \cup {"RUNNING"} /\ actor[j] # "cancelled"
      /\ \A T \in killers \ {S} : S \cap T = {}
  BY DEF KillInv, KillersDiffer
<1>5. Flight' = Flight \cup {n}
  BY <1>1, <1>2, PutFlight
<1>6. InOrder(EndOrder)'
  <2>1. \A m \in Flight : <<m, n>> \in EndOrder
    BY <1>2, <1>3, <1>4 DEF EndOrder, EndType
  <2>2. \A k \in 1..Len(held) : <<n, held[k]>> \in EndOrder
    BY <1>2, HeldIsNoEnd
  <2> QED
    BY <1>1, <1>2, <2>1, <2>2, PutFlight DEF KillInv
<1>7. \A j \in S : actor'[j] = "cancelled" \/ state'[j] \in Ended
  BY <1>0, <1>1, <1>4 DEF Ended, OrdinaryEnds
<1>8. ASSUME NEW m \in Flight' PROVE Ending(m)'
  <2>1. CASE m = n
    BY <1>1, <1>2, <1>4, <1>7, <2>1 DEF Ending
  <2>2. CASE m \in Flight /\ m.type \in EndType
    <3>1. Ending(m) /\ m.about \in SUBSET Job
      BY <1>3, <2>2, MessageKinds DEF EndType
    <3> QED
      BY <1>1, <3>1 DEF Ending, Ended, OrdinaryEnds
  <2>3. CASE m.type \notin EndType
    BY <2>3 DEF Ending, EndType
  <2> QED
    BY <1>5, <2>1, <2>2, <2>3
<1>9. KillersDiffer'
  <2>1. \A T \in killers' : T \in killers /\ T \cap S = {} /\ \A j \in T : j \in Job
    BY <1>1, <1>4 DEF TypeOK, ActorsTypeOK
  <2>2. \A T \in killers' : \A j \in T : state'[j] = state[j] /\ actor'[j] = actor[j]
    BY <1>1, <2>1
  <2> QED
    BY <1>1, <1>2, <1>5, <2>1, <2>2 DEF KillInv, KillersDiffer
<1>10. EndsAreOnTheirWay'
  <2>1. \A i \in Job : (Completing(i) => Completing(i)') /\ (Killing(i) => Killing(i)')
    BY <1>5 DEF Completing, Killing
  <2>2. \A i \in S : Killing(i)'
    BY <1>2, <1>5 DEF Killing
  <2> QED
    BY <1>1, <1>4, <2>1, <2>2 DEF KillInv, EndsAreOnTheirWay
<1> QED
  BY <1>6, <1>8, <1>9, <1>10 DEF KillInv

\* The end of a job is handled.
LEMMA CompletionKeepsKills ==
  ASSUME TypeOK, JobPhases, KillInv, server_on_job_completed
  PROVE  KillInv'
<1>1. /\ Flight' \subseteq Flight /\ Flight \subseteq Flight' \cup {Received}
      /\ Received \in Message /\ Received \in Flight /\ Received.type = "JOB_COMPLETED"
      /\ InOrder(EndOrder)' /\ \A m \in Flight' : <<Received, m>> \in EndOrder
  BY TakeFlight DEF KillInv, server_on_job_completed
<1>2. PICK j \in Job : Received.about = {j} /\ actor[j] = "notifying"
  BY <1>1 DEF KillInv, Ending
<1>3. /\ UNCHANGED <<state, kill_requested, killers>> /\ actor'[j] = "dead"
      /\ \A i \in Job : i # j => actor'[i] = actor[i]
      /\ state[j] \in OrdinaryEnds
  BY <1>2 DEF server_on_job_completed, helperActors, JobPhases
<1>4. ASSUME NEW m \in Flight' PROVE Ending(m)'
  <2>1. CASE m.type = "JOB_COMPLETED"
    <3>1. Ending(m) /\ j \notin m.about
      BY <1>1, <1>2, <2>1 DEF KillInv, EndOrder, EndType
    <3> QED
      BY <1>3, <2>1, <3>1 DEF Ending
  <2>2. CASE m.type = "KILLING_DONE"
    <3>1. Ending(m) /\ m.about \in SUBSET Job
      BY <1>1, <2>2, MessageKinds, FlightIsTyped DEF KillInv
    <3> QED
      BY <1>2, <1>3, <2>2, <3>1 DEF Ending
  <2> QED
    BY <2>1, <2>2 DEF Ending
<1>5. KillersDiffer'
  <2>1. \A S \in killers : \A i \in S : i \in Job
    BY DEF TypeOK, ActorsTypeOK
  <2> QED
    BY <1>1, <1>3, <2>1 DEF KillInv, KillersDiffer
<1>6. EndsAreOnTheirWay'
  <2>1. \A i \in Job : (i # j /\ Completing(i) => Completing(i)') /\ (Killing(i) => Killing(i)')
    BY <1>1, <1>2 DEF Completing, Killing
  <2> QED
    BY <1>3, <2>1 DEF KillInv, EndsAreOnTheirWay
<1> QED
  BY <1>1, <1>4, <1>5, <1>6 DEF KillInv

\* The end of a killer is handled: none of its jobs is still to be cancelled.
LEMMA KillingKeepsKills ==
  ASSUME TypeOK, LinkInv, KillInv, server_on_killing_done
  PROVE  KillInv'
<1>1. /\ Flight' \subseteq Flight /\ Flight \subseteq Flight' \cup {Received}
      /\ Received.type = "KILLING_DONE" /\ InOrder(EndOrder)'
  BY TakeFlight DEF KillInv, server_on_killing_done
<1>2. UNCHANGED <<state, actor, kill_requested, killers>>
  BY DEF server_on_killing_done, helperActors
<1>3. \A j \in Job : actor[j] # "cancelled"
  BY DEF server_on_killing_done, Receive, LinkInv, Settled
<1>4. \A m \in Flight' : Ending(m)'
  BY <1>1, <1>2 DEF KillInv, Ending
<1>5. KillersDiffer'
  BY <1>1, <1>2 DEF KillInv, KillersDiffer
<1>6. EndsAreOnTheirWay'
  <2>1. \A i \in Job : Completing(i) => Completing(i)'
    BY <1>1 DEF Completing
  <2> QED
    BY <1>2, <1>3, <2>1 DEF KillInv, EndsAreOnTheirWay
<1> QED
  BY <1>1, <1>4, <1>5, <1>6 DEF KillInv

\* What a KILL_JOB is about has been started: its decision was handled before.
LEMMA KillsComeAfterDecisions ==
  ASSUME TypeOK, JobPhases, DecisionInv, Receive("SCHED_KILL_JOB"), NEW j \in Received.about
  PROVE  j \in Job /\ view[j] = "running" /\ state[j] \in Ended \cup {"RUNNING"}
<1>1. /\ Received \in Message /\ Received \in Flight /\ Received.type = "SCHED_KILL_JOB"
      /\ Flight \subseteq Flight' \cup {Received}
      /\ \A m \in Flight' : <<Received, m>> \in DecisionOrder
  BY TakeFlight DEF DecisionInv
<1>2. j \in Job /\ view[j] = "running"
  BY <1>1, MessageKinds DEF DecisionInv, Founded
<1>3. ~Decided(j)
  BY <1>1 DEF Decided, DecisionOrder, Decision
<1>4. state[j] \in JobState
  BY <1>2 DEF TypeOK, JobsTypeOK
<1>5. state[j] \notin {"SUBMITTED", "REJECTED", "ABSENT", "NOT_SUBMITTED"}
  BY <1>2, <1>3 DEF DecisionInv, BeliefsAreTrue, JobPhases
<1> QED
  BY <1>2, <1>4, <1>5 DEF JobState, Ended

\* A killer is created for the jobs whose kill is requested for the first time.
LEMMA KillRequestKeepsKills ==
  ASSUME TypeOK, LinkInv, JobPhases, DecisionInv, KillInv, server_on_kill_jobs
  PROVE  KillInv'
<1>1. PICK S : S = NewlyRequested(Received.about)
  OBVIOUS
<1>2. /\ Receive("SCHED_KILL_JOB") /\ UNCHANGED <<state, actor>>
      /\ kill_requested' = kill_requested \cup S
      /\ killers' = IF S = {} THEN killers ELSE killers \cup {S}
  BY <1>1 DEF server_on_kill_jobs
<1>3. /\ Flight' \subseteq Flight /\ Flight \subseteq Flight' \cup {Received}
      /\ Received.type = "SCHED_KILL_JOB" /\ InOrder(EndOrder)'
  BY <1>2, TakeFlight DEF KillInv
<1>4. /\ \A j \in S : j \in Job /\ state[j] \in Ended \cup {"RUNNING"}
      /\ S \cap kill_requested = {}
  BY <1>1, <1>2, KillsComeAfterDecisions DEF NewlyRequested
<1>5. \A j \in S : state[j] # "COMPLETED_KILLED" /\ actor[j] # "cancelled"
  BY <1>2, <1>4 DEF KillInv, EndsAreOnTheirWay, LinkInv, Settled, Receive
<1>6. \A m \in Flight' : Ending(m)'
  BY <1>2, <1>3 DEF KillInv, Ending
<1>7. KillersDiffer'
  <2>1. \A T \in killers : T \cap S = {}
    BY <1>4 DEF KillInv, KillersDiffer
  <2>2. \A m \in Flight' : m.type = "KILLING_DONE" => S \cap m.about = {}
    BY <1>3, <1>4 DEF KillInv, Ending
  <2>3. \A j \in S : state[j] \in OrdinaryEnds \cup {"RUNNING"}
    BY <1>4, <1>5 DEF Ended
  <2> QED
    BY <1>2, <1>3, <1>5, <2>1, <2>2, <2>3 DEF KillInv, KillersDiffer
<1>8. EndsAreOnTheirWay'
  <2>1. \A j \in Job : (Completing(j) => Completing(j)') /\ (Killing(j) => Killing(j)')
    BY <1>3 DEF Completing, Killing
  <2> QED
    BY <1>2, <2>1 DEF KillInv, EndsAreOnTheirWay
<1> QED
  BY <1>3, <1>6, <1>7, <1>8 DEF KillInv

LEMMA LoopEndsNone ==
  ASSUME TypeOK, LinkInv, KillInv,
         Deliver \/ ServerSendsEvents \/ ServerEndsSimulation \/ ServerLoops \/ ServerLeavesLoop
  PROVE  NoEnd
<1>1. UNCHANGED <<mailbox, held, state, actor, killers, kill_requested>>
  <2>1. UNCHANGED <<mailbox, held>>
    BY CallsWhenAllIsQuiet DEF Deliver, ServerLoops, ServerLeavesLoop, checkUnchanged, readerActor
  <2> QED
    BY <2>1 DEF Deliver, ServerLoops, ServerLeavesLoop, checkUnchanged, helperActors, jobVars,
       ServerSendsEvents, ServerEndsSimulation
<1> QED
  BY <1>1, StillNoEnd DEF NoEnd

\* The steps that send the end of a job, and those that handle one.
JobEndStep ==
  \/ \E j \in Job : JobCancelled(j) \/ \E outcome \in Outcome : JobEnds(j, outcome)
  \/ \E S \in killers : \E inPtask \in SUBSET S : killer_process(S, inPtask)

EndStep ==
  \/ JobEndStep
  \/ server_on_job_completed \/ server_on_killing_done \/ server_on_kill_jobs

LEMMA OtherStepsEndNone ==
  ASSUME TypeOK, LifeCycle, LinkInv, KillInv, Next, ~aborted', ~EndStep
  PROVE  NoEnd
  BY SubmitterEndsNone, SchedulerEndsNone, HandlersEndNone, ExecutionEndsNone, LoopEndsNone
     DEF Next, EndStep, JobEndStep, ServerStep, ExecutionStep

\* The kills are sound.
LEMMA KillsHold == Spec => []Kills
<1>1. Init => Kills
  <2> SUFFICES ASSUME Init PROVE KillInv
    BY DEF Kills
  <2>1. Len(mailbox) = 0 /\ Len(held) = 0
    BY DEF Init
  <2>2. Flight = {} /\ InOrder(EndOrder)
    BY <2>1 DEF Flight, InOrder
  <2> QED
    BY <2>2 DEF Init, KillInv, KillersDiffer, EndsAreOnTheirWay
<1>2. TypeOK /\ TypeOK' /\ LifeCycle /\ Link /\ Decisions /\ Kills /\ [Next]_vars => Kills'
  <2> SUFFICES ASSUME TypeOK, TypeOK', LifeCycle, Link, Decisions, Kills, [Next]_vars, ~aborted'
               PROVE  KillInv'
    BY DEF Kills
  <2>1. CASE Next
    <3>1. ~aborted /\ LinkInv /\ DecisionInv /\ KillInv /\ JobPhases
      BY <2>1, StepsOfTheLiving DEF Link, Decisions, Kills, LifeCycle
    <3>2. CASE ~EndStep
      BY <2>1, <3>1, <3>2, OtherStepsEndNone, NoEndKeepsKills
    <3>3. CASE EndStep
      BY <3>1, <3>3, EndKeepsKills, CancelKeepsKills, KillerKeepsKills, CompletionKeepsKills,
         KillingKeepsKills, KillRequestKeepsKills DEF EndStep, JobEndStep
    <3> QED
      BY <3>2, <3>3
  <2>2. CASE UNCHANGED vars
    <3>1. UNCHANGED <<mailbox, held, state, actor, killers, kill_requested, aborted>>
      BY <2>2 DEF vars, jobVars, readerActor, helperActors
    <3>2. KillInv /\ JobPhases
      BY <3>1 DEF Kills, LifeCycle
    <3>3. NoEnd
      BY <3>1, <3>2, StillNoEnd DEF NoEnd
    <3> QED
      BY <3>2, <3>3, NoEndKeepsKills
  <2> QED
    BY <2>1, <2>2
<1> QED
  BY <1>1, <1>2, TypeCorrect, LifeCycleHolds, LinkHolds, DecisionsHold, PTL DEF Spec

----------------------------------------------------------------------------
(***************************************************************************)
(* The accounts of the ends: the jobs trace, the JOB_COMPLETED events and  *)
(* the list of the jobs to delete all follow the jobs that are counted.    *)
(***************************************************************************)

\* In a list of events, an end is reported once, and before its kill, to a
\* scheduler that believes v.
ReportsOK(events, v) ==
  /\ \A k, l \in 1..Len(events) :
       k # l /\ events[k].type = "JOB_COMPLETED" /\ events[l].type = "JOB_COMPLETED" =>
         events[k].about \cap events[l].about = {}
  /\ \A k \in 1..Len(events) : events[k].type = "JOB_KILLED" =>
       \A j \in events[k].about :
         \/ v[j] = "done"
         \/ \E i \in 1..(k-1) : events[i].type = "JOB_COMPLETED" /\ j \in events[i].about

Reported(j) == Says(outbox, "JOB_COMPLETED", j)

\* The accounts of job j.
Accounted(j) ==
  /\ traced[j] = IF Counted(j) THEN 1 ELSE 0
  /\ to_delete[j] = IF Counted(j) /\ j \in jobs THEN 1 ELSE 0
  /\ Reported(j) => Counted(j) /\ view[j] = "running"
  /\ Counted(j) => view[j] = "done" \/ Reported(j)
  /\ view[j] = "done" => state[j] = "SUBMITTED" \/ Counted(j)
  /\ j \notin jobs => state[j] = "ABSENT" \/ (Counted(j) /\ view[j] = "done")
  /\ state[j] = "ABSENT" => j \notin jobs

\* No job is deleted between its kill and the end of its killer.
KillsInTable ==
  /\ \A S \in killers : S \subseteq jobs
  /\ \A m \in Flight : m.type = "KILLING_DONE" => m.about \subseteq jobs

AccountInv == ReportsOK(outbox, view) /\ (\A j \in Job : Accounted(j)) /\ KillsInTable

Accounts == ~aborted => AccountInv

\* An event more.
LEMMA AppendReports ==
  ASSUME NEW o \in Seq(Event), NEW v, NEW e \in Event, ReportsOK(o, v),
         e.type = "JOB_COMPLETED" => \A j \in e.about : ~Says(o, "JOB_COMPLETED", j),
         e.type = "JOB_KILLED" => \A j \in e.about : v[j] = "done" \/ Says(o, "JOB_COMPLETED", j)
  PROVE  /\ ReportsOK(Append(o, e), v)
         /\ \A j : Says(Append(o, e), "JOB_COMPLETED", j) <=>
                     \/ Says(o, "JOB_COMPLETED", j)
                     \/ e.type = "JOB_COMPLETED" /\ j \in e.about
<1> DEFINE p == Append(o, e)
<1>1. /\ Len(o) \in Nat /\ Len(p) = Len(o) + 1 /\ p[Len(o) + 1] = e
      /\ \A k \in 1..Len(o) : k \in 1..Len(p) /\ p[k] = o[k]
  OBVIOUS
<1>2. \A k \in 1..Len(p) : k \in 1..Len(o) \/ k = Len(o) + 1
  BY <1>1
<1> HIDE DEF p
<1>3. \A j : Says(p, "JOB_COMPLETED", j) <=> \/ Says(o, "JOB_COMPLETED", j)
                                             \/ e.type = "JOB_COMPLETED" /\ j \in e.about
  <2>1. Len(o) + 1 \in 1..Len(p)
    BY <1>1
  <2> QED
    BY <1>1, <1>2, <2>1 DEF Says
<1>4. ASSUME NEW k \in 1..Len(p), NEW l \in 1..Len(p), k # l,
             p[k].type = "JOB_COMPLETED", p[l].type = "JOB_COMPLETED"
      PROVE  p[k].about \cap p[l].about = {}
  <2>1. CASE k \in 1..Len(o) /\ l \in 1..Len(o)
    BY <1>1, <1>4, <2>1 DEF ReportsOK
  <2>2. CASE k \in 1..Len(o) /\ l = Len(o) + 1
    BY <1>1, <1>4, <2>2 DEF Says
  <2>3. CASE k = Len(o) + 1 /\ l \in 1..Len(o)
    BY <1>1, <1>4, <2>3 DEF Says
  <2> QED
    BY <1>2, <1>4, <2>1, <2>2, <2>3
<1>5. ASSUME NEW k \in 1..Len(p), p[k].type = "JOB_KILLED", NEW j \in p[k].about, v[j] # "done"
      PROVE  \E i \in 1..(k-1) : p[i].type = "JOB_COMPLETED" /\ j \in p[i].about
  <2>1. CASE k \in 1..Len(o)
    <3>1. PICK i \in 1..(k-1) : o[i].type = "JOB_COMPLETED" /\ j \in o[i].about
      BY <1>1, <1>5, <2>1 DEF ReportsOK
    <3>2. i \in 1..Len(o)
      BY <1>1, <2>1, <3>1
    <3> QED
      BY <1>1, <3>1, <3>2
  <2>2. CASE k = Len(o) + 1
    <3>1. PICK i \in 1..Len(o) : o[i].type = "JOB_COMPLETED" /\ j \in o[i].about
      BY <1>1, <1>5, <2>2 DEF Says
    <3>2. i \in 1..(k-1)
      BY <1>1, <2>2, <3>1
    <3> QED
      BY <1>1, <3>1, <3>2
  <2> QED
    BY <1>2, <2>1, <2>2
<1>6. ReportsOK(p, v)
  BY <1>4, <1>5 DEF ReportsOK
<1> QED
  BY <1>3, <1>6 DEF p

\* A step that counts no end.
LEMMA NothingCounted ==
  ASSUME TypeOK, AccountInv, ReportsOK(outbox', view'),
         UNCHANGED <<traced, to_delete>>, jobs \subseteq jobs',
         \A j \in Job : /\ Counted(j)' <=> Counted(j)
                        /\ Reported(j)' <=> Reported(j)
                        /\ \/ (j \in jobs' <=> j \in jobs) /\ (state'[j] = "ABSENT" <=> state[j] = "ABSENT")
                           \/ j \in jobs' /\ state[j] = "ABSENT" /\ state'[j] = "SUBMITTED"
                        /\ \/ view'[j] = view[j] /\ (view[j] = "done" => state'[j] = state[j])
                           \/ state'[j] = "SUBMITTED",
         \A S \in killers' : S \in killers \/ S \subseteq jobs,
         \A m \in Flight' : m \in Flight \/ m.type # "KILLING_DONE" \/ m.about \subseteq jobs
  PROVE  AccountInv'
<1>1. ASSUME NEW j \in Job PROVE Accounted(j)'
  <2>1. Accounted(j)
    BY DEF AccountInv
  <2>2. state'[j] = "SUBMITTED" => ~Counted(j)'
    BY DEF Counted, IsComplete, OrdinaryEnds
  <2>3. traced'[j] = (IF Counted(j)' THEN 1 ELSE 0) /\ (Reported(j)' => Counted(j)')
    BY <2>1 DEF Accounted
  <2>4. CASE state[j] = "ABSENT" /\ j \in jobs' /\ state'[j] = "SUBMITTED"
    BY <2>1, <2>2, <2>3, <2>4 DEF Accounted
  <2>5. CASE (j \in jobs' <=> j \in jobs) /\ (state'[j] = "ABSENT" <=> state[j] = "ABSENT")
    <3>1. to_delete'[j] = IF Counted(j)' /\ j \in jobs' THEN 1 ELSE 0
      BY <2>1, <2>5 DEF Accounted
    <3>2. CASE state'[j] = "SUBMITTED"
      BY <2>1, <2>2, <2>3, <2>5, <3>1, <3>2 DEF Accounted
    <3>3. CASE view'[j] = view[j] /\ (view[j] = "done" => state'[j] = state[j])
      BY <2>1, <2>2, <2>3, <2>5, <3>1, <3>3 DEF Accounted
    <3> QED
      BY <3>2, <3>3
  <2> QED
    BY <2>4, <2>5
<1>2. KillsInTable'
  BY DEF AccountInv, KillsInTable
<1> QED
  BY <1>1, <1>2 DEF AccountInv

\* Only a rejection counts an end in a step where no job ends.
LEMMA NoEndCounts ==
  ASSUME TypeOK, TypeOK', KillInv, NoEnd, NEW j \in Job, state'[j] = "REJECTED" => state[j] = "REJECTED"
  PROVE  Counted(j)' <=> Counted(j)
<1>1. Killing(j)' <=> Killing(j)
  <2>1. Flight' \subseteq Message /\ Flight \subseteq Message
    BY DEF TypeOK, MailTypeOK, Flight
  <2> QED
    BY <2>1 DEF NoEnd, NoEndSent, Killing, EndType
<1>2. actor'[j] = "notifying" <=> actor[j] = "notifying"
  BY DEF NoEnd
<1>3. CASE state'[j] = state[j]
  BY <1>1, <1>2, <1>3 DEF Counted, Pending
<1>4. CASE state'[j] # state[j]
  BY <1>4 DEF Counted, IsComplete, OrdinaryEnds, NoEnd
<1> QED
  BY <1>3, <1>4

\* The steps of the other actors that end no job.
LEMMA OthersKeepAccounts ==
  ASSUME TypeOK, TypeOK', AccountInv, KillInv, NoEnd, UNCHANGED <<jobs, state, traced, to_delete, outbox>>,
         \A j \in Job : view'[j] = view[j]
  PROVE  AccountInv'
<1>1. \A j \in Job : (Counted(j)' <=> Counted(j)) /\ (Reported(j)' <=> Reported(j))
  BY NoEndCounts DEF Reported
<1>2. ReportsOK(outbox', view')
  <2>1. \A k \in 1..Len(outbox) : outbox[k].type = "JOB_KILLED" => outbox[k].about \subseteq Job
    BY DEF TypeOK, ServerTypeOK, Event
  <2> QED
    BY <2>1 DEF AccountInv, ReportsOK
<1>3. \A m \in Flight' : m \in Flight \/ m.type # "KILLING_DONE"
  <2>1. Flight' \subseteq Message
    BY DEF TypeOK, MailTypeOK, Flight
  <2> QED
    BY <2>1 DEF NoEnd, NoEndSent, EndType
<1> QED
  BY <1>1, <1>2, <1>3, NothingCounted DEF NoEnd

\* What the scheduler decides changes what it believes, never to forget an end.
LEMMA BeliefsKeepReports ==
  ASSUME TypeOK, ReportsOK(outbox, view), \A j \in Job : view[j] = "done" => view'[j] = "done"
  PROVE  ReportsOK(outbox, view')
<1>1. \A k \in 1..Len(outbox) : outbox[k].type = "JOB_KILLED" => outbox[k].about \subseteq Job
  BY DEF TypeOK, ServerTypeOK, Event
<1> QED
  BY <1>1 DEF ReportsOK

LEMMA SchedulerKeepsAccounts ==
  ASSUME TypeOK, TypeOK', JobPhases, LinkInv, KillInv, AccountInv, SchedulerStep
  PROVE  AccountInv'
<1>0. NoEnd
  BY SchedulerEndsNone
<1>1. /\ UNCHANGED <<traced, to_delete, outbox, killers>> /\ jobs \subseteq jobs'
      /\ \A j \in Job : /\ state'[j] = "REJECTED" => state[j] = "REJECTED"
                        /\ \/ (j \in jobs' <=> j \in jobs) /\ state'[j] = state[j]
                           \/ j \in jobs' /\ state[j] = "ABSENT" /\ state'[j] = "SUBMITTED"
                        /\ \/ view'[j] = view[j]
                           \/ view[j] # "done" /\ state'[j] = "SUBMITTED"
  <2>1. ASSUME NEW i \in DynJob, handle_register_job(i)
        PROVE  /\ jobs \subseteq jobs'
               /\ \A j \in Job : /\ state'[j] = "REJECTED" => state[j] = "REJECTED"
                                 /\ \/ (j \in jobs' <=> j \in jobs) /\ state'[j] = state[j]
                                    \/ j \in jobs' /\ state[j] = "ABSENT" /\ state'[j] = "SUBMITTED"
                                 /\ \/ view'[j] = view[j]
                                    \/ view[j] # "done" /\ state'[j] = "SUBMITTED"
    BY <2>1 DEF handle_register_job, TypeOK, JobsTypeOK, SchedulerTypeOK, JobPhases
  <2>2. \A j \in Job : view[j] = "waiting" => state[j] = "SUBMITTED"
    BY DEF JobPhases
  <2>3. ASSUME NEW i \in Job, view[i] = "waiting", NEW v, view' = [view EXCEPT ![i] = v], UNCHANGED state
        PROVE  \A j \in Job : view'[j] = view[j] \/ (view[j] # "done" /\ state'[j] = "SUBMITTED")
    BY <2>2, <2>3 DEF TypeOK, SchedulerTypeOK
  <2>4. ASSUME NEW i \in Job, handle_reject_job(i) \/ \E machines \in SUBSET Machine : handle_execute_job(i, machines)
        PROVE  /\ UNCHANGED <<jobs, state>>
               /\ \A j \in Job : view'[j] = view[j] \/ (view[j] # "done" /\ state'[j] = "SUBMITTED")
    BY <2>3, <2>4 DEF handle_reject_job, handle_execute_job, jobVars
  <2>5. UNCHANGED <<traced, to_delete, outbox, killers>>
    BY DEF SchedulerStep, handle_execute_job, handle_reject_job, handle_kill_job,
         handle_call_me_later, handle_register_job, NotifyRegistrationFinished,
         NotifyContinueRegistration, ReplyApplied, Decide, Apply, send_message_at_time,
         linkUnchanged, helperActors, jobVars, bufferVars
  <2> QED
    BY <2>1, <2>4, <2>5 DEF SchedulerStep, handle_kill_job, handle_call_me_later,
         NotifyRegistrationFinished, NotifyContinueRegistration, ReplyApplied,
         send_message_at_time, jobVars
<1>2. \A j \in Job : (Counted(j)' <=> Counted(j)) /\ (Reported(j)' <=> Reported(j))
  BY <1>0, <1>1, NoEndCounts DEF Reported
<1>3. ReportsOK(outbox', view')
  BY <1>1, BeliefsKeepReports DEF AccountInv
<1>4. \A m \in Flight' : m \in Flight \/ m.type # "KILLING_DONE"
  <2>1. Flight' \subseteq Message
    BY DEF TypeOK, MailTypeOK, Flight
  <2> QED
    BY <1>0, <2>1 DEF NoEnd, NoEndSent, EndType
<1> QED
  BY <1>1, <1>2, <1>3, <1>4, NothingCounted

\* A handler that counts no end and reports none.
LEMMA PlainHandlerKeepsAccounts ==
  ASSUME TypeOK, TypeOK', KillInv, DecisionInv, JobPhases, AccountInv, NoEnd, NEW type, Receive(type),
         UNCHANGED <<jobs, traced, to_delete>>,
         outbox' = outbox \/ \E e \in Event : e.type \notin {"JOB_COMPLETED", "JOB_KILLED"}
                                              /\ outbox' = Append(outbox, e),
         \A j \in Job : state'[j] = state[j] \/ (state[j] # "ABSENT" /\ view[j] # "done"
                                                 /\ state'[j] \notin {"ABSENT", "REJECTED"})
  PROVE  AccountInv'
<1>1. UNCHANGED view
  BY DEF Receive, schedVars
<1>2. \A j \in Job : Counted(j)' <=> Counted(j)
  BY NoEndCounts
<1>3. ReportsOK(outbox', view') /\ \A j \in Job : Reported(j)' <=> Reported(j)
  <2>1. CASE outbox' = outbox
    BY <1>1, <2>1 DEF AccountInv, Reported
  <2>2. ASSUME NEW e \in Event, e.type \notin {"JOB_COMPLETED", "JOB_KILLED"}, outbox' = Append(outbox, e)
        PROVE  ReportsOK(outbox', view') /\ \A j \in Job : Reported(j)' <=> Reported(j)
    <3>1. outbox \in Seq(Event)
      BY DEF TypeOK, ServerTypeOK
    <3> QED
      BY <1>1, <2>2, <3>1, AppendReports DEF AccountInv, Reported
  <2> QED
    BY <2>1, <2>2
<1>4. Flight' \subseteq Flight
  BY TakeFlight
<1> QED
  BY <1>1, <1>2, <1>3, <1>4, NothingCounted DEF NoEnd

LEMMA PlainHandlersKeepAccounts ==
  ASSUME TypeOK, TypeOK', LifeCycle, KillInv, DecisionInv, AccountInv, Handle, ~aborted', NoEnd,
         ~server_on_job_completed, ~server_on_killing_done, ~server_on_kill_jobs,
         ~server_on_reject_job
  PROVE  AccountInv'
<1>0. JobPhases /\ MessagesAreTrue
  BY StepsOfTheLiving DEF LifeCycle, Next, ServerStep
<1>1. ASSUME NEW type, Receive(type), UNCHANGED <<jobVars, to_delete>>,
             \/ outbox' = outbox
             \/ \E e \in Event : e.type \notin {"JOB_COMPLETED", "JOB_KILLED"} /\ outbox' = Append(outbox, e)
      PROVE  AccountInv'
  BY <1>0, <1>1, PlainHandlerKeepsAccounts DEF jobVars
<1>2. /\ Ev("NO_MORE_STATIC_JOB", {}) \in Event /\ Ev("NO_MORE_EXTERNAL_EVENT", {}) \in Event
      /\ Ev("REQUESTED_CALL", {}) \in Event
      /\ \A type, about : Ev(type, about).type = type
      /\ \A S \in SUBSET Job : Ev("JOB_SUBMITTED", S) \in Event
      /\ \A S \in SUBSET ExtEvent : Ev("EXTERNAL_EVENT", S) \in Event
  BY DEF Ev, Event
<1>3. /\ Receive("JOB_SUBMITTED") \/ Receive("JOB_REGISTERED_BY_DP") => Received.about \in SUBSET Job
      /\ Receive("EVENT_OCCURRED") => Received.about \in SUBSET ExtEvent
  <2>1. \A m \in Message : m.type = "EVENT_OCCURRED" => m.about \in SUBSET ExtEvent
    BY DEF Message
  <2> QED
    BY <2>1, ReceiveIsTyped, MessageKinds
<1>4. CASE server_on_job_submitted
  <2>1. IsTrue(Received) /\ Received.type = "JOB_SUBMITTED"
    BY <1>0, <1>4 DEF server_on_job_submitted, Receive, MessagesAreTrue, Received, TypeOK, MailTypeOK
  <2>2. \A j \in Job : state'[j] = state[j] \/ (state[j] = "NOT_SUBMITTED" /\ view[j] = "unknown"
                                                /\ state'[j] = "SUBMITTED")
    BY <1>0, <1>4, <2>1 DEF server_on_job_submitted, IsTrue, JobPhases
  <2>3. PICK e \in Event : e.type = "JOB_SUBMITTED" /\ outbox' = Append(outbox, e)
    BY <1>2, <1>3, <1>4 DEF server_on_job_submitted
  <2> QED
    BY <1>0, <1>4, <2>2, <2>3, PlainHandlerKeepsAccounts DEF server_on_job_submitted
<1>5. CASE server_on_execute_job
  <2>1. \A j \in Received.about : state[j] = "SUBMITTED" /\ view[j] = "running"
    BY <1>5, TakeFlight DEF server_on_execute_job, DecisionInv, Founded
  <2>2. \A j \in Job : state'[j] = state[j] \/ (state[j] = "SUBMITTED" /\ view[j] = "running"
                                                /\ state'[j] = "RUNNING")
    BY <1>5, <2>1 DEF server_on_execute_job
  <2> QED
    BY <1>0, <1>5, <2>2, PlainHandlerKeepsAccounts DEF server_on_execute_job, bufferVars
<1>6. CASE server_on_submitter_bye
  <2>1. outbox' = outbox \/ \E e \in Event : e.type \notin {"JOB_COMPLETED", "JOB_KILLED"}
                                             /\ outbox' = Append(outbox, e)
    BY <1>2, <1>6 DEF server_on_submitter_bye
  <2> QED
    BY <1>1, <1>6, <2>1 DEF server_on_submitter_bye
<1>7. CASE server_on_register_job
  <2>1. outbox' = outbox \/ \E e \in Event : e.type \notin {"JOB_COMPLETED", "JOB_KILLED"}
                                             /\ outbox' = Append(outbox, e)
    BY <1>2, <1>3, <1>7 DEF server_on_register_job
  <2> QED
    BY <1>1, <1>7, <2>1 DEF server_on_register_job
<1>8. CASE server_on_event_occurred
  BY <1>1, <1>2, <1>3, <1>8 DEF server_on_event_occurred
<1>9. CASE server_on_waiting_done
  BY <1>1, <1>2, <1>9 DEF server_on_waiting_done
<1> QED
  BY <1>1, <1>4, <1>5, <1>6, <1>7, <1>8, <1>9 DEF Handle, server_on_submitter_hello,
         server_on_call_me_later, server_on_end_dynamic_register,
         server_on_continue_dynamic_register, server_on_sched_ready, bufferVars

\* A handler counts the ends of the jobs S, which are still in the table.
LEMMA CountingKeepsAccounts ==
  ASSUME TypeOK, AccountInv, NEW S \in SUBSET Job, S \subseteq jobs, Finish(S),
         UNCHANGED <<jobs, view, killers>>, Flight' \subseteq Flight,
         \A j \in S : ~Counted(j) /\ Counted(j)',
         \A j \in Job \ S : (Counted(j)' <=> Counted(j)) /\ (Reported(j)' <=> Reported(j))
                            /\ state'[j] = state[j],
         \A j \in S : state'[j] # "ABSENT",
         \A j \in S : (view[j] = "done" /\ ~Reported(j)') \/ (view[j] = "running" /\ Reported(j)'),
         ReportsOK(outbox', view)
  PROVE  AccountInv'
<1>1. ASSUME NEW j \in Job PROVE Accounted(j)'
  <2>1. /\ traced'[j] = IF j \in S THEN traced[j] + 1 ELSE traced[j]
        /\ to_delete'[j] = IF j \in S THEN to_delete[j] + 1 ELSE to_delete[j]
    BY DEF Finish
  <2>2. Accounted(j)
    BY DEF AccountInv
  <2>3. CASE j \in S
    <3>1. traced'[j] = 1 /\ to_delete'[j] = 1
      BY <2>1, <2>2, <2>3 DEF Accounted
    <3> QED
      BY <2>2, <2>3, <3>1 DEF Accounted
  <2>4. CASE j \notin S
    BY <2>1, <2>2, <2>4 DEF Accounted
  <2> QED
    BY <2>3, <2>4
<1>2. KillsInTable'
  BY DEF AccountInv, KillsInTable
<1> QED
  BY <1>1, <1>2 DEF AccountInv

\* An event about jobs.
LEMMA JobEvents ==
  ASSUME NEW type \in {"JOB_SUBMITTED", "JOB_COMPLETED", "JOB_KILLED"}, NEW S \in SUBSET Job
  PROVE  Ev(type, S) \in Event /\ Ev(type, S).type = type /\ Ev(type, S).about = S
  BY DEF Ev, Event

\* A job in the table is one that exists and whose end is not both counted and known.
LEMMA InTable ==
  ASSUME AccountInv, NEW j \in Job, state[j] # "ABSENT", ~Counted(j) \/ view[j] # "done"
  PROVE  j \in jobs
  BY DEF AccountInv, Accounted

\* A rejected job is counted at once; the scheduler knows.
LEMMA RejectionKeepsAccounts ==
  ASSUME TypeOK, TypeOK', JobPhases, DecisionInv, KillInv, AccountInv, NoEnd, server_on_reject_job
  PROVE  AccountInv'
<1>1. /\ Receive("SCHED_REJECT_JOB") /\ UNCHANGED <<jobs, actor, outbox, killers>>
      /\ state' = [j \in Job |-> IF j \in Received.about THEN "REJECTED" ELSE state[j]]
      /\ Finish(Received.about)
  BY DEF server_on_reject_job, helperActors
<1>2. /\ Received \in Message /\ Received \in Flight /\ Received.type = "SCHED_REJECT_JOB"
      /\ Flight' \subseteq Flight
  BY <1>1, TakeFlight
<1>3. PICK S \in SUBSET Job : S = Received.about
  BY <1>2, MessageKinds
<1>4. \A j \in S : state[j] = "SUBMITTED" /\ view[j] = "done"
  BY <1>2, <1>3 DEF DecisionInv, Founded
<1>5. \A j \in S : ~Counted(j) /\ j \in jobs
  <2>1. \A j \in S : ~Counted(j)
    BY <1>4 DEF Counted, IsComplete, OrdinaryEnds
  <2> QED
    BY <1>3, <1>4, <2>1, InTable
<1>6. \A j \in S : Counted(j)'
  BY <1>1, <1>3, <1>4 DEF Counted, Pending, IsComplete, JobPhases, OrdinaryEnds
<1>7. UNCHANGED view
  BY <1>1 DEF Receive, schedVars
<1>8. \A j \in Job \ S : Counted(j)' <=> Counted(j)
  BY <1>1, <1>3, NoEndCounts
<1>9. /\ \A j \in Job : Reported(j)' <=> Reported(j)
      /\ \A j \in S : ~Reported(j)
  BY <1>1, <1>3, <1>5 DEF Reported, AccountInv, Accounted
<1>10. ReportsOK(outbox', view)
  BY <1>1 DEF AccountInv
<1> QED
  BY <1>1, <1>2, <1>3, <1>4, <1>5, <1>6, <1>7, <1>8, <1>9, <1>10, CountingKeepsAccounts

\* The ordinary end of a job is counted and reported.
LEMMA CompletionKeepsAccounts ==
  ASSUME TypeOK, JobPhases, DecisionInv, KillInv, AccountInv, server_on_job_completed
  PROVE  AccountInv'
<1>1. /\ Receive("JOB_COMPLETED") /\ UNCHANGED <<jobs, state, killers>>
      /\ outbox' = Append(outbox, Ev("JOB_COMPLETED", Received.about))
      /\ actor' = [j \in Job |-> IF j \in Received.about THEN "dead" ELSE actor[j]]
      /\ Finish(Received.about)
  BY DEF server_on_job_completed, helperActors
<1>2. /\ Received \in Message /\ Received \in Flight /\ Received.type = "JOB_COMPLETED"
      /\ Flight' \subseteq Flight /\ Flight \subseteq Flight' \cup {Received}
  BY <1>1, TakeFlight
<1>3. PICK j \in Job : Received.about = {j} /\ actor[j] = "notifying"
  BY <1>2 DEF KillInv, Ending
<1>4. state[j] \in OrdinaryEnds /\ ~Counted(j)
  BY <1>3 DEF JobPhases, Counted, Pending
<1>5. view[j] = "running" /\ UNCHANGED view
  <2>1. view[j] \in {"running", "done"} /\ state[j] # "SUBMITTED"
    BY <1>4 DEF DecisionInv, BeliefsAreTrue, Ended, OrdinaryEnds
  <2>2. view[j] # "done"
    BY <1>4, <2>1 DEF AccountInv, Accounted
  <2>3. UNCHANGED view
    BY <1>1 DEF Receive, schedVars
  <2> QED
    BY <2>1, <2>2, <2>3
<1>6. j \in jobs
  BY <1>4, InTable DEF OrdinaryEnds
<1>7. Counted(j)'
  BY <1>1, <1>3, <1>4 DEF Counted, Pending, IsComplete, OrdinaryEnds
<1>8. \A i \in Job \ {j} : Counted(i)' <=> Counted(i)
  <2>1. \A i \in Job : Killing(i)' <=> Killing(i)
    BY <1>2 DEF Killing
  <2> QED
    BY <1>1, <1>3, <2>1 DEF Counted, Pending
<1>9. PICK e \in Event : e = Ev("JOB_COMPLETED", {j}) /\ e.type = "JOB_COMPLETED" /\ e.about = {j}
  BY JobEvents
<1>10. ~Reported(j)
  BY <1>4 DEF AccountInv, Accounted
<1>11. outbox \in Seq(Event)
  BY DEF TypeOK, ServerTypeOK
<1>12. /\ ReportsOK(outbox', view)
       /\ \A i \in Job : Reported(i)' <=> Reported(i) \/ i = j
  BY <1>1, <1>3, <1>9, <1>10, <1>11, AppendReports DEF AccountInv, Reported
<1>13. {j} \in SUBSET Job /\ {j} \subseteq jobs /\ Finish({j})
  BY <1>1, <1>3, <1>6
<1>14. \A i \in {j} : state'[i] # "ABSENT"
  BY <1>1, <1>4 DEF OrdinaryEnds
<1> QED
  BY <1>1, <1>2, <1>4, <1>5, <1>7, <1>8, <1>12, <1>13, <1>14, CountingKeepsAccounts

\* The events of a kill are one or two appends.
LEMMA KillingAppends ==
  ASSUME NEW o \in Seq(Event), NEW S \in SUBSET Job
  PROVE  o \o KillingEvents(S) =
           Append(IF ReallyKilled(S) = {} THEN o ELSE Append(o, Ev("JOB_COMPLETED", ReallyKilled(S))),
                  Ev("JOB_KILLED", S))
<1>1. PICK d \in Event : d = Ev("JOB_KILLED", S)
  BY DEF Ev, Event
<1>2. PICK c \in Event : c = Ev("JOB_COMPLETED", ReallyKilled(S))
  BY DEF Ev, Event, ReallyKilled
<1>3. <<d>> \in Seq(Event) /\ <<c>> \in Seq(Event) /\ <<>> \in Seq(Event)
  OBVIOUS
<1>4. \A s \in Seq(Event) : \A e \in Event : Append(s, e) = s \o <<e>>
  BY AppendIsConcat
<1>5. CASE ReallyKilled(S) = {}
  <2>1. KillingEvents(S) = <<>> \o <<d>>
    BY <1>1, <1>5 DEF KillingEvents, CompletionOf
  <2>2. KillingEvents(S) = <<d>>
    BY <1>3, <2>1, ConcatEmptySeq
  <2> QED
    BY <1>1, <1>4, <1>5, <2>2
<1>6. CASE ReallyKilled(S) # {}
  <2>1. KillingEvents(S) = <<c>> \o <<d>>
    BY <1>1, <1>2, <1>6 DEF KillingEvents, CompletionOf
  <2>2. o \o (<<c>> \o <<d>>) = (o \o <<c>>) \o <<d>>
    BY <1>3, ConcatAssociative
  <2>3. o \o <<c>> \in Seq(Event)
    BY <1>3, ConcatProperties
  <2>4. (o \o <<c>>) \o <<d>> = Append(Append(o, c), d)
    BY <1>4, <2>3
  <2> QED
    BY <1>1, <1>2, <1>6, <2>1, <2>2, <2>4
<1> QED
  BY <1>5, <1>6

\* The end of a killer: what it really killed is counted and reported, and the
\* end of its other jobs has been before.
LEMMA KillingKeepsAccounts ==
  ASSUME TypeOK, JobPhases, LinkInv, DecisionInv, KillInv, AccountInv, server_on_killing_done
  PROVE  AccountInv'
<1>1. /\ Receive("KILLING_DONE") /\ UNCHANGED <<jobs, state, actor, killers>>
      /\ outbox' = outbox \o KillingEvents(Received.about)
      /\ Finish(ReallyKilled(Received.about))
  BY DEF server_on_killing_done, helperActors
<1>2. /\ Received \in Message /\ Received \in Flight /\ Received.type = "KILLING_DONE"
      /\ Flight' \subseteq Flight /\ Flight \subseteq Flight' \cup {Received}
      /\ \A m \in Flight' : <<Received, m>> \in EndOrder
  BY <1>1, TakeFlight DEF KillInv
<1>3. PICK S \in SUBSET Job : S = Received.about
  BY <1>2, MessageKinds
<1>4. PICK K \in SUBSET Job : K = ReallyKilled(S) /\ K \subseteq S
  BY DEF ReallyKilled
<1>5. \A j \in K : state[j] = "COMPLETED_KILLED" /\ ~Counted(j)
  BY <1>2, <1>3, <1>4 DEF ReallyKilled, Counted, Pending, Killing
<1>6. \A j \in K : view[j] = "running"
  <2>1. \A j \in K : view[j] \in {"running", "done"}
    BY <1>5 DEF DecisionInv, BeliefsAreTrue, Ended
  <2>2. \A j \in K : view[j] # "done"
    BY <1>5 DEF AccountInv, Accounted
  <2> QED
    BY <2>1, <2>2
<1>7. UNCHANGED view
  BY <1>1 DEF Receive, schedVars
<1>8. \A m \in Flight' : m.type \in EndType => S \cap m.about = {}
  BY <1>2, <1>3 DEF EndOrder, EndType
<1>9. \A j \in K : Counted(j)'
  <2>1. \A j \in K : ~Killing(j)'
    BY <1>4, <1>8 DEF Killing, EndType
  <2> QED
    BY <1>1, <1>5, <2>1 DEF Counted, Pending, IsComplete, JobPhases, OrdinaryEnds
<1>10. \A j \in Job \ K : Counted(j)' <=> Counted(j)
  <2>1. ASSUME NEW j \in Job \ K, state[j] = "COMPLETED_KILLED" PROVE Killing(j)' <=> Killing(j)
    <3>1. j \notin Received.about
      BY <1>3, <1>4, <2>1 DEF ReallyKilled
    <3> QED
      BY <1>2, <3>1 DEF Killing
  <2> QED
    BY <1>1, <2>1 DEF Counted, Pending
<1>11. K \subseteq jobs
  BY <1>2, <1>3, <1>4 DEF AccountInv, KillsInTable
<1>12. ASSUME NEW j \in S \ K PROVE view[j] = "done" \/ Reported(j)
  <2>1. state[j] \in Ended /\ state[j] # "COMPLETED_KILLED"
    <3>1. actor[j] # "cancelled"
      BY <1>1 DEF Receive, LinkInv, Settled
    <3> QED
      BY <1>2, <1>3, <1>4, <3>1 DEF KillInv, Ending, ReallyKilled
  <2>2. actor[j] # "notifying"
    <3>1. ~Completing(j)
      BY <1>2, <1>3, <1>8 DEF Completing, EndType
    <3> QED
      BY <3>1 DEF KillInv, EndsAreOnTheirWay
  <2>3. Counted(j)
    BY <2>1, <2>2 DEF Counted, Pending, IsComplete, Ended
  <2> QED
    BY <2>3 DEF AccountInv, Accounted
<1>13. PICK d \in Event : d = Ev("JOB_KILLED", S) /\ d.type = "JOB_KILLED" /\ d.about = S
  BY JobEvents
<1>14. PICK c \in Event : c = Ev("JOB_COMPLETED", K) /\ c.type = "JOB_COMPLETED" /\ c.about = K
  BY JobEvents
<1>15. PICK o \in Seq(Event) : o = IF K = {} THEN outbox ELSE Append(outbox, c)
  <2>1. outbox \in Seq(Event) /\ Append(outbox, c) \in Seq(Event)
    BY DEF TypeOK, ServerTypeOK
  <2> QED
    BY <2>1
<1>16. outbox \in Seq(Event) /\ outbox' = Append(o, d)
  BY <1>1, <1>3, <1>4, <1>13, <1>14, <1>15, KillingAppends DEF TypeOK, ServerTypeOK
<1>17. /\ ReportsOK(o, view)
       /\ \A j \in Job : Says(o, "JOB_COMPLETED", j) <=> Reported(j) \/ j \in K
  <2>1. CASE K = {}
    BY <1>15, <2>1 DEF AccountInv, Reported
  <2>2. CASE K # {}
    <3>1. \A j \in K : ~Says(outbox, "JOB_COMPLETED", j)
      BY <1>5 DEF AccountInv, Accounted, Reported
    <3> QED
      BY <1>14, <1>15, <1>16, <2>2, <3>1, AppendReports DEF AccountInv, Reported
  <2> QED
    BY <2>1, <2>2
<1>18. \A j \in S : view[j] = "done" \/ Says(o, "JOB_COMPLETED", j)
  BY <1>3, <1>12, <1>17
<1>19. /\ ReportsOK(outbox', view)
       /\ \A j \in Job : Reported(j)' <=> Reported(j) \/ j \in K
  BY <1>13, <1>16, <1>17, <1>18, AppendReports DEF Reported
<1>20. Finish(K) /\ \A j \in K : state'[j] # "ABSENT"
  BY <1>1, <1>3, <1>4, <1>5
<1> QED
  BY <1>1, <1>2, <1>5, <1>6, <1>7, <1>9, <1>10, <1>11, <1>19, <1>20, CountingKeepsAccounts

\* A kill request: its jobs are in the table.
LEMMA KillRequestKeepsAccounts ==
  ASSUME TypeOK, JobPhases, DecisionInv, AccountInv, server_on_kill_jobs
  PROVE  AccountInv'
<1>1. /\ Receive("SCHED_KILL_JOB") /\ UNCHANGED <<jobs, state, actor, traced, to_delete, outbox>>
      /\ \A T \in killers' : T \in killers \/ T = NewlyRequested(Received.about)
  BY DEF server_on_kill_jobs, bufferVars
<1>2. /\ Flight' \subseteq Flight /\ Flight \subseteq Flight' \cup {Received}
      /\ Received.type = "SCHED_KILL_JOB"
  BY <1>1, TakeFlight
<1>3. UNCHANGED view
  BY <1>1 DEF Receive, schedVars
<1>4. \A j \in Received.about : j \in jobs
  <2>1. \A j \in Received.about : j \in Job /\ view[j] = "running" /\ state[j] \in Ended \cup {"RUNNING"}
    BY <1>1, KillsComeAfterDecisions
  <2> QED
    BY <2>1, InTable DEF Ended, OrdinaryEnds
<1>5. \A j \in Job : (Counted(j)' <=> Counted(j)) /\ (Reported(j)' <=> Reported(j))
  <2>1. \A j \in Job : Killing(j)' <=> Killing(j)
    BY <1>2 DEF Killing
  <2> QED
    BY <1>1, <2>1 DEF Counted, Pending, Reported
<1>6. ReportsOK(outbox', view')
  BY <1>1, <1>3 DEF AccountInv
<1> QED
  BY <1>1, <1>2, <1>3, <1>4, <1>5, <1>6, NothingCounted DEF NewlyRequested

\* A job ends: it will be counted when its message is handled.
LEMMA EndsArePending ==
  ASSUME TypeOK, JobPhases, KillInv, JobEndStep
  PROVE  /\ \A j \in Job :
              \/ state'[j] = state[j] /\ (actor'[j] = actor[j] \/ state[j] = "RUNNING")
                 /\ (state[j] = "COMPLETED_KILLED" => (Killing(j)' <=> Killing(j)))
              \/ state[j] = "RUNNING" /\ IsComplete(state'[j]) /\ Pending(j)'
         /\ \A m \in Flight' : m \in Flight \/ m.type # "KILLING_DONE" \/ m.about \in killers
<1> DEFINE Moves(j) == \/ state'[j] = state[j] /\ (actor'[j] = actor[j] \/ state[j] = "RUNNING")
                          /\ (state[j] = "COMPLETED_KILLED" => (Killing(j)' <=> Killing(j)))
                       \/ state[j] = "RUNNING" /\ IsComplete(state'[j]) /\ Pending(j)'
           Puts == \A m \in Flight' : m \in Flight \/ m.type # "KILLING_DONE" \/ m.about \in killers
<1>1. ASSUME NEW j \in Job, NEW outcome \in Outcome, JobEnds(j, outcome)
      PROVE  (\A i \in Job : Moves(i)) /\ Puts
  <2>1. /\ state[j] = "RUNNING" /\ state'[j] \in OrdinaryEnds /\ actor'[j] = "notifying"
        /\ \A i \in Job : i # j => state'[i] = state[i] /\ actor'[i] = actor[i]
    BY <1>1, ConstantsAssumption DEF JobEnds, JobPhases, TypeOK, JobsTypeOK
  <2>2. PICK n \in Message : Put(n) /\ n.type # "KILLING_DONE"
    BY <1>1 DEF JobEnds, Msg, Message
  <2>3. Flight' = Flight \cup {n}
    BY <1>1, <2>2, PutFlight DEF JobEnds, executionUnchanged, readerActor
  <2>4. \A i \in Job : Killing(i)' <=> Killing(i)
    BY <2>2, <2>3 DEF Killing
  <2> QED
    BY <2>1, <2>2, <2>3, <2>4 DEF IsComplete, Pending
<1>2. ASSUME NEW j \in Job, JobCancelled(j) PROVE (\A i \in Job : Moves(i)) /\ Puts
  <2>1. /\ state[j] = "RUNNING" /\ state'[j] = "COMPLETED_KILLED" /\ actor[j] = "cancelled"
        /\ \A i \in Job : i # j => state'[i] = state[i] /\ actor'[i] = actor[i]
        /\ UNCHANGED <<mailbox, held>>
    BY <1>2 DEF JobCancelled, JobPhases, TypeOK, JobsTypeOK, executionUnchanged, readerActor
  <2>2. Flight' = Flight
    BY <2>1, StillFlight
  <2>3. \A i \in Job : Killing(i)' <=> Killing(i)
    BY <2>2 DEF Killing
  <2>4. Killing(j)
    BY <2>1 DEF KillInv, EndsAreOnTheirWay
  <2> QED
    BY <2>1, <2>2, <2>3, <2>4 DEF IsComplete, Pending
<1>3. ASSUME NEW S \in killers, NEW inPtask \in SUBSET S, killer_process(S, inPtask)
      PROVE  (\A i \in Job : Moves(i)) /\ Puts
  <2>0. S \in SUBSET Job
    BY DEF TypeOK, ActorsTypeOK
  <2>1. /\ \A j \in Job : \/ state'[j] = state[j] /\ actor'[j] = actor[j]
                          \/ j \in S /\ state[j] = "RUNNING" /\ state'[j] = "COMPLETED_KILLED"
                          \/ j \in S /\ state[j] = "RUNNING" /\ state'[j] = "RUNNING"
    BY <1>3, <2>0 DEF killer_process, RunningJobs
  <2>2. PICK n \in Message : Put(n) /\ n.type = "KILLING_DONE" /\ n.about = S
    BY <1>3, <2>0 DEF killer_process, Msg, Message
  <2>3. Flight' = Flight \cup {n}
    BY <1>3, <2>2, PutFlight DEF killer_process, executionUnchanged, readerActor
  <2>4. \A i \in Job : /\ i \notin S => (Killing(i)' <=> Killing(i))
                       /\ i \in S => Killing(i)'
    BY <2>2, <2>3 DEF Killing
  <2>5. \A i \in S : state[i] # "COMPLETED_KILLED"
    BY DEF KillInv, KillersDiffer, OrdinaryEnds
  <2>6. \A j \in Job : Moves(j)
    BY <2>1, <2>4, <2>5 DEF IsComplete, Pending
  <2> QED
    BY <2>2, <2>3, <2>6
<1> QED
  BY <1>1, <1>2, <1>3 DEF JobEndStep

LEMMA EndsKeepAccounts ==
  ASSUME TypeOK, JobPhases, KillInv, AccountInv, JobEndStep
  PROVE  AccountInv'
<1>1. UNCHANGED <<jobs, traced, to_delete, outbox, view>> /\ killers' \subseteq killers
  BY DEF JobEndStep, JobEnds, JobCancelled, killer_process,
         executionUnchanged, helperActors, bufferVars, schedVars
<1>2. \A j \in Job :
        \/ state'[j] = state[j] /\ (actor'[j] = actor[j] \/ state[j] = "RUNNING")
           /\ (state[j] = "COMPLETED_KILLED" => (Killing(j)' <=> Killing(j)))
        \/ state[j] = "RUNNING" /\ IsComplete(state'[j]) /\ Pending(j)'
  BY EndsArePending
<1>3. \A m \in Flight' : m \in Flight \/ m.type # "KILLING_DONE" \/ m.about \subseteq jobs
  BY EndsArePending DEF AccountInv, KillsInTable
<1>4. \A j \in Job : Counted(j)' <=> Counted(j)
  BY <1>2 DEF Counted, Pending, IsComplete, OrdinaryEnds
<1>5. \A j \in Job : /\ state'[j] = "ABSENT" <=> state[j] = "ABSENT"
                     /\ view[j] = "done" => state'[j] = state[j]
  <2>1. \A j \in Job : state[j] = "RUNNING" => view[j] # "done"
    BY DEF AccountInv, Accounted, Counted, IsComplete, OrdinaryEnds
  <2> QED
    BY <1>2, <2>1 DEF IsComplete, OrdinaryEnds
<1>6. ReportsOK(outbox', view') /\ \A j \in Job : Reported(j)' <=> Reported(j)
  BY <1>1 DEF AccountInv, Reported
<1> QED
  BY <1>1, <1>3, <1>4, <1>5, <1>6, NothingCounted

\* The scheduler is told: what it learns has been counted, and is deleted.
LEMMA SendingKeepsAccounts ==
  ASSUME TypeOK, EventsAreTrue, LinkInv, AccountInv, ServerSendsEvents \/ ServerEndsSimulation
  PROVE  AccountInv'
<1>1. /\ killers' = {} /\ Flight = {} /\ UNCHANGED <<mailbox, held, actor, state>>
  BY CallsWhenAllIsQuiet
<1>2. Flight' = {}
  BY <1>1, StillFlight
<1>3. \A j \in Job : Counted(j)' <=> Counted(j)
  BY <1>1, <1>2 DEF Counted, Pending, Killing
<1>4. UNCHANGED traced /\ outbox' = <<>> /\ jobs' \subseteq jobs
  BY DEF ServerSendsEvents, ServerEndsSimulation, checkUnchanged, generate_and_send_message
<1>5. \A j \in Job : ~Reported(j)'
  BY <1>4 DEF Reported, Says
<1>6. ASSUME NEW j \in Job
      PROVE  /\ j \in jobs /\ j \notin jobs' => Counted(j)
             /\ to_delete'[j] = IF Counted(j) /\ j \in jobs' THEN 1 ELSE 0
  <2>1. Accounted(j)
    BY DEF AccountInv
  <2>2. CASE ServerSendsEvents
    <3>1. to_delete'[j] = 0 /\ (j \in jobs' <=> j \in jobs /\ to_delete[j] = 0)
      BY <2>2 DEF ServerSendsEvents
    <3>2. j \in jobs => (to_delete[j] = 0 <=> ~Counted(j))
      BY <2>1 DEF Accounted
    <3> QED
      BY <3>1, <3>2
  <2>3. CASE ServerEndsSimulation /\ ~ServerSendsEvents
    BY <2>1, <2>3 DEF ServerEndsSimulation, Accounted
  <2> QED
    BY <2>2, <2>3
<1>7. ASSUME NEW j \in Job PROVE Accounted(j)'
  <2>1. Accounted(j)
    BY DEF AccountInv
  <2>2. /\ view'[j] = "done" <=> view[j] = "done" \/ Reported(j)
    BY WhatIsLearnt DEF Reported
  <2>3. traced'[j] = IF Counted(j)' THEN 1 ELSE 0
    BY <1>3, <1>4, <2>1 DEF Accounted
  <2>4. to_delete'[j] = IF Counted(j)' /\ j \in jobs' THEN 1 ELSE 0
    BY <1>3, <1>6
  <2>5. Counted(j)' => view'[j] = "done"
    BY <1>3, <2>1, <2>2 DEF Accounted
  <2>6. view'[j] = "done" => state'[j] = "SUBMITTED" \/ Counted(j)'
    BY <1>1, <1>3, <2>1, <2>2 DEF Accounted
  <2>7. j \notin jobs' => state'[j] = "ABSENT" \/ (Counted(j)' /\ view'[j] = "done")
    BY <1>1, <1>3, <1>6, <2>1, <2>5 DEF Accounted
  <2>8. state'[j] = "ABSENT" => j \notin jobs'
    BY <1>1, <1>4, <2>1 DEF Accounted
  <2> QED
    BY <1>5, <2>3, <2>4, <2>5, <2>6, <2>7, <2>8 DEF Accounted
<1>8. ReportsOK(outbox', view')
  BY <1>4 DEF ReportsOK
<1> QED
  BY <1>1, <1>2, <1>7, <1>8 DEF AccountInv, KillsInTable

LEMMA NextKeepsAccounts ==
  ASSUME TypeOK, TypeOK', LifeCycle, LinkInv, DecisionInv, KillInv, KillInv', AccountInv,
         Next, ~aborted'
  PROVE  AccountInv'
<1>1. ~aborted /\ JobPhases /\ EventsAreTrue
  BY StepsOfTheLiving DEF LifeCycle
<1>2. CASE EndStep
  BY <1>1, <1>2, CompletionKeepsAccounts, KillingKeepsAccounts, KillRequestKeepsAccounts,
     EndsKeepAccounts DEF EndStep
<1>3. CASE ~EndStep
  <2>1. NoEnd
    BY <1>3, OtherStepsEndNone
  <2>2. ASSUME NEW s \in Submitter, SubmitterStep(s) PROVE AccountInv'
    BY <2>1, <2>2, SubmitterEndsNone, OthersKeepAccounts DEF jobVars, bufferVars
  <2>3. CASE ExecutionStep
    <3>1. UNCHANGED <<jobs, state, traced, to_delete, outbox, view>>
      BY <1>3, <2>3 DEF ExecutionStep, EndStep, JobEndStep, JobStarts, WaiterWakes, executionUnchanged,
         jobVars, bufferVars, schedVars
    <3> QED
      BY <2>1, <3>1, OthersKeepAccounts
  <2>4. CASE SchedulerStep
    BY <1>1, <2>4, SchedulerKeepsAccounts
  <2>5. CASE Handle
    BY <1>1, <1>3, <2>1, <2>5, PlainHandlersKeepAccounts, RejectionKeepsAccounts DEF EndStep
  <2>6. CASE ServerSendsEvents \/ ServerEndsSimulation
    BY <1>1, <2>6, SendingKeepsAccounts
  <2>7. CASE Deliver \/ ServerLoops \/ ServerLeavesLoop
    <3>1. UNCHANGED <<jobs, state, traced, to_delete, outbox, view>>
      BY <2>7 DEF Deliver, ServerLoops, ServerLeavesLoop, checkUnchanged, jobVars, bufferVars, schedVars
    <3> QED
      BY <2>1, <3>1, OthersKeepAccounts
  <2> QED
    BY <2>2, <2>3, <2>4, <2>5, <2>6, <2>7 DEF Next, ServerStep
<1> QED
  BY <1>2, <1>3

\* The accounts of the ends are right.
LEMMA AccountsHold == Spec => []Accounts
<1>1. Init => Accounts
  <2> SUFFICES ASSUME Init PROVE AccountInv
    BY DEF Accounts
  <2>1. Len(mailbox) = 0 /\ Len(held) = 0 /\ Len(outbox) = 0
    BY DEF Init
  <2>2. Flight = {} /\ ReportsOK(outbox, view)
    BY <2>1 DEF Flight, ReportsOK
  <2>3. ASSUME NEW j \in Job PROVE Accounted(j)
    <3>1. ~Counted(j)
      BY DEF Init, Counted, IsComplete, OrdinaryEnds
    <3>2. ~Reported(j)
      BY <2>1 DEF Reported, Says
    <3> QED
      BY <3>1, <3>2 DEF Init, Accounted
  <2> QED
    BY <2>2, <2>3 DEF Init, AccountInv, KillsInTable
<1>2. TypeOK /\ TypeOK' /\ LifeCycle /\ Link /\ Decisions /\ Kills /\ Kills' /\ Accounts /\ [Next]_vars
      => Accounts'
  <2> SUFFICES ASSUME TypeOK, TypeOK', LifeCycle, Link, Decisions, Kills, Kills', Accounts,
                      [Next]_vars, ~aborted'
               PROVE  AccountInv'
    BY DEF Accounts
  <2>1. CASE Next
    <3>1. ~aborted /\ LinkInv /\ DecisionInv /\ KillInv /\ KillInv' /\ AccountInv
      BY <2>1, StepsOfTheLiving DEF Link, Decisions, Kills, Accounts
    <3> QED
      BY <2>1, <3>1, NextKeepsAccounts
  <2>2. CASE UNCHANGED vars
    <3>1. UNCHANGED <<mailbox, held, state, actor, killers, kill_requested, jobs, traced, to_delete,
                      outbox, view, aborted>>
      BY <2>2 DEF vars, jobVars, readerActor, helperActors, bufferVars, schedVars
    <3>2. KillInv /\ AccountInv
      BY <3>1 DEF Kills, Accounts
    <3>3. NoEnd
      BY <3>1, <3>2, StillNoEnd DEF NoEnd
    <3> QED
      BY <3>1, <3>2, <3>3, OthersKeepAccounts
  <2> QED
    BY <2>1, <2>2
<1> QED
  BY <1>1, <1>2, TypeCorrect, LifeCycleHolds, LinkHolds, DecisionsHold, KillsHold, PTL DEF Spec

----------------------------------------------------------------------------
\* What the layers say of the properties that are model-checked.

\* The killers put their messages themselves: none is held.
LEMMA PendingIsInFlight ==
  ASSUME TypeOK, LinkInv, NEW j \in Job
  PROVE  EndInFlight(j) <=> Pending(j)
<1>1. \A k \in 1..Len(held) : held[k].type # "KILLING_DONE"
  <2>1. \A k \in 1..Len(held) : held[k] \in Message /\ held[k].from = "sched"
    BY FlightIsTyped DEF LinkInv, ReaderHolds
  <2> QED
    BY <2>1 DEF Message
<1>2. Killing(j) <=> \E i \in 1..Len(mailbox) : /\ mailbox[i].type = "KILLING_DONE"
                                                /\ j \in mailbox[i].about
  BY <1>1 DEF Killing, Flight
<1> QED
  BY <1>2 DEF EndInFlight, Pending

LEMMA EndsAreReportedOnce ==
  ASSUME TypeOK, LinkInv, AccountInv
  PROVE  EndReportedOnce /\ CompletedBeforeKilled
<1>1. CompletedBeforeKilled
  BY DEF AccountInv, ReportsOK, CompletedBeforeKilled
<1>2. ASSUME NEW j \in Job
      PROVE  LET reports == {k \in 1..Len(outbox) : outbox[k].type = "JOB_COMPLETED"
                                                    /\ j \in outbox[k].about}
                 counted == IsComplete(state[j]) /\ ~EndInFlight(j)
             IN /\ traced[j] = IF counted THEN 1 ELSE 0
                /\ Cardinality(reports) + (IF view[j] = "done" THEN 1 ELSE 0) <= 1
                /\ counted => view[j] = "done" \/ reports # {}
  <2> DEFINE reports == {k \in 1..Len(outbox) : outbox[k].type = "JOB_COMPLETED"
                                                /\ j \in outbox[k].about}
             counted == IsComplete(state[j]) /\ ~EndInFlight(j)
  <2>1. counted <=> Counted(j)
    BY PendingIsInFlight DEF Counted
  <2>2. Reported(j) <=> reports # {}
    BY DEF Reported, Says
  <2>3. Accounted(j)
    BY DEF AccountInv
  <2>4. \A k, l \in reports : k = l
    BY DEF AccountInv, ReportsOK
  <2> HIDE DEF reports, counted
  <2>5. Cardinality(reports) + (IF view[j] = "done" THEN 1 ELSE 0) <= 1
    <3>1. CASE view[j] = "done"
      <4>1. reports = {}
        BY <2>2, <2>3, <3>1 DEF Accounted
      <4> QED
        BY <3>1, <4>1, FS_EmptySet
    <3>2. CASE view[j] # "done"
      <4>1. Cardinality(reports) <= 1
        BY <2>4, AtMostOne
      <4>2. IsFiniteSet(reports)
        <5>1. reports \subseteq 1..Len(outbox) /\ Len(outbox) \in Nat
          BY DEF reports, TypeOK, ServerTypeOK
        <5>2. IsFiniteSet(1..Len(outbox))
          BY <5>1, FS_Interval
        <5> QED
          BY <5>1, <5>2, FS_Subset
      <4>3. Cardinality(reports) \in Nat
        BY <4>2, FS_CardinalityType
      <4> QED
        BY <3>2, <4>1, <4>3
    <3> QED
      BY <3>1, <3>2
  <2> QED
    BY <2>1, <2>2, <2>3, <2>5 DEF Accounted, reports, counted
<1> QED
  BY <1>1, <1>2 DEF EndReportedOnce

LEMMA DeletedJobsAreForgotten ==
  ASSUME TypeOK, LifeCycle, ~aborted, LinkInv, DecisionInv, KillInv, AccountInv
  PROVE  NoDanglingJob
<1> SUFFICES ASSUME NEW j \in Job, j \notin jobs, state[j] # "ABSENT"
             PROVE  /\ IsComplete(state[j]) /\ view[j] = "done"
                    /\ \A i \in 1..Len(mailbox \o held) : j \notin (mailbox \o held)[i].about
                    /\ \A S \in killers : j \notin S
  BY DEF NoDanglingJob
<1>1. Counted(j) /\ view[j] = "done"
  BY DEF AccountInv, Accounted
<1>2. \A S \in killers : j \notin S
  BY DEF AccountInv, KillsInTable
<1>3. ASSUME NEW m \in Flight, j \in m.about PROVE FALSE
  <2>1. m \in Message /\ IsTrue(m) /\ Founded(m) /\ Ending(m)
    BY FlightIsTyped DEF DecisionInv, KillInv, LifeCycle, MessagesAreTrue, Flight
  <2>2. j \notin Waiter /\ j \notin ExtEvent
    BY ConstantsAssumption
  <2>3. m.type \in {"JOB_SUBMITTED"} \cup OfScheduler \cup EndType
    BY <1>3, <2>1, <2>2 DEF Message, OfScheduler, Decision, EndType
  <2>4. IsComplete(state[j]) /\ actor[j] # "notifying"
    BY <1>1 DEF Counted, Pending
  <2>5. m.type # "JOB_SUBMITTED" /\ m.type \notin OfScheduler
    BY <1>1, <1>3, <2>1, <2>4 DEF IsTrue, Founded, OfScheduler, Decision, IsComplete, OrdinaryEnds
  <2>6. m.type # "JOB_COMPLETED"
    BY <1>3, <2>1, <2>4 DEF Ending
  <2>7. m.type # "KILLING_DONE"
    BY <1>3 DEF AccountInv, KillsInTable
  <2> QED
    BY <2>3, <2>5, <2>6, <2>7 DEF EndType
<1>4. \A i \in 1..Len(mailbox \o held) : (mailbox \o held)[i] \in Flight
  BY FlightIsAll
<1> QED
  BY <1>1, <1>2, <1>3, <1>4 DEF Counted

(***************************************************************************)
(* As long as no assertion has failed, each job's end is traced once and   *)
(* reported once, and every JOB_KILLED comes after the JOB_COMPLETED of    *)
(* all its jobs: server_on_job_completed and server_on_killing_done share  *)
(* the ends between them, however a kill races the jobs' own ends.         *)
(***************************************************************************)
THEOREM EndsStayReportedOnce == Spec => [](NoAbort => EndReportedOnce /\ CompletedBeforeKilled)
<1>1. TypeOK /\ Link /\ Accounts => (NoAbort => EndReportedOnce /\ CompletedBeforeKilled)
  BY EndsAreReportedOnce DEF Link, Accounts, NoAbort
<1> QED
  BY <1>1, TypeCorrect, LinkHolds, AccountsHold, PTL

(***************************************************************************)
(* As long as no assertion has failed, a job that Workloads::delete_jobs   *)
(* has removed is over, known to be over, and not named by any message or  *)
(* killer: nothing will look it up again.                                  *)
(***************************************************************************)
THEOREM NoJobStaysDangling == Spec => [](NoAbort => NoDanglingJob)
<1>1. TypeOK /\ LifeCycle /\ Link /\ Decisions /\ Kills /\ Accounts => (NoAbort => NoDanglingJob)
  BY DeletedJobsAreForgotten DEF Link, Decisions, Kills, Accounts, NoAbort
<1> QED
  BY <1>1, TypeCorrect, LifeCycleHolds, LinkHolds, DecisionsHold, KillsHold, AccountsHold, PTL

----------------------------------------------------------------------------
(***************************************************************************)
(* The counters of the server. They decide when the simulation ends, and   *)
(* most of its assertions are about them. Each one counts a set, up to the *)
(* messages in flight: the jobs (CountInv) and the killers, whose          *)
(* acknowledgements the scheduler counts too (AckInv). The waiters and the *)
(* submitters are in RefinementProofs.                                     *)
(***************************************************************************)

\* The messages of the types U are neither put nor handled.
Keeps(U) ==
  /\ \A m \in Message : m.type \in U => (m \in Flight' <=> m \in Flight)
  /\ \A R : /\ \A m, n \in Message : m.type \notin U \/ n.type \notin U => <<m, n>> \in R
            /\ InOrder(R)
            => InOrder(R)'

LEMMA PutKeeps ==
  ASSUME TypeOK, NEW U, NEW n \in Message, n.type \notin U, Put(n), UNCHANGED held
  PROVE  Keeps(U)
<1>1. Flight' = Flight \cup {n}
  BY PutFlight
<1>2. ASSUME NEW R, \A m, k \in Message : m.type \notin U \/ k.type \notin U => <<m, k>> \in R,
             InOrder(R)
      PROVE  InOrder(R)'
  <2>1. /\ \A m \in Flight : <<m, n>> \in R
        /\ \A k \in 1..Len(held) : <<n, held[k]>> \in R
    BY <1>2, FlightIsTyped
  <2> QED
    BY <1>2, <2>1, PutFlight
<1> QED
  BY <1>1, <1>2 DEF Keeps

LEMMA TakeKeeps ==
  ASSUME TypeOK, NEW U, NEW type, type \notin U, Receive(type)
  PROVE  Keeps(U)
<1>1. /\ Flight' \subseteq Flight /\ Flight \subseteq Flight' \cup {Received}
      /\ Received.type = type /\ \A R : InOrder(R) => InOrder(R)'
  BY TakeFlight
<1> QED
  BY <1>1 DEF Keeps

LEMMA ApplyKeeps ==
  ASSUME TypeOK, LinkInv, NEW U, NEW type, type \notin U, NEW about,
         Msg(type, "sched", about) \in Message, Apply(type, about)
  PROVE  Keeps(U)
<1>1. PICK n \in Message : n = Msg(type, "sched", about)
  OBVIOUS
<1>2. n.type \notin U
  BY <1>1 DEF Msg
<1>3. held' = <<n>> /\ UNCHANGED mailbox /\ held = <<>>
  BY <1>1 DEF Apply, LinkInv, ReaderHolds
<1>4. Flight' = Flight \cup {n}
  BY <1>3, HoldFlight
<1>5. ASSUME NEW R, \A m, k \in Message : m.type \notin U \/ k.type \notin U => <<m, k>> \in R,
             InOrder(R)
      PROVE  InOrder(R)'
  <2>1. \A m \in Flight : <<m, n>> \in R
    BY <1>2, <1>5, FlightIsTyped
  <2> QED
    BY <1>3, <1>5, <2>1, HoldFlight
<1> QED
  BY <1>2, <1>4, <1>5 DEF Keeps

LEMMA StillKeeps ==
  ASSUME NEW U, UNCHANGED <<mailbox, held>>
  PROVE  Keeps(U)
  BY StillFlight DEF Keeps

LEMMA SendKeeps ==
  ASSUME TypeOK, LinkInv, NEW U, send_message_at_time
  PROVE  Keeps(U)
<1>1. Flight' = Flight /\ \A R : InOrder(R) => InOrder(R)'
  BY SendFlight DEF LinkInv, ReaderHolds, send_message_at_time
<1> QED
  BY <1>1 DEF Keeps

SubmitterMail == {"SUBMITTER_HELLO", "SUBMITTER_BYE", "JOB_SUBMITTED", "EVENT_OCCURRED"}

LEMMA SubmitterKeeps ==
  ASSUME TypeOK, NEW U, U \cap SubmitterMail = {}, NEW s \in Submitter, SubmitterStep(s)
  PROVE  Keeps(U)
<1>1. PICK n \in Message : Put(n) /\ n.type \in SubmitterMail
  <2>1. /\ Msg("SUBMITTER_HELLO", s, {}) \in Message /\ Msg("SUBMITTER_BYE", s, {}) \in Message
        /\ \A type, about : Msg(type, s, about).type = type
    BY DEF Msg, Message
  <2> QED
    BY <2>1, BatchIsTyped DEF SubmitterStep, SubmitterHello, SubmitBatch, SubmitterBye, SubmitterMail
<1>2. UNCHANGED held
  BY DEF SubmitterStep, SubmitterHello, SubmitBatch, SubmitterBye, submitterUnchanged, readerActor
<1> QED
  BY <1>1, <1>2, PutKeeps

LEMMA ExecutionKeeps ==
  ASSUME TypeOK, NEW U
  PROVE  /\ \A j \in Job : JobStarts(j) \/ JobCancelled(j) => Keeps(U)
         /\ \A j \in Job, outcome \in Outcome :
              JobEnds(j, outcome) /\ "JOB_COMPLETED" \notin U => Keeps(U)
         /\ \A S \in killers : \A inPtask \in SUBSET S :
              killer_process(S, inPtask) /\ "KILLING_DONE" \notin U => Keeps(U)
         /\ \A w \in Waiter : WaiterWakes(w) /\ "WAITING_DONE" \notin U => Keeps(U)
<1>1. ASSUME NEW j \in Job, JobStarts(j) \/ JobCancelled(j) PROVE Keeps(U)
  BY <1>1, StillKeeps DEF JobStarts, JobCancelled, executionUnchanged, readerActor
<1>2. ASSUME NEW j \in Job, NEW outcome \in Outcome, JobEnds(j, outcome), "JOB_COMPLETED" \notin U
      PROVE  Keeps(U)
  <2>1. PICK n \in Message : Put(n) /\ n.type = "JOB_COMPLETED"
    BY <1>2 DEF JobEnds, Msg, Message
  <2> QED
    BY <1>2, <2>1, PutKeeps DEF JobEnds, executionUnchanged, readerActor
<1>3. ASSUME NEW S \in killers, NEW inPtask \in SUBSET S, killer_process(S, inPtask),
             "KILLING_DONE" \notin U
      PROVE  Keeps(U)
  <2>1. PICK n \in Message : Put(n) /\ n.type = "KILLING_DONE"
    BY <1>3 DEF killer_process, Msg, Message, TypeOK, ActorsTypeOK
  <2> QED
    BY <1>3, <2>1, PutKeeps DEF killer_process, executionUnchanged, readerActor
<1>4. ASSUME NEW w \in Waiter, WaiterWakes(w), "WAITING_DONE" \notin U PROVE Keeps(U)
  <2>1. UNCHANGED held
    BY <1>4 DEF WaiterWakes, executionUnchanged, readerActor
  <2>2. CASE UNCHANGED mailbox
    BY <2>1, <2>2, StillKeeps
  <2>3. CASE Put(Msg("WAITING_DONE", w, {}))
    <3>1. PICK n \in Message : Put(n) /\ n.type = "WAITING_DONE"
      BY <2>3 DEF Msg, Message
    <3> QED
      BY <1>4, <2>1, <3>1, PutKeeps
  <2> QED
    BY <1>4, <2>2, <2>3 DEF WaiterWakes
<1> QED
  BY <1>1, <1>2, <1>3, <1>4

\* What the REQ-REP actor can hold.
LEMMA RepliesAreMessages ==
  /\ \A j \in Job : /\ Msg("SCHED_EXECUTE_JOB", "sched", {j}) \in Message
                    /\ Msg("SCHED_REJECT_JOB", "sched", {j}) \in Message
                    /\ Msg("JOB_REGISTERED_BY_DP", "sched", {j}) \in Message
  /\ \A S \in SUBSET Job : Msg("SCHED_KILL_JOB", "sched", S) \in Message
  /\ \A w \in Waiter : Msg("SCHED_CALL_ME_LATER", "sched", {w}) \in Message
  /\ \A type \in {"END_DYNAMIC_REGISTER", "CONTINUE_DYNAMIC_REGISTER", "SCHED_READY"} :
       Msg(type, "sched", {}) \in Message
  BY DEF Msg, Message

LEMMA SchedulerKeeps ==
  ASSUME TypeOK, LinkInv, NEW U
  PROVE  /\ \A j \in Job, M \in SUBSET Machine :
              handle_execute_job(j, M) /\ "SCHED_EXECUTE_JOB" \notin U => Keeps(U)
         /\ \A j \in Job : handle_reject_job(j) /\ "SCHED_REJECT_JOB" \notin U => Keeps(U)
         /\ \A S \in SUBSET Job : handle_kill_job(S) /\ "SCHED_KILL_JOB" \notin U => Keeps(U)
         /\ \A w \in Waiter : handle_call_me_later(w) /\ "SCHED_CALL_ME_LATER" \notin U => Keeps(U)
         /\ \A j \in DynJob : handle_register_job(j) /\ "JOB_REGISTERED_BY_DP" \notin U => Keeps(U)
         /\ NotifyRegistrationFinished /\ "END_DYNAMIC_REGISTER" \notin U => Keeps(U)
         /\ NotifyContinueRegistration /\ "CONTINUE_DYNAMIC_REGISTER" \notin U => Keeps(U)
         /\ ReplyApplied /\ "SCHED_READY" \notin U => Keeps(U)
         /\ send_message_at_time => Keeps(U)
<1>1. ASSUME NEW type, NEW about, Msg(type, "sched", about) \in Message, type \notin U,
             Apply(type, about)
      PROVE  Keeps(U)
  BY <1>1, ApplyKeeps
<1>2. DynJob \subseteq Job
  BY DEF Job
<1> QED
  BY <1>1, <1>2, SendKeeps, RepliesAreMessages
     DEF handle_execute_job, handle_reject_job, handle_kill_job,
         handle_call_me_later, handle_register_job, NotifyRegistrationFinished,
         NotifyContinueRegistration, ReplyApplied, Decide

\* The server's loop and the network neither put nor handle a message.
LEMMA LoopKeeps ==
  ASSUME TypeOK, LinkInv, NEW U,
         Deliver \/ ServerSendsEvents \/ ServerEndsSimulation \/ ServerLoops \/ ServerLeavesLoop
  PROVE  Keeps(U)
<1>1. UNCHANGED <<mailbox, held>>
  BY CallsWhenAllIsQuiet DEF Deliver, ServerLoops, ServerLeavesLoop, checkUnchanged, readerActor
<1> QED
  BY <1>1, StillKeeps

----------------------------------------------------------------------------
(***************************************************************************)
(* The counters of the jobs. A job is counted as submitted once the server *)
(* has heard of it, as running from the decision to the report of its end, *)
(* and then as completed.                                                  *)
(***************************************************************************)
Registering(j) == \E m \in Flight : m.type = "JOB_REGISTERED_BY_DP" /\ j \in m.about

IsSubmitted(j) == state[j] \notin {"ABSENT", "NOT_SUBMITTED"} /\ ~Registering(j)
IsRunning(j)   == state[j] = "RUNNING" \/ Pending(j)

SubmittedJobs == {j \in Job : IsSubmitted(j)}
JobsRunning   == {j \in Job : IsRunning(j)}
CountedJobs   == {j \in Job : Counted(j)}

CountInv ==
  /\ nb_submitted = Cardinality(SubmittedJobs)
  /\ nb_running = Cardinality(JobsRunning)
  /\ nb_completed = Cardinality(CountedJobs)

Counters == ~aborted => CountInv

\* To count a set to which another one is added, or from which it is removed.
LEMMA CountMore ==
  ASSUME NEW A, NEW B, IsFiniteSet(A), IsFiniteSet(B), A \cap B = {}
  PROVE  Cardinality(A \cup B) = Cardinality(A) + Cardinality(B)
<1>1. /\ Cardinality(A \cup B) = Cardinality(A) + Cardinality(B) - Cardinality(A \cap B)
      /\ Cardinality(A) \in Nat /\ Cardinality(B) \in Nat /\ Cardinality(A \cap B) = 0
  BY FS_Union, FS_CardinalityType, FS_EmptySet
<1> QED
  BY <1>1

LEMMA CountLess ==
  ASSUME NEW A, NEW B, IsFiniteSet(A), B \subseteq A
  PROVE  Cardinality(A \ B) = Cardinality(A) - Cardinality(B)
<1>1. A \cap B = B
  OBVIOUS
<1> QED
  BY <1>1, FS_Difference

\* The running and the counted jobs are different, and have been submitted.
LEMMA Balance ==
  ASSUME TypeOK, JobPhases, DecisionInv, KillInv
  PROVE  /\ JobsRunning \cap CountedJobs = {}
         /\ JobsRunning \subseteq SubmittedJobs /\ CountedJobs \subseteq SubmittedJobs
         /\ \A S \in {JobsRunning, CountedJobs, SubmittedJobs} :
              S \in SUBSET Job /\ IsFiniteSet(S) /\ Cardinality(S) \in Nat
         /\ Cardinality(JobsRunning) + Cardinality(CountedJobs) <= Cardinality(SubmittedJobs)
<1>1. ASSUME NEW j \in Job, IsRunning(j) \/ Counted(j)
      PROVE  IsSubmitted(j) /\ ~(IsRunning(j) /\ Counted(j))
  <2>1. state[j] \notin {"ABSENT", "NOT_SUBMITTED", "SUBMITTED"}
    BY <1>1 DEF IsRunning, Counted, Pending, IsComplete, OrdinaryEnds, JobPhases
  <2>2. ~Registering(j)
    BY <2>1 DEF Registering, DecisionInv, Founded
  <2> QED
    BY <2>1, <2>2 DEF IsSubmitted, IsRunning, Counted, IsComplete, OrdinaryEnds
<1>2. /\ JobsRunning \cap CountedJobs = {}
      /\ JobsRunning \cup CountedJobs \subseteq SubmittedJobs
  BY <1>1 DEF JobsRunning, CountedJobs, SubmittedJobs
<1>3. \A S \in SUBSET Job : IsFiniteSet(S) /\ Cardinality(S) \in Nat
  BY ItemsAreFinite DEF Item
<1>4. /\ JobsRunning \in SUBSET Job /\ CountedJobs \in SUBSET Job /\ SubmittedJobs \in SUBSET Job
  BY DEF JobsRunning, CountedJobs, SubmittedJobs
<1>5. Cardinality(JobsRunning \cup CountedJobs) = Cardinality(JobsRunning) + Cardinality(CountedJobs)
  BY <1>2, <1>3, <1>4, CountMore
<1>6. Cardinality(JobsRunning \cup CountedJobs) <= Cardinality(SubmittedJobs)
  BY <1>2, <1>3, <1>4, FS_Subset
<1> QED
  BY <1>2, <1>3, <1>4, <1>5, <1>6

\* What a step that ends no job leaves alone.
LEMMA NoEndPending ==
  ASSUME TypeOK, TypeOK', NoEnd, NEW j \in Job
  PROVE  Pending(j)' <=> Pending(j)
<1>1. Killing(j)' <=> Killing(j)
  <2>1. Flight' \subseteq Message /\ Flight \subseteq Message
    BY DEF TypeOK, MailTypeOK, Flight
  <2> QED
    BY <2>1 DEF NoEnd, NoEndSent, Killing, EndType
<1>2. /\ actor'[j] = "notifying" <=> actor[j] = "notifying"
      /\ state'[j] = "COMPLETED_KILLED" <=> state[j] = "COMPLETED_KILLED"
  BY DEF NoEnd
<1> QED
  BY <1>1, <1>2 DEF Pending

LEMMA KeepsRegistering ==
  ASSUME TypeOK, TypeOK', Keeps({"JOB_REGISTERED_BY_DP"}), NEW j \in Job
  PROVE  Registering(j)' <=> Registering(j)
<1>1. Flight' \subseteq Message /\ Flight \subseteq Message
  BY DEF TypeOK, MailTypeOK, Flight
<1> QED
  BY <1>1 DEF Registering, Keeps

\* The jobs are where they were.
LEMMA NobodyMoves ==
  ASSUME CountInv, UNCHANGED jobCounters,
         \A j \in Job : /\ IsSubmitted(j)' <=> IsSubmitted(j)
                        /\ IsRunning(j)' <=> IsRunning(j)
                        /\ Counted(j)' <=> Counted(j)
  PROVE  CountInv'
<1>1. UNCHANGED <<SubmittedJobs, JobsRunning, CountedJobs>>
  BY DEF SubmittedJobs, JobsRunning, CountedJobs
<1> QED
  BY <1>1 DEF CountInv, jobCounters

LEMMA StatesStay ==
  ASSUME TypeOK, TypeOK', CountInv, UNCHANGED <<state, jobCounters>>,
         Keeps({"JOB_REGISTERED_BY_DP"}), \A j \in Job : Pending(j)' <=> Pending(j)
  PROVE  CountInv'
<1>1. \A j \in Job : Registering(j)' <=> Registering(j)
  BY KeepsRegistering
<1> QED
  BY <1>1, NobodyMoves DEF IsSubmitted, IsRunning, Counted

\* A job that ends is counted as running until its end is handled.
LEMMA EndsKeepCount ==
  ASSUME TypeOK, TypeOK', JobPhases, KillInv, CountInv, JobEndStep
  PROVE  CountInv'
<1>1. UNCHANGED jobCounters
  BY DEF JobEndStep, JobEnds, JobCancelled, killer_process, executionUnchanged
<1>2. Keeps({"JOB_REGISTERED_BY_DP"})
  BY ExecutionKeeps DEF JobEndStep
<1>3. \A j \in Job : /\ Registering(j)' <=> Registering(j)
                     /\ \/ state'[j] = state[j] /\ (actor'[j] = actor[j] \/ state[j] = "RUNNING")
                           /\ (state[j] = "COMPLETED_KILLED" => (Killing(j)' <=> Killing(j)))
                        \/ state[j] = "RUNNING" /\ IsComplete(state'[j]) /\ Pending(j)'
  BY <1>2, KeepsRegistering, EndsArePending
<1>4. ASSUME NEW j \in Job
      PROVE  /\ IsSubmitted(j)' <=> IsSubmitted(j)
             /\ IsRunning(j)' <=> IsRunning(j)
             /\ Counted(j)' <=> Counted(j)
  BY <1>3 DEF IsSubmitted, IsRunning, Counted, Pending, IsComplete, OrdinaryEnds
<1> QED
  BY <1>1, <1>4, NobodyMoves

\* The end of a job is counted once.
LEMMA CompletionCounts ==
  ASSUME TypeOK, TypeOK', JobPhases, DecisionInv, KillInv, CountInv, server_on_job_completed
  PROVE  CountInv' /\ Received.about \subseteq JobsRunning
<1>1. /\ Flight' \subseteq Flight /\ Flight \subseteq Flight' \cup {Received}
      /\ Received \in Message /\ Received \in Flight /\ Received.type = "JOB_COMPLETED"
  BY TakeFlight DEF server_on_job_completed
<1>2. PICK j \in Job : Received.about = {j} /\ actor[j] = "notifying"
  BY <1>1 DEF KillInv, Ending
<1>3. /\ UNCHANGED <<state, nb_submitted>> /\ actor'[j] = "dead" /\ state[j] \in OrdinaryEnds
      /\ \A i \in Job : i # j => actor'[i] = actor[i]
      /\ nb_running' = nb_running - Cardinality({j})
      /\ nb_completed' = nb_completed + Cardinality({j})
  BY <1>2 DEF server_on_job_completed, Finish, JobPhases
<1>4. \A i \in Job : (Killing(i)' <=> Killing(i)) /\ (Registering(i)' <=> Registering(i))
  BY <1>1 DEF Killing, Registering
<1>5. /\ IsRunning(j) /\ ~IsRunning(j)' /\ ~Counted(j) /\ Counted(j)'
      /\ \A i \in Job : /\ IsSubmitted(i)' <=> IsSubmitted(i)
                        /\ i # j => (IsRunning(i)' <=> IsRunning(i)) /\ (Counted(i)' <=> Counted(i))
  BY <1>2, <1>3, <1>4 DEF IsSubmitted, IsRunning, Counted, Pending, IsComplete, OrdinaryEnds
<1>6. /\ SubmittedJobs' = SubmittedJobs /\ {j} \subseteq JobsRunning /\ CountedJobs \cap {j} = {}
      /\ JobsRunning' = JobsRunning \ {j} /\ CountedJobs' = CountedJobs \cup {j}
  BY <1>5 DEF SubmittedJobs, JobsRunning, CountedJobs
<1>7. IsFiniteSet(JobsRunning) /\ IsFiniteSet(CountedJobs) /\ IsFiniteSet({j})
  BY Balance, FS_Singleton
<1>8. /\ Cardinality(JobsRunning \ {j}) = Cardinality(JobsRunning) - Cardinality({j})
      /\ Cardinality(CountedJobs \cup {j}) = Cardinality(CountedJobs) + Cardinality({j})
  BY <1>6, <1>7, CountLess, CountMore
<1> QED
  BY <1>2, <1>3, <1>6, <1>8 DEF CountInv

\* The end of a killer counts the jobs that it killed.
LEMMA KillingCounts ==
  ASSUME TypeOK, TypeOK', JobPhases, DecisionInv, KillInv, CountInv, server_on_killing_done
  PROVE  CountInv' /\ ReallyKilled(Received.about) \subseteq JobsRunning
<1>1. /\ Flight' \subseteq Flight /\ Flight \subseteq Flight' \cup {Received}
      /\ Received \in Message /\ Received \in Flight /\ Received.type = "KILLING_DONE"
      /\ \A m \in Flight' : <<Received, m>> \in EndOrder
  BY TakeFlight DEF server_on_killing_done, KillInv
<1>2. PICK K : K = ReallyKilled(Received.about)
  OBVIOUS
<1>3. /\ UNCHANGED <<state, actor, nb_submitted>>
      /\ nb_running' = nb_running - Cardinality(K)
      /\ nb_completed' = nb_completed + Cardinality(K)
  BY <1>2 DEF server_on_killing_done, Finish
<1>4. \A i \in Job : Registering(i)' <=> Registering(i)
  BY <1>1 DEF Registering
<1>5. /\ Received.about \in SUBSET Job
      /\ \A i \in Received.about : Killing(i) /\ ~Killing(i)'
      /\ \A i \in Job \ Received.about : Killing(i)' <=> Killing(i)
  BY <1>1, MessageKinds DEF Killing, EndOrder, EndType
<1>6. /\ K \subseteq Job
      /\ \A i \in K : IsRunning(i) /\ ~IsRunning(i)' /\ ~Counted(i) /\ Counted(i)'
      /\ \A i \in Job : /\ IsSubmitted(i)' <=> IsSubmitted(i)
                        /\ i \notin K => (IsRunning(i)' <=> IsRunning(i)) /\ (Counted(i)' <=> Counted(i))
  BY <1>2, <1>3, <1>4, <1>5 DEF ReallyKilled, IsSubmitted, IsRunning, Counted, Pending, IsComplete,
     OrdinaryEnds, JobPhases
<1>7. /\ SubmittedJobs' = SubmittedJobs /\ K \subseteq JobsRunning /\ CountedJobs \cap K = {}
      /\ JobsRunning' = JobsRunning \ K /\ CountedJobs' = CountedJobs \cup K
  BY <1>6 DEF SubmittedJobs, JobsRunning, CountedJobs
<1>8. IsFiniteSet(JobsRunning) /\ IsFiniteSet(CountedJobs) /\ IsFiniteSet(K)
  BY <1>6, Balance, ItemsAreFinite DEF Item
<1>9. /\ Cardinality(JobsRunning \ K) = Cardinality(JobsRunning) - Cardinality(K)
      /\ Cardinality(CountedJobs \cup K) = Cardinality(CountedJobs) + Cardinality(K)
  BY <1>7, <1>8, CountLess, CountMore
<1> QED
  BY <1>2, <1>3, <1>7, <1>9 DEF CountInv

LEMMA SubmissionCounts ==
  ASSUME TypeOK, TypeOK', MessagesAreTrue, SubmittedOnce, JobPhases, DecisionInv, KillInv, CountInv,
         NoEnd, server_on_job_submitted
  PROVE  CountInv'
<1>1. PICK S : S = Received.about
  OBVIOUS
<1>2. /\ S \in SUBSET Job /\ \A j \in S : state[j] = "NOT_SUBMITTED"
  <2>1. Receive("JOB_SUBMITTED")
    BY DEF server_on_job_submitted
  <2>2. Received \in Message /\ Received.type = "JOB_SUBMITTED" /\ IsTrue(Received)
    BY <2>1, OthersAnnounceOthers
  <2> QED
    BY <1>1, <2>2, MessageKinds DEF IsTrue
<1>3. /\ UNCHANGED <<nb_running, nb_completed>> /\ nb_submitted' = nb_submitted + Cardinality(S)
      /\ \A j \in Job : state'[j] = IF j \in S THEN "SUBMITTED" ELSE state[j]
  BY <1>1 DEF server_on_job_submitted
<1>4. Keeps({"JOB_REGISTERED_BY_DP"})
  BY TakeKeeps DEF server_on_job_submitted
<1>5. \A j \in Job : /\ (Registering(j)' <=> Registering(j)) /\ (Pending(j)' <=> Pending(j))
                     /\ Registering(j) => state[j] = "SUBMITTED"
  BY <1>4, KeepsRegistering, NoEndPending DEF Registering, DecisionInv, Founded
<1>6. /\ \A j \in S : ~IsSubmitted(j) /\ IsSubmitted(j)'
      /\ \A j \in Job : /\ j \notin S => (IsSubmitted(j)' <=> IsSubmitted(j))
                        /\ (IsRunning(j)' <=> IsRunning(j)) /\ (Counted(j)' <=> Counted(j))
  BY <1>2, <1>3, <1>5 DEF IsSubmitted, IsRunning, Counted, IsComplete, OrdinaryEnds
<1>7. /\ JobsRunning' = JobsRunning /\ CountedJobs' = CountedJobs
      /\ SubmittedJobs \cap S = {} /\ SubmittedJobs' = SubmittedJobs \cup S
  BY <1>2, <1>6 DEF SubmittedJobs, JobsRunning, CountedJobs
<1>8. IsFiniteSet(SubmittedJobs) /\ IsFiniteSet(S)
  BY <1>2, Balance, ItemsAreFinite DEF Item
<1>9. Cardinality(SubmittedJobs \cup S) = Cardinality(SubmittedJobs) + Cardinality(S)
  BY <1>7, <1>8, CountMore
<1> QED
  BY <1>3, <1>7, <1>9 DEF CountInv

LEMMA RegistrationCounts ==
  ASSUME TypeOK, TypeOK', MessagesAreTrue, SubmittedOnce, JobPhases, DecisionInv, KillInv, CountInv,
         NoEnd, server_on_register_job
  PROVE  CountInv'
<1>1. /\ Receive("JOB_REGISTERED_BY_DP") /\ UNCHANGED <<state, nb_running, nb_completed>>
      /\ nb_submitted' = nb_submitted + 1
  BY DEF server_on_register_job, jobVars
<1>2. /\ Flight' \subseteq Flight /\ Flight \subseteq Flight' \cup {Received}
      /\ Received \in Flight /\ Received.type = "JOB_REGISTERED_BY_DP"
  BY <1>1, TakeFlight
<1>3. PICK j \in Job : Received.about = {j} /\ state[j] = "SUBMITTED"
  BY <1>2 DEF DecisionInv, Founded
<1>4. ~Registering(j)'
  <2>1. /\ mailbox' = Tail(mailbox) /\ UNCHANGED held /\ mailbox # <<>>
        /\ \A i \in 1..Len(mailbox) : i # 1 /\ mailbox[i].type = "JOB_REGISTERED_BY_DP" =>
             mailbox[i].about \cap Received.about = {}
        /\ \A k \in 1..Len(held) : held[k].type = "JOB_REGISTERED_BY_DP" =>
             held[k].about \cap Received.about = {}
    BY <1>1, OthersAnnounceOthers
  <2>2. \A i \in 1..Len(mailbox') : \E k \in 1..Len(mailbox) : k # 1 /\ mailbox'[i] = mailbox[k]
    <3>1. \A i \in 1..Len(mailbox') : /\ i + 1 \in 1..Len(mailbox) /\ i \in Int /\ i >= 1
                                      /\ mailbox'[i] = mailbox[i+1]
      BY <2>1, TailLookup DEF TypeOK, MailTypeOK
    <3>2. \A i \in Int : i >= 1 => i + 1 # 1
      OBVIOUS
    <3> QED
      BY <3>1, <3>2
  <2> QED
    BY <1>3, <2>1, <2>2 DEF Registering, Flight
<1>5. Registering(j) /\ \A i \in Job : i # j => (Registering(i)' <=> Registering(i))
  BY <1>2, <1>3 DEF Registering
<1>6. /\ ~IsSubmitted(j) /\ IsSubmitted(j)'
      /\ \A i \in Job : /\ i # j => (IsSubmitted(i)' <=> IsSubmitted(i))
                        /\ (IsRunning(i)' <=> IsRunning(i)) /\ (Counted(i)' <=> Counted(i))
  BY <1>1, <1>3, <1>4, <1>5, NoEndPending DEF IsSubmitted, IsRunning, Counted
<1>7. /\ JobsRunning' = JobsRunning /\ CountedJobs' = CountedJobs
      /\ SubmittedJobs \cap {j} = {} /\ SubmittedJobs' = SubmittedJobs \cup {j}
  BY <1>6 DEF SubmittedJobs, JobsRunning, CountedJobs
<1>8. IsFiniteSet(SubmittedJobs) /\ IsFiniteSet({j}) /\ Cardinality({j}) = 1
  BY Balance, FS_Singleton
<1>9. Cardinality(SubmittedJobs \cup {j}) = Cardinality(SubmittedJobs) + 1
  BY <1>7, <1>8, CountMore
<1> QED
  BY <1>1, <1>7, <1>9 DEF CountInv

\* A decision is handled: it is on one job, which waits and has been counted as submitted.
LEMMA DecidedJob ==
  ASSUME TypeOK, DecisionInv, NEW type \in Decision, Receive(type)
  PROVE  \E j \in Job : /\ Received.about = {j} /\ state[j] = "SUBMITTED" /\ IsSubmitted(j)
                        /\ type = "SCHED_EXECUTE_JOB" => view[j] = "running"
                        /\ type = "SCHED_REJECT_JOB" => view[j] = "done"
<1>1. /\ Received \in Flight /\ Received.type = type
      /\ Flight \subseteq Flight' \cup {Received}
      /\ \A m \in Flight' : <<Received, m>> \in DecisionOrder
  BY TakeFlight DEF DecisionInv
<1>2. PICK j \in Job : Received.about = {j}
  BY <1>1 DEF DecisionInv, Founded
<1>3. /\ state[j] = "SUBMITTED"
      /\ type = "SCHED_EXECUTE_JOB" => view[j] = "running"
      /\ type = "SCHED_REJECT_JOB" => view[j] = "done"
  BY <1>1, <1>2 DEF DecisionInv, Founded, Decision
<1>4. ~Registering(j)
  BY <1>1, <1>2 DEF Registering, DecisionOrder, Decision
<1> QED
  BY <1>2, <1>3, <1>4 DEF IsSubmitted

LEMMA ExecutionCounts ==
  ASSUME TypeOK, TypeOK', JobPhases, DecisionInv, KillInv, CountInv, NoEnd, server_on_execute_job
  PROVE  CountInv'
<1>1. /\ Receive("SCHED_EXECUTE_JOB") /\ UNCHANGED <<nb_submitted, nb_completed>>
      /\ nb_running' = nb_running + 1
  BY DEF server_on_execute_job
<1>2. PICK j \in Job : Received.about = {j} /\ state[j] = "SUBMITTED"
  BY <1>1, DecidedJob DEF Decision
<1>3. state'[j] = "RUNNING" /\ \A i \in Job : i # j => state'[i] = state[i]
  BY <1>2 DEF server_on_execute_job
<1>4. Keeps({"JOB_REGISTERED_BY_DP"})
  BY <1>1, TakeKeeps
<1>5. \A i \in Job : (Registering(i)' <=> Registering(i)) /\ (Pending(i)' <=> Pending(i))
  BY <1>4, KeepsRegistering, NoEndPending
<1>6. ~Pending(j)
  BY <1>2 DEF Pending, JobPhases, OrdinaryEnds
<1>7. /\ ~IsRunning(j) /\ IsRunning(j)'
      /\ \A i \in Job : /\ IsSubmitted(i)' <=> IsSubmitted(i)
                        /\ i # j => (IsRunning(i)' <=> IsRunning(i))
                        /\ Counted(i)' <=> Counted(i)
  BY <1>2, <1>3, <1>5, <1>6 DEF IsSubmitted, IsRunning, Counted, IsComplete, OrdinaryEnds
<1>8. /\ SubmittedJobs' = SubmittedJobs /\ CountedJobs' = CountedJobs
      /\ JobsRunning \cap {j} = {} /\ JobsRunning' = JobsRunning \cup {j}
  BY <1>7 DEF SubmittedJobs, JobsRunning, CountedJobs
<1>9. IsFiniteSet(JobsRunning) /\ IsFiniteSet({j}) /\ Cardinality({j}) = 1
  BY Balance, FS_Singleton
<1>10. Cardinality(JobsRunning \cup {j}) = Cardinality(JobsRunning) + 1
  BY <1>8, <1>9, CountMore
<1> QED
  BY <1>1, <1>8, <1>10 DEF CountInv

LEMMA RejectionCounts ==
  ASSUME TypeOK, TypeOK', JobPhases, DecisionInv, KillInv, CountInv, NoEnd, server_on_reject_job
  PROVE  CountInv'
<1>1. Receive("SCHED_REJECT_JOB") /\ UNCHANGED <<nb_submitted, nb_running>>
  BY DEF server_on_reject_job
<1>2. PICK j \in Job : Received.about = {j} /\ state[j] = "SUBMITTED"
  BY <1>1, DecidedJob DEF Decision
<1>3. /\ state'[j] = "REJECTED" /\ \A i \in Job : i # j => state'[i] = state[i]
      /\ nb_completed' = nb_completed + Cardinality({j})
  BY <1>2 DEF server_on_reject_job, Finish
<1>4. Keeps({"JOB_REGISTERED_BY_DP"})
  BY <1>1, TakeKeeps
<1>5. \A i \in Job : (Registering(i)' <=> Registering(i)) /\ (Pending(i)' <=> Pending(i))
  BY <1>4, KeepsRegistering, NoEndPending
<1>6. ~Pending(j)
  BY <1>2 DEF Pending, JobPhases, OrdinaryEnds
<1>7. /\ ~Counted(j) /\ Counted(j)'
      /\ \A i \in Job : /\ IsSubmitted(i)' <=> IsSubmitted(i)
                        /\ i # j => (Counted(i)' <=> Counted(i))
                        /\ IsRunning(i)' <=> IsRunning(i)
  BY <1>2, <1>3, <1>5, <1>6 DEF IsSubmitted, IsRunning, Counted, IsComplete, OrdinaryEnds
<1>8. /\ SubmittedJobs' = SubmittedJobs /\ JobsRunning' = JobsRunning
      /\ CountedJobs \cap {j} = {} /\ CountedJobs' = CountedJobs \cup {j}
  BY <1>7 DEF SubmittedJobs, JobsRunning, CountedJobs
<1>9. IsFiniteSet(CountedJobs) /\ IsFiniteSet({j})
  BY Balance, FS_Singleton
<1>10. Cardinality(CountedJobs \cup {j}) = Cardinality(CountedJobs) + Cardinality({j})
  BY <1>8, <1>9, CountMore
<1> QED
  BY <1>1, <1>3, <1>8, <1>10 DEF CountInv

\* The scheduler registers a job, which is not counted before the server knows.
LEMMA SchedulerKeepsCount ==
  ASSUME TypeOK, TypeOK', LinkInv, KillInv, CountInv, NoEnd, SchedulerStep
  PROVE  CountInv'
<1>1. UNCHANGED jobCounters
  BY DEF SchedulerStep, handle_execute_job, handle_reject_job, handle_kill_job,
         handle_call_me_later, handle_register_job, NotifyRegistrationFinished,
         NotifyContinueRegistration, ReplyApplied, Decide, Apply, send_message_at_time,
         linkUnchanged
<1>2. ASSUME NEW j \in DynJob, handle_register_job(j) PROVE CountInv'
  <2>1. /\ state[j] = "ABSENT" /\ state' = [state EXCEPT ![j] = "SUBMITTED"] /\ j \in Job
        /\ Apply("JOB_REGISTERED_BY_DP", {j})
    BY <1>2 DEF handle_register_job, Decide, Job
  <2>2. PICK n \in Message : /\ n = Msg("JOB_REGISTERED_BY_DP", "sched", {j})
    BY <2>1, RepliesAreMessages
  <2>3. n.type = "JOB_REGISTERED_BY_DP" /\ n.about = {j}
    BY <2>2 DEF Msg
  <2>4. held' = <<n>> /\ UNCHANGED mailbox /\ held = <<>>
    BY <2>1, <2>2 DEF Apply, LinkInv, ReaderHolds
  <2>5. Flight' = Flight \cup {n}
    BY <2>4, HoldFlight
  <2>6. /\ Registering(j)'
        /\ \A i \in Job : i # j => (Registering(i)' <=> Registering(i))
    BY <2>3, <2>5 DEF Registering
  <2>7. \A i \in Job : (i # j => state'[i] = state[i]) /\ state'[j] = "SUBMITTED"
    BY <2>1 DEF TypeOK, JobsTypeOK
  <2>8. ASSUME NEW i \in Job
        PROVE  /\ IsSubmitted(i)' <=> IsSubmitted(i)
               /\ IsRunning(i)' <=> IsRunning(i)
               /\ Counted(i)' <=> Counted(i)
    BY <2>1, <2>6, <2>7, NoEndPending DEF IsSubmitted, IsRunning, Counted, IsComplete, OrdinaryEnds
  <2> QED
    BY <1>1, <2>8, NobodyMoves
<1>3. ASSUME UNCHANGED state, Keeps({"JOB_REGISTERED_BY_DP"}) PROVE CountInv'
  BY <1>1, <1>3, NoEndPending, StatesStay
<1>4. \/ \E j \in DynJob : handle_register_job(j)
      \/ UNCHANGED state
  BY DEF SchedulerStep, handle_execute_job, handle_reject_job, handle_kill_job,
         handle_call_me_later, NotifyRegistrationFinished, NotifyContinueRegistration, ReplyApplied,
         send_message_at_time, jobVars
<1>5. \/ \E j \in DynJob : handle_register_job(j)
      \/ Keeps({"JOB_REGISTERED_BY_DP"})
  BY SchedulerKeeps DEF SchedulerStep
<1> QED
  BY <1>2, <1>3, <1>4, <1>5

LEMMA HandlersKeepCount ==
  ASSUME TypeOK, TypeOK', LifeCycle, LinkInv, DecisionInv, KillInv, CountInv, Handle, ~aborted, ~aborted'
  PROVE  CountInv'
<1>1. JobPhases /\ MessagesAreTrue /\ SubmittedOnce
  BY DEF LifeCycle
<1>2. CASE server_on_kill_jobs
  <2>1. UNCHANGED <<state, actor, jobCounters>> /\ Receive("SCHED_KILL_JOB")
    BY <1>2 DEF server_on_kill_jobs
  <2>2. /\ Flight' \subseteq Flight /\ Flight \subseteq Flight' \cup {Received}
        /\ Received.type = "SCHED_KILL_JOB"
    BY <2>1, TakeFlight
  <2>3. \A j \in Job : Pending(j)' <=> Pending(j)
    BY <2>1, <2>2 DEF Pending, Killing
  <2>4. Keeps({"JOB_REGISTERED_BY_DP"})
    BY <2>1, TakeKeeps
  <2> QED
    BY <2>1, <2>3, <2>4, StatesStay
<1>3. CASE server_on_job_completed \/ server_on_killing_done
  BY <1>1, <1>3, CompletionCounts, KillingCounts
<1>4. CASE ~server_on_job_completed /\ ~server_on_killing_done /\ ~server_on_kill_jobs
  <2>1. NoEnd
    BY <1>4, HandlersEndNone
  <2>2. ASSUME NEW type, Receive(type), type # "JOB_REGISTERED_BY_DP", UNCHANGED <<jobVars, jobCounters>>
        PROVE  CountInv'
    BY <2>1, <2>2, TakeKeeps, NoEndPending, StatesStay DEF jobVars
  <2>3. CASE \/ server_on_job_submitted \/ server_on_register_job
             \/ server_on_execute_job \/ server_on_reject_job
    BY <1>1, <2>1, <2>3, SubmissionCounts, RegistrationCounts, ExecutionCounts, RejectionCounts
  <2> QED
    BY <1>4, <2>2, <2>3 DEF Handle, server_on_submitter_hello, server_on_submitter_bye,
         server_on_event_occurred, server_on_call_me_later, server_on_waiting_done,
         server_on_end_dynamic_register, server_on_continue_dynamic_register, server_on_sched_ready
<1> QED
  BY <1>2, <1>3, <1>4

LEMMA NextKeepsCount ==
  ASSUME TypeOK, TypeOK', LifeCycle, LinkInv, DecisionInv, KillInv, CountInv, Next, ~aborted'
  PROVE  CountInv'
<1>1. ~aborted /\ JobPhases
  BY StepsOfTheLiving DEF LifeCycle
<1>2. CASE JobEndStep
  BY <1>1, <1>2, EndsKeepCount
<1>3. CASE Handle
  BY <1>1, <1>3, HandlersKeepCount
<1>4. CASE ~JobEndStep /\ ~Handle
  <2>1. ~EndStep
    BY <1>4 DEF EndStep, Handle
  <2>2. NoEnd
    BY <2>1, OtherStepsEndNone
  <2>3. ASSUME UNCHANGED <<state, jobCounters>>, Keeps({"JOB_REGISTERED_BY_DP"}) PROVE CountInv'
    BY <2>2, <2>3, NoEndPending, StatesStay
  <2>4. ASSUME NEW s \in Submitter, SubmitterStep(s) PROVE CountInv'
    <3>1. Keeps({"JOB_REGISTERED_BY_DP"})
      BY <2>4, SubmitterKeeps DEF SubmitterMail
    <3> QED
      BY <2>3, <2>4, <3>1 DEF SubmitterStep, SubmitterHello, SubmitBatch, SubmitterBye,
         submitterUnchanged, jobVars
  <2>5. CASE ExecutionStep
    <3>1. Keeps({"JOB_REGISTERED_BY_DP"})
      BY <2>5, ExecutionKeeps DEF ExecutionStep
    <3>2. UNCHANGED <<state, jobCounters>>
      BY <1>4, <2>5 DEF ExecutionStep, JobEndStep, JobStarts, WaiterWakes, executionUnchanged, jobVars
    <3> QED
      BY <2>3, <3>1, <3>2
  <2>6. CASE SchedulerStep
    BY <2>2, <2>6, SchedulerKeepsCount
  <2>7. CASE Deliver \/ ServerSendsEvents \/ ServerEndsSimulation \/ ServerLoops \/ ServerLeavesLoop
    <3>1. UNCHANGED <<state, jobCounters>>
      BY <2>7 DEF Deliver, ServerSendsEvents, ServerEndsSimulation, ServerLoops, ServerLeavesLoop,
         checkUnchanged, jobVars
    <3> QED
      BY <2>3, <2>7, <3>1, LoopKeeps
  <2> QED
    BY <1>4, <2>4, <2>5, <2>6, <2>7 DEF Next, ServerStep
<1> QED
  BY <1>2, <1>3, <1>4

\* The job counters are right.
LEMMA CountersHold == Spec => []Counters
<1>1. Init => Counters
  <2> SUFFICES ASSUME Init PROVE CountInv
    BY DEF Counters
  <2>1. SubmittedJobs = {} /\ JobsRunning = {} /\ CountedJobs = {}
    BY DEF Init, SubmittedJobs, JobsRunning, CountedJobs, IsSubmitted, IsRunning, Counted, Pending,
           IsComplete, OrdinaryEnds
  <2> QED
    BY <2>1, FS_EmptySet DEF Init, CountInv
<1>2. TypeOK /\ TypeOK' /\ LifeCycle /\ Link /\ Decisions /\ Kills /\ Counters /\ [Next]_vars => Counters'
  <2> SUFFICES ASSUME TypeOK, TypeOK', LifeCycle, Link, Decisions, Kills, Counters, [Next]_vars, ~aborted'
               PROVE  CountInv'
    BY DEF Counters
  <2>1. CASE Next
    <3>1. LinkInv /\ DecisionInv /\ KillInv /\ CountInv
      BY <2>1, StepsOfTheLiving DEF Link, Decisions, Kills, Counters
    <3> QED
      BY <2>1, <3>1, NextKeepsCount
  <2>2. CASE UNCHANGED vars
    <3>1. UNCHANGED <<mailbox, held, state, actor, jobCounters, aborted>>
      BY <2>2 DEF vars, jobVars, readerActor
    <3>2. Flight' = Flight
      BY <3>1, StillFlight
    <3> QED
      BY <3>1, <3>2 DEF Counters, CountInv, SubmittedJobs, JobsRunning, CountedJobs, IsSubmitted,
         IsRunning, Counted, Pending, Registering, Killing, jobCounters
  <2> QED
    BY <2>1, <2>2
<1> QED
  BY <1>1, <1>2, TypeCorrect, LifeCycleHolds, LinkHolds, DecisionsHold, KillsHold, PTL DEF Spec

\* The sets that the counters count are those of the property.
LEMMA CountersAreTrue ==
  ASSUME TypeOK, LinkInv, CountInv
  PROVE  CountersMatchJobs
<1>1. \A j \in Job : EndInFlight(j) <=> Pending(j)
  BY PendingIsInFlight
<1>2. \A j \in Job : RegistrationInFlight(j) <=> Registering(j)
  BY FlightIsAll DEF RegistrationInFlight, Registering
<1>3. /\ SubmittedJobs = {j \in Job : /\ state[j] \notin {"ABSENT", "NOT_SUBMITTED"}
                                      /\ ~RegistrationInFlight(j)}
      /\ JobsRunning = {j \in Job : state[j] = "RUNNING" \/ EndInFlight(j)}
      /\ CountedJobs = {j \in Job : IsComplete(state[j]) /\ ~EndInFlight(j)}
  BY <1>1, <1>2 DEF SubmittedJobs, JobsRunning, CountedJobs, IsSubmitted, IsRunning, Counted
<1> QED
  BY <1>3 DEF CountInv, CountersMatchJobs

(***************************************************************************)
(* As long as no assertion has failed, nb_submitted, nb_running and        *)
(* nb_completed of server.cpp count the jobs they are named after, up to   *)
(* the messages in flight: each job once, whether it ends alone, is killed *)
(* or both at once, and however many jobs, killers and messages there are. *)
(***************************************************************************)
THEOREM CountersStayExact == Spec => [](NoAbort => CountersMatchJobs)
<1>1. TypeOK /\ Link /\ Counters => (NoAbort => CountersMatchJobs)
  BY CountersAreTrue DEF Link, Counters, NoAbort
<1> QED
  BY <1>1, TypeCorrect, LinkHolds, CountersHold, PTL

----------------------------------------------------------------------------
(***************************************************************************)
(* The killers, and the kills that the scheduler has asked for: a kill is  *)
(* a KILL_JOB in flight, then a killer, then a KILLING_DONE in flight,     *)
(* then a JOB_KILLED in the buffer.                                        *)
(***************************************************************************)
Killings     == {m \in Flight : m.type = "KILLING_DONE"}
KillRequests == {m \in Flight : m.type = "SCHED_KILL_JOB"}
Acks(events) == {i \in 1..Len(events) : events[i].type = "JOB_KILLED"}

KillersCounted == nb_killers = Cardinality(killers) + Cardinality(Killings)

KillsAsked ==
  /\ kill_requested \subseteq kill_asked
  /\ \A m \in KillRequests : m.about # {} /\ m.about \subseteq kill_asked

\* Two KILL_JOB are about different jobs.
KillOrder ==
  {p \in Message \X Message :
     p[1].type = "SCHED_KILL_JOB" /\ p[2].type = "SCHED_KILL_JOB" => p[1].about \cap p[2].about = {}}

\* A scheduler that kills no job twice gets one answer for each of its kills.
KillsAnswered ==
  ~MayKillAgain =>
    /\ \A m \in KillRequests : m.about \cap kill_requested = {}
    /\ InOrder(KillOrder)
    /\ unacked = Cardinality(KillRequests) + nb_killers + Cardinality(Acks(outbox))

AckInv == KillersCounted /\ KillsAsked /\ KillsAnswered

Acknowledged == ~aborted => AckInv

\* There are finitely many messages, killers and events.
LEMMA MailIsFinite ==
  ASSUME TypeOK
  PROVE  /\ IsFiniteSet(Flight) /\ IsFiniteSet(killers) /\ IsFiniteSet(Acks(outbox))
         /\ \A S \in SUBSET Flight : IsFiniteSet(S) /\ Cardinality(S) \in Nat
<1>1. Len(mailbox) \in Nat /\ Len(held) \in Nat /\ Len(outbox) \in Nat
  BY LenProperties DEF TypeOK, MailTypeOK, ServerTypeOK
<1>2. /\ IsFiniteSet(1..Len(mailbox)) /\ IsFiniteSet(1..Len(held)) /\ IsFiniteSet(1..Len(outbox))
  BY <1>1, FS_Interval
<1>3. IsFiniteSet({mailbox[i] : i \in 1..Len(mailbox)})
  <2> DEFINE f == [i \in 1..Len(mailbox) |-> mailbox[i]]
  <2>1. f \in Surjection(1..Len(mailbox), {mailbox[i] : i \in 1..Len(mailbox)})
    BY DEF Surjection
  <2> QED
    BY <1>2, <2>1, FS_Surjection
<1>4. IsFiniteSet({held[k] : k \in 1..Len(held)})
  <2> DEFINE f == [i \in 1..Len(held) |-> held[i]]
  <2>1. f \in Surjection(1..Len(held), {held[i] : i \in 1..Len(held)})
    BY DEF Surjection
  <2> QED
    BY <1>2, <2>1, FS_Surjection
<1>5. IsFiniteSet(Flight)
  BY <1>3, <1>4, FS_Union DEF Flight
<1>6. IsFiniteSet(killers)
  <2>1. IsFiniteSet(Job)
    BY ItemsAreFinite DEF Item
  <2>2. IsFiniteSet(SUBSET Job)
    BY <2>1, FS_SUBSET
  <2>3. killers \subseteq SUBSET Job
    BY DEF TypeOK, ActorsTypeOK
  <2> QED
    BY <2>2, <2>3, FS_Subset
<1>7. IsFiniteSet(Acks(outbox))
  BY <1>2, FS_Subset DEF Acks
<1> QED
  BY <1>5, <1>6, <1>7, FS_Subset, FS_CardinalityType

\* An event more.
LEMMA AppendAcks ==
  ASSUME NEW o \in Seq(Event), NEW e \in Event
  PROVE  /\ IsFiniteSet(Acks(o)) /\ Cardinality(Acks(o)) \in Nat
         /\ Cardinality(Acks(Append(o, e))) = Cardinality(Acks(o)) + IF e.type = "JOB_KILLED" THEN 1 ELSE 0
<1>1. Len(o) \in Nat /\ Len(Append(o, e)) = Len(o) + 1
  OBVIOUS
<1>2. \A i \in 1..Len(Append(o, e)) : \/ i \in 1..Len(o) /\ Append(o, e)[i] = o[i]
                                      \/ i = Len(o) + 1 /\ Append(o, e)[i] = e
  BY AppendLookup
<1>3. \A i \in 1..Len(o) : i \in 1..Len(Append(o, e)) /\ Append(o, e)[i] = o[i]
  BY <1>1
<1>4. IsFiniteSet(Acks(o)) /\ Cardinality(Acks(o)) \in Nat
  <2>1. IsFiniteSet(1..Len(o)) /\ Acks(o) \subseteq 1..Len(o)
    BY <1>1, FS_Interval DEF Acks
  <2> QED
    BY <2>1, FS_Subset, FS_CardinalityType
<1>5. CASE e.type = "JOB_KILLED"
  <2>1. Len(o) + 1 \in 1..Len(Append(o, e)) /\ Append(o, e)[Len(o) + 1] = e
    BY <1>1
  <2>2. Acks(Append(o, e)) = Acks(o) \cup {Len(o) + 1}
    BY <1>2, <1>3, <1>5, <2>1 DEF Acks
  <2>3. Len(o) + 1 \notin Acks(o)
    BY <1>1 DEF Acks
  <2>4. Cardinality(Acks(o) \cup {Len(o) + 1}) = Cardinality(Acks(o)) + 1
    BY <1>4, <2>3, FS_AddElement
  <2> QED
    BY <1>4, <1>5, <2>2, <2>4
<1>6. CASE e.type # "JOB_KILLED"
  <2>1. Acks(Append(o, e)) = Acks(o)
    BY <1>2, <1>3, <1>6 DEF Acks
  <2> QED
    BY <1>4, <1>6, <2>1
<1> QED
  BY <1>4, <1>5, <1>6

KillMail == {"SCHED_KILL_JOB", "KILLING_DONE"}

\* A step that has nothing to do with kills.
NoKill ==
  /\ UNCHANGED <<killers, nb_killers, kill_asked, kill_requested, unacked>>
  /\ Keeps(KillMail)
  /\ outbox' = outbox \/ \E e \in Event : e.type # "JOB_KILLED" /\ outbox' = Append(outbox, e)

LEMMA NoKillKeepsAcks ==
  ASSUME TypeOK, TypeOK', AckInv, NoKill
  PROVE  AckInv'
<1>1. Flight \subseteq Message /\ Flight' \subseteq Message
  BY DEF TypeOK, MailTypeOK, Flight
<1>2. Killings' = Killings /\ KillRequests' = KillRequests
  BY <1>1 DEF NoKill, Keeps, KillMail, Killings, KillRequests
<1>3. InOrder(KillOrder) => InOrder(KillOrder)'
  <2>1. \A m, n \in Message : m.type \notin KillMail \/ n.type \notin KillMail => <<m, n>> \in KillOrder
    BY DEF KillOrder, KillMail
  <2> QED
    BY <2>1 DEF NoKill, Keeps
<1>4. Cardinality(Acks(outbox))' = Cardinality(Acks(outbox))
  <2>1. CASE outbox' = outbox
    BY <2>1
  <2>2. ASSUME NEW e \in Event, e.type # "JOB_KILLED", outbox' = Append(outbox, e)
        PROVE  Cardinality(Acks(outbox))' = Cardinality(Acks(outbox))
    <3>1. outbox \in Seq(Event)
      BY DEF TypeOK, ServerTypeOK
    <3>2. /\ Cardinality(Acks(outbox)) \in Nat
          /\ Cardinality(Acks(Append(outbox, e))) = Cardinality(Acks(outbox)) + 0
      BY <2>2, <3>1, AppendAcks
    <3> QED
      BY <2>2, <3>2
  <2> QED
    BY <2>1, <2>2 DEF NoKill
<1> QED
  BY <1>2, <1>3, <1>4 DEF AckInv, KillersCounted, KillsAsked, KillsAnswered, NoKill

\* The scheduler asks for a kill.
LEMMA AskingKeepsAcks ==
  ASSUME TypeOK, LinkInv, AckInv, NEW S \in SUBSET Job, handle_kill_job(S)
  PROVE  AckInv'
<1>1. /\ S # {} /\ (MayKillAgain \/ S \cap kill_asked = {}) /\ Apply("SCHED_KILL_JOB", S)
      /\ unacked' = unacked + 1 /\ kill_asked' = kill_asked \cup S
      /\ UNCHANGED <<kill_requested, killers, nb_killers, outbox>>
  BY DEF handle_kill_job, Decide, Apply, linkUnchanged, jobVars, actorCounts, bufferVars, helperActors
<1>2. PICK n \in Message : n = Msg("SCHED_KILL_JOB", "sched", S)
  BY RepliesAreMessages
<1>3. n.type = "SCHED_KILL_JOB" /\ n.about = S
  BY <1>2 DEF Msg
<1>4. held' = <<n>> /\ UNCHANGED mailbox /\ held = <<>>
  BY <1>1, <1>2 DEF Apply, LinkInv, ReaderHolds
<1>5. /\ Flight' = Flight \cup {n}
      /\ \A R : InOrder(R) /\ (\A m \in Flight : <<m, n>> \in R) => InOrder(R)'
  BY <1>4, HoldFlight
<1>6. Killings' = Killings /\ KillRequests' = KillRequests \cup {n}
  BY <1>3, <1>5 DEF Killings, KillRequests
<1>7. KillersCounted' /\ KillsAsked'
  BY <1>1, <1>3, <1>6 DEF AckInv, KillersCounted, KillsAsked
<1>8. ASSUME ~MayKillAgain
      PROVE  /\ \A m \in KillRequests' : m.about \cap kill_requested = {}
             /\ InOrder(KillOrder)'
             /\ unacked' = Cardinality(KillRequests') + nb_killers + Cardinality(Acks(outbox))
  <2>1. \A m \in KillRequests : m.about \cap S = {}
    BY <1>1, <1>8 DEF AckInv, KillsAsked
  <2>2. n \notin KillRequests
    BY <1>1, <1>3, <2>1
  <2>3. \A m \in Flight : <<m, n>> \in KillOrder
    BY <1>3, <2>1, FlightIsTyped DEF KillOrder, KillRequests
  <2>4. IsFiniteSet(KillRequests) /\ Cardinality(KillRequests) \in Nat
    BY MailIsFinite DEF KillRequests
  <2>5. Cardinality(KillRequests') = Cardinality(KillRequests) + 1
    BY <1>6, <2>2, <2>4, FS_AddElement
  <2>6. Cardinality(Acks(outbox)) \in Nat /\ nb_killers \in Int
    <3>1. nb_killers \in Int
      BY DEF TypeOK, ServerTypeOK
    <3> QED
      BY <3>1, MailIsFinite, FS_CardinalityType
  <2>7. unacked = Cardinality(KillRequests) + nb_killers + Cardinality(Acks(outbox))
    BY <1>8 DEF AckInv, KillsAnswered
  <2>8. unacked' = Cardinality(KillRequests') + nb_killers + Cardinality(Acks(outbox))
    BY <1>1, <2>4, <2>5, <2>6, <2>7
  <2> QED
    BY <1>1, <1>3, <1>5, <1>6, <1>8, <2>3, <2>8 DEF AckInv, KillsAsked, KillsAnswered
<1>9. KillsAnswered'
  BY <1>1, <1>8 DEF KillsAnswered
<1> QED
  BY <1>7, <1>9 DEF AckInv

\* The server handles a kill: a killer is created unless all its jobs had one.
LEMMA RequestKeepsAcks ==
  ASSUME TypeOK, KillInv, AckInv, server_on_kill_jobs
  PROVE  AckInv'
<1>1. PICK S : S = NewlyRequested(Received.about)
  OBVIOUS
<1>2. /\ Receive("SCHED_KILL_JOB") /\ kill_requested' = kill_requested \cup S
      /\ killers' = IF S = {} THEN killers ELSE killers \cup {S}
      /\ nb_killers' = IF S = {} THEN nb_killers ELSE nb_killers + 1
      /\ UNCHANGED <<kill_asked, unacked, outbox>>
  BY <1>1 DEF server_on_kill_jobs, Receive, schedVars, bufferVars
<1>3. /\ Flight' \subseteq Flight /\ Flight \subseteq Flight' \cup {Received} /\ Received \in Flight
      /\ Received.type = "SCHED_KILL_JOB"
      /\ \A R : InOrder(R) => InOrder(R)' /\ \A m \in Flight' : <<Received, m>> \in R
  BY <1>2, TakeFlight
<1>4. /\ S \subseteq Received.about /\ S \cap kill_requested = {} /\ Received \in KillRequests
      /\ Received.about # {} /\ Received.about \subseteq kill_asked
  BY <1>1, <1>3 DEF NewlyRequested, KillRequests, AckInv, KillsAsked
<1>5. Killings' = Killings /\ KillRequests' \subseteq KillRequests
  BY <1>3 DEF Killings, KillRequests
<1>6. KillsAsked'
  BY <1>2, <1>4, <1>5 DEF AckInv, KillsAsked
<1>7. IsFiniteSet(killers) /\ Cardinality(killers) \in Nat /\ Cardinality(Killings) \in Nat
  BY MailIsFinite, FS_CardinalityType DEF Killings
<1>8. KillersCounted'
  <2>1. CASE S = {}
    BY <1>2, <1>5, <2>1 DEF AckInv, KillersCounted
  <2>2. CASE S # {}
    <3>1. S \notin killers
      BY <1>4, <2>2 DEF KillInv, KillersDiffer
    <3>2. Cardinality(killers \cup {S}) = Cardinality(killers) + 1
      BY <1>7, <3>1, FS_AddElement
    <3> QED
      BY <1>2, <1>5, <1>7, <2>2, <3>2 DEF AckInv, KillersCounted
  <2> QED
    BY <2>1, <2>2
<1>9. ASSUME ~MayKillAgain
      PROVE  /\ \A m \in KillRequests' : m.about \cap kill_requested' = {}
             /\ InOrder(KillOrder)'
             /\ unacked' = Cardinality(KillRequests') + nb_killers' + Cardinality(Acks(outbox)')
  <2>1. InOrder(KillOrder) /\ \A m \in KillRequests : m.about \cap kill_requested = {}
    BY <1>9 DEF AckInv, KillsAnswered
  <2>2. S = Received.about /\ S # {}
    BY <1>1, <1>4, <2>1 DEF NewlyRequested
  <2>3. InOrder(KillOrder)' /\ \A m \in KillRequests' : m.about \cap Received.about = {}
    <3>1. InOrder(KillOrder)' /\ \A m \in Flight' : <<Received, m>> \in KillOrder
      BY <1>3, <2>1
    <3> QED
      BY <1>3, <3>1 DEF KillOrder, KillRequests
  <2>4. \A m \in KillRequests' : m.about \cap kill_requested' = {}
    BY <1>2, <1>5, <2>1, <2>2, <2>3
  <2>5. KillRequests' = KillRequests \ {Received}
    BY <1>3, <1>4, <2>3 DEF KillRequests
  <2>6. IsFiniteSet(KillRequests) /\ Cardinality(KillRequests) \in Nat
    BY MailIsFinite DEF KillRequests
  <2>7. Cardinality(KillRequests') = Cardinality(KillRequests) - 1
    BY <1>4, <2>5, <2>6, FS_RemoveElement
  <2>8. Cardinality(Acks(outbox)) \in Nat /\ nb_killers \in Int
    <3>1. nb_killers \in Int
      BY DEF TypeOK, ServerTypeOK
    <3> QED
      BY <3>1, MailIsFinite, FS_CardinalityType
  <2>9. unacked = Cardinality(KillRequests) + nb_killers + Cardinality(Acks(outbox))
    BY <1>9 DEF AckInv, KillsAnswered
  <2>10. unacked' = Cardinality(KillRequests') + nb_killers' + Cardinality(Acks(outbox)')
    BY <1>2, <2>2, <2>6, <2>7, <2>8, <2>9
  <2> QED
    BY <2>3, <2>4, <2>10
<1>10. KillsAnswered'
  BY <1>9 DEF KillsAnswered
<1> QED
  BY <1>6, <1>8, <1>10 DEF AckInv

\* A killer runs: it becomes a message.
LEMMA KillerKeepsAcks ==
  ASSUME TypeOK, KillInv, AckInv, NEW S \in killers, NEW inPtask \in SUBSET S, killer_process(S, inPtask)
  PROVE  AckInv'
<1>1. /\ killers' = killers \ {S}
      /\ UNCHANGED <<held, nb_killers, kill_asked, kill_requested, unacked, outbox>>
  BY DEF killer_process, executionUnchanged, schedVars, bufferVars, actorCounts, readerActor
<1>2. PICK n \in Message : Put(n) /\ n.type = "KILLING_DONE" /\ n.about = S
  BY DEF killer_process, Msg, Message, TypeOK, ActorsTypeOK
<1>3. Flight' = Flight \cup {n}
  BY <1>1, <1>2, PutFlight
<1>4. S # {} /\ \A m \in Killings : S \cap m.about = {}
  BY DEF Killings, KillInv, KillersDiffer
<1>5. n \notin Killings /\ Killings' = Killings \cup {n} /\ KillRequests' = KillRequests
  BY <1>2, <1>3, <1>4 DEF Killings, KillRequests
<1>6. /\ IsFiniteSet(killers) /\ Cardinality(killers) \in Nat
      /\ IsFiniteSet(Killings) /\ Cardinality(Killings) \in Nat
  BY MailIsFinite, FS_CardinalityType DEF Killings
<1>7. /\ Cardinality(killers \ {S}) = Cardinality(killers) - 1
      /\ Cardinality(Killings \cup {n}) = Cardinality(Killings) + 1
  BY <1>5, <1>6, FS_AddElement, FS_RemoveElement
<1>8. KillersCounted'
  BY <1>1, <1>5, <1>6, <1>7 DEF AckInv, KillersCounted
<1>9. Keeps({"SCHED_KILL_JOB"})
  BY ExecutionKeeps
<1>10. InOrder(KillOrder) => InOrder(KillOrder)'
  <2>1. \A m, k \in Message : m.type \notin {"SCHED_KILL_JOB"} \/ k.type \notin {"SCHED_KILL_JOB"}
          => <<m, k>> \in KillOrder
    BY DEF KillOrder
  <2> QED
    BY <1>9, <2>1 DEF Keeps
<1> QED
  BY <1>1, <1>5, <1>8, <1>10 DEF AckInv, KillsAsked, KillsAnswered

\* The end of a killer is handled: its acknowledgement is buffered.
LEMMA KillingKeepsAcks ==
  ASSUME TypeOK, KillInv, AckInv, server_on_killing_done
  PROVE  AckInv'
<1>1. /\ Receive("KILLING_DONE") /\ nb_killers' = nb_killers - 1
      /\ outbox' = outbox \o KillingEvents(Received.about)
      /\ UNCHANGED <<killers, kill_asked, kill_requested, unacked>>
  BY DEF server_on_killing_done, Receive, schedVars, helperActors
<1>2. /\ Flight' \subseteq Flight /\ Flight \subseteq Flight' \cup {Received} /\ Received \in Flight
      /\ Received \in Message /\ Received.type = "KILLING_DONE"
      /\ \A R : InOrder(R) => InOrder(R)' /\ \A m \in Flight' : <<Received, m>> \in R
  BY <1>1, TakeFlight
<1>3. Received.about \in SUBSET Job /\ Received.about # {}
  BY <1>2, MessageKinds DEF KillInv, Ending
<1>4. \A m \in Flight' : m.type = "KILLING_DONE" => m.about \cap Received.about = {}
  <2>1. \A m \in Flight' : <<Received, m>> \in EndOrder
    BY <1>2 DEF KillInv
  <2> QED
    BY <1>2, <2>1 DEF EndOrder, EndType
<1>5. /\ Killings' = Killings \ {Received} /\ Received \in Killings /\ KillRequests' = KillRequests
  BY <1>2, <1>3, <1>4 DEF Killings, KillRequests
<1>6. IsFiniteSet(Killings) /\ Cardinality(Killings) \in Nat /\ Cardinality(killers) \in Nat
  BY MailIsFinite, FS_CardinalityType DEF Killings
<1>7. Cardinality(Killings \ {Received}) = Cardinality(Killings) - 1
  BY <1>5, <1>6, FS_RemoveElement
<1>8. KillersCounted'
  BY <1>1, <1>5, <1>6, <1>7 DEF AckInv, KillersCounted
<1>9. Cardinality(Acks(outbox)) \in Nat /\ Cardinality(Acks(outbox')) = Cardinality(Acks(outbox)) + 1
  <2>1. outbox \in Seq(Event)
    BY DEF TypeOK, ServerTypeOK
  <2>2. PICK d \in Event : d = Ev("JOB_KILLED", Received.about) /\ d.type = "JOB_KILLED"
    BY <1>3, JobEvents
  <2>3. PICK c \in Event : c = Ev("JOB_COMPLETED", ReallyKilled(Received.about)) /\ c.type = "JOB_COMPLETED"
    <3>1. ReallyKilled(Received.about) \in SUBSET Job
      BY <1>3 DEF ReallyKilled
    <3> QED
      BY <3>1, JobEvents
  <2>4. outbox' = Append(IF ReallyKilled(Received.about) = {} THEN outbox ELSE Append(outbox, c), d)
    BY <1>1, <1>3, <2>1, <2>2, <2>3, KillingAppends
  <2>5. /\ Cardinality(Acks(outbox)) \in Nat
        /\ Cardinality(Acks(Append(outbox, c))) = Cardinality(Acks(outbox)) + 0
        /\ Cardinality(Acks(Append(outbox, d))) = Cardinality(Acks(outbox)) + 1
    BY <2>1, <2>2, <2>3, AppendAcks
  <2>6. Append(outbox, c) \in Seq(Event)
    BY <2>1
  <2>7. Cardinality(Acks(Append(Append(outbox, c), d))) = Cardinality(Acks(Append(outbox, c))) + 1
    BY <2>2, <2>6, AppendAcks
  <2> QED
    BY <2>4, <2>5, <2>7
<1>10. ASSUME ~MayKillAgain
       PROVE  unacked' = Cardinality(KillRequests') + nb_killers' + Cardinality(Acks(outbox'))
  <2>1. unacked = Cardinality(KillRequests) + nb_killers + Cardinality(Acks(outbox))
    BY <1>10 DEF AckInv, KillsAnswered
  <2>2. nb_killers \in Int
    BY DEF TypeOK, ServerTypeOK
  <2>3. Cardinality(KillRequests) \in Nat
    BY MailIsFinite DEF KillRequests
  <2> QED
    BY <1>1, <1>5, <1>9, <2>1, <2>2, <2>3
<1> QED
  BY <1>1, <1>2, <1>5, <1>8, <1>10 DEF AckInv, KillsAsked, KillsAnswered

\* The scheduler gets the acknowledgements of the buffer.
LEMMA SendingKeepsAcks ==
  ASSUME TypeOK, LinkInv, AckInv, ServerSendsEvents \/ ServerEndsSimulation
  PROVE  AckInv'
<1>1. /\ UNCHANGED <<mailbox, held, killers, nb_killers, kill_asked, kill_requested>>
      /\ outbox' = <<>>
  BY CallsWhenAllIsQuiet DEF ServerSendsEvents, ServerEndsSimulation, checkUnchanged, actorCounts,
     generate_and_send_message
<1>2. Flight' = Flight /\ (InOrder(KillOrder) => InOrder(KillOrder)')
  BY <1>1, StillFlight
<1>3. Killings' = Killings /\ KillRequests' = KillRequests
  BY <1>2 DEF Killings, KillRequests
<1>4. unacked' = unacked - Cardinality(Acks(outbox))
  <2>1. CASE ServerSendsEvents
    BY <2>1 DEF ServerSendsEvents, generate_and_send_message, Acks
  <2>2. CASE ServerEndsSimulation
    <3> DEFINE last == <<Ev("SIMULATION_ENDS", {})>>
    <3>1. unacked' = unacked - Cardinality(Acks(last)) /\ outbox = <<>>
      BY <2>2 DEF ServerEndsSimulation, generate_and_send_message, Acks
    <3>2. Acks(last) = {}
      BY DEF Acks, Ev
    <3>3. Acks(outbox) = {}
      BY <3>1 DEF Acks
    <3> QED
      BY <3>1, <3>2, <3>3
  <2> QED
    BY <2>1, <2>2
<1>5. Cardinality(Acks(outbox')) = 0
  <2>1. Acks(outbox') = {}
    BY <1>1 DEF Acks
  <2> QED
    BY <2>1, FS_EmptySet
<1>6. KillsAnswered'
  <2>1. Cardinality(Acks(outbox)) \in Nat
    BY MailIsFinite, FS_CardinalityType
  <2>2. Cardinality(KillRequests) \in Nat
    BY MailIsFinite DEF KillRequests
  <2>3. nb_killers \in Int
    BY DEF TypeOK, ServerTypeOK
  <2>4. ASSUME ~MayKillAgain
        PROVE  unacked' = Cardinality(KillRequests) + nb_killers + 0
    <3>1. unacked = Cardinality(KillRequests) + nb_killers + Cardinality(Acks(outbox))
      BY <2>4 DEF AckInv, KillsAnswered
    <3> QED
      BY <1>4, <2>1, <2>2, <2>3, <3>1
  <2> QED
    BY <1>1, <1>2, <1>3, <1>5, <2>4 DEF AckInv, KillsAnswered
<1> QED
  BY <1>1, <1>3, <1>6 DEF AckInv, KillersCounted, KillsAsked

KillStep ==
  \/ \E S \in SUBSET Job : handle_kill_job(S)
  \/ \E S \in killers : \E inPtask \in SUBSET S : killer_process(S, inPtask)
  \/ server_on_kill_jobs \/ server_on_killing_done
  \/ ServerSendsEvents \/ ServerEndsSimulation

LEMMA HandlersKillNone ==
  ASSUME TypeOK, Handle, ~KillStep
  PROVE  NoKill
<1>1. ASSUME NEW type, type \notin KillMail, Receive(type), UNCHANGED <<killers, nb_killers, kill_requested>>,
             outbox' = outbox \/ \E e \in Event : e.type # "JOB_KILLED" /\ outbox' = Append(outbox, e)
      PROVE  NoKill
  <2>1. UNCHANGED <<kill_asked, unacked>>
    BY <1>1 DEF Receive, schedVars
  <2> QED
    BY <1>1, <2>1, TakeKeeps DEF NoKill
<1>2. /\ Ev("NO_MORE_STATIC_JOB", {}) \in Event /\ Ev("NO_MORE_EXTERNAL_EVENT", {}) \in Event
      /\ Ev("REQUESTED_CALL", {}) \in Event
      /\ \A type, about : Ev(type, about).type = type
      /\ \A S \in SUBSET Job : Ev("JOB_SUBMITTED", S) \in Event /\ Ev("JOB_COMPLETED", S) \in Event
      /\ \A S \in SUBSET ExtEvent : Ev("EXTERNAL_EVENT", S) \in Event
  BY DEF Ev, Event
<1>3. \A type : Receive(type) => Received \in Message /\ Received.type = type
  BY TakeFlight
<1>4. CASE server_on_submitter_bye
  BY <1>1, <1>2, <1>4 DEF server_on_submitter_bye, KillMail, jobVars, actorCounts, helperActors
<1>5. CASE server_on_job_submitted
  <2>1. Received.about \in SUBSET Job
    BY <1>3, <1>5, MessageKinds DEF server_on_job_submitted
  <2> QED
    BY <1>1, <1>2, <1>5, <2>1 DEF server_on_job_submitted, KillMail, actorCounts, helperActors
<1>6. CASE server_on_event_occurred
  <2>1. Received.about \in SUBSET ExtEvent
    BY <1>3, <1>6, MessageKinds DEF server_on_event_occurred
  <2> QED
    BY <1>1, <1>2, <1>6, <2>1 DEF server_on_event_occurred, KillMail, jobVars, actorCounts, helperActors
<1>7. CASE server_on_job_completed
  <2>1. Received.about \in SUBSET Job
    BY <1>3, <1>7, MessageKinds DEF server_on_job_completed
  <2> QED
    BY <1>1, <1>2, <1>7, <2>1 DEF server_on_job_completed, KillMail, actorCounts, helperActors
<1>8. CASE server_on_register_job
  <2>1. Received.about \in SUBSET Job
    BY <1>3, <1>8, MessageKinds DEF server_on_register_job
  <2> QED
    BY <1>1, <1>2, <1>8, <2>1 DEF server_on_register_job, KillMail, jobVars, actorCounts, helperActors
<1>9. CASE server_on_waiting_done
  BY <1>1, <1>2, <1>9 DEF server_on_waiting_done, KillMail, jobVars, helperActors
<1> QED
  BY <1>1, <1>4, <1>5, <1>6, <1>7, <1>8, <1>9 DEF Handle, KillStep, server_on_submitter_hello,
     server_on_execute_job, server_on_reject_job, server_on_call_me_later,
     server_on_end_dynamic_register, server_on_continue_dynamic_register, server_on_sched_ready,
     KillMail, jobVars, actorCounts, bufferVars, helperActors

LEMMA OtherStepsKillNone ==
  ASSUME TypeOK, LinkInv, Next, ~KillStep
  PROVE  NoKill
<1>1. ASSUME NEW s \in Submitter, SubmitterStep(s) PROVE NoKill
  <2>1. Keeps(KillMail)
    BY <1>1, SubmitterKeeps DEF SubmitterMail, KillMail
  <2> QED
    BY <1>1, <2>1 DEF NoKill, SubmitterStep, SubmitterHello, SubmitBatch, SubmitterBye,
       submitterUnchanged, jobVars, actorCounts, bufferVars, helperActors, schedVars
<1>2. CASE ExecutionStep
  <2>1. Keeps(KillMail)
    BY <1>2, ExecutionKeeps DEF ExecutionStep, KillStep, KillMail
  <2>2. UNCHANGED <<killers, nb_killers, kill_asked, kill_requested, unacked, outbox>>
    BY <1>2 DEF ExecutionStep, KillStep, JobStarts, JobCancelled, JobEnds, WaiterWakes,
       executionUnchanged, jobVars, actorCounts, bufferVars, helperActors, schedVars
  <2> QED
    BY <2>1, <2>2 DEF NoKill
<1>3. CASE SchedulerStep
  <2>1. Keeps(KillMail)
    BY <1>3, SchedulerKeeps DEF SchedulerStep, KillStep, KillMail
  <2>2. UNCHANGED <<killers, nb_killers, kill_asked, kill_requested, unacked, outbox>>
    BY <1>3 DEF SchedulerStep, KillStep, handle_execute_job, handle_reject_job,
         handle_call_me_later, handle_register_job, NotifyRegistrationFinished,
         NotifyContinueRegistration, ReplyApplied, Decide, Apply, send_message_at_time,
         linkUnchanged, jobVars, actorCounts, bufferVars, helperActors
  <2> QED
    BY <2>1, <2>2 DEF NoKill
<1>4. CASE Deliver \/ ServerLoops \/ ServerLeavesLoop
  <2>1. Keeps(KillMail)
    BY <1>4, LoopKeeps
  <2>2. UNCHANGED <<killers, nb_killers, kill_asked, kill_requested, unacked, outbox>>
    BY <1>4 DEF Deliver, ServerLoops, ServerLeavesLoop, checkUnchanged, jobVars, actorCounts,
       bufferVars, helperActors, schedVars
  <2> QED
    BY <2>1, <2>2 DEF NoKill
<1> QED
  BY <1>1, <1>2, <1>3, <1>4, HandlersKillNone DEF Next, ServerStep, KillStep

LEMMA AcknowledgedHolds == Spec => []Acknowledged
<1>1. Init => Acknowledged
  <2> SUFFICES ASSUME Init PROVE AckInv
    BY DEF Acknowledged
  <2>1. Len(mailbox) = 0 /\ Len(held) = 0 /\ Len(outbox) = 0
    BY DEF Init
  <2>2. Flight = {} /\ InOrder(KillOrder)
    BY <2>1 DEF Flight, InOrder
  <2>3. Killings = {} /\ KillRequests = {} /\ Acks(outbox) = {} /\ killers = {}
    BY <2>1, <2>2 DEF Killings, KillRequests, Acks, Init
  <2>4. Cardinality({}) = 0
    BY FS_EmptySet
  <2>5. nb_killers = 0 /\ unacked = 0 /\ kill_requested = {}
    BY DEF Init
  <2>6. KillersCounted
    BY <2>3, <2>4, <2>5 DEF KillersCounted
  <2>7. KillsAsked
    BY <2>3, <2>5 DEF KillsAsked
  <2>8. KillsAnswered
    BY <2>2, <2>3, <2>4, <2>5 DEF KillsAnswered
  <2> QED
    BY <2>2, <2>6, <2>7, <2>8 DEF AckInv
<1>2. TypeOK /\ TypeOK' /\ Link /\ Kills /\ Acknowledged /\ [Next]_vars => Acknowledged'
  <2> SUFFICES ASSUME TypeOK, TypeOK', Link, Kills, Acknowledged, [Next]_vars, ~aborted' PROVE AckInv'
    BY DEF Acknowledged
  <2>1. CASE Next
    <3>1. LinkInv /\ KillInv /\ AckInv
      BY <2>1, StepsOfTheLiving DEF Link, Kills, Acknowledged
    <3>2. CASE KillStep
      BY <3>1, <3>2, AskingKeepsAcks, RequestKeepsAcks, KillerKeepsAcks, KillingKeepsAcks,
         SendingKeepsAcks DEF KillStep
    <3>3. CASE ~KillStep
      BY <2>1, <3>1, <3>3, OtherStepsKillNone, NoKillKeepsAcks
    <3> QED
      BY <3>2, <3>3
  <2>2. CASE UNCHANGED vars
    <3>1. UNCHANGED <<mailbox, held, killers, nb_killers, kill_asked, kill_requested, unacked, outbox, aborted>>
      BY <2>2 DEF vars, jobVars, readerActor, actorCounts, bufferVars, helperActors, schedVars
    <3>2. NoKill /\ AckInv
      BY <3>1, StillKeeps DEF NoKill, Acknowledged
    <3> QED
      BY <3>2, NoKillKeepsAcks
  <2> QED
    BY <2>1, <2>2
<1> QED
  BY <1>1, <1>2, TypeCorrect, LinkHolds, KillsHold, PTL DEF Spec
=============================================================================
