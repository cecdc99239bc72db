---------------------------- MODULE SchedulerLink ---------------------------
(***************************************************************************)
(* The REQ-REP actor (network.cpp) and the scheduler behind it.            *)
(*                                                                         *)
(* For each message Batsim sends, the actor waits for the scheduler's      *)
(* reply, which takes no simulated time, and applies its events one after  *)
(* the other (JsonProtocolReader, protocol.cpp): each is read and checked, *)
(* then comes a sleep until the event's date (send_message_at_time), then  *)
(* a blocking put to the server. SCHED_READY comes last.                   *)
(*                                                                         *)
(* The scheduler is external. It may take any decision that the protocol   *)
(* allows from what it knows (view): it executes or rejects a job it was   *)
(* told of and has not decided on, kills jobs it executed and was not told *)
(* have completed, registers new jobs until it has said it is over, asks   *)
(* to be called. Since it learns nothing while it replies, choosing each   *)
(* event when the previous one has been applied is choosing the reply.     *)
(***************************************************************************)
EXTENDS BatsimState

CONSTANTS
  MaxKills,      \* how many KILL_JOB may be unacknowledged
  MayKillAgain,  \* may the scheduler kill a job twice?
  MayContinue,   \* may it send continue_registration?
  Eager          \* does it decide on every job it can before replying?

ASSUME SchedulerAssumption ==
  /\ MaxKills \in Nat
  /\ {MayKillAgain, MayContinue, Eager} \subseteq BOOLEAN

linkUnchanged ==
  UNCHANGED <<machineVars, server, loopVars, jobCounters, actorCounts,
              submitVars, registration_finished, bufferVars, submitterActors,
              helperActors, told>>

\* The REQ-REP actor reads one event of the reply and sleeps until its date.
Apply(type, about) ==
  /\ ~aborted
  /\ reader = "run"
  /\ held' = <<Msg(type, "sched", about)>>
  /\ reader' = "asleep"
  /\ UNCHANGED mailbox
  /\ linkUnchanged

\* send_message_at_time: the date has come and the message is put.
send_message_at_time ==
  /\ ~aborted
  /\ reader = "asleep"
  /\ mailbox' = mailbox \o held
  /\ held' = <<>>
  /\ reader' = "blocked"
  /\ UNCHANGED <<jobVars, view, asked, kill_asked, reg_over, unacked, aborted>>
  /\ linkUnchanged

\* A decision, which a scheduler that was told the simulation ends does not take.
Decide(type, about) == "SIMULATION_ENDS" \notin told /\ Apply(type, about)

\* The machines that no job the scheduler believes to be running uses.
FreeMachines ==
  {m \in Machine : \A j \in Job : view[j] = "running" => m \notin alloc[j]}

CanStart(j) ==
  /\ view[j] = "waiting"
  /\ NbRes[j] <= Cardinality(IF AllowSharing THEN Machine ELSE FreeMachines)

\* The reader looks the job up: job_at needs it in the table.
handle_execute_job(j, machines) ==
  /\ view[j] = "waiting"
  /\ Cardinality(machines) = NbRes[j]
  /\ AllowSharing \/ machines \subseteq FreeMachines
  /\ Decide("SCHED_EXECUTE_JOB", {j})
  /\ Assert(j \in jobs)
  /\ alloc' = [alloc EXCEPT ![j] = machines]
  /\ view' = [view EXCEPT ![j] = "running"]
  /\ UNCHANGED <<jobs, state, kill_requested, actor, traced, asked, kill_asked, reg_over, unacked>>

handle_reject_job(j) ==
  /\ view[j] = "waiting"
  /\ Decide("SCHED_REJECT_JOB", {j})
  /\ view' = [view EXCEPT ![j] = "done"]
  /\ UNCHANGED <<jobVars, asked, kill_asked, reg_over, unacked, aborted>>

handle_kill_job(S) ==
  /\ S # {}
  /\ \A j \in S : view[j] = "running"
  /\ MayKillAgain \/ S \cap kill_asked = {}
  /\ unacked < MaxKills
  /\ Decide("SCHED_KILL_JOB", S)
  /\ unacked' = unacked + 1
  /\ kill_asked' = kill_asked \cup S
  /\ UNCHANGED <<jobVars, view, asked, reg_over, aborted>>

\* The waiter's name stands for the target date, which the reader does not check:
\* it only warns when the date is not in the future.
handle_call_me_later(w) ==
  /\ w \notin asked
  /\ Decide("SCHED_CALL_ME_LATER", {w})
  /\ asked' = asked \cup {w}
  /\ UNCHANGED <<jobVars, view, kill_asked, reg_over, unacked, aborted>>

\* The reader creates the job itself, after it has read the server's flag.
handle_register_job(j) ==
  /\ RegistrationEnabled
  /\ ~reg_over
  /\ state[j] = "ABSENT"
  /\ Decide("JOB_REGISTERED_BY_DP", {j})
  /\ Assert(~registration_finished)
  /\ jobs' = jobs \cup {j}
  /\ state' = [state EXCEPT ![j] = "SUBMITTED"]
  /\ view' = [view EXCEPT ![j] = IF RegistrationAck THEN @ ELSE "waiting"]
  /\ UNCHANGED <<kill_requested, alloc, actor, traced, asked, kill_asked, reg_over, unacked>>

\* handle_notify, registration_finished
NotifyRegistrationFinished ==
  /\ RegistrationEnabled
  /\ ~reg_over
  /\ Decide("END_DYNAMIC_REGISTER", {})
  /\ reg_over' = TRUE
  /\ UNCHANGED <<jobVars, view, asked, kill_asked, unacked, aborted>>

\* handle_notify, continue_registration
NotifyContinueRegistration ==
  /\ RegistrationEnabled
  /\ MayContinue
  /\ reg_over
  /\ Decide("CONTINUE_DYNAMIC_REGISTER", {})
  /\ reg_over' = FALSE
  /\ UNCHANGED <<jobVars, view, asked, kill_asked, unacked, aborted>>

(***************************************************************************)
(* The reply has been applied. A scheduler that is Eager leaves no job it  *)
(* could start, and ends the registration when it has no job to register.  *)
(***************************************************************************)
ReplyApplied ==
  /\ Eager => /\ \A j \in Job : ~CanStart(j)
              /\ RegistrationEnabled => reg_over
  /\ Apply("SCHED_READY", {})
  /\ UNCHANGED <<jobVars, view, asked, kill_asked, reg_over, unacked, aborted>>

SchedulerStep ==
  \/ \E j \in Job : \E machines \in SUBSET Machine : handle_execute_job(j, machines)
  \/ \E j \in Job : handle_reject_job(j)
  \/ \E S \in SUBSET Job : handle_kill_job(S)
  \/ \E w \in Waiter : handle_call_me_later(w)
  \/ \E j \in DynJob : handle_register_job(j)
  \/ NotifyRegistrationFinished
  \/ NotifyContinueRegistration
  \/ ReplyApplied
  \/ send_message_at_time
=============================================================================
