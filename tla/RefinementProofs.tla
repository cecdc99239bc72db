-------------------------- MODULE RefinementProofs --------------------------
(***************************************************************************)
(* The end of the simulation and what the layers give together. First the  *)
(* waiters (WaitInv), the submitters (SubmitterInv), the jobs they have    *)
(* still to submit (StaticInv) and the dynamic registration (RegisterInv), *)
(* which the server waits for. Then: nothing is left when SIMULATION_ENDS  *)
(* is sent and nothing comes back (EndInv); no assertion of Batsim fails,  *)
(* save one of the reader when the scheduler continues a registration it   *)
(* had ended; and Batsim implements ResourceManager.                       *)
(***************************************************************************)
EXTENDS EndProofs

----------------------------------------------------------------------------
(***************************************************************************)
(* The waiters. A call is a CALL_ME_LATER in flight, then a sleeping       *)
(* waiter, then a WAITING_DONE in flight. None is left when the simulation *)
(* ends, so no waiter ever wakes up in vain and leaves itself counted.     *)
(***************************************************************************)
Calls   == {m \in Flight : m.type = "SCHED_CALL_ME_LATER"}
Wakings == {m \in Flight : m.type = "WAITING_DONE"}

\* Two calls, or two waiters that woke up, are different.
WaitOrder ==
  {p \in Message \X Message :
     /\ p[1].type = "SCHED_CALL_ME_LATER" /\ p[2].type = "SCHED_CALL_ME_LATER" =>
          p[1].about \cap p[2].about = {}
     /\ p[1].type = "WAITING_DONE" /\ p[2].type = "WAITING_DONE" => p[1].from # p[2].from}

WaitersCounted == nb_waiters = Cardinality(sleeping) + Cardinality(Wakings)

CalledOnce ==
  /\ \A m \in Calls : \E w \in asked \ sleeping : m.about = {w} /\ \A n \in Wakings : n.from # w
  /\ \A n \in Wakings : n.from \in asked \ sleeping
  /\ sleeping \subseteq asked
  /\ InOrder(WaitOrder)

NobodyWaitsAtTheEnd ==
  /\ end_ack => end_sent
  /\ end_sent => sleeping = {} /\ Calls = {} /\ Wakings = {} /\ "SIMULATION_ENDS" \in told

WaitInv == WaitersCounted /\ CalledOnce /\ NobodyWaitsAtTheEnd

Waits == ~aborted => WaitInv

WaitMail == {"SCHED_CALL_ME_LATER", "WAITING_DONE"}

\* A step that has nothing to do with waiters.
NoWait ==
  /\ UNCHANGED <<sleeping, nb_waiters, asked, end_sent>>
  /\ end_ack' => end_ack \/ end_sent
  /\ told \subseteq told'
  /\ Keeps(WaitMail)

LEMMA NoWaitKeepsWaits ==
  ASSUME TypeOK, TypeOK', WaitInv, NoWait
  PROVE  WaitInv'
<1>1. Flight \subseteq Message /\ Flight' \subseteq Message
  BY DEF TypeOK, MailTypeOK, Flight
<1>2. Calls' = Calls /\ Wakings' = Wakings
  BY <1>1 DEF NoWait, Keeps, WaitMail, Calls, Wakings
<1>3. InOrder(WaitOrder) => InOrder(WaitOrder)'
  <2>1. \A m, n \in Message : m.type \notin WaitMail \/ n.type \notin WaitMail => <<m, n>> \in WaitOrder
    BY DEF WaitOrder, WaitMail
  <2> QED
    BY <2>1 DEF NoWait, Keeps
<1> QED
  BY <1>2, <1>3 DEF WaitInv, WaitersCounted, CalledOnce, NobodyWaitsAtTheEnd, NoWait

LEMMA WaitersAreFinite ==
  ASSUME TypeOK
  PROVE  /\ IsFiniteSet(sleeping) /\ Cardinality(sleeping) \in Nat
         /\ IsFiniteSet(Wakings) /\ Cardinality(Wakings) \in Nat
<1>1. sleeping \in SUBSET Item
  BY DEF TypeOK, ActorsTypeOK, Item
<1>2. Wakings \in SUBSET Flight
  BY DEF Wakings
<1> QED
  BY <1>1, <1>2, ItemsAreFinite, MailIsFinite

\* The scheduler asks to be called.
LEMMA CallKeepsWaits ==
  ASSUME TypeOK, LinkInv, WaitInv, NEW w \in Waiter, handle_call_me_later(w)
  PROVE  WaitInv'
<1>1. /\ w \notin asked /\ asked' = asked \cup {w} /\ "SIMULATION_ENDS" \notin told
      /\ Apply("SCHED_CALL_ME_LATER", {w})
      /\ UNCHANGED <<sleeping, nb_waiters, end_sent, end_ack, told>>
  BY DEF handle_call_me_later, Decide, Apply, linkUnchanged, actorCounts, helperActors, loopVars
<1>2. PICK n \in Message : n = Msg("SCHED_CALL_ME_LATER", "sched", {w})
  BY RepliesAreMessages
<1>3. n.type = "SCHED_CALL_ME_LATER" /\ n.about = {w}
  BY <1>2 DEF Msg
<1>4. held' = <<n>> /\ UNCHANGED mailbox /\ held = <<>>
  BY <1>1, <1>2 DEF Apply, LinkInv, ReaderHolds
<1>5. /\ Flight' = Flight \cup {n}
      /\ \A R : InOrder(R) /\ (\A m \in Flight : <<m, n>> \in R) => InOrder(R)'
  BY <1>4, HoldFlight
<1>6. Calls' = Calls \cup {n} /\ Wakings' = Wakings
  BY <1>3, <1>5 DEF Calls, Wakings
<1>7. \A m \in Flight : <<m, n>> \in WaitOrder
  <2>1. \A m \in Calls : m.about \cap {w} = {}
    BY <1>1 DEF WaitInv, CalledOnce
  <2> QED
    BY <1>3, <2>1, FlightIsTyped DEF WaitOrder, Calls
<1>8. InOrder(WaitOrder)'
  BY <1>5, <1>7 DEF WaitInv, CalledOnce
<1>9. w \in asked' \ sleeping /\ \A m \in Wakings : m.from # w
  BY <1>1 DEF WaitInv, CalledOnce
<1>10. CalledOnce'
  BY <1>1, <1>3, <1>6, <1>8, <1>9 DEF WaitInv, CalledOnce
<1> QED
  BY <1>1, <1>6, <1>10 DEF WaitInv, WaitersCounted, NobodyWaitsAtTheEnd

\* The server creates the waiter.
LEMMA CallHandledKeepsWaits ==
  ASSUME TypeOK, WaitInv, server_on_call_me_later
  PROVE  WaitInv'
<1>1. /\ Receive("SCHED_CALL_ME_LATER") /\ sleeping' = sleeping \cup Received.about
      /\ nb_waiters' = nb_waiters + 1 /\ UNCHANGED <<asked, end_sent, end_ack, told>>
  BY DEF server_on_call_me_later, Receive, schedVars
<1>2. /\ Flight' \subseteq Flight /\ Flight \subseteq Flight' \cup {Received} /\ Received \in Flight
      /\ Received.type = "SCHED_CALL_ME_LATER"
      /\ \A R : InOrder(R) => InOrder(R)' /\ \A m \in Flight' : <<Received, m>> \in R
  BY <1>1, TakeFlight
<1>3. Received \in Calls /\ Calls' \subseteq Calls /\ Wakings' = Wakings
  BY <1>2 DEF Calls, Wakings
<1>4. PICK w \in asked \ sleeping : Received.about = {w} /\ \A n \in Wakings : n.from # w
  BY <1>3 DEF WaitInv, CalledOnce
<1>5. InOrder(WaitOrder)' /\ \A m \in Calls' : w \notin m.about
  <2>1. InOrder(WaitOrder)' /\ \A m \in Flight' : <<Received, m>> \in WaitOrder
    BY <1>2 DEF WaitInv, CalledOnce
  <2> QED
    BY <1>2, <1>4, <2>1 DEF WaitOrder, Calls
<1>6. WaitersCounted'
  <2>1. Cardinality(sleeping \cup {w}) = Cardinality(sleeping) + 1
    BY <1>4, WaitersAreFinite, FS_AddElement
  <2>2. nb_waiters = Cardinality(sleeping) + Cardinality(Wakings)
    BY DEF WaitInv, WaitersCounted
  <2> QED
    BY <1>1, <1>3, <1>4, <2>1, <2>2, WaitersAreFinite DEF WaitersCounted
<1>7. CalledOnce'
  <2>1. sleeping' = sleeping \cup {w}
    BY <1>1, <1>4
  <2>2. ASSUME NEW m \in Calls'
        PROVE  \E v \in asked' \ sleeping' : m.about = {v} /\ \A n \in Wakings' : n.from # v
    <3>1. PICK v \in asked \ sleeping : m.about = {v} /\ \A n \in Wakings : n.from # v
      BY <1>3 DEF WaitInv, CalledOnce
    <3>2. v # w
      BY <1>5, <3>1
    <3> QED
      BY <1>1, <1>3, <2>1, <3>1, <3>2
  <2> QED
    BY <1>1, <1>3, <1>4, <1>5, <2>1, <2>2 DEF WaitInv, CalledOnce
<1>8. ~end_sent /\ ~end_ack
  BY <1>3 DEF WaitInv, NobodyWaitsAtTheEnd
<1> QED
  BY <1>1, <1>6, <1>7, <1>8 DEF WaitInv, NobodyWaitsAtTheEnd

\* A waiter wakes up: the simulation has not ended, and it becomes a message.
LEMMA WakingKeepsWaits ==
  ASSUME TypeOK, LinkInv, WaitInv, NEW w \in Waiter, WaiterWakes(w)
  PROVE  WaitInv'
<1>1. ~end_sent /\ ~end_ack
  BY DEF WaiterWakes, WaitInv, NobodyWaitsAtTheEnd
<1>2. /\ w \in sleeping /\ sleeping' = sleeping \ {w} /\ Put(Msg("WAITING_DONE", w, {}))
      /\ UNCHANGED <<held, nb_waiters, asked, end_sent, end_ack, told>>
  BY <1>1 DEF WaiterWakes, executionUnchanged, readerActor, actorCounts, schedVars, loopVars
<1>3. PICK n \in Message : Put(n) /\ n.type = "WAITING_DONE" /\ n.from = w
  BY <1>2 DEF Msg, Message
<1>4. /\ Flight' = Flight \cup {n}
      /\ \A R : InOrder(R) /\ (\A m \in Flight : <<m, n>> \in R)
                /\ (\A k \in 1..Len(held) : <<n, held[k]>> \in R) => InOrder(R)'
  BY <1>2, <1>3, PutFlight
<1>5. Calls' = Calls /\ Wakings' = Wakings \cup {n}
  BY <1>3, <1>4 DEF Calls, Wakings
<1>6. \A m \in Wakings : m.from # w
  BY <1>2 DEF WaitInv, CalledOnce
<1>7. \A m \in Flight : <<m, n>> \in WaitOrder
  BY <1>3, <1>6, FlightIsTyped DEF WaitOrder, Wakings
<1>8. \A k \in 1..Len(held) : <<n, held[k]>> \in WaitOrder
  <2>1. \A k \in 1..Len(held) : held[k] \in Message /\ held[k].from = "sched"
    BY FlightIsTyped DEF LinkInv, ReaderHolds
  <2>2. w # "sched"
    BY ConstantsAssumption
  <2> QED
    BY <1>3, <2>1, <2>2 DEF WaitOrder
<1>9. InOrder(WaitOrder)'
  BY <1>4, <1>7, <1>8 DEF WaitInv, CalledOnce
<1>10. CalledOnce'
  <2>1. w \in asked
    BY <1>2 DEF WaitInv, CalledOnce
  <2>2. ASSUME NEW m \in Calls'
        PROVE  \E v \in asked' \ sleeping' : m.about = {v} /\ \A k \in Wakings' : k.from # v
    <3>1. PICK v \in asked \ sleeping : m.about = {v} /\ \A k \in Wakings : k.from # v
      BY <1>5 DEF WaitInv, CalledOnce
    <3>2. v # w
      BY <1>2, <3>1
    <3> QED
      BY <1>2, <1>3, <1>5, <3>1, <3>2
  <2> QED
    BY <1>2, <1>3, <1>5, <1>9, <2>1, <2>2 DEF WaitInv, CalledOnce
<1>11. WaitersCounted'
  <2>1. n \notin Wakings
    BY <1>3, <1>6
  <2>2. /\ Cardinality(sleeping \ {w}) = Cardinality(sleeping) - 1
        /\ Cardinality(Wakings \cup {n}) = Cardinality(Wakings) + 1
    BY <1>2, <2>1, WaitersAreFinite, FS_AddElement, FS_RemoveElement
  <2>3. nb_waiters = Cardinality(sleeping) + Cardinality(Wakings)
    BY DEF WaitInv, WaitersCounted
  <2> QED
    BY <1>2, <1>5, <2>2, <2>3, WaitersAreFinite DEF WaitersCounted
<1> QED
  BY <1>1, <1>2, <1>10, <1>11 DEF WaitInv, NobodyWaitsAtTheEnd

\* The server handles the end of a waiter.
LEMMA WakingHandledKeepsWaits ==
  ASSUME TypeOK, WaitInv, server_on_waiting_done
  PROVE  WaitInv'
<1>1. /\ Receive("WAITING_DONE") /\ nb_waiters' = nb_waiters - 1
      /\ UNCHANGED <<sleeping, asked, end_sent, end_ack, told>>
  BY DEF server_on_waiting_done, Receive, schedVars, helperActors
<1>2. /\ Flight' \subseteq Flight /\ Flight \subseteq Flight' \cup {Received} /\ Received \in Flight
      /\ Received.type = "WAITING_DONE"
      /\ \A R : InOrder(R) => InOrder(R)' /\ \A m \in Flight' : <<Received, m>> \in R
  BY <1>1, TakeFlight
<1>3. InOrder(WaitOrder)' /\ \A m \in Wakings' : m.from # Received.from
  <2>1. InOrder(WaitOrder)' /\ \A m \in Flight' : <<Received, m>> \in WaitOrder
    BY <1>2 DEF WaitInv, CalledOnce
  <2> QED
    BY <1>2, <2>1 DEF WaitOrder, Wakings
<1>4. Received \in Wakings /\ Wakings' = Wakings \ {Received} /\ Calls' = Calls
  BY <1>2, <1>3 DEF Wakings, Calls
<1>5. WaitersCounted'
  <2>1. Cardinality(Wakings \ {Received}) = Cardinality(Wakings) - 1
    BY <1>4, WaitersAreFinite, FS_RemoveElement
  <2>2. nb_waiters = Cardinality(sleeping) + Cardinality(Wakings)
    BY DEF WaitInv, WaitersCounted
  <2> QED
    BY <1>1, <1>4, <2>1, <2>2, WaitersAreFinite DEF WaitersCounted
<1> QED
  BY <1>1, <1>3, <1>4, <1>5 DEF WaitInv, CalledOnce, NobodyWaitsAtTheEnd

\* The server ends the simulation: no waiter is counted, none is left.
LEMMA EndKeepsWaits ==
  ASSUME TypeOK, LinkInv, WaitInv, ServerEndsSimulation
  PROVE  WaitInv'
<1>1. Flight = {} /\ UNCHANGED <<mailbox, held>>
  BY CallsWhenAllIsQuiet
<1>2. /\ nb_waiters = 0 /\ "SIMULATION_ENDS" \in told' /\ end_sent'
      /\ UNCHANGED <<sleeping, nb_waiters, asked>>
  <2>1. /\ nb_waiters = 0 /\ end_sent' /\ UNCHANGED <<sleeping, nb_waiters, asked>>
        /\ generate_and_send_message(<<Ev("SIMULATION_ENDS", {})>>)
    BY DEF ServerEndsSimulation, is_simulation_finished, checkUnchanged, helperActors, actorCounts
  <2>2. "SIMULATION_ENDS" \in told'
    BY <2>1 DEF generate_and_send_message, Ev
  <2> QED
    BY <2>1, <2>2
<1>3. Flight' = Flight /\ (InOrder(WaitOrder) => InOrder(WaitOrder)')
  BY <1>1, StillFlight
<1>4. Calls' = Calls /\ Wakings' = Wakings /\ Calls = {} /\ Wakings = {}
  BY <1>1, <1>3 DEF Calls, Wakings
<1>5. Cardinality(sleeping) = 0
  BY <1>2, WaitersAreFinite DEF WaitInv, WaitersCounted
<1>6. sleeping = {}
  BY <1>5, WaitersAreFinite, FS_EmptySet
<1> QED
  BY <1>2, <1>3, <1>4, <1>6 DEF WaitInv, WaitersCounted, CalledOnce, NobodyWaitsAtTheEnd

WaitStep ==
  \/ \E w \in Waiter : handle_call_me_later(w) \/ WaiterWakes(w)
  \/ server_on_call_me_later \/ server_on_waiting_done \/ ServerEndsSimulation

LEMMA OtherStepsWaitNone ==
  ASSUME TypeOK, LinkInv, Next, ~WaitStep
  PROVE  NoWait
<1>1. ASSUME NEW s \in Submitter, SubmitterStep(s) PROVE NoWait
  <2>1. Keeps(WaitMail)
    BY <1>1, SubmitterKeeps DEF SubmitterMail, WaitMail
  <2> QED
    BY <1>1, <2>1 DEF NoWait, SubmitterStep, SubmitterHello, SubmitBatch, SubmitterBye,
       submitterUnchanged, actorCounts, loopVars, helperActors, schedVars
<1>2. CASE ExecutionStep
  <2>1. Keeps(WaitMail)
    BY <1>2, ExecutionKeeps DEF ExecutionStep, WaitStep, WaitMail
  <2>2. UNCHANGED <<sleeping, nb_waiters, asked, end_sent, end_ack, told>>
    BY <1>2 DEF ExecutionStep, WaitStep, JobStarts, JobCancelled, JobEnds, killer_process,
       executionUnchanged, actorCounts, loopVars, helperActors, schedVars
  <2> QED
    BY <2>1, <2>2 DEF NoWait
<1>3. CASE SchedulerStep
  <2>1. Keeps(WaitMail)
    BY <1>3, SchedulerKeeps DEF SchedulerStep, WaitStep, WaitMail
  <2>2. UNCHANGED <<sleeping, nb_waiters, asked, end_sent, end_ack, told>>
    BY <1>3 DEF SchedulerStep, WaitStep, handle_execute_job, handle_reject_job, handle_kill_job,
         handle_register_job, NotifyRegistrationFinished, NotifyContinueRegistration, ReplyApplied,
         Decide, Apply, send_message_at_time, linkUnchanged, actorCounts, loopVars, helperActors
  <2> QED
    BY <2>1, <2>2 DEF NoWait
<1>4. CASE Deliver \/ ServerLoops \/ ServerLeavesLoop
  <2>1. Keeps(WaitMail)
    BY <1>4, LoopKeeps
  <2>2. UNCHANGED <<sleeping, nb_waiters, asked, end_sent, end_ack, told>>
    BY <1>4 DEF Deliver, ServerLoops, ServerLeavesLoop, checkUnchanged, actorCounts, loopVars,
       helperActors, schedVars
  <2> QED
    BY <2>1, <2>2 DEF NoWait
<1>5. CASE ServerSendsEvents
  <2>1. Keeps(WaitMail)
    BY <1>5, LoopKeeps
  <2>2. /\ UNCHANGED <<sleeping, nb_waiters, asked, end_sent, end_ack>> /\ told \subseteq told'
    BY <1>5 DEF ServerSendsEvents, generate_and_send_message, checkUnchanged, actorCounts, helperActors
  <2> QED
    BY <2>1, <2>2 DEF NoWait
<1>6. CASE Handle
  <2>1. ASSUME NEW type, type \notin WaitMail, Receive(type), UNCHANGED <<sleeping, nb_waiters>>,
               end_ack' = end_ack \/ end_ack' = (end_ack \/ end_sent)
        PROVE  NoWait
    <3>1. UNCHANGED <<asked, told, end_sent>>
      BY <2>1 DEF Receive, schedVars
    <3>2. end_ack' => end_ack \/ end_sent
      BY <2>1
    <3> QED
      BY <2>1, <3>1, <3>2, TakeKeeps DEF NoWait
  <2> QED
    BY <1>6, <2>1 DEF Handle, WaitStep, server_on_submitter_hello, server_on_submitter_bye,
       server_on_job_submitted, server_on_event_occurred, server_on_job_completed,
       server_on_killing_done, server_on_register_job, server_on_execute_job, server_on_reject_job,
       server_on_kill_jobs, server_on_end_dynamic_register, server_on_continue_dynamic_register,
       server_on_sched_ready, WaitMail, actorCounts, helperActors
<1> QED
  BY <1>1, <1>2, <1>3, <1>4, <1>5, <1>6 DEF Next, ServerStep, WaitStep

LEMMA WaitsHold == Spec => []Waits
<1>1. Init => Waits
  <2> SUFFICES ASSUME Init PROVE WaitInv
    BY DEF Waits
  <2>1. /\ Len(mailbox) = 0 /\ Len(held) = 0 /\ sleeping = {} /\ nb_waiters = 0
        /\ ~end_sent /\ ~end_ack
    BY DEF Init
  <2>2. Flight = {} /\ InOrder(WaitOrder)
    BY <2>1 DEF Flight, InOrder
  <2>3. Calls = {} /\ Wakings = {} /\ Cardinality({}) = 0
    BY <2>2, FS_EmptySet DEF Calls, Wakings
  <2> QED
    BY <2>1, <2>2, <2>3 DEF WaitInv, WaitersCounted, CalledOnce, NobodyWaitsAtTheEnd
<1>2. TypeOK /\ TypeOK' /\ Link /\ Waits /\ [Next]_vars => Waits'
  <2> SUFFICES ASSUME TypeOK, TypeOK', Link, Waits, [Next]_vars, ~aborted' PROVE WaitInv'
    BY DEF Waits
  <2>1. CASE Next
    <3>1. LinkInv /\ WaitInv
      BY <2>1, StepsOfTheLiving DEF Link, Waits
    <3>2. CASE WaitStep
      BY <3>1, <3>2, CallKeepsWaits, WakingKeepsWaits, CallHandledKeepsWaits,
         WakingHandledKeepsWaits, EndKeepsWaits DEF WaitStep
    <3>3. CASE ~WaitStep
      BY <2>1, <3>1, <3>3, OtherStepsWaitNone, NoWaitKeepsWaits
    <3> QED
      BY <3>2, <3>3
  <2>2. CASE UNCHANGED vars
    <3>1. UNCHANGED <<mailbox, held, sleeping, nb_waiters, asked, end_sent, end_ack, told, aborted>>
      BY <2>2 DEF vars, readerActor, actorCounts, loopVars, helperActors, schedVars
    <3>2. NoWait /\ WaitInv
      BY <3>1, StillKeeps DEF NoWait, Waits
    <3> QED
      BY <3>2, NoWaitKeepsWaits
  <2> QED
    BY <2>1, <2>2
<1> QED
  BY <1>1, <1>2, TypeCorrect, LinkHolds, PTL DEF Spec

----------------------------------------------------------------------------
(***************************************************************************)
(* The submitters. Each says hello first and goodbye last; the server      *)
(* knows those that have said hello and not goodbye, and counts those that *)
(* have said goodbye.                                                      *)
(***************************************************************************)

\* Of two messages of a submitter, the first is no goodbye, the second no hello.
SubmitterOrder ==
  {p \in Message \X Message :
     p[1].from = p[2].from /\ p[1].from \in Submitter =>
       p[1].type # "SUBMITTER_BYE" /\ p[2].type # "SUBMITTER_HELLO"}

Saying(s, type) == \E m \in Flight : m.from = s /\ m.type = type

\* The goodbye of submitter s has been handled.
Goodbye(s) == submitter[s] = "gone" /\ ~Saying(s, "SUBMITTER_BYE")

GoneAtGoodbye ==
  server = "handle" /\ Received.type = "SUBMITTER_BYE" => submitter[Received.from] = "gone"

\* Where submitter s is, and what the server knows of it.
Introduced(s) ==
  /\ submitter[s] = "hello" => \A m \in Flight : m.from # s
  /\ s \in submitters <=> /\ submitter[s] # "hello"
                          /\ ~Saying(s, "SUBMITTER_HELLO")
                          /\ ~Goodbye(s)
  /\ Saying(s, "SUBMITTER_BYE") => submitter[s] \in {"blocked", "gone"} /\ todo[s] = {}
  /\ submitter[s] = "gone" =>
       todo[s] = {} /\ \A m \in Flight : m.from = s => m.type = "SUBMITTER_BYE"

Finished(k) == {s \in Submitter : Kind(s) = k /\ Goodbye(s)}

GoodbyesCounted == \A k \in {"job", "event"} : nb_finished[k] = Cardinality(Finished(k))

SubmitterInv ==
  InOrder(SubmitterOrder) /\ GoneAtGoodbye /\ (\A s \in Submitter : Introduced(s)) /\ GoodbyesCounted

Submitters == ~aborted => SubmitterInv

Greeting == {"SUBMITTER_HELLO", "SUBMITTER_BYE"}

\* The messages of submitters are those of their types.
LEMMA FromSubmitters ==
  ASSUME NEW m \in Message
  PROVE  m.from \in Submitter <=> m.type \in SubmitterMail
<1>1. /\ "sched" \notin Submitter /\ "job" \notin Submitter /\ "killer" \notin Submitter
      /\ \A w \in Waiter : w \notin Submitter
  BY ConstantsAssumption
<1> QED
  BY <1>1 DEF Message, SubmitterMail, Submitter

LEMMA SubmittersAreFinite ==
  /\ IsFiniteSet(Submitter)
  /\ \A S \in SUBSET Submitter : IsFiniteSet(S) /\ Cardinality(S) \in Nat
<1>1. IsFiniteSet(Submitter)
  BY ConstantsAssumption, FS_Union DEF Submitter
<1> QED
  BY <1>1, FS_Subset, FS_CardinalityType

\* While the server handles a message, it remains the oldest one.
LEMMA ReceivedStays ==
  ASSUME TypeOK, Next, ~Deliver, server' = "handle"
  PROVE  server = "handle" /\ Received' = Received
<1>1. CASE \E s \in Submitter : SubmitterStep(s)
  <2>1. UNCHANGED server /\ \E m : Put(m)
    BY <1>1 DEF SubmitterStep, SubmitterHello, SubmitBatch, SubmitterBye, submitterUnchanged
  <2> QED
    BY <2>1 DEF TypeOK, MailTypeOK, Received, Put
<1>2. CASE ExecutionStep
  <2>1. UNCHANGED server /\ (UNCHANGED mailbox \/ \E m : Put(m))
    BY <1>2 DEF ExecutionStep, JobStarts, JobCancelled, JobEnds, killer_process, WaiterWakes,
       executionUnchanged
  <2> QED
    BY <2>1 DEF TypeOK, MailTypeOK, Received, Put
<1>3. CASE SchedulerStep
  <2>1. UNCHANGED server /\ (UNCHANGED mailbox \/ mailbox' = mailbox \o held)
    BY <1>3 DEF SchedulerStep, handle_execute_job, handle_reject_job, handle_kill_job,
         handle_call_me_later, handle_register_job, NotifyRegistrationFinished,
         NotifyContinueRegistration, ReplyApplied, Decide, Apply, send_message_at_time, linkUnchanged
  <2> QED
    BY <2>1 DEF TypeOK, MailTypeOK, Received
<1>4. CASE ServerStep
  BY <1>4 DEF ServerStep, Handle, Receive, server_on_submitter_hello, server_on_submitter_bye,
     server_on_job_submitted, server_on_event_occurred, server_on_job_completed,
     server_on_killing_done, server_on_register_job, server_on_execute_job,
     server_on_reject_job, server_on_kill_jobs, server_on_call_me_later, server_on_waiting_done,
     server_on_end_dynamic_register, server_on_continue_dynamic_register, server_on_sched_ready,
     ServerSendsEvents, ServerEndsSimulation, ServerLoops, ServerLeavesLoop
<1> QED
  BY <1>1, <1>2, <1>3, <1>4 DEF Next

\* A step in which no submitter is heard of, save for a batch that is handled.
NoGreeting ==
  /\ UNCHANGED <<submitter, todo, submitters, nb_finished>>
  /\ \A m \in Message : m.type \in SubmitterMail /\ m \in Flight' => m \in Flight
  /\ \A m \in Message : m.type \in Greeting => (m \in Flight' <=> m \in Flight)
  /\ InOrder(SubmitterOrder) => InOrder(SubmitterOrder)'
  /\ server' = "handle" => server = "handle" /\ Received' = Received

LEMMA NoGreetingKeepsSubmitters ==
  ASSUME TypeOK, TypeOK', SubmitterInv, NoGreeting
  PROVE  SubmitterInv'
<1>1. \A m \in Flight \cup Flight' : m \in Message /\ (m.from \in Submitter <=> m.type \in SubmitterMail)
  <2>1. Flight \subseteq Message /\ Flight' \subseteq Message
    BY DEF TypeOK, MailTypeOK, Flight
  <2> QED
    BY <2>1, FromSubmitters
<1>2. \A s \in Submitter : \A type \in Greeting : Saying(s, type)' <=> Saying(s, type)
  BY <1>1 DEF NoGreeting, Saying
<1>3. \A s \in Submitter : Goodbye(s)' <=> Goodbye(s)
  BY <1>2 DEF NoGreeting, Goodbye, Greeting
<1>4. \A s \in Submitter : \A m \in Flight' : m.from = s => m \in Flight
  BY <1>1 DEF NoGreeting
<1>5. ASSUME NEW s \in Submitter PROVE Introduced(s)'
  <2>1. Introduced(s) /\ UNCHANGED <<submitter, todo, submitters>>
    BY DEF SubmitterInv, NoGreeting
  <2>2. /\ Saying(s, "SUBMITTER_HELLO")' <=> Saying(s, "SUBMITTER_HELLO")
        /\ Saying(s, "SUBMITTER_BYE")' <=> Saying(s, "SUBMITTER_BYE")
    BY <1>2 DEF Greeting
  <2> QED
    BY <1>3, <1>4, <2>1, <2>2 DEF Introduced
<1>6. \A k \in {"job", "event"} : Finished(k)' = Finished(k)
  BY <1>3 DEF Finished
<1>7. GoodbyesCounted'
  BY <1>6 DEF SubmitterInv, GoodbyesCounted, NoGreeting
<1>8. GoneAtGoodbye'
  BY DEF SubmitterInv, GoneAtGoodbye, NoGreeting
<1> QED
  BY <1>5, <1>7, <1>8 DEF SubmitterInv, NoGreeting

\* A submitter puts a message: it was not blocked, and has not said goodbye.
LEMMA SpeakingKeepsSubmitters ==
  ASSUME TypeOK, LinkInv, SubmitterInv, NEW s \in Submitter, SubmitterStep(s)
  PROVE  SubmitterInv'
<1>1. /\ submitter' = [submitter EXCEPT ![s] = "blocked"] /\ submitter[s] \in {"hello", "run"}
      /\ UNCHANGED <<held, submitters, nb_finished, server>>
      /\ \A r \in Submitter : todo'[r] \subseteq todo[r]
  BY DEF SubmitterStep, SubmitterHello, SubmitBatch, SubmitterBye, submitterUnchanged, submitVars,
     readerActor, Unsent, TypeOK, ActorsTypeOK
<1>2. PICK n \in Message : /\ Put(n) /\ n.from = s
                           /\ n.type = "SUBMITTER_HELLO" <=> submitter[s] = "hello"
                           /\ n.type = "SUBMITTER_BYE" => todo[s] = {}
  <2>1. /\ Msg("SUBMITTER_HELLO", s, {}) \in Message /\ Msg("SUBMITTER_BYE", s, {}) \in Message
        /\ \A type, about : Msg(type, s, about).from = s /\ Msg(type, s, about).type = type
    BY DEF Msg, Message
  <2>2. CASE SubmitterHello(s)
    BY <2>1, <2>2 DEF SubmitterHello
  <2>3. CASE SubmitBatch(s)
    BY <2>1, <2>3, BatchIsTyped DEF SubmitBatch
  <2>4. CASE SubmitterBye(s)
    BY <2>1, <2>4 DEF SubmitterBye
  <2> QED
    BY <2>2, <2>3, <2>4 DEF SubmitterStep
<1>3. /\ Flight' = Flight \cup {n}
      /\ \A R : InOrder(R) /\ (\A m \in Flight : <<m, n>> \in R)
                /\ (\A k \in 1..Len(held) : <<n, held[k]>> \in R) => InOrder(R)'
  BY <1>1, <1>2, PutFlight
<1>4. Introduced(s) /\ ~Saying(s, "SUBMITTER_BYE")
  BY <1>1 DEF SubmitterInv, Introduced
<1>5. InOrder(SubmitterOrder)'
  <2>1. \A m \in Flight : <<m, n>> \in SubmitterOrder
    BY <1>2, <1>4, FlightIsTyped DEF SubmitterOrder, Saying, Introduced
  <2>2. \A k \in 1..Len(held) : <<n, held[k]>> \in SubmitterOrder
    <3>1. \A k \in 1..Len(held) : held[k] \in Message /\ held[k].from = "sched"
      BY FlightIsTyped DEF LinkInv, ReaderHolds
    <3>2. s # "sched"
      BY ConstantsAssumption
    <3> QED
      BY <1>2, <3>1, <3>2 DEF SubmitterOrder
  <2> QED
    BY <1>3, <2>1, <2>2 DEF SubmitterInv
<1>6. GoneAtGoodbye'
  <2>1. server = "handle" /\ Received.type = "SUBMITTER_BYE" => Received.from \in Submitter
    BY ReceivedIsTyped, MessageKinds DEF TypeOK
  <2>2. server = "handle" => Received' = Received
    BY <1>2 DEF TypeOK, MailTypeOK, Received, Put
  <2>3. \A r \in Submitter : submitter[r] = "gone" => submitter'[r] = "gone"
    BY <1>1 DEF TypeOK, ActorsTypeOK
  <2> QED
    BY <1>1, <2>1, <2>2, <2>3 DEF SubmitterInv, GoneAtGoodbye
<1>7. submitter'[s] = "blocked" /\ \A r \in Submitter : r # s => submitter'[r] = submitter[r]
  BY <1>1 DEF TypeOK, ActorsTypeOK
<1>8. \A r \in Submitter : r # s => \A type : Saying(r, type)' <=> Saying(r, type)
  BY <1>2, <1>3 DEF Saying
<1>9. Saying(s, "SUBMITTER_HELLO")' <=> submitter[s] = "hello" \/ Saying(s, "SUBMITTER_HELLO")
  BY <1>2, <1>3 DEF Saying
<1>10. Saying(s, "SUBMITTER_BYE")' => todo[s] = {}
  BY <1>2, <1>3, <1>4 DEF Saying
<1>11. \A r \in Submitter : Goodbye(r)' <=> Goodbye(r)
  BY <1>1, <1>7, <1>8 DEF Goodbye
<1>12. Introduced(s)'
  BY <1>1, <1>4, <1>7, <1>9, <1>10, <1>11 DEF Introduced
<1>13. ASSUME NEW r \in Submitter, r # s PROVE Introduced(r)'
  <2>1. \A m \in Flight' : m.from = r => m \in Flight
    BY <1>2, <1>3, <1>13
  <2>2. Introduced(r) /\ submitter'[r] = submitter[r] /\ todo'[r] \subseteq todo[r]
    BY <1>1, <1>7, <1>13 DEF SubmitterInv
  <2> QED
    BY <1>1, <1>8, <1>11, <1>13, <2>1, <2>2 DEF Introduced
<1>14. GoodbyesCounted'
  <2>1. \A k \in {"job", "event"} : Finished(k)' = Finished(k)
    BY <1>11 DEF Finished
  <2> QED
    BY <1>1, <2>1 DEF SubmitterInv, GoodbyesCounted
<1> QED
  BY <1>5, <1>6, <1>12, <1>13, <1>14 DEF SubmitterInv

\* The message to be delivered is the only one of its submitter.
LEMMA OnlyOneToDeliver ==
  ASSUME TypeOK, LinkInv, server = "receive", mailbox # <<>>, Received.from \in Submitter
  PROVE  /\ Received \in Flight /\ Received \in Message /\ submitter[Received.from] = "blocked"
         /\ \A m \in Flight : m.from = Received.from => m = Received
<1>1. Received = mailbox[1] /\ 1 \in 1..Len(mailbox)
  BY DEF TypeOK, MailTypeOK, Received
<1>2. \A i \in 1..Len(mailbox) : Undelivered(i)
  BY DEF Undelivered
<1>3. \A i \in 1..Len(mailbox) : mailbox[i].from = Received.from => i = 1
  BY <1>1, <1>2 DEF LinkInv, OneEach
<1>4. \A k \in 1..Len(held) : held[k].from # Received.from
  <2>1. "sched" \notin Submitter
    BY ConstantsAssumption
  <2> QED
    BY <2>1 DEF LinkInv, ReaderHolds
<1>5. \A m \in Flight : m.from = Received.from => m = Received
  BY <1>1, <1>3, <1>4 DEF Flight
<1>6. submitter[Received.from] = "blocked"
  BY <1>1, <1>2 DEF LinkInv, SendersWait
<1>7. Received \in Flight
  BY <1>1 DEF Flight
<1> QED
  BY <1>5, <1>6, <1>7, FlightIsTyped

\* A message is delivered: its submitter goes on, or ends after its goodbye.
LEMMA DeliveryKeepsSubmitters ==
  ASSUME TypeOK, LinkInv, SubmitterInv, Deliver
  PROVE  SubmitterInv'
<1>1. /\ server = "receive" /\ mailbox # <<>>
      /\ UNCHANGED <<mailbox, held, todo, submitters, nb_finished>>
      /\ submitter' = [s \in Submitter |->
                         IF s # Received.from THEN submitter[s]
                         ELSE IF Received.type = "SUBMITTER_BYE" THEN "gone" ELSE "run"]
  BY DEF Deliver, submitVars
<1>2. Flight' = Flight /\ InOrder(SubmitterOrder)' /\ Received' = Received
  BY <1>1, StillFlight DEF SubmitterInv, Received
<1>3. \A s \in Submitter : \A type : Saying(s, type)' <=> Saying(s, type)
  BY <1>2 DEF Saying
<1>4. ASSUME NEW s \in Submitter, s = Received.from
      PROVE  /\ submitter[s] = "blocked" /\ submitter'[s] \in {"run", "gone"}
             /\ submitter'[s] = "gone" <=> Received.type = "SUBMITTER_BYE"
             /\ Received \in Flight /\ \A m \in Flight : m.from = s => m = Received
  BY <1>1, <1>4, OnlyOneToDeliver
<1>5. \A s \in Submitter : s # Received.from => submitter'[s] = submitter[s]
  BY <1>1
<1>6. \A s \in Submitter : Goodbye(s)' <=> Goodbye(s)
  <2>1. ASSUME NEW s \in Submitter, s = Received.from PROVE ~Goodbye(s)' /\ ~Goodbye(s)
    <3>1. ~Goodbye(s)
      BY <1>4, <2>1 DEF Goodbye
    <3>2. submitter'[s] = "gone" => Saying(s, "SUBMITTER_BYE")
      BY <1>4, <2>1 DEF Saying
    <3> QED
      BY <1>3, <3>1, <3>2 DEF Goodbye
  <2>2. ASSUME NEW s \in Submitter, s # Received.from PROVE Goodbye(s)' <=> Goodbye(s)
    BY <1>3, <1>5, <2>2 DEF Goodbye
  <2> QED
    BY <2>1, <2>2
<1>7. ASSUME NEW s \in Submitter, s = Received.from PROVE Introduced(s)'
  <2>1. Introduced(s)
    BY DEF SubmitterInv
  <2>2. Saying(s, "SUBMITTER_BYE") <=> Received.type = "SUBMITTER_BYE"
    BY <1>4, <1>7 DEF Saying
  <2> QED
    BY <1>1, <1>2, <1>3, <1>4, <1>6, <1>7, <2>1, <2>2 DEF Introduced
<1>8. ASSUME NEW s \in Submitter, s # Received.from PROVE Introduced(s)'
  <2>1. Introduced(s)
    BY DEF SubmitterInv
  <2> QED
    BY <1>1, <1>2, <1>3, <1>5, <1>6, <1>8, <2>1 DEF Introduced
<1>9. GoodbyesCounted'
  <2>1. \A k \in {"job", "event"} : Finished(k)' = Finished(k)
    BY <1>6 DEF Finished
  <2> QED
    BY <1>1, <2>1 DEF SubmitterInv, GoodbyesCounted
<1>10. GoneAtGoodbye'
  <2>1. Received.type = "SUBMITTER_BYE" => Received.from \in Submitter
    <3>1. Received \in Message
      BY <1>1 DEF TypeOK, MailTypeOK, Received
    <3> QED
      BY <3>1, MessageKinds
  <2> QED
    BY <1>2, <1>4, <2>1 DEF GoneAtGoodbye
<1> QED
  BY <1>2, <1>7, <1>8, <1>9, <1>10 DEF SubmitterInv

\* What is known of a submitter when its message is handled.
LEMMA HandledSubmitter ==
  ASSUME TypeOK, SubmitterInv, NEW type \in SubmitterMail, Receive(type)
  PROVE  /\ Received.from \in Submitter /\ submitter[Received.from] # "hello"
         /\ type = "SUBMITTER_HELLO" => Received.from \notin submitters
         /\ type # "SUBMITTER_HELLO" => Received.from \in submitters
         /\ \A m \in Flight' : m.from = Received.from =>
              type # "SUBMITTER_BYE" /\ m.type # "SUBMITTER_HELLO"
         /\ submitter[Received.from] = "gone" <=> type = "SUBMITTER_BYE"
<1>1. /\ Received \in Flight /\ Received \in Message /\ Received.type = type
      /\ Flight \subseteq Flight' \cup {Received}
      /\ \A m \in Flight' : <<Received, m>> \in SubmitterOrder
  BY TakeFlight DEF SubmitterInv
<1>2. PICK s \in Submitter : s = Received.from
  BY <1>1, FromSubmitters
<1>3. Introduced(s)
  BY DEF SubmitterInv
<1>4. \A m \in Flight' : m.from = s => type # "SUBMITTER_BYE" /\ m.type # "SUBMITTER_HELLO"
  BY <1>1, <1>2 DEF SubmitterOrder
<1>5. submitter[s] # "hello" /\ (submitter[s] = "gone" <=> type = "SUBMITTER_BYE")
  <2>1. type = "SUBMITTER_BYE" => submitter[s] = "gone"
    BY <1>1, <1>2 DEF SubmitterInv, GoneAtGoodbye, Receive
  <2> QED
    BY <1>1, <1>2, <1>3, <2>1 DEF Introduced
<1>6. type = "SUBMITTER_HELLO" => s \notin submitters
  BY <1>1, <1>2, <1>3 DEF Introduced, Saying
<1>7. type # "SUBMITTER_HELLO" => s \in submitters
  <2>1. type = "SUBMITTER_BYE" => Saying(s, "SUBMITTER_BYE")
    BY <1>1, <1>2 DEF Saying
  <2>2. type # "SUBMITTER_HELLO" => ~Saying(s, "SUBMITTER_HELLO")
    BY <1>1, <1>2, <1>4 DEF Saying
  <2> QED
    BY <1>3, <1>5, <2>1, <2>2 DEF Introduced, Goodbye
<1> QED
  BY <1>2, <1>4, <1>5, <1>6, <1>7

LEMMA HelloKeepsSubmitters ==
  ASSUME TypeOK, SubmitterInv, server_on_submitter_hello
  PROVE  SubmitterInv'
<1>1. /\ Receive("SUBMITTER_HELLO") /\ submitters' = submitters \cup {Received.from}
      /\ UNCHANGED <<submitter, todo, nb_finished>> /\ server' = "check"
  BY DEF server_on_submitter_hello, Receive, submitterActors
<1>2. /\ Flight' \subseteq Flight /\ Flight \subseteq Flight' \cup {Received} /\ Received \in Flight
      /\ Received.type = "SUBMITTER_HELLO" /\ InOrder(SubmitterOrder)'
  BY <1>1, TakeFlight DEF SubmitterInv
<1>3. PICK s \in Submitter : /\ s = Received.from /\ submitter[s] \notin {"hello", "gone"}
                             /\ \A m \in Flight' : m.from = s => m.type # "SUBMITTER_HELLO"
  BY <1>1, HandledSubmitter DEF SubmitterMail
<1>4. \A r \in Submitter : Saying(r, "SUBMITTER_BYE")' <=> Saying(r, "SUBMITTER_BYE")
  BY <1>2 DEF Saying
<1>5. /\ ~Saying(s, "SUBMITTER_HELLO")'
      /\ \A r \in Submitter : r # s => (Saying(r, "SUBMITTER_HELLO")' <=> Saying(r, "SUBMITTER_HELLO"))
  BY <1>2, <1>3 DEF Saying
<1>6. \A r \in Submitter : Goodbye(r)' <=> Goodbye(r)
  BY <1>1, <1>4 DEF Goodbye
<1>7. ~Goodbye(s)'
  BY <1>1, <1>3 DEF Goodbye
<1>8. ASSUME NEW r \in Submitter PROVE Introduced(r)'
  <2>1. Introduced(r) /\ (r \in submitters' <=> r = s \/ r \in submitters)
    BY <1>1, <1>3 DEF SubmitterInv
  <2> QED
    BY <1>1, <1>2, <1>3, <1>4, <1>5, <1>6, <1>7, <2>1 DEF Introduced
<1>9. GoodbyesCounted'
  <2>1. \A k \in {"job", "event"} : Finished(k)' = Finished(k)
    BY <1>6 DEF Finished
  <2> QED
    BY <1>1, <2>1 DEF SubmitterInv, GoodbyesCounted
<1> QED
  BY <1>1, <1>2, <1>8, <1>9 DEF SubmitterInv, GoneAtGoodbye

LEMMA ByeKeepsSubmitters ==
  ASSUME TypeOK, SubmitterInv, server_on_submitter_bye
  PROVE  /\ SubmitterInv'
         /\ submitter' = submitter /\ todo' = todo /\ Flight' \subseteq Flight
<1>1. /\ Receive("SUBMITTER_BYE") /\ submitters' = submitters \ {Received.from}
      /\ nb_finished' = [nb_finished EXCEPT ![Kind(Received.from)] = @ + 1]
      /\ UNCHANGED <<submitter, todo>> /\ server' = "check"
  BY DEF server_on_submitter_bye, Receive, submitterActors
<1>2. /\ Flight' \subseteq Flight /\ Flight \subseteq Flight' \cup {Received} /\ Received \in Flight
      /\ Received.type = "SUBMITTER_BYE" /\ InOrder(SubmitterOrder)'
  BY <1>1, TakeFlight DEF SubmitterInv
<1>3. PICK s \in Submitter : /\ s = Received.from /\ submitter[s] = "gone"
                             /\ \A m \in Flight' : m.from # s
  BY <1>1, HandledSubmitter DEF SubmitterMail
<1>4. \A r \in Submitter : r # s => (Saying(r, "SUBMITTER_BYE")' <=> Saying(r, "SUBMITTER_BYE"))
  BY <1>2, <1>3 DEF Saying
<1>5. \A r \in Submitter : Saying(r, "SUBMITTER_HELLO")' <=> Saying(r, "SUBMITTER_HELLO")
  BY <1>2 DEF Saying
<1>6. Saying(s, "SUBMITTER_BYE") /\ ~Saying(s, "SUBMITTER_BYE")'
  BY <1>2, <1>3 DEF Saying
<1>7. Goodbye(s)' /\ ~Goodbye(s)
  BY <1>1, <1>3, <1>6 DEF Goodbye
<1>8. \A r \in Submitter : r # s => (Goodbye(r)' <=> Goodbye(r))
  BY <1>1, <1>4 DEF Goodbye
<1>9. ASSUME NEW r \in Submitter, r # s PROVE Introduced(r)'
  <2>1. Introduced(r) /\ (r \in submitters' <=> r \in submitters)
    BY <1>1, <1>3, <1>9 DEF SubmitterInv
  <2> QED
    BY <1>1, <1>2, <1>4, <1>5, <1>8, <1>9, <2>1 DEF Introduced
<1>10. Introduced(s)'
  <2>1. Introduced(s) /\ s \notin submitters'
    BY <1>1, <1>3 DEF SubmitterInv
  <2> QED
    BY <1>1, <1>3, <1>6, <1>7, <2>1 DEF Introduced
<1>11. GoodbyesCounted'
  <2> SUFFICES ASSUME NEW k \in {"job", "event"} PROVE nb_finished'[k] = Cardinality(Finished(k)')
    BY DEF GoodbyesCounted
  <2>1. nb_finished[k] = Cardinality(Finished(k)) /\ nb_finished \in [{"job", "event"} -> Nat]
    BY DEF SubmitterInv, GoodbyesCounted, TypeOK, ServerTypeOK
  <2>2. CASE k = Kind(s)
    <3>1. Finished(k)' = Finished(k) \cup {s} /\ s \notin Finished(k)
      BY <1>7, <1>8, <2>2 DEF Finished
    <3>2. IsFiniteSet(Finished(k))
      BY SubmittersAreFinite DEF Finished
    <3>3. Cardinality(Finished(k) \cup {s}) = Cardinality(Finished(k)) + 1
      BY <3>1, <3>2, FS_AddElement
    <3> QED
      BY <1>1, <1>3, <2>1, <2>2, <3>1, <3>3
  <2>3. CASE k # Kind(s)
    <3>1. Finished(k)' = Finished(k)
      BY <1>8, <2>3 DEF Finished
    <3> QED
      BY <1>1, <1>3, <2>1, <2>3, <3>1
  <2> QED
    BY <2>2, <2>3
<1> QED
  BY <1>1, <1>2, <1>9, <1>10, <1>11 DEF SubmitterInv, GoneAtGoodbye

GreetStep ==
  \/ \E s \in Submitter : SubmitterStep(s)
  \/ Deliver \/ server_on_submitter_hello \/ server_on_submitter_bye

LEMMA KeepsGreetings ==
  ASSUME Keeps(SubmitterMail)
  PROVE  /\ \A m \in Message : m.type \in SubmitterMail /\ m \in Flight' => m \in Flight
         /\ \A m \in Message : m.type \in Greeting => (m \in Flight' <=> m \in Flight)
         /\ InOrder(SubmitterOrder) => InOrder(SubmitterOrder)'
<1>1. \A m, n \in Message : m.type \notin SubmitterMail \/ n.type \notin SubmitterMail =>
        <<m, n>> \in SubmitterOrder
  BY FromSubmitters DEF SubmitterOrder
<1> QED
  BY <1>1 DEF Keeps, SubmitterMail, Greeting

LEMMA OtherStepsGreetNone ==
  ASSUME TypeOK, LinkInv, Next, ~GreetStep
  PROVE  NoGreeting
<1>1. server' = "handle" => server = "handle" /\ Received' = Received
  BY ReceivedStays DEF GreetStep
<1>2. CASE ExecutionStep
  <2>1. Keeps(SubmitterMail)
    BY <1>2, ExecutionKeeps DEF ExecutionStep, SubmitterMail
  <2>2. UNCHANGED <<submitter, todo, submitters, nb_finished>>
    BY <1>2 DEF ExecutionStep, JobStarts, JobCancelled, JobEnds, killer_process, WaiterWakes,
       executionUnchanged, submitterActors, submitVars
  <2> QED
    BY <1>1, <2>1, <2>2, KeepsGreetings DEF NoGreeting
<1>3. CASE SchedulerStep
  <2>1. Keeps(SubmitterMail)
    BY <1>3, SchedulerKeeps DEF SchedulerStep, SubmitterMail
  <2>2. UNCHANGED <<submitter, todo, submitters, nb_finished>>
    BY <1>3 DEF SchedulerStep, handle_execute_job, handle_reject_job, handle_kill_job,
         handle_call_me_later, handle_register_job, NotifyRegistrationFinished,
         NotifyContinueRegistration, ReplyApplied, Decide, Apply, send_message_at_time,
         linkUnchanged, submitterActors, submitVars
  <2> QED
    BY <1>1, <2>1, <2>2, KeepsGreetings DEF NoGreeting
<1>4. CASE ServerSendsEvents \/ ServerEndsSimulation \/ ServerLoops \/ ServerLeavesLoop
  <2>1. Keeps(SubmitterMail)
    BY <1>4, LoopKeeps
  <2>2. UNCHANGED <<submitter, todo, submitters, nb_finished>>
    BY <1>4 DEF ServerSendsEvents, ServerEndsSimulation, ServerLoops, ServerLeavesLoop,
       checkUnchanged, submitterActors, submitVars
  <2> QED
    BY <1>1, <2>1, <2>2, KeepsGreetings DEF NoGreeting
<1>5. CASE Handle
  <2>1. ASSUME NEW type, type \notin Greeting, Receive(type), UNCHANGED submitVars PROVE NoGreeting
    <3>1. UNCHANGED <<submitter, todo, submitters, nb_finished>>
      BY <2>1 DEF Receive, submitterActors, submitVars
    <3>2. /\ Flight' \subseteq Flight /\ Flight \subseteq Flight' \cup {Received}
          /\ Received.type = type /\ \A R : InOrder(R) => InOrder(R)'
      BY <2>1, TakeFlight
    <3> QED
      BY <1>1, <2>1, <3>1, <3>2 DEF NoGreeting
  <2> QED
    BY <1>5, <2>1 DEF Handle, GreetStep, server_on_job_submitted, server_on_event_occurred,
       server_on_job_completed, server_on_killing_done, server_on_register_job,
       server_on_execute_job, server_on_reject_job, server_on_kill_jobs, server_on_call_me_later,
       server_on_waiting_done, server_on_end_dynamic_register,
       server_on_continue_dynamic_register, server_on_sched_ready, Greeting
<1> QED
  BY <1>2, <1>3, <1>4, <1>5 DEF Next, ServerStep, GreetStep

LEMMA SubmittersHold == Spec => []Submitters
<1>1. Init => Submitters
  <2> SUFFICES ASSUME Init PROVE SubmitterInv
    BY DEF Submitters
  <2>1. /\ Len(mailbox) = 0 /\ Len(held) = 0 /\ server = "receive" /\ submitters = {}
        /\ \A s \in Submitter : submitter[s] = "hello"
        /\ \A k \in {"job", "event"} : nb_finished[k] = 0
    BY DEF Init
  <2>2. Flight = {} /\ InOrder(SubmitterOrder)
    BY <2>1 DEF Flight, InOrder
  <2>3. \A s \in Submitter : Introduced(s) /\ ~Goodbye(s)
    BY <2>1, <2>2 DEF Introduced, Goodbye, Saying
  <2>4. \A k \in {"job", "event"} : Finished(k) = {}
    BY <2>3 DEF Finished
  <2>5. GoodbyesCounted
    BY <2>1, <2>4, FS_EmptySet DEF GoodbyesCounted
  <2> QED
    BY <2>1, <2>2, <2>3, <2>5 DEF SubmitterInv, GoneAtGoodbye
<1>2. TypeOK /\ TypeOK' /\ Link /\ Submitters /\ [Next]_vars => Submitters'
  <2> SUFFICES ASSUME TypeOK, TypeOK', Link, Submitters, [Next]_vars, ~aborted' PROVE SubmitterInv'
    BY DEF Submitters
  <2>1. CASE Next
    <3>1. LinkInv /\ SubmitterInv
      BY <2>1, StepsOfTheLiving DEF Link, Submitters
    <3>2. CASE GreetStep
      BY <3>1, <3>2, SpeakingKeepsSubmitters, DeliveryKeepsSubmitters, HelloKeepsSubmitters,
         ByeKeepsSubmitters DEF GreetStep
    <3>3. CASE ~GreetStep
      BY <2>1, <3>1, <3>3, OtherStepsGreetNone, NoGreetingKeepsSubmitters
    <3> QED
      BY <3>2, <3>3
  <2>2. CASE UNCHANGED vars
    <3>1. UNCHANGED <<mailbox, held, server, submitter, todo, submitters, nb_finished, aborted>>
      BY <2>2 DEF vars, readerActor, submitterActors, submitVars
    <3>2. NoGreeting /\ SubmitterInv
      BY <3>1, StillFlight DEF NoGreeting, Submitters, Received
    <3> QED
      BY <3>2, NoGreetingKeepsSubmitters
  <2> QED
    BY <2>1, <2>2
<1> QED
  BY <1>1, <1>2, TypeCorrect, LinkHolds, PTL DEF Spec

----------------------------------------------------------------------------
(***************************************************************************)
(* The static jobs. Each is with its submitter, then in a JOB_SUBMITTED    *)
(* message of that submitter, then in a JOB_SUBMITTED event, then known to *)
(* the scheduler: the last goodbye of the job submitters is behind all.    *)
(***************************************************************************)
OwnBatch == \A m \in Flight : m.type = "JOB_SUBMITTED" => \A j \in m.about : Owner[j] = m.from

Submitting(j) == \E m \in Flight : m.type = "JOB_SUBMITTED" /\ j \in m.about
Announced(j)  == view[j] # "unknown" \/ Says(outbox, "JOB_SUBMITTED", j)

OnTheirWay ==
  /\ \A j \in StaticJob :
       /\ state[j] # "ABSENT"
       /\ state[j] = "NOT_SUBMITTED" => j \in todo[Owner[j]] \/ Submitting(j)
       /\ state[j] # "NOT_SUBMITTED" => Announced(j)
  /\ \A j \in DynJob : state[j] # "NOT_SUBMITTED"

StaticInv == OwnBatch /\ OnTheirWay /\ NoMoreStaticJobIsTrue

Statics == ~aborted => StaticInv

\* The buffer p is o, and then events that do not say that there is no more job.
Prolongs(o, p) ==
  /\ \A i \in 1..Len(o) : i \in 1..Len(p) /\ p[i] = o[i]
  /\ \A k \in 1..Len(p) : k \in 1..Len(o) \/ p[k].type # "NO_MORE_STATIC_JOB"

LEMMA AppendProlongs ==
  ASSUME NEW o \in Seq(Event), NEW e \in Event
  PROVE  /\ \A i \in 1..Len(o) : i \in 1..Len(Append(o, e)) /\ Append(o, e)[i] = o[i]
         /\ e.type # "NO_MORE_STATIC_JOB" => Prolongs(o, Append(o, e))
<1>1. \A i \in 1..Len(o) : i \in 1..Len(Append(o, e)) /\ Append(o, e)[i] = o[i]
  OBVIOUS
<1>2. \A k \in 1..Len(Append(o, e)) : k \in 1..Len(o) \/ Append(o, e)[k] = e
  BY AppendLookup
<1> QED
  BY <1>1, <1>2 DEF Prolongs

\* A static job neither leaves nor reaches the state in which it waits for its
\* submission, unless a dynamic job is registered.
StatesGoOn ==
  \A j \in Job :
    \/ state'[j] = state[j]
    \/ state[j] = "ABSENT" /\ j \in DynJob /\ state'[j] = "SUBMITTED"
    \/ {state[j], state'[j]} \cap {"ABSENT", "NOT_SUBMITTED"} = {}

\* A step in which no job of a workload is submitted.
NoBatch ==
  /\ StatesGoOn
  /\ \A j \in Job : view[j] # "unknown" => view'[j] # "unknown"
  /\ UNCHANGED <<todo, told>>
  /\ Keeps({"JOB_SUBMITTED"})
  /\ Prolongs(outbox, outbox')

LEMMA ProlongedIsTrue ==
  ASSUME TypeOK, NoMoreStaticJobIsTrue, Prolongs(outbox, outbox'), UNCHANGED told,
         \A j \in Job : view[j] # "unknown" => view'[j] # "unknown"
  PROVE  NoMoreStaticJobIsTrue' /\ \A j \in Job : Announced(j) => Announced(j)'
<1>1. StaticJob \subseteq Job
  BY DEF Job
<1>2. \A j \in Job : Announced(j) => Announced(j)'
  BY DEF Announced, Says, Prolongs
<1>3. ASSUME NEW j \in StaticJob, NEW k \in 1..Len(outbox'), outbox'[k].type = "NO_MORE_STATIC_JOB"
      PROVE  \/ view'[j] # "unknown"
             \/ \E i \in 1..(k-1) : outbox'[i].type = "JOB_SUBMITTED" /\ j \in outbox'[i].about
  <2>1. k \in 1..Len(outbox) /\ outbox[k].type = "NO_MORE_STATIC_JOB"
    BY <1>3 DEF Prolongs
  <2>2. CASE view[j] # "unknown"
    BY <1>1, <2>2
  <2>3. ASSUME NEW i \in 1..(k-1), outbox[i].type = "JOB_SUBMITTED" /\ j \in outbox[i].about
        PROVE  \E l \in 1..(k-1) : outbox'[l].type = "JOB_SUBMITTED" /\ j \in outbox'[l].about
    <3>1. Len(outbox) \in Nat
      BY DEF TypeOK, ServerTypeOK
    <3>2. i \in 1..Len(outbox)
      BY <2>1, <3>1
    <3> QED
      BY <2>3, <3>2 DEF Prolongs
  <2> QED
    BY <2>1, <2>2, <2>3 DEF NoMoreStaticJobIsTrue
<1>4. \A j \in StaticJob : "NO_MORE_STATIC_JOB" \in told' => view'[j] # "unknown"
  BY <1>1 DEF NoMoreStaticJobIsTrue
<1> QED
  BY <1>2, <1>3, <1>4 DEF NoMoreStaticJobIsTrue

LEMMA NoBatchKeepsStatics ==
  ASSUME TypeOK, TypeOK', StaticInv, NoBatch
  PROVE  StaticInv'
<1>1. Flight \subseteq Message /\ Flight' \subseteq Message
  BY DEF TypeOK, MailTypeOK, Flight
<1>2. OwnBatch' /\ \A j \in Job : Submitting(j)' <=> Submitting(j)
  BY <1>1 DEF StaticInv, OwnBatch, Submitting, NoBatch, Keeps
<1>3. NoMoreStaticJobIsTrue' /\ \A j \in Job : Announced(j) => Announced(j)'
  BY ProlongedIsTrue DEF StaticInv, NoBatch
<1>4. ASSUME NEW j \in StaticJob
      PROVE  /\ state'[j] # "ABSENT"
             /\ state'[j] = "NOT_SUBMITTED" => j \in todo'[Owner[j]] \/ Submitting(j)'
             /\ state'[j] # "NOT_SUBMITTED" => Announced(j)'
  <2>1. j \in Job /\ j \notin DynJob
    BY ConstantsAssumption DEF Job
  <2>2. state'[j] = state[j] \/ {state[j], state'[j]} \cap {"ABSENT", "NOT_SUBMITTED"} = {}
    BY <2>1 DEF NoBatch, StatesGoOn
  <2> QED
    BY <1>2, <1>3, <2>1, <2>2 DEF StaticInv, OnTheirWay, NoBatch
<1>5. \A j \in DynJob : state'[j] # "NOT_SUBMITTED"
  BY DEF StaticInv, OnTheirWay, NoBatch, StatesGoOn, Job
<1> QED
  BY <1>2, <1>3, <1>4, <1>5 DEF StaticInv, OnTheirWay

\* A submitter sends a batch: its jobs go from it to the message.
LEMMA BatchKeepsStatics ==
  ASSUME TypeOK, StaticInv, NEW s \in Submitter, SubmitBatch(s)
  PROVE  StaticInv'
<1>1. /\ todo' = [todo EXCEPT ![s] = todo[s] \ NextBatch(s)]
      /\ UNCHANGED <<held, state, view, told, outbox>>
  BY DEF SubmitBatch, Unsent, submitterUnchanged, jobVars, schedVars, bufferVars, readerActor
<1>2. PICK n \in Message : /\ Put(n) /\ n.about = NextBatch(s) /\ n.from = s
                           /\ s \in JobSubmitter => n.type = "JOB_SUBMITTED"
                           /\ s \notin JobSubmitter => n.type # "JOB_SUBMITTED"
  BY BatchIsTyped DEF SubmitBatch, Msg
<1>3. Flight' = Flight \cup {n}
  BY <1>1, <1>2, PutFlight
<1>4. /\ \A i \in NextBatch(s) : Owner[i] = s
      /\ todo'[s] = todo[s] \ NextBatch(s) /\ \A r \in Submitter : r # s => todo'[r] = todo[r]
  BY <1>1 DEF NextBatch, TypeOK, ActorsTypeOK
<1>5. OwnBatch'
  BY <1>2, <1>3, <1>4 DEF StaticInv, OwnBatch
<1>6. \A j \in Job : (Submitting(j) => Submitting(j)') /\ (Announced(j)' <=> Announced(j))
  BY <1>1, <1>3 DEF Submitting, Announced
<1>7. ASSUME NEW j \in StaticJob, j \in todo[Owner[j]]
      PROVE  j \in todo'[Owner[j]] \/ Submitting(j)'
  <2>1. Owner[j] \in JobSubmitter /\ Owner[j] \in Submitter
    BY ConstantsAssumption DEF Submitter
  <2>2. CASE j \notin NextBatch(s) \/ Owner[j] # s
    BY <1>4, <1>7, <2>1, <2>2
  <2>3. CASE j \in NextBatch(s) /\ Owner[j] = s
    BY <1>2, <1>3, <2>1, <2>3 DEF Submitting
  <2> QED
    BY <2>2, <2>3
<1>8. OnTheirWay'
  <2>1. StaticJob \subseteq Job
    BY DEF Job
  <2> QED
    BY <1>1, <1>6, <1>7, <2>1 DEF StaticInv, OnTheirWay
<1>9. NoMoreStaticJobIsTrue'
  BY <1>1 DEF StaticInv, NoMoreStaticJobIsTrue
<1> QED
  BY <1>5, <1>8, <1>9 DEF StaticInv

\* The server handles a batch: its jobs are announced.
LEMMA SubmissionKeepsStatics ==
  ASSUME TypeOK, StaticInv, server_on_job_submitted
  PROVE  StaticInv'
<1>1. /\ Receive("JOB_SUBMITTED")
      /\ state' = [j \in Job |-> IF j \in Received.about THEN "SUBMITTED" ELSE state[j]]
      /\ outbox' = Append(outbox, Ev("JOB_SUBMITTED", Received.about))
      /\ UNCHANGED <<view, told, todo>>
  BY DEF server_on_job_submitted, Receive, schedVars, submitterActors
<1>2. /\ Flight' \subseteq Flight /\ Flight \subseteq Flight' \cup {Received} /\ Received \in Message
      /\ Received.type = "JOB_SUBMITTED"
  BY <1>1, TakeFlight
<1>3. PICK e \in Event : e = Ev("JOB_SUBMITTED", Received.about) /\ e.type = "JOB_SUBMITTED"
                         /\ e.about = Received.about
  BY <1>2, MessageKinds, JobEvents
<1>4. outbox \in Seq(Event)
  BY DEF TypeOK, ServerTypeOK
<1>5. NoMoreStaticJobIsTrue' /\ \A j \in Job : Announced(j) => Announced(j)'
  <2>1. Prolongs(outbox, outbox')
    BY <1>1, <1>3, <1>4, AppendProlongs
  <2> QED
    BY <1>1, <2>1, ProlongedIsTrue DEF StaticInv
<1>6. \A j \in Received.about : Announced(j)'
  <2>1. Len(outbox) + 1 \in 1..Len(outbox') /\ outbox'[Len(outbox) + 1] = e
    BY <1>1, <1>3, <1>4
  <2> QED
    BY <1>3, <2>1 DEF Announced, Says
<1>7. \A j \in Job : j \notin Received.about => (Submitting(j) => Submitting(j)')
  BY <1>2 DEF Submitting
<1>8. OwnBatch'
  BY <1>2 DEF StaticInv, OwnBatch
<1>9. Received.about \subseteq StaticJob
  BY <1>2 DEF Message
<1>10. ASSUME NEW j \in StaticJob
       PROVE  /\ state'[j] # "ABSENT"
              /\ state'[j] = "NOT_SUBMITTED" => j \in todo'[Owner[j]] \/ Submitting(j)'
              /\ state'[j] # "NOT_SUBMITTED" => Announced(j)'
  <2>1. j \in Job
    BY DEF Job
  <2>2. CASE j \in Received.about
    BY <1>1, <1>6, <2>1, <2>2
  <2>3. CASE j \notin Received.about
    BY <1>1, <1>5, <1>7, <2>1, <2>3 DEF StaticInv, OnTheirWay
  <2> QED
    BY <2>2, <2>3
<1>11. \A j \in DynJob : state'[j] # "NOT_SUBMITTED"
  BY <1>1 DEF StaticInv, OnTheirWay, Job
<1> QED
  BY <1>5, <1>8, <1>10, <1>11 DEF StaticInv, OnTheirWay

\* When as many submitters as expected have said goodbye, they all have.
LEMMA AllSaidGoodbye ==
  ASSUME NEW k \in {"job", "event"}, NEW F, F \subseteq {s \in Submitter : Kind(s) = k},
         Cardinality(F) = Expected[k]
  PROVE  \A s \in Submitter : Kind(s) = k => s \in F
<1>1. {s \in Submitter : Kind(s) = k} = IF k = "job" THEN JobSubmitter ELSE EventSubmitter
  BY ConstantsAssumption DEF Submitter, Kind
<1>2. IsFiniteSet({s \in Submitter : Kind(s) = k})
  BY SubmittersAreFinite
<1>3. Cardinality({s \in Submitter : Kind(s) = k}) = Cardinality(F)
  BY <1>1 DEF Expected
<1>4. F = {s \in Submitter : Kind(s) = k}
  BY <1>2, <1>3, FS_Subset
<1> QED
  BY <1>4

\* The server handles a goodbye: after the last one of a job submitter, nothing
\* is left with the job submitters or in their messages.
LEMMA ByeKeepsStatics ==
  ASSUME TypeOK, SubmitterInv, StaticInv, server_on_submitter_bye
  PROVE  StaticInv'
<1>1. /\ Receive("SUBMITTER_BYE") /\ UNCHANGED <<state, view, told, todo>>
  BY DEF server_on_submitter_bye, Receive, schedVars, submitterActors, jobVars
<1>2. Flight' \subseteq Flight /\ Flight \subseteq Flight' \cup {Received} /\ Received.type = "SUBMITTER_BYE"
  BY <1>1, TakeFlight
<1>3. \A j \in Job : Submitting(j)' <=> Submitting(j)
  BY <1>2 DEF Submitting
<1>4. OwnBatch'
  BY <1>2 DEF StaticInv, OwnBatch
<1>5. outbox \in Seq(Event)
  BY DEF TypeOK, ServerTypeOK
<1>6. PICK e \in Event :
        /\ outbox' = outbox \/ outbox' = Append(outbox, e)
        /\ outbox' = Append(outbox, e) /\ e.type = "NO_MORE_STATIC_JOB" => LastGoodbye("job")
  <2>1. PICK k \in {"job", "event"} : k = Kind(Received.from)
    BY DEF Kind
  <2>2. PICK type \in {"NO_MORE_STATIC_JOB", "NO_MORE_EXTERNAL_EVENT"} :
          type = IF k = "job" THEN "NO_MORE_STATIC_JOB" ELSE "NO_MORE_EXTERNAL_EVENT"
    OBVIOUS
  <2>3. PICK e \in Event : e = Ev(type, {}) /\ e.type = type
    <3>1. /\ Ev("NO_MORE_STATIC_JOB", {}) \in Event /\ Ev("NO_MORE_EXTERNAL_EVENT", {}) \in Event
          /\ Ev(type, {}).type = type
      BY DEF Ev, Event
    <3> QED
      BY <3>1
  <2>4. outbox' = IF LastGoodbye(k) THEN Append(outbox, e) ELSE outbox
    BY <2>1, <2>2, <2>3 DEF server_on_submitter_bye
  <2>5. outbox # Append(outbox, e)
    <3>1. Len(outbox) \in Nat /\ Len(Append(outbox, e)) = Len(outbox) + 1
      BY <1>5
    <3> QED
      BY <3>1
  <2> QED
    BY <2>2, <2>3, <2>4, <2>5
<1>7. ASSUME LastGoodbye("job"), NEW j \in StaticJob PROVE Announced(j)
  <2>1. /\ SubmitterInv' /\ todo' = todo
    BY ByeKeepsSubmitters
  <2>2. Cardinality(Finished("job")') = Expected["job"]
    BY <1>7, <2>1 DEF LastGoodbye, SubmitterInv, GoodbyesCounted
  <2>3. Finished("job")' \subseteq {s \in Submitter : Kind(s) = "job"}
    BY DEF Finished
  <2>4. PICK s \in Submitter : s = Owner[j] /\ Kind(s) = "job"
    BY ConstantsAssumption DEF Submitter, Kind
  <2>5. s \in Finished("job")'
    BY <2>2, <2>3, <2>4, AllSaidGoodbye
  <2>6. Introduced(s)' /\ Goodbye(s)'
    BY <2>1, <2>5 DEF SubmitterInv, Finished
  <2>7. todo[s] = {} /\ \A m \in Flight' : m.from # s
    BY <2>1, <2>6 DEF Introduced, Goodbye, Saying
  <2>8. ~Submitting(j)'
    BY <1>4, <2>4, <2>7 DEF OwnBatch, Submitting
  <2> QED
    BY <1>3, <2>4, <2>7, <2>8 DEF StaticInv, OnTheirWay, Job
<1>8. NoMoreStaticJobIsTrue' /\ \A j \in Job : Announced(j) => Announced(j)'
  <2>1. CASE Prolongs(outbox, outbox')
    BY <1>1, <2>1, ProlongedIsTrue DEF StaticInv
  <2>2. CASE outbox' = Append(outbox, e) /\ e.type = "NO_MORE_STATIC_JOB"
    <3>1. \A j \in StaticJob : view[j] # "unknown" \/ Says(outbox, "JOB_SUBMITTED", j)
      BY <1>6, <1>7, <2>2 DEF Announced
    <3>2. /\ Len(outbox) \in Nat
          /\ \A i \in 1..Len(outbox) : i \in 1..Len(outbox') /\ outbox'[i] = outbox[i]
          /\ \A i \in 1..Len(outbox') : i \in 1..Len(outbox) \/ i = Len(outbox) + 1
      BY <1>5, <2>2, AppendLookup
    <3>3. \A j \in Job : Announced(j) => Announced(j)'
      BY <1>1, <3>2 DEF Announced, Says
    <3>4. ASSUME NEW j \in StaticJob, NEW k \in 1..Len(outbox'), outbox'[k].type = "NO_MORE_STATIC_JOB"
          PROVE  \/ view[j] # "unknown"
                 \/ \E i \in 1..(k-1) : outbox'[i].type = "JOB_SUBMITTED" /\ j \in outbox'[i].about
      <4>1. CASE k = Len(outbox) + 1
        <5>1. 1..(k-1) = 1..Len(outbox)
          BY <3>2, <4>1
        <5> QED
          BY <3>1, <3>2, <5>1 DEF Says
      <4>2. CASE k \in 1..Len(outbox)
        <5>1. \A i \in 1..(k-1) : i \in 1..Len(outbox)
          BY <3>2, <4>2
        <5> QED
          BY <3>2, <3>4, <4>2, <5>1 DEF StaticInv, NoMoreStaticJobIsTrue
      <4> QED
        BY <3>2, <4>1, <4>2
    <3> QED
      BY <1>1, <3>3, <3>4 DEF StaticInv, NoMoreStaticJobIsTrue
  <2>3. Prolongs(outbox, outbox') \/ (outbox' = Append(outbox, e) /\ e.type = "NO_MORE_STATIC_JOB")
    <3>1. CASE outbox' = outbox
      BY <3>1 DEF Prolongs
    <3> QED
      BY <1>5, <1>6, <3>1, AppendProlongs
  <2> QED
    BY <2>1, <2>2, <2>3
<1>9. OnTheirWay'
  BY <1>1, <1>3, <1>8 DEF StaticInv, OnTheirWay, Job
<1> QED
  BY <1>4, <1>8, <1>9 DEF StaticInv

\* The scheduler is told: it knows the jobs that were announced.
LEMMA SendingKeepsStatics ==
  ASSUME TypeOK, LinkInv, EventsAreTrue, StaticInv, ServerSendsEvents \/ ServerEndsSimulation
  PROVE  StaticInv'
<1>1. UNCHANGED <<mailbox, held, state, todo>> /\ Len(outbox') = 0
  BY CallsWhenAllIsQuiet DEF ServerSendsEvents, ServerEndsSimulation, generate_and_send_message,
     checkUnchanged, submitterActors
<1>2. Flight' = Flight
  BY <1>1, StillFlight
<1>3. \A j \in Job : Announced(j) => view'[j] # "unknown"
  <2>1. ASSUME NEW j \in Job, view[j] # "unknown" PROVE view'[j] # "unknown"
    BY <2>1, WhatIsLearnt
  <2>2. ASSUME NEW j \in Job, Says(outbox, "JOB_SUBMITTED", j) PROVE view'[j] # "unknown"
    <3>1. ServerSendsEvents
      BY <2>2 DEF ServerEndsSimulation, Says
    <3>2. view'[j] = CASE Says(outbox, "JOB_COMPLETED", j) -> "done"
                       [] Says(outbox, "JOB_SUBMITTED", j) -> "waiting"
                       [] OTHER -> view[j]
      BY <3>1 DEF ServerSendsEvents, generate_and_send_message
    <3> QED
      BY <2>2, <3>2
  <2> QED
    BY <2>1, <2>2 DEF Announced
<1>4. ASSUME "NO_MORE_STATIC_JOB" \in told', NEW j \in StaticJob PROVE view'[j] # "unknown"
  <2>1. j \in Job
    BY DEF Job
  <2>2. CASE "NO_MORE_STATIC_JOB" \in told
    BY <1>3, <2>1, <2>2 DEF StaticInv, NoMoreStaticJobIsTrue, Announced
  <2>3. CASE "NO_MORE_STATIC_JOB" \notin told
    <3>1. PICK k \in 1..Len(outbox) : outbox[k].type = "NO_MORE_STATIC_JOB"
      <4>1. CASE ServerSendsEvents
        BY <1>4, <2>3, <4>1 DEF ServerSendsEvents, generate_and_send_message
      <4>2. CASE ServerEndsSimulation
        <5>1. told' = told \cup {"SIMULATION_ENDS"}
          <6>1. {<<Ev("SIMULATION_ENDS", {})>>[i].type : i \in 1..Len(<<Ev("SIMULATION_ENDS", {})>>)}
                  = {"SIMULATION_ENDS"}
            BY DEF Ev
          <6> QED
            BY <4>2, <6>1 DEF ServerEndsSimulation, generate_and_send_message
        <5> QED
          BY <1>4, <2>3, <5>1
      <4> QED
        BY <4>1, <4>2
    <3>2. Announced(j)
      <4>1. Len(outbox) \in Nat
        BY DEF TypeOK, ServerTypeOK
      <4>2. \A i \in 1..(k-1) : i \in 1..Len(outbox)
        BY <3>1, <4>1
      <4> QED
        BY <3>1, <4>2 DEF StaticInv, NoMoreStaticJobIsTrue, Announced, Says
    <3> QED
      BY <1>3, <2>1, <3>2
  <2> QED
    BY <2>2, <2>3
<1>5. NoMoreStaticJobIsTrue'
  BY <1>1, <1>4 DEF NoMoreStaticJobIsTrue
<1>6. OwnBatch' /\ \A j \in Job : Submitting(j)' <=> Submitting(j)
  BY <1>2 DEF StaticInv, OwnBatch, Submitting
<1>7. OnTheirWay'
  <2>1. \A j \in Job : Announced(j) => Announced(j)'
    BY <1>3 DEF Announced
  <2> QED
    BY <1>1, <1>6, <2>1 DEF StaticInv, OnTheirWay, Job
<1> QED
  BY <1>5, <1>6, <1>7 DEF StaticInv

StaticStep ==
  \/ \E s \in Submitter : SubmitBatch(s)
  \/ server_on_job_submitted \/ server_on_submitter_bye
  \/ ServerSendsEvents \/ ServerEndsSimulation

LEMMA HandlersSubmitNone ==
  ASSUME TypeOK, Handle, ~StaticStep, ~aborted'
  PROVE  NoBatch
<1>1. outbox \in Seq(Event)
  BY DEF TypeOK, ServerTypeOK
<1>2. Prolongs(outbox, outbox)
  BY DEF Prolongs
<1>3. ASSUME NEW type, type # "JOB_SUBMITTED", Receive(type), StatesGoOn, Prolongs(outbox, outbox')
      PROVE  NoBatch
  <2>1. UNCHANGED <<view, told, todo>>
    BY <1>3 DEF Receive, schedVars, submitterActors
  <2> QED
    BY <1>3, <2>1, TakeKeeps DEF NoBatch
<1>4. UNCHANGED state => StatesGoOn
  BY DEF StatesGoOn
<1>5. /\ Ev("REQUESTED_CALL", {}) \in Event
      /\ \A type, about : Ev(type, about).type = type
      /\ \A S \in SUBSET Job : Ev("JOB_SUBMITTED", S) \in Event /\ Ev("JOB_COMPLETED", S) \in Event
                               /\ Ev("JOB_KILLED", S) \in Event
      /\ \A S \in SUBSET ExtEvent : Ev("EXTERNAL_EVENT", S) \in Event
  BY DEF Ev, Event
<1>6. \A type : Receive(type) => Received \in Message /\ Received.type = type
  BY TakeFlight
<1>7. \A e \in Event : e.type # "NO_MORE_STATIC_JOB" => Prolongs(outbox, Append(outbox, e))
  BY <1>1, AppendProlongs
<1>8. CASE server_on_event_occurred
  <2>1. Ev("EXTERNAL_EVENT", Received.about) \in Event
    BY <1>5, <1>6, <1>8, MessageKinds DEF server_on_event_occurred
  <2>2. Prolongs(outbox, outbox')
    BY <1>5, <1>7, <1>8, <2>1 DEF server_on_event_occurred
  <2> QED
    BY <1>3, <1>4, <1>8, <2>2 DEF server_on_event_occurred, jobVars
<1>9. CASE server_on_job_completed
  <2>1. Ev("JOB_COMPLETED", Received.about) \in Event
    BY <1>5, <1>6, <1>9, MessageKinds DEF server_on_job_completed
  <2>2. Prolongs(outbox, outbox')
    BY <1>5, <1>7, <1>9, <2>1 DEF server_on_job_completed
  <2> QED
    BY <1>3, <1>4, <1>9, <2>2 DEF server_on_job_completed
<1>10. CASE server_on_killing_done
  <2>1. Received.about \in SUBSET Job /\ ReallyKilled(Received.about) \in SUBSET Job
    BY <1>6, <1>10, MessageKinds DEF server_on_killing_done, ReallyKilled
  <2>2. PICK d \in Event : d = Ev("JOB_KILLED", Received.about) /\ d.type = "JOB_KILLED"
    BY <1>5, <2>1
  <2>3. PICK c \in Event : c = Ev("JOB_COMPLETED", ReallyKilled(Received.about)) /\ c.type = "JOB_COMPLETED"
    BY <1>5, <2>1
  <2>4. PICK o \in {outbox, Append(outbox, c)} : outbox' = Append(o, d)
    BY <1>1, <1>10, <2>1, <2>2, <2>3, KillingAppends DEF server_on_killing_done
  <2>5. Append(outbox, c) \in Seq(Event)
    BY <1>1
  <2>6. Prolongs(outbox, o) /\ Prolongs(o, Append(o, d))
    BY <1>1, <1>2, <1>7, <2>2, <2>3, <2>5, AppendProlongs
  <2>7. Prolongs(outbox, outbox')
    BY <2>4, <2>6 DEF Prolongs
  <2> QED
    BY <1>3, <1>4, <1>10, <2>7 DEF server_on_killing_done
<1>11. CASE server_on_register_job
  <2>1. Ev("JOB_SUBMITTED", Received.about) \in Event
    BY <1>5, <1>6, <1>11, MessageKinds DEF server_on_register_job
  <2>2. Prolongs(outbox, outbox')
    BY <1>2, <1>5, <1>7, <1>11, <2>1 DEF server_on_register_job
  <2> QED
    BY <1>3, <1>4, <1>11, <2>2 DEF server_on_register_job, jobVars
<1>12. CASE server_on_waiting_done
  <2>1. Prolongs(outbox, outbox')
    BY <1>5, <1>7, <1>12 DEF server_on_waiting_done
  <2> QED
    BY <1>3, <1>4, <1>12, <2>1 DEF server_on_waiting_done, jobVars
<1>13. CASE server_on_execute_job \/ server_on_reject_job
  <2>1. \A j \in Received.about : state[j] = "SUBMITTED"
    BY <1>13 DEF server_on_execute_job, server_on_reject_job, Assert
  <2>2. StatesGoOn /\ outbox' = outbox
    BY <1>13, <2>1 DEF server_on_execute_job, server_on_reject_job, StatesGoOn, bufferVars
  <2> QED
    BY <1>2, <1>3, <1>13, <2>2 DEF server_on_execute_job, server_on_reject_job
<1>14. CASE server_on_submitter_hello \/ server_on_kill_jobs \/ server_on_call_me_later
            \/ server_on_end_dynamic_register \/ server_on_continue_dynamic_register
            \/ server_on_sched_ready
  <2>1. UNCHANGED <<state, outbox>>
    BY <1>14 DEF server_on_submitter_hello, server_on_kill_jobs, server_on_call_me_later,
       server_on_end_dynamic_register, server_on_continue_dynamic_register, server_on_sched_ready,
       jobVars, bufferVars
  <2> QED
    BY <1>2, <1>3, <1>4, <1>14, <2>1 DEF server_on_submitter_hello, server_on_kill_jobs,
       server_on_call_me_later, server_on_end_dynamic_register,
       server_on_continue_dynamic_register, server_on_sched_ready
<1> QED
  BY <1>8, <1>9, <1>10, <1>11, <1>12, <1>13, <1>14 DEF Handle, StaticStep

LEMMA OtherStepsSubmitNone ==
  ASSUME TypeOK, JobPhases, LinkInv, Next, ~StaticStep, ~aborted'
  PROVE  NoBatch
<1>1. Prolongs(outbox, outbox)
  BY DEF Prolongs
<1>2. ASSUME UNCHANGED <<todo, told, outbox>>, StatesGoOn, Keeps({"JOB_SUBMITTED"}),
             \A j \in Job : view[j] # "unknown" => view'[j] # "unknown"
      PROVE  NoBatch
  BY <1>1, <1>2 DEF NoBatch
<1>3. UNCHANGED state => StatesGoOn
  BY DEF StatesGoOn
<1>4. ASSUME NEW s \in Submitter, SubmitterHello(s) \/ SubmitterBye(s) PROVE NoBatch
  <2>1. /\ UNCHANGED <<todo, told, outbox, state, view, held>>
        /\ Put(Msg("SUBMITTER_HELLO", s, {})) \/ Put(Msg("SUBMITTER_BYE", s, {}))
    BY <1>4 DEF SubmitterHello, SubmitterBye, submitterUnchanged, jobVars, schedVars, bufferVars,
       readerActor
  <2>2. /\ Msg("SUBMITTER_HELLO", s, {}) \in Message /\ Msg("SUBMITTER_BYE", s, {}) \in Message
        /\ \A type, about : Msg(type, s, about).type = type
    BY DEF Msg, Message
  <2>3. PICK n \in Message : Put(n) /\ n.type \notin {"JOB_SUBMITTED"}
    BY <2>1, <2>2
  <2>4. Keeps({"JOB_SUBMITTED"})
    BY <2>1, <2>3, PutKeeps
  <2> QED
    BY <1>2, <1>3, <2>1, <2>4
<1>5. CASE ExecutionStep
  <2>1. Keeps({"JOB_SUBMITTED"})
    BY <1>5, ExecutionKeeps DEF ExecutionStep
  <2>2. UNCHANGED <<todo, told, outbox, view>>
    BY <1>5 DEF ExecutionStep, JobStarts, JobCancelled, JobEnds, killer_process, WaiterWakes,
       executionUnchanged, submitterActors, schedVars, bufferVars
  <2>3. StatesGoOn
    <3>1. ASSUME NEW j \in Job, NEW outcome \in OrdinaryEnds \cup {"COMPLETED_KILLED"}, state[j] = "RUNNING",
                 state' = [state EXCEPT ![j] = outcome]
          PROVE  StatesGoOn
      BY <3>1 DEF StatesGoOn, OrdinaryEnds, TypeOK, JobsTypeOK
    <3>2. \A j \in Job : actor[j] \in {"running", "cancelled"} => state[j] = "RUNNING"
      BY DEF JobPhases
    <3>3. ASSUME NEW j \in Job, NEW outcome \in Outcome, JobEnds(j, outcome) PROVE StatesGoOn
      BY <3>1, <3>2, <3>3, ConstantsAssumption DEF JobEnds
    <3>4. ASSUME NEW j \in Job, JobCancelled(j) PROVE StatesGoOn
      BY <3>1, <3>2, <3>4 DEF JobCancelled
    <3>5. ASSUME NEW S \in killers, NEW inPtask \in SUBSET S, killer_process(S, inPtask)
          PROVE  StatesGoOn
      BY <3>5 DEF killer_process, RunningJobs, StatesGoOn
    <3> QED
      BY <1>3, <1>5, <3>3, <3>4, <3>5 DEF ExecutionStep, JobStarts, WaiterWakes, jobVars
  <2> QED
    BY <1>2, <2>1, <2>2, <2>3
<1>6. CASE SchedulerStep
  <2>1. Keeps({"JOB_SUBMITTED"})
    BY <1>6, SchedulerKeeps DEF SchedulerStep
  <2>2. UNCHANGED <<todo, told, outbox>>
    BY <1>6 DEF SchedulerStep, handle_execute_job, handle_reject_job, handle_kill_job,
         handle_call_me_later, handle_register_job, NotifyRegistrationFinished,
         NotifyContinueRegistration, ReplyApplied, Decide, Apply, send_message_at_time,
         linkUnchanged, submitterActors, bufferVars
  <2>3. StatesGoOn
    <3>1. ASSUME NEW j \in DynJob, handle_register_job(j) PROVE StatesGoOn
      BY <3>1 DEF handle_register_job, StatesGoOn, TypeOK, JobsTypeOK
    <3> QED
      BY <1>3, <1>6, <3>1 DEF SchedulerStep, handle_execute_job, handle_reject_job, handle_kill_job,
         handle_call_me_later, NotifyRegistrationFinished, NotifyContinueRegistration,
         ReplyApplied, send_message_at_time, jobVars
  <2>4. \A j \in Job : view[j] # "unknown" => view'[j] # "unknown"
    <3>1. view \in [Job -> {"unknown", "waiting", "running", "done"}]
      BY DEF TypeOK, SchedulerTypeOK
    <3> QED
      BY <1>6, <3>1 DEF SchedulerStep, handle_execute_job, handle_reject_job, handle_kill_job,
         handle_call_me_later, handle_register_job, NotifyRegistrationFinished,
         NotifyContinueRegistration, ReplyApplied, send_message_at_time
  <2> QED
    BY <1>2, <2>1, <2>2, <2>3, <2>4
<1>7. CASE Deliver \/ ServerLoops \/ ServerLeavesLoop
  <2>1. Keeps({"JOB_SUBMITTED"})
    BY <1>7, LoopKeeps
  <2>2. UNCHANGED <<todo, told, outbox, view, state>>
    BY <1>7 DEF Deliver, ServerLoops, ServerLeavesLoop, checkUnchanged, jobVars, submitterActors,
       schedVars, bufferVars
  <2> QED
    BY <1>2, <1>3, <2>1, <2>2
<1> QED
  BY <1>4, <1>5, <1>6, <1>7, HandlersSubmitNone DEF Next, SubmitterStep, ServerStep, StaticStep

LEMMA StaticsHold == Spec => []Statics
<1>1. Init => Statics
  <2> SUFFICES ASSUME Init PROVE StaticInv
    BY DEF Statics
  <2>1. /\ Len(mailbox) = 0 /\ Len(held) = 0 /\ Len(outbox) = 0 /\ told = {}
        /\ \A j \in StaticJob : state[j] = "NOT_SUBMITTED" /\ j \in todo[Owner[j]]
        /\ \A j \in DynJob : state[j] = "ABSENT"
    BY ConstantsAssumption DEF Init, Job
  <2>2. Flight = {}
    BY <2>1 DEF Flight
  <2> QED
    BY <2>1, <2>2 DEF StaticInv, OwnBatch, OnTheirWay, NoMoreStaticJobIsTrue
<1>2. TypeOK /\ TypeOK' /\ LifeCycle /\ Link /\ Submitters /\ Statics /\ [Next]_vars => Statics'
  <2> SUFFICES ASSUME TypeOK, TypeOK', LifeCycle, Link, Submitters, Statics, [Next]_vars, ~aborted'
               PROVE  StaticInv'
    BY DEF Statics
  <2>1. CASE Next
    <3>1. JobPhases /\ EventsAreTrue /\ LinkInv /\ SubmitterInv /\ StaticInv
      BY <2>1, StepsOfTheLiving DEF LifeCycle, Link, Submitters, Statics
    <3>2. CASE StaticStep
      BY <3>1, <3>2, BatchKeepsStatics, SubmissionKeepsStatics, ByeKeepsStatics, SendingKeepsStatics
         DEF StaticStep
    <3>3. CASE ~StaticStep
      BY <2>1, <3>1, <3>3, OtherStepsSubmitNone, NoBatchKeepsStatics
    <3> QED
      BY <3>2, <3>3
  <2>2. CASE UNCHANGED vars
    <3>1. UNCHANGED <<mailbox, held, state, view, todo, told, outbox, aborted>>
      BY <2>2 DEF vars, jobVars, readerActor, submitterActors, schedVars, bufferVars
    <3>2. StaticInv
      BY <3>1 DEF Statics
    <3>3. NoBatch
      BY <3>1, StillKeeps DEF NoBatch, StatesGoOn, Prolongs
    <3> QED
      BY <3>2, <3>3, NoBatchKeepsStatics
  <2> QED
    BY <2>1, <2>2
<1> QED
  BY <1>1, <1>2, TypeCorrect, LifeCycleHolds, LinkHolds, SubmittersHold, PTL DEF Spec

(***************************************************************************)
(* protocol.rst, no_more_static_job_to_submit: whatever the order in which *)
(* the submitters' messages arrive, server_on_submitter_bye announces that *)
(* there are no more static jobs behind the JOB_SUBMITTED event of every   *)
(* one of them, for any number of workloads.                               *)
(***************************************************************************)
THEOREM NoMoreStaticJobStaysTrue == Spec => [](NoAbort => NoMoreStaticJobIsTrue)
<1>1. Statics => (NoAbort => NoMoreStaticJobIsTrue)
  BY DEF Statics, StaticInv, NoAbort
<1> QED
  BY <1>1, StaticsHold, PTL

----------------------------------------------------------------------------
(***************************************************************************)
(* The dynamic registration. The scheduler's last word on it is in flight, *)
(* behind the word before, or has reached the server's flag.               *)
(***************************************************************************)
Note     == {"END_DYNAMIC_REGISTER", "CONTINUE_DYNAMIC_REGISTER"}
LastNote == IF reg_over THEN "END_DYNAMIC_REGISTER" ELSE "CONTINUE_DYNAMIC_REGISTER"

\* Two notes in flight are different, and the second is the last one.
NoteOrder(last) ==
  {p \in Message \X Message :
     p[1].type \in Note /\ p[2].type \in Note => p[1].type # p[2].type /\ p[2].type = last}

NotesAreTrue ==
  /\ InOrder(NoteOrder(LastNote))
  /\ \A type \in Note :
       /\ \E m \in Flight : m.type = type
       /\ \A m \in Flight : m.type \in Note => m.type = type
       => type = LastNote
  /\ (\A m \in Flight : m.type \notin Note) => (registration_finished <=> reg_over)

\* A scheduler that never takes its word back has always been right.
WordIsKept ==
  ~MayContinue => /\ \A m \in Flight : m.type # "CONTINUE_DYNAMIC_REGISTER"
                  /\ registration_finished => reg_over

RegisterInv == NotesAreTrue /\ WordIsKept

Registrations == ~aborted => RegisterInv

\* When the REQ-REP actor runs, its last message is the one being handled, if any.
LEMMA SchedulerSpeaksAlone ==
  ASSUME TypeOK, LinkInv, reader = "run"
  PROVE  /\ held = <<>>
         /\ \A i \in 1..Len(mailbox) : mailbox[i].from = "sched" => i = 1
<1>1. \A i \in 1..Len(mailbox) : Undelivered(i) => mailbox[i].from # "sched"
  BY DEF LinkInv, SendersWait
<1> QED
  BY <1>1 DEF LinkInv, ReaderHolds, Undelivered

\* The scheduler says the contrary of its last word.
LEMMA NotifyingKeepsRegistrations ==
  ASSUME TypeOK, LinkInv, RegisterInv, NEW type \in Note, Apply(type, {}),
         type # LastNote, type = LastNote', type = "CONTINUE_DYNAMIC_REGISTER" => MayContinue
  PROVE  RegisterInv'
<1>1. PICK n \in Message : n = Msg(type, "sched", {})
  BY RepliesAreMessages DEF Note
<1>2. n.type = type
  BY <1>1 DEF Msg
<1>3. /\ held' = <<n>> /\ UNCHANGED <<mailbox, registration_finished>> /\ held = <<>>
      /\ \A i \in 1..Len(mailbox) : mailbox[i].from = "sched" => i = 1
  BY <1>1, SchedulerSpeaksAlone DEF Apply, linkUnchanged
<1>4. /\ Flight' = Flight \cup {n}
      /\ \A R : InOrder(R) /\ (\A m \in Flight : <<m, n>> \in R) => InOrder(R)'
  BY <1>3, HoldFlight
<1>5. \A m \in Message : m.type \in Note => m.from = "sched"
  BY DEF Message, Note
<1>6. \A i \in 1..Len(mailbox) : mailbox[i] \in Message /\ (mailbox[i].type \in Note => i = 1)
  <2>1. \A i \in 1..Len(mailbox) : mailbox[i] \in Message
    BY DEF TypeOK, MailTypeOK
  <2> QED
    BY <1>3, <1>5, <2>1
<1>7. InOrder(NoteOrder(type))
  <2>1. Len(held) = 0
    BY <1>3
  <2>2. ASSUME NEW i \in 1..Len(mailbox), NEW k \in 1..Len(mailbox), i < k
        PROVE  <<mailbox[i], mailbox[k]>> \in NoteOrder(type)
    <3>1. k # 1
      BY <2>2
    <3> QED
      BY <1>6, <3>1 DEF NoteOrder
  <2> QED
    BY <2>1, <2>2 DEF InOrder
<1>8. \A m \in Flight : m \in Message /\ (m.type \in Note => m.type = LastNote)
  <2>1. \A m \in Flight : m.type \in Note => m = mailbox[1]
    BY <1>3, <1>6 DEF Flight
  <2>2. ASSUME NEW m \in Flight, m.type \in Note PROVE m.type = LastNote
    BY <2>1, <2>2 DEF RegisterInv, NotesAreTrue
  <2> QED
    BY <2>2, FlightIsTyped
<1>9. \A m \in Flight : <<m, n>> \in NoteOrder(type)
  BY <1>2, <1>8 DEF NoteOrder
<1>10. InOrder(NoteOrder(LastNote))'
  <2>1. InOrder(NoteOrder(type))'
    BY <1>4, <1>7, <1>9
  <2> QED
    BY <2>1 DEF InOrder
<1>11. NotesAreTrue'
  BY <1>2, <1>4, <1>10 DEF NotesAreTrue
<1>12. WordIsKept'
  <2>1. ASSUME ~MayContinue PROVE reg_over' /\ \A m \in Flight' : m.type # "CONTINUE_DYNAMIC_REGISTER"
    BY <1>2, <1>4, <2>1 DEF RegisterInv, WordIsKept, LastNote, Note
  <2> QED
    BY <2>1 DEF WordIsKept
<1> QED
  BY <1>11, <1>12 DEF RegisterInv

\* The server hears the scheduler's word: the last one, or another one is behind.
LEMMA NotedKeepsRegistrations ==
  ASSUME TypeOK, RegisterInv, NEW type \in Note, Receive(type),
         registration_finished' <=> type = "END_DYNAMIC_REGISTER"
  PROVE  RegisterInv'
<1>1. UNCHANGED reg_over
  BY DEF Receive, schedVars
<1>2. LastNote' = LastNote
  BY <1>1 DEF LastNote
<1>3. /\ Flight' \subseteq Flight /\ Flight \subseteq Flight' \cup {Received} /\ Received \in Flight
      /\ Received.type = type
      /\ \A R : InOrder(R) => InOrder(R)' /\ \A m \in Flight' : <<Received, m>> \in R
  BY TakeFlight
<1>4. PICK last : last = LastNote
  OBVIOUS
<1>5. InOrder(NoteOrder(last))' /\ \A m \in Flight' : <<Received, m>> \in NoteOrder(last)
  <2>1. InOrder(NoteOrder(last))
    BY <1>4 DEF RegisterInv, NotesAreTrue
  <2> QED
    BY <1>3, <2>1
<1>6. InOrder(NoteOrder(LastNote))'
  BY <1>2, <1>4, <1>5 DEF InOrder
<1>7. \A m \in Flight' : m.type \in Note => m.type # type /\ m.type = last
  BY <1>3, <1>5 DEF NoteOrder
<1>8. (\A m \in Flight' : m.type \notin Note) => type = LastNote
  BY <1>3 DEF RegisterInv, NotesAreTrue
<1>9. (\A m \in Flight' : m.type \notin Note) => (registration_finished' <=> reg_over')
  BY <1>1, <1>8 DEF LastNote, Note
<1>10. NotesAreTrue'
  BY <1>2, <1>4, <1>6, <1>7, <1>9 DEF NotesAreTrue
<1>11. WordIsKept'
  <2>1. ASSUME ~MayContinue
        PROVE  /\ \A m \in Flight' : m.type # "CONTINUE_DYNAMIC_REGISTER"
               /\ type = "END_DYNAMIC_REGISTER" /\ type = LastNote
    <3>1. \A m \in Flight : m.type # "CONTINUE_DYNAMIC_REGISTER"
      BY <2>1 DEF RegisterInv, WordIsKept
    <3>2. type = "END_DYNAMIC_REGISTER" /\ \A m \in Flight' : m.type \notin Note
      BY <1>3, <1>7, <3>1 DEF Note
    <3> QED
      BY <1>3, <1>8, <3>1, <3>2
  <2> QED
    BY <1>1, <2>1 DEF WordIsKept, LastNote
<1> QED
  BY <1>10, <1>11 DEF RegisterInv

\* A step that has nothing to do with the registration.
NoNote == UNCHANGED <<reg_over, registration_finished>> /\ Keeps(Note)

LEMMA NoNoteKeepsRegistrations ==
  ASSUME TypeOK, TypeOK', RegisterInv, NoNote
  PROVE  RegisterInv'
<1>1. UNCHANGED <<reg_over, registration_finished, LastNote>>
  BY DEF NoNote, LastNote
<1>2. \A m \in Message : m.type \in Note => (m \in Flight' <=> m \in Flight)
  BY DEF NoNote, Keeps
<1>3. Flight \subseteq Message /\ Flight' \subseteq Message
  BY DEF TypeOK, MailTypeOK, Flight
<1>4. \A m : m.type \in Note => (m \in Flight' <=> m \in Flight)
  BY <1>2, <1>3
<1>5. InOrder(NoteOrder(LastNote))'
  <2>1. PICK last : last = LastNote
    OBVIOUS
  <2>2. \A m, n \in Message : m.type \notin Note \/ n.type \notin Note => <<m, n>> \in NoteOrder(last)
    BY DEF NoteOrder
  <2>3. InOrder(NoteOrder(last))
    BY <2>1 DEF RegisterInv, NotesAreTrue
  <2>4. InOrder(NoteOrder(last))'
    BY <2>2, <2>3 DEF NoNote, Keeps
  <2> QED
    BY <1>1, <2>1, <2>4 DEF InOrder
<1>6. NotesAreTrue'
  BY <1>1, <1>4, <1>5 DEF RegisterInv, NotesAreTrue
<1>7. WordIsKept'
  BY <1>1, <1>4 DEF RegisterInv, WordIsKept, Note
<1> QED
  BY <1>6, <1>7 DEF RegisterInv

NoteStep ==
  \/ NotifyRegistrationFinished \/ NotifyContinueRegistration
  \/ server_on_end_dynamic_register \/ server_on_continue_dynamic_register

LEMMA NoteStepsKeepRegistrations ==
  ASSUME TypeOK, LinkInv, RegisterInv, NoteStep
  PROVE  RegisterInv'
<1>1. CASE NotifyRegistrationFinished
  <2>1. ~reg_over /\ reg_over' /\ Apply("END_DYNAMIC_REGISTER", {})
    BY <1>1 DEF NotifyRegistrationFinished, Decide
  <2> QED
    BY <2>1, NotifyingKeepsRegistrations DEF LastNote, Note
<1>2. CASE NotifyContinueRegistration
  <2>1. MayContinue /\ reg_over /\ ~reg_over' /\ Apply("CONTINUE_DYNAMIC_REGISTER", {})
    BY <1>2 DEF NotifyContinueRegistration, Decide
  <2> QED
    BY <2>1, NotifyingKeepsRegistrations DEF LastNote, Note
<1>3. CASE server_on_end_dynamic_register
  BY <1>3, NotedKeepsRegistrations DEF server_on_end_dynamic_register, Note
<1>4. CASE server_on_continue_dynamic_register
  BY <1>4, NotedKeepsRegistrations DEF server_on_continue_dynamic_register, Note
<1> QED
  BY <1>1, <1>2, <1>3, <1>4 DEF NoteStep

LEMMA OtherStepsNoteNone ==
  ASSUME TypeOK, LinkInv, Next, ~NoteStep
  PROVE  NoNote
<1>1. CASE \E s \in Submitter : SubmitterStep(s)
  <2>1. Keeps(Note)
    BY <1>1, SubmitterKeeps DEF SubmitterMail, Note
  <2> QED
    BY <1>1, <2>1 DEF NoNote, SubmitterStep, SubmitterHello, SubmitBatch, SubmitterBye,
       submitterUnchanged, schedVars
<1>2. CASE ExecutionStep
  <2>1. Keeps(Note)
    BY <1>2, ExecutionKeeps DEF ExecutionStep, Note
  <2> QED
    BY <1>2, <2>1 DEF NoNote, ExecutionStep, JobStarts, JobCancelled, JobEnds, killer_process,
       WaiterWakes, executionUnchanged, schedVars
<1>3. CASE SchedulerStep
  <2>1. Keeps(Note)
    BY <1>3, SchedulerKeeps DEF SchedulerStep, NoteStep, Note
  <2> QED
    BY <1>3, <2>1 DEF NoNote, SchedulerStep, NoteStep, handle_execute_job, handle_reject_job,
         handle_kill_job, handle_call_me_later, handle_register_job, ReplyApplied, Decide, Apply,
         send_message_at_time, linkUnchanged
<1>4. CASE Deliver \/ ServerSendsEvents \/ ServerEndsSimulation \/ ServerLoops \/ ServerLeavesLoop
  <2>1. Keeps(Note)
    BY <1>4, LoopKeeps
  <2> QED
    BY <1>4, <2>1 DEF NoNote, Deliver, ServerSendsEvents, ServerEndsSimulation, ServerLoops,
       ServerLeavesLoop, checkUnchanged, schedVars
<1>5. CASE Handle
  <2>1. ASSUME NEW type, type \notin Note, Receive(type), UNCHANGED registration_finished PROVE NoNote
    BY <2>1, TakeKeeps DEF NoNote, Receive, schedVars
  <2> QED
    BY <1>5, <2>1 DEF Handle, NoteStep, server_on_submitter_hello, server_on_submitter_bye,
       server_on_job_submitted, server_on_event_occurred, server_on_job_completed,
       server_on_killing_done, server_on_register_job, server_on_execute_job, server_on_reject_job,
       server_on_kill_jobs, server_on_call_me_later, server_on_waiting_done,
       server_on_sched_ready, Note, submitVars
<1> QED
  BY <1>1, <1>2, <1>3, <1>4, <1>5 DEF Next, ServerStep

LEMMA RegistrationsHold == Spec => []Registrations
<1>1. Init => Registrations
  <2> SUFFICES ASSUME Init PROVE RegisterInv
    BY DEF Registrations
  <2>1. Len(mailbox) = 0 /\ Len(held) = 0 /\ ~reg_over /\ ~registration_finished
    BY DEF Init
  <2>2. Flight = {} /\ InOrder(NoteOrder(LastNote))
    BY <2>1 DEF Flight, InOrder
  <2> QED
    BY <2>1, <2>2 DEF RegisterInv, NotesAreTrue, WordIsKept
<1>2. TypeOK /\ TypeOK' /\ Link /\ Registrations /\ [Next]_vars => Registrations'
  <2> SUFFICES ASSUME TypeOK, TypeOK', Link, Registrations, [Next]_vars, ~aborted' PROVE RegisterInv'
    BY DEF Registrations
  <2>1. CASE Next
    <3>1. LinkInv /\ RegisterInv
      BY <2>1, StepsOfTheLiving DEF Link, Registrations
    <3> QED
      BY <2>1, <3>1, NoteStepsKeepRegistrations, OtherStepsNoteNone, NoNoteKeepsRegistrations
  <2>2. CASE UNCHANGED vars
    <3>1. UNCHANGED <<mailbox, held, reg_over, registration_finished, aborted>>
      BY <2>2 DEF vars, readerActor, schedVars
    <3>2. NoNote /\ RegisterInv
      BY <3>1, StillKeeps DEF NoNote, Registrations
    <3> QED
      BY <3>2, NoNoteKeepsRegistrations
  <2> QED
    BY <2>1, <2>2
<1> QED
  BY <1>1, <1>2, TypeCorrect, LinkHolds, PTL DEF Spec

----------------------------------------------------------------------------
(***************************************************************************)
(* A running job has an actor. A job whose actor was killed is complete.   *)
(***************************************************************************)
RunningHaveActors ==
  \A j \in Job : state[j] = "RUNNING" => actor[j] \in {"created", "running", "cancelled"}

Runs == ~aborted => RunningHaveActors

LEMMA CompletionKeepsRunning ==
  ASSUME TypeOK, JobPhases, KillInv, RunningHaveActors, server_on_job_completed
  PROVE  RunningHaveActors'
<1>1. Receive("JOB_COMPLETED") /\ UNCHANGED state
  BY DEF server_on_job_completed
<1>2. PICK j \in Job : Received.about = {j} /\ actor[j] = "notifying"
  <2>1. Received \in Flight /\ Received.type = "JOB_COMPLETED"
    BY <1>1, TakeFlight
  <2> QED
    BY <2>1 DEF KillInv, Ending
<1>3. state[j] # "RUNNING"
  BY <1>2 DEF JobPhases, OrdinaryEnds
<1>4. actor' = [k \in Job |-> IF k \in Received.about THEN "dead" ELSE actor[k]]
  BY DEF server_on_job_completed
<1> QED
  BY <1>1, <1>2, <1>3, <1>4 DEF RunningHaveActors

LEMMA NextKeepsRunning ==
  ASSUME TypeOK, JobPhases, KillInv, RunningHaveActors, Next
  PROVE  RunningHaveActors'
<1>1. CASE UNCHANGED <<state, actor>>
  BY <1>1 DEF RunningHaveActors
<1>2. ASSUME NEW j \in Job, JobStarts(j) PROVE RunningHaveActors'
  BY <1>2 DEF JobStarts, RunningHaveActors, TypeOK, JobsTypeOK
<1>3. ASSUME NEW j \in Job, JobCancelled(j) PROVE RunningHaveActors'
  BY <1>3 DEF JobCancelled, RunningHaveActors, TypeOK, JobsTypeOK
<1>4. ASSUME NEW j \in Job, NEW outcome \in Outcome, JobEnds(j, outcome) PROVE RunningHaveActors'
  <2>1. outcome # "RUNNING"
    BY ConstantsAssumption DEF OrdinaryEnds
  <2> QED
    BY <1>4, <2>1 DEF JobEnds, RunningHaveActors, TypeOK, JobsTypeOK
<1>5. ASSUME NEW S \in killers, NEW inPtask \in SUBSET S, killer_process(S, inPtask)
      PROVE  RunningHaveActors'
  BY <1>5 DEF killer_process, RunningHaveActors
<1>6. ASSUME NEW w \in Waiter, WaiterWakes(w) PROVE UNCHANGED <<state, actor>>
  BY <1>6 DEF WaiterWakes, jobVars
<1>7. ASSUME NEW s \in Submitter, SubmitterStep(s) PROVE UNCHANGED <<state, actor>>
  BY <1>7 DEF SubmitterStep, SubmitterHello, SubmitBatch, SubmitterBye, submitterUnchanged, jobVars
<1>8. ASSUME NEW j \in DynJob, handle_register_job(j) PROVE RunningHaveActors'
  BY <1>8 DEF handle_register_job, RunningHaveActors, TypeOK, JobsTypeOK
<1>9. ASSUME SchedulerStep, ~ \E j \in DynJob : handle_register_job(j) PROVE UNCHANGED <<state, actor>>
  BY <1>9 DEF SchedulerStep, handle_execute_job, handle_reject_job, handle_kill_job,
     handle_call_me_later, NotifyRegistrationFinished, NotifyContinueRegistration, ReplyApplied,
     send_message_at_time, jobVars
<1>10. ASSUME Deliver \/ ServerSendsEvents \/ ServerEndsSimulation \/ ServerLoops \/ ServerLeavesLoop
       PROVE  UNCHANGED <<state, actor>>
  BY <1>10 DEF Deliver, ServerSendsEvents, ServerEndsSimulation, ServerLoops, ServerLeavesLoop,
     checkUnchanged, jobVars
<1>11. ASSUME Handle PROVE RunningHaveActors'
  <2>1. CASE server_on_job_completed
    BY <2>1, CompletionKeepsRunning
  <2>2. CASE server_on_execute_job
    BY <2>2 DEF server_on_execute_job, RunningHaveActors
  <2>3. CASE server_on_reject_job
    BY <2>3 DEF server_on_reject_job, RunningHaveActors
  <2>4. CASE server_on_job_submitted
    BY <2>4 DEF server_on_job_submitted, RunningHaveActors
  <2>5. CASE ~(server_on_job_completed \/ server_on_execute_job \/ server_on_reject_job
               \/ server_on_job_submitted)
    <3>1. UNCHANGED <<state, actor>>
      BY <1>11, <2>5 DEF Handle, server_on_submitter_hello, server_on_submitter_bye,
         server_on_event_occurred, server_on_killing_done, server_on_register_job,
         server_on_kill_jobs, server_on_call_me_later, server_on_waiting_done,
         server_on_end_dynamic_register, server_on_continue_dynamic_register,
         server_on_sched_ready, jobVars
    <3> QED
      BY <1>1, <3>1
  <2> QED
    BY <2>1, <2>2, <2>3, <2>4, <2>5
<1> QED
  BY <1>1, <1>2, <1>3, <1>4, <1>5, <1>6, <1>7, <1>8, <1>9, <1>10, <1>11
     DEF Next, ExecutionStep, ServerStep

LEMMA RunsHold == Spec => []Runs
<1>1. Init => Runs
  BY DEF Init, Runs, RunningHaveActors
<1>2. TypeOK /\ LifeCycle /\ Kills /\ Runs /\ [Next]_vars => Runs'
  <2> SUFFICES ASSUME TypeOK, LifeCycle, Kills, Runs, [Next]_vars, ~aborted' PROVE RunningHaveActors'
    BY DEF Runs
  <2>1. CASE Next
    BY <2>1, StepsOfTheLiving, NextKeepsRunning DEF LifeCycle, Kills, Runs
  <2>2. CASE UNCHANGED vars
    BY <2>2 DEF vars, jobVars, Runs, RunningHaveActors
  <2> QED
    BY <2>1, <2>2
<1> QED
  BY <1>1, <1>2, TypeCorrect, LifeCycleHolds, KillsHold, PTL DEF Spec

----------------------------------------------------------------------------
(***************************************************************************)
(* Once SIMULATION_ENDS has been sent, nothing is left and nothing comes   *)
(* back: only the scheduler's last reply, an empty one, goes through.      *)
(***************************************************************************)
NothingLeft ==
  /\ \A s \in Submitter : submitter[s] = "gone" /\ todo[s] = {}
  /\ \A j \in Job : state[j] = "ABSENT" \/ IsComplete(state[j])
  /\ \A j \in Job : actor[j] \in {"none", "dead"}
  /\ killers = {} /\ sleeping = {}
  /\ RegistrationEnabled => reg_over
  /\ \A m \in Machine : computing[m] = {}
  /\ \A m \in Flight : m.type = "SCHED_READY"
  /\ outbox = <<>> /\ "SIMULATION_ENDS" \in told
  /\ nb_running = 0 /\ nb_killers = 0 /\ nb_waiters = 0 /\ nb_completed = nb_submitted
  /\ unacked = 0 \/ MayKillAgain

EndInv == (end_ack => end_sent /\ sched_ready) /\ (end_sent => NothingLeft)

EndState == ~aborted => EndInv

\* What does not change any more after SIMULATION_ENDS.
settledVars == <<state, actor, alloc, view, computing, submitter, todo, killers, sleeping,
                 kill_asked, reg_over, outbox, told, unacked, jobCounters, actorCounts, end_sent>>

LEMMA ServerHandlesTheLastReady ==
  ASSUME TypeOK, NothingLeft, Handle
  PROVE  server_on_sched_ready /\ Flight' \subseteq Flight
<1>1. \A type : Receive(type) => type = "SCHED_READY" /\ Flight' \subseteq Flight
  BY TakeFlight DEF NothingLeft
<1> QED
  BY <1>1 DEF Handle, server_on_submitter_hello, server_on_submitter_bye, server_on_job_submitted,
     server_on_event_occurred, server_on_job_completed, server_on_killing_done,
     server_on_register_job, server_on_execute_job, server_on_reject_job, server_on_kill_jobs,
     server_on_call_me_later, server_on_waiting_done, server_on_end_dynamic_register,
     server_on_continue_dynamic_register, server_on_sched_ready

LEMMA SchedulerAnswersTheEnd ==
  ASSUME TypeOK, LinkInv, NothingLeft, SchedulerStep
  PROVE  /\ ReplyApplied \/ send_message_at_time
         /\ \A m \in Flight' : m.type = "SCHED_READY"
<1>1. ReplyApplied \/ send_message_at_time
  BY DEF NothingLeft, SchedulerStep, handle_execute_job, handle_reject_job, handle_kill_job,
     handle_call_me_later, handle_register_job, NotifyRegistrationFinished,
     NotifyContinueRegistration, Decide
<1>2. CASE ReplyApplied
  <2>1. Apply("SCHED_READY", {})
    BY <1>2 DEF ReplyApplied
  <2>2. /\ reader = "run" /\ UNCHANGED mailbox
        /\ held' = <<Msg("SCHED_READY", "sched", {})>>
    BY <2>1 DEF Apply
  <2>3. Msg("SCHED_READY", "sched", {}) \in Message
    BY RepliesAreMessages
  <2>4. held = <<>>
    BY <2>2, SchedulerSpeaksAlone
  <2>5. Flight' = Flight \cup {Msg("SCHED_READY", "sched", {})}
    BY <2>2, <2>3, <2>4, HoldFlight
  <2> QED
    BY <1>1, <2>5 DEF NothingLeft, Msg
<1>3. CASE send_message_at_time
  <2>1. Len(held) <= 1 /\ mailbox' = mailbox \o held /\ held' = <<>>
    BY <1>3 DEF send_message_at_time, LinkInv, ReaderHolds
  <2>2. Flight' = Flight
    BY <2>1, SendFlight
  <2> QED
    BY <1>1, <2>2 DEF NothingLeft
<1> QED
  BY <1>1, <1>2, <1>3

LEMMA NothingHappensAfterTheEnd ==
  ASSUME TypeOK, LinkInv, EndInv, end_sent, Next
  PROVE  /\ UNCHANGED settledVars
         /\ \A m \in Flight' : m.type = "SCHED_READY"
         /\ end_ack' => sched_ready'
<1> USE DEF settledVars
<1>1. NothingLeft
  BY DEF EndInv
<1>2. ~ \E s \in Submitter : SubmitterStep(s)
  BY <1>1 DEF NothingLeft, SubmitterStep, SubmitterHello, SubmitBatch, SubmitterBye
<1>3. ~ExecutionStep
  BY <1>1 DEF NothingLeft, ExecutionStep, JobStarts, JobCancelled, JobEnds, WaiterWakes
<1>4. CASE SchedulerStep
  <2>1. ReplyApplied \/ send_message_at_time
    BY <1>1, <1>4, SchedulerAnswersTheEnd
  <2>2. UNCHANGED settledVars /\ UNCHANGED <<end_ack, sched_ready>>
    BY <2>1 DEF ReplyApplied, Apply, send_message_at_time, linkUnchanged, jobVars, machineVars,
       loopVars, bufferVars, submitterActors, helperActors
  <2> QED
    BY <1>1, <1>4, <2>2, SchedulerAnswersTheEnd DEF EndInv
<1>5. CASE Deliver
  <2>1. /\ server = "receive" /\ mailbox # <<>> /\ UNCHANGED <<mailbox, held, loopVars>>
        /\ submitter' = [s \in Submitter |->
                     IF s # Received.from THEN submitter[s]
                     ELSE IF Received.type = "SUBMITTER_BYE" THEN "gone" ELSE "run"]
    BY <1>5 DEF Deliver
  <2>2. Received \in Flight
    BY <2>1 DEF Flight, Received, TypeOK, MailTypeOK
  <2>3. Received \in Message /\ Received.type = "SCHED_READY"
    BY <1>1, <2>2, FlightIsTyped DEF NothingLeft
  <2>4. Received.from \notin Submitter
    BY <2>3, FromSubmitters DEF SubmitterMail
  <2>5. submitter \in [Submitter -> {"hello", "blocked", "run", "gone"}]
    BY DEF TypeOK, ActorsTypeOK
  <2>6. submitter' = submitter
    BY <2>1, <2>4, <2>5
  <2>7. Flight' = Flight
    BY <2>1, StillFlight
  <2>8. UNCHANGED settledVars
    BY <1>5, <2>6 DEF Deliver, jobVars, machineVars, loopVars, bufferVars, helperActors, schedVars
  <2> QED
    BY <1>1, <2>1, <2>7, <2>8 DEF NothingLeft, EndInv, loopVars
<1>6. CASE Handle
  <2>1. server_on_sched_ready /\ Flight' \subseteq Flight
    BY <1>1, <1>6, ServerHandlesTheLastReady
  <2>2. UNCHANGED settledVars /\ sched_ready'
    BY <2>1 DEF server_on_sched_ready, Receive, jobVars, machineVars, bufferVars, submitterActors,
       helperActors, schedVars
  <2> QED
    BY <1>1, <2>1, <2>2 DEF NothingLeft
<1>7. ~ServerSendsEvents /\ ~ServerEndsSimulation
  BY <1>1 DEF NothingLeft, ServerSendsEvents, ServerEndsSimulation
<1>8. CASE ServerLoops \/ ServerLeavesLoop
  <2>1. UNCHANGED settledVars /\ UNCHANGED <<mailbox, held, loopVars>>
    BY <1>8 DEF ServerLoops, ServerLeavesLoop, checkUnchanged, machineVars, submitterActors,
       helperActors, readerActor, loopVars
  <2>2. Flight' = Flight
    BY <2>1, StillFlight
  <2> QED
    BY <1>1, <2>1, <2>2 DEF NothingLeft, EndInv, loopVars
<1> QED
  BY <1>2, <1>3, <1>4, <1>5, <1>6, <1>7, <1>8 DEF Next, ServerStep

\* is_simulation_finished is true only when every submitter has gone.
LEMMA SubmittersAreGone ==
  ASSUME TypeOK, SubmitterInv, SubmittersFinished, NEW s \in Submitter
  PROVE  submitter[s] = "gone" /\ todo[s] = {}
<1>1. PICK k \in {"job", "event"} : k = Kind(s)
  BY DEF Kind
<1>2. Cardinality(Finished(k)) = Expected[k]
  BY DEF SubmitterInv, GoodbyesCounted, SubmittersFinished
<1>3. Finished(k) \subseteq {r \in Submitter : Kind(r) = k}
  BY DEF Finished
<1>4. s \in Finished(k)
  BY <1>1, <1>2, <1>3, AllSaidGoodbye
<1>5. Goodbye(s)
  BY <1>4 DEF Finished
<1> QED
  BY <1>5 DEF Goodbye, SubmitterInv, Introduced

\* The counters say so only when every job is complete and has no actor.
LEMMA JobsAreOver ==
  ASSUME TypeOK, JobPhases, DecisionInv, KillInv, CountInv, SubmitterInv, StaticInv,
         Flight = {}, SubmittersFinished, nb_completed = nb_submitted, nb_running = 0,
         NEW j \in Job
  PROVE  /\ state[j] = "ABSENT" \/ IsComplete(state[j])
         /\ actor[j] \in {"none", "dead"}
<1>1. JobsRunning = {}
  <2>1. IsFiniteSet(JobsRunning) /\ Cardinality(JobsRunning) = 0
    BY Balance DEF CountInv
  <2> QED
    BY <2>1, FS_EmptySet
<1>2. CountedJobs = SubmittedJobs
  <2>1. /\ IsFiniteSet(SubmittedJobs) /\ CountedJobs \subseteq SubmittedJobs
        /\ Cardinality(CountedJobs) = Cardinality(SubmittedJobs)
    BY Balance DEF CountInv
  <2> QED
    BY <2>1, FS_Subset
<1>3. ~IsRunning(j)
  BY <1>1 DEF JobsRunning
<1>4. ~Registering(j) /\ ~Submitting(j)
  BY DEF Registering, Submitting
<1>5. state[j] # "NOT_SUBMITTED"
  <2>1. CASE j \in StaticJob
    <3>1. Owner[j] \in Submitter
      BY <2>1, ConstantsAssumption
    <3>2. todo[Owner[j]] = {}
      BY <3>1, SubmittersAreGone
    <3> QED
      BY <1>4, <2>1, <3>2 DEF StaticInv, OnTheirWay
  <2>2. CASE j \in DynJob
    BY <2>2 DEF StaticInv, OnTheirWay
  <2> QED
    BY <2>1, <2>2 DEF Job
<1>6. state[j] = "ABSENT" \/ IsComplete(state[j])
  <2>1. state[j] # "ABSENT" => j \in SubmittedJobs
    BY <1>4, <1>5 DEF SubmittedJobs, IsSubmitted
  <2> QED
    BY <1>2, <2>1 DEF CountedJobs, Counted
<1>7. actor[j] \in {"none", "dead"}
  <2>1. actor[j] \in {"none", "created", "running", "cancelled", "notifying", "dead"}
    BY DEF TypeOK, JobsTypeOK
  <2>2. actor[j] # "notifying"
    BY <1>3 DEF IsRunning, Pending
  <2>3. actor[j] \notin {"created", "running", "cancelled"}
    BY <1>3 DEF IsRunning, JobPhases
  <2> QED
    BY <2>1, <2>2, <2>3
<1> QED
  BY <1>6, <1>7

\* No waiter sleeps, and every kill has been answered.
LEMMA NobodyIsWaiting ==
  ASSUME TypeOK, AckInv, WaitInv, Flight = {}, outbox = <<>>, nb_waiters = 0, nb_killers = 0
  PROVE  sleeping = {} /\ (unacked = 0 \/ MayKillAgain)
<1>1. sleeping = {}
  <2>1. Wakings = {}
    BY DEF Wakings
  <2>2. Cardinality(Wakings) = 0
    BY <2>1, FS_EmptySet
  <2>3. nb_waiters = Cardinality(sleeping) + Cardinality(Wakings)
    BY DEF WaitInv, WaitersCounted
  <2>4. IsFiniteSet(sleeping) /\ Cardinality(sleeping) \in Nat
    BY WaitersAreFinite
  <2>5. Cardinality(sleeping) = 0
    BY <2>2, <2>3, <2>4
  <2> QED
    BY <2>4, <2>5, FS_EmptySet
<1>2. ASSUME ~MayKillAgain PROVE unacked = 0
  <2>1. KillRequests = {} /\ Acks(outbox) = {}
    BY DEF KillRequests, Acks
  <2>2. Cardinality(KillRequests) = 0 /\ Cardinality(Acks(outbox)) = 0
    BY <2>1, FS_EmptySet
  <2>3. unacked = Cardinality(KillRequests) + nb_killers + Cardinality(Acks(outbox))
    BY <1>2 DEF AckInv, KillsAnswered
  <2> QED
    BY <2>2, <2>3
<1> QED
  BY <1>1, <1>2

LEMMA EndsWithNothingLeft ==
  ASSUME TypeOK, JobPhases, LinkInv, DecisionInv, MachinesInv, KillInv, CountInv, AckInv, WaitInv,
         SubmitterInv, StaticInv, RegisterInv, ServerEndsSimulation
  PROVE  NothingLeft' /\ end_sent' /\ ~end_ack'
<1>1. /\ mailbox = <<>> /\ held = <<>> /\ killers = {} /\ Flight = {}
      /\ UNCHANGED <<mailbox, held, killers, submitter, actor, state>>
  BY CallsWhenAllIsQuiet
<1>2. /\ SubmittersFinished /\ (~RegistrationEnabled \/ registration_finished)
      /\ nb_completed = nb_submitted /\ nb_running = 0 /\ nb_waiters = 0 /\ nb_killers = 0
      /\ outbox = <<>>
  BY DEF ServerEndsSimulation, is_simulation_finished
<1>3. /\ UNCHANGED <<todo, sleeping, reg_over, computing, nb_completed, nb_submitted, nb_running,
                     nb_waiters, nb_killers>>
      /\ end_sent' /\ ~end_ack' /\ outbox' = <<>>
  BY DEF ServerEndsSimulation, MayCallScheduler, generate_and_send_message, checkUnchanged,
     submitterActors, helperActors, machineVars, jobCounters, actorCounts
<1>4. "SIMULATION_ENDS" \in told' /\ unacked' = unacked
  <2> DEFINE events == <<Ev("SIMULATION_ENDS", {})>>
  <2>1. /\ told' = told \cup {events[i].type : i \in 1..Len(events)}
        /\ unacked' = unacked - Cardinality({i \in 1..Len(events) : events[i].type = "JOB_KILLED"})
    BY DEF ServerEndsSimulation, generate_and_send_message
  <2>2. Len(events) = 1 /\ events[1].type = "SIMULATION_ENDS"
    BY DEF Ev
  <2>3. 1 \in 1..Len(events) /\ \A i \in 1..Len(events) : i = 1
    BY <2>2
  <2>4. {i \in 1..Len(events) : events[i].type = "JOB_KILLED"} = {}
    BY <2>2, <2>3
  <2>5. Cardinality({i \in 1..Len(events) : events[i].type = "JOB_KILLED"}) = 0
    BY <2>4, FS_EmptySet
  <2>6. unacked \in Int
    BY DEF TypeOK, SchedulerTypeOK
  <2>7. unacked' = unacked
    BY <2>1, <2>5, <2>6
  <2> QED
    BY <2>1, <2>2, <2>3, <2>7
<1>5. \A s \in Submitter : submitter[s] = "gone" /\ todo[s] = {}
  BY <1>2, SubmittersAreGone
<1>6. \A j \in Job : /\ state[j] = "ABSENT" \/ IsComplete(state[j])
                     /\ actor[j] \in {"none", "dead"}
  BY <1>1, <1>2, JobsAreOver
<1>7. sleeping = {} /\ (unacked = 0 \/ MayKillAgain)
  BY <1>1, <1>2, NobodyIsWaiting
<1>8. RegistrationEnabled => reg_over
  BY <1>1, <1>2 DEF RegisterInv, NotesAreTrue
<1>9. \A m \in Machine : computing[m] = {}
  BY <1>6 DEF MachinesInv, MachineSets, OnMachine
<1>10. Flight' = {}
  BY <1>1, StillFlight
<1> QED
  BY <1>1, <1>2, <1>3, <1>4, <1>5, <1>6, <1>7, <1>8, <1>9, <1>10 DEF NothingLeft

LEMMA OtherStepsDoNotEnd ==
  ASSUME TypeOK, Next, ~ServerEndsSimulation
  PROVE  UNCHANGED end_sent /\ (end_ack' => end_ack \/ end_sent)
<1> DEFINE StillGoing == UNCHANGED <<end_sent, end_ack>>
<1>1. ASSUME \E s \in Submitter : SubmitterStep(s) PROVE StillGoing
  BY <1>1 DEF SubmitterStep, SubmitterHello, SubmitBatch, SubmitterBye, submitterUnchanged, loopVars
<1>2. ASSUME ExecutionStep PROVE StillGoing
  BY <1>2 DEF ExecutionStep, JobStarts, JobCancelled, JobEnds, killer_process, WaiterWakes,
     executionUnchanged, loopVars
<1>3. ASSUME SchedulerStep PROVE StillGoing
  BY <1>3 DEF SchedulerStep, handle_execute_job, handle_reject_job, handle_kill_job,
     handle_call_me_later, handle_register_job, NotifyRegistrationFinished,
     NotifyContinueRegistration, ReplyApplied, Decide, Apply, send_message_at_time, linkUnchanged,
     loopVars
<1>4. ASSUME Deliver \/ ServerSendsEvents \/ ServerLoops \/ ServerLeavesLoop PROVE StillGoing
  BY <1>4 DEF Deliver, ServerSendsEvents, ServerLoops, ServerLeavesLoop, loopVars
<1>5. ASSUME Handle, ~server_on_sched_ready PROVE StillGoing
  BY <1>5 DEF Handle, Receive, server_on_submitter_hello, server_on_submitter_bye,
     server_on_job_submitted, server_on_event_occurred, server_on_job_completed,
     server_on_killing_done, server_on_register_job, server_on_execute_job, server_on_reject_job,
     server_on_kill_jobs, server_on_call_me_later, server_on_waiting_done,
     server_on_end_dynamic_register, server_on_continue_dynamic_register
<1>6. CASE server_on_sched_ready
  <2>1. UNCHANGED end_sent /\ end_ack' = (end_ack \/ end_sent)
    BY <1>6 DEF server_on_sched_ready, Receive
  <2> QED
    BY <2>1, Zenon
<1>7. CASE StillGoing
  BY <1>7
<1>8. StillGoing \/ server_on_sched_ready
  BY <1>1, <1>2, <1>3, <1>4, <1>5 DEF Next, ServerStep
<1> QED
  BY <1>6, <1>7, <1>8

LEMMA NextKeepsTheEnd ==
  ASSUME TypeOK, JobPhases, LinkInv, DecisionInv, MachinesInv, KillInv, CountInv, AckInv, WaitInv,
         SubmitterInv, StaticInv, RegisterInv, EndInv, Next
  PROVE  EndInv'
<1>1. CASE ServerEndsSimulation
  BY <1>1, EndsWithNothingLeft DEF EndInv
<1>2. CASE ~ServerEndsSimulation /\ end_sent
  <2>1. /\ UNCHANGED settledVars /\ (end_ack' => sched_ready')
        /\ \A m \in Flight' : m.type = "SCHED_READY"
    BY <1>2, NothingHappensAfterTheEnd
  <2>2. NothingLeft
    BY <1>2 DEF EndInv
  <2>3. NothingLeft' /\ end_sent'
    BY <1>2, <2>1, <2>2 DEF NothingLeft, settledVars, jobCounters, actorCounts
  <2> QED
    BY <2>1, <2>3 DEF EndInv
<1>3. CASE ~ServerEndsSimulation /\ ~end_sent
  BY <1>3, OtherStepsDoNotEnd DEF EndInv
<1> QED
  BY <1>1, <1>2, <1>3

\* The invariants of the layers, together.
Layers ==
  /\ TypeOK /\ LifeCycle /\ Link /\ Decisions /\ Machines /\ Kills /\ Accounts /\ Counters
  /\ Acknowledged /\ Waits /\ Submitters /\ Statics /\ Registrations /\ Runs

LEMMA LayersHold == Spec => []Layers
<1>1. TypeOK /\ LifeCycle /\ Link /\ Decisions /\ Machines /\ Kills /\ Accounts /\ Counters
      /\ Acknowledged /\ Waits /\ Submitters /\ Statics /\ Registrations /\ Runs => Layers
  BY DEF Layers
<1> QED
  BY <1>1, TypeCorrect, LifeCycleHolds, LinkHolds, DecisionsHold, MachinesHold, KillsHold, AccountsHold,
     CountersHold, AcknowledgedHolds, WaitsHold, SubmittersHold, StaticsHold, RegistrationsHold,
     RunsHold, PTL

LEMMA LayersOfTheLiving ==
  ASSUME Layers, ~aborted
  PROVE  /\ TypeOK /\ JobPhases /\ LifeCycle /\ LinkInv /\ DecisionInv /\ MachinesInv /\ KillInv
         /\ AccountInv /\ CountInv /\ AckInv /\ WaitInv /\ SubmitterInv /\ StaticInv /\ RegisterInv
         /\ RunningHaveActors
BY DEF Layers, LifeCycle, Link, Decisions, Machines, Kills, Accounts, Counters, Acknowledged, Waits,
   Submitters, Statics, Registrations, Runs

LEMMA EndStateHolds == Spec => []EndState
<1>1. Init => EndState
  BY DEF Init, EndState, EndInv
<1>2. Layers /\ EndState /\ [Next]_vars => EndState'
  <2> SUFFICES ASSUME Layers, EndState, [Next]_vars, ~aborted' PROVE EndInv'
    BY DEF EndState
  <2>1. CASE Next
    <3>1. ~aborted /\ EndInv
      BY <2>1, StepsOfTheLiving DEF EndState
    <3> QED
      BY <2>1, <3>1, LayersOfTheLiving, NextKeepsTheEnd
  <2>2. CASE UNCHANGED vars
    <3>1. /\ UNCHANGED settledVars
          /\ UNCHANGED <<mailbox, held, end_ack, sched_ready, aborted>>
      BY <2>2 DEF vars, settledVars, jobVars, machineVars, loopVars, bufferVars, submitterActors,
         readerActor, helperActors, schedVars
    <3>2. EndInv
      BY <3>1 DEF EndState
    <3>3. Flight' = Flight
      BY <3>1, StillFlight
    <3>4. NothingLeft => NothingLeft'
      BY <3>1, <3>3 DEF NothingLeft, settledVars, jobCounters, actorCounts
    <3> QED
      BY <3>1, <3>2, <3>4 DEF EndInv, settledVars
  <2> QED
    BY <2>1, <2>2
<1> QED
  BY <1>1, <1>2, LayersHold, PTL DEF Spec

(***************************************************************************)
(* server_process sends SIMULATION_ENDS only when nothing is left, and     *)
(* nothing comes back afterwards: the counters of is_simulation_finished   *)
(* forget no submitter, job, killer, waiter or registration, for any       *)
(* number of them and whatever the order of the messages.                  *)
(***************************************************************************)
THEOREM EndsOnlyWhenNothingIsLeft == Spec => [](NoAbort => EndsWhenNothingIsLeft)
<1>1. TypeOK /\ EndState => (NoAbort => EndsWhenNothingIsLeft)
  <2> SUFFICES ASSUME TypeOK, EndInv, end_sent PROVE EndsWhenNothingIsLeft
    BY DEF EndState, NoAbort, EndsWhenNothingIsLeft
  <2>1. \A i \in 1..Len(mailbox \o held) : (mailbox \o held)[i] \in Flight
    BY FlightIsAll
  <2> QED
    BY <2>1 DEF EndInv, NothingLeft, EndsWhenNothingIsLeft
<1> QED
  BY <1>1, TypeCorrect, EndStateHolds, PTL

(***************************************************************************)
(* protocol.rst, KILL_JOB: "Batsim acknowledges it with one JOB_KILLED     *)
(* event". When the scheduler kills no job twice, each of its requests is  *)
(* answered before SIMULATION_ENDS, for any number of jobs and kills.      *)
(***************************************************************************)
THEOREM EveryKillIsAcknowledged == ~MayKillAgain => (Spec => [](NoAbort => EveryKillAcknowledged))
<1> SUFFICES ASSUME ~MayKillAgain PROVE Spec => [](NoAbort => EveryKillAcknowledged)
  OBVIOUS
<1>1. EndState => (NoAbort => EveryKillAcknowledged)
  BY DEF EndState, EndInv, NothingLeft, NoAbort, EveryKillAcknowledged
<1> QED
  BY <1>1, EndStateHolds, PTL

----------------------------------------------------------------------------
(***************************************************************************)
(* The assertions, one lemma per handler or actor that has some.           *)
(***************************************************************************)
LEMMA SubmittersAreServed ==
  ASSUME TypeOK, SubmitterInv, EndInv,
         server_on_submitter_hello \/ server_on_submitter_bye \/ server_on_job_submitted
  PROVE  ~aborted'
<1>1. CASE server_on_submitter_hello
  <2>1. Receive("SUBMITTER_HELLO") /\ Assert(~end_sent /\ Received.from \notin submitters)
    BY <1>1 DEF server_on_submitter_hello
  <2>2. Received.from \notin submitters
    BY <2>1, HandledSubmitter DEF SubmitterMail
  <2>3. ~end_sent
    BY <2>1, TakeFlight DEF EndInv, NothingLeft
  <2> QED
    BY <2>1, <2>2, <2>3 DEF Assert
<1>2. CASE server_on_submitter_bye
  <2>1. Receive("SUBMITTER_BYE") /\ Assert(Received.from \in submitters)
    BY <1>2 DEF server_on_submitter_bye
  <2> QED
    BY <2>1, HandledSubmitter DEF SubmitterMail, Assert
<1>3. CASE server_on_job_submitted
  <2>1. Receive("JOB_SUBMITTED") /\ Assert(Received.from \in submitters)
    BY <1>3 DEF server_on_job_submitted
  <2> QED
    BY <2>1, HandledSubmitter DEF SubmitterMail, Assert
<1> QED
  BY <1>1, <1>2, <1>3

\* The counters stay within their bounds when jobs that were running are counted.
LEMMA CountersStayInBounds ==
  ASSUME TypeOK, JobPhases, DecisionInv, KillInv, CountInv, NEW S \in SUBSET Job,
         S \subseteq JobsRunning
  PROVE  /\ nb_running - Cardinality(S) >= 0
         /\ (nb_completed + Cardinality(S)) + (nb_running - Cardinality(S)) <= nb_submitted
<1>1. /\ IsFiniteSet(JobsRunning) /\ Cardinality(JobsRunning) \in Nat
      /\ Cardinality(CountedJobs) \in Nat /\ Cardinality(SubmittedJobs) \in Nat
      /\ Cardinality(JobsRunning) + Cardinality(CountedJobs) <= Cardinality(SubmittedJobs)
  BY Balance
<1>2. IsFiniteSet(S) /\ Cardinality(S) <= Cardinality(JobsRunning)
  BY <1>1, FS_Subset
<1>3. Cardinality(S) \in Nat
  BY <1>2, FS_CardinalityType
<1> QED
  BY <1>1, <1>2, <1>3 DEF CountInv

LEMMA EndsAreCounted ==
  ASSUME TypeOK, TypeOK', JobPhases, DecisionInv, KillInv, AccountInv, CountInv,
         server_on_job_completed \/ server_on_killing_done
  PROVE  ~aborted'
<1>1. CASE server_on_job_completed
  <2> DEFINE done == Received.about
  <2>1. /\ Receive("JOB_COMPLETED")
        /\ nb_running' = nb_running - Cardinality(done) /\ Finish(done)
        /\ Assert(/\ nb_running' >= 0
                  /\ nb_completed' + nb_running' <= nb_submitted
                  /\ \A j \in done : IsComplete(state[j]))
    BY <1>1 DEF server_on_job_completed
  <2>2. done \subseteq JobsRunning
    BY <1>1, CompletionCounts
  <2>3. done \in SUBSET Job
    BY <2>2 DEF JobsRunning
  <2>4. nb_completed' = nb_completed + Cardinality(done)
    BY <2>1 DEF Finish
  <2>5. nb_running' >= 0 /\ nb_completed' + nb_running' <= nb_submitted
    BY <2>1, <2>2, <2>3, <2>4, CountersStayInBounds
  <2>6. \A j \in done : IsComplete(state[j])
    <3>1. Received \in Flight /\ Received.type = "JOB_COMPLETED"
      BY <2>1, TakeFlight
    <3> QED
      BY <3>1 DEF KillInv, Ending, JobPhases, IsComplete
  <2> QED
    BY <2>1, <2>5, <2>6 DEF Assert
<1>2. CASE server_on_killing_done
  <2> DEFINE S == Received.about
             killed == ReallyKilled(S)
  <2>1. /\ Receive("KILLING_DONE")
        /\ nb_running' = nb_running - Cardinality(killed) /\ Finish(killed)
        /\ Assert(/\ S \subseteq jobs
                  /\ nb_running' >= 0
                  /\ nb_completed' + nb_running' <= nb_submitted)
    BY <1>2 DEF server_on_killing_done
  <2>2. killed \subseteq JobsRunning
    BY <1>2, KillingCounts
  <2>3. killed \in SUBSET Job
    BY <2>2 DEF JobsRunning
  <2>4. nb_completed' = nb_completed + Cardinality(killed)
    BY <2>1 DEF Finish
  <2>5. nb_running' >= 0 /\ nb_completed' + nb_running' <= nb_submitted
    BY <2>1, <2>2, <2>3, <2>4, CountersStayInBounds
  <2>6. S \subseteq jobs
    BY <2>1, TakeFlight DEF AccountInv, KillsInTable
  <2> QED
    BY <2>1, <2>5, <2>6 DEF Assert
<1> QED
  BY <1>1, <1>2

LEMMA JobsCanBeExecuted ==
  ASSUME TypeOK, JobPhases, DecisionInv, MachinesInv, KillInv, CountInv, server_on_execute_job
  PROVE  ~aborted'
<1> DEFINE S == Received.about
<1>1. /\ Receive("SCHED_EXECUTE_JOB") /\ nb_running' = nb_running + 1
      /\ Assert(/\ \A j \in S : state[j] = "SUBMITTED"
                /\ nb_running' <= nb_submitted
                /\ \A j \in S : \A m \in alloc[j] : AllowSharing \/ computing[m] = {}
                /\ \A j \in S : \A m \in alloc[j] : machine_state[m] \in {"IDLE", "COMPUTING"}
                /\ \A j \in S : Cardinality(alloc[j]) = NbRes[j])
  BY DEF server_on_execute_job
<1>2. PICK j \in Job : /\ S = {j} /\ state[j] = "SUBMITTED" /\ IsSubmitted(j)
                       /\ view[j] = "running"
  BY <1>1, DecidedJob DEF Decision
<1>3. nb_running' <= nb_submitted
  <2>1. /\ IsFiniteSet(JobsRunning) /\ Cardinality(JobsRunning) \in Nat
        /\ IsFiniteSet(SubmittedJobs) /\ JobsRunning \subseteq SubmittedJobs
    BY Balance
  <2>2. j \in SubmittedJobs /\ j \notin JobsRunning
    BY <1>2 DEF SubmittedJobs, JobsRunning, IsRunning, Pending, JobPhases, OrdinaryEnds
  <2>3. Cardinality(JobsRunning \cup {j}) = Cardinality(JobsRunning) + 1
    BY <2>1, <2>2, FS_AddElement
  <2>4. Cardinality(JobsRunning \cup {j}) <= Cardinality(SubmittedJobs)
    BY <2>1, <2>2, FS_Subset
  <2> QED
    BY <1>1, <2>1, <2>3, <2>4 DEF CountInv
<1>4. alloc[j] \subseteq Machine
  BY DEF TypeOK, JobsTypeOK
<1>5. ASSUME NEW m \in alloc[j], ~AllowSharing PROVE computing[m] = {}
  <2>1. \A k \in Job : OnMachine(k) => k # j /\ view[k] = "running"
    BY <1>2 DEF OnMachine, JobPhases, DecisionInv, BeliefsAreTrue
  <2>2. \A k \in Job : OnMachine(k) => m \notin alloc[k]
    BY <1>2, <1>5, <2>1 DEF MachinesInv, Exclusive
  <2> QED
    BY <1>4, <1>5, <2>2 DEF MachinesInv, MachineSets
<1>6. \A m \in alloc[j] : machine_state[m] \in {"IDLE", "COMPUTING"}
  BY <1>4 DEF TypeOK, MachinesTypeOK
<1>7. Cardinality(alloc[j]) = NbRes[j]
  BY <1>2 DEF MachinesInv, RightSize
<1> QED
  BY <1>1, <1>2, <1>3, <1>5, <1>6, <1>7 DEF Assert

LEMMA JobsCanBeRejected ==
  ASSUME TypeOK, DecisionInv, AccountInv, server_on_reject_job
  PROVE  ~aborted'
<1>1. /\ Receive("SCHED_REJECT_JOB")
      /\ Assert(Received.about \subseteq jobs /\ \A j \in Received.about : state[j] = "SUBMITTED")
  BY DEF server_on_reject_job
<1>2. PICK j \in Job : Received.about = {j} /\ state[j] = "SUBMITTED"
  BY <1>1, DecidedJob DEF Decision
<1>3. ~Counted(j)
  BY <1>2 DEF Counted, IsComplete, OrdinaryEnds
<1>4. j \in jobs
  BY <1>2, <1>3, InTable
<1> QED
  BY <1>1, <1>2, <1>4 DEF Assert

LEMMA KillsCanBeRequested ==
  ASSUME TypeOK, JobPhases, DecisionInv, AccountInv, server_on_kill_jobs
  PROVE  ~aborted'
<1>1. /\ Receive("SCHED_KILL_JOB")
      /\ Assert(/\ Received.about \subseteq jobs
                /\ \A j \in NewlyRequested(Received.about) : state[j] = "RUNNING" \/ IsComplete(state[j]))
  BY DEF server_on_kill_jobs
<1>2. \A j \in Received.about : j \in Job /\ view[j] = "running" /\ state[j] \in Ended \cup {"RUNNING"}
  BY <1>1, KillsComeAfterDecisions
<1>3. \A j \in Received.about : state[j] # "ABSENT" /\ (state[j] = "RUNNING" \/ IsComplete(state[j]))
  BY <1>2 DEF Ended, OrdinaryEnds, IsComplete
<1>4. \A j \in Received.about : j \in jobs
  BY <1>2, <1>3, InTable
<1> QED
  BY <1>1, <1>3, <1>4 DEF Assert, NewlyRequested

LEMMA JobsLeaveTheirMachines ==
  ASSUME TypeOK, JobPhases, LinkInv, MachinesInv, KillInv, AccountInv, RunningHaveActors, ExecutionStep, ~aborted
  PROVE  ~aborted'
<1>1. \A j \in Job : actor[j] \in {"running", "cancelled"} => \A m \in alloc[j] : j \in computing[m]
  <2>1. \A j \in Job : alloc[j] \subseteq Machine
    BY DEF TypeOK, JobsTypeOK
  <2> QED
    BY <2>1 DEF MachinesInv, MachineSets, OnMachine
<1>2. ASSUME NEW j \in Job, JobStarts(j) PROVE ~aborted'
  BY <1>2 DEF JobStarts
<1>3. ASSUME NEW j \in Job, JobCancelled(j) PROVE ~aborted'
  BY <1>1, <1>3 DEF JobCancelled, Assert, OnItsMachines
<1>4. ASSUME NEW j \in Job, NEW outcome \in Outcome, JobEnds(j, outcome) PROVE ~aborted'
  BY <1>1, <1>4 DEF JobEnds, Assert, OnItsMachines
<1>5. ASSUME NEW S \in killers, NEW inPtask \in SUBSET S, killer_process(S, inPtask)
      PROVE  ~aborted'
  <2> DEFINE running == RunningJobs(S)
             toKill  == running \ inPtask
  <2>1. Assert(/\ S \subseteq jobs
               /\ \A j \in S : state[j] = "RUNNING" \/ IsComplete(state[j])
               /\ \A j \in S : state[j] # "REJECTED"
               /\ \A j \in running : actor[j] = "running"
               /\ OnItsMachines(toKill))
    BY <1>5 DEF killer_process
  <2>2. S \subseteq Job
    BY DEF TypeOK, ActorsTypeOK
  <2>3. S \subseteq jobs
    BY DEF AccountInv, KillsInTable
  <2>4. \A j \in S : state[j] \in OrdinaryEnds \cup {"RUNNING"} /\ actor[j] # "cancelled"
    BY DEF KillInv, KillersDiffer
  <2>5. \A j \in S : (state[j] = "RUNNING" \/ IsComplete(state[j])) /\ state[j] # "REJECTED"
    BY <2>4 DEF IsComplete, OrdinaryEnds
  <2>6. \A j \in Job : actor[j] # "created"
    BY DEF LinkInv, Settled
  <2>7. \A j \in running : actor[j] = "running"
    BY <2>2, <2>4, <2>6 DEF RunningJobs, RunningHaveActors
  <2>8. OnItsMachines(toKill)
    BY <1>1, <2>2, <2>7 DEF OnItsMachines, RunningJobs
  <2> QED
    BY <2>1, <2>3, <2>5, <2>7, <2>8 DEF Assert
<1>6. ASSUME NEW w \in Waiter, WaiterWakes(w) PROVE ~aborted'
  BY <1>6 DEF WaiterWakes
<1> QED
  BY <1>2, <1>3, <1>4, <1>5, <1>6 DEF ExecutionStep

\* The reader finds every job the scheduler decides on. What it may refuse is a
\* registration that comes before the server has been told to continue.
LEMMA DecisionsAreRead ==
  ASSUME TypeOK, JobPhases, AccountInv, SchedulerStep, ~aborted
  PROVE  ~aborted' \/ LateRegistration
<1>1. ASSUME NEW j \in Job, NEW machines \in SUBSET Machine, handle_execute_job(j, machines)
      PROVE  ~aborted'
  <2>1. view[j] = "waiting" /\ Assert(j \in jobs)
    BY <1>1 DEF handle_execute_job
  <2>2. state[j] = "SUBMITTED"
    BY <2>1 DEF JobPhases
  <2>3. ~Counted(j)
    BY <2>2 DEF Counted, IsComplete, OrdinaryEnds
  <2>4. j \in jobs
    BY <2>2, <2>3, InTable
  <2> QED
    BY <2>1, <2>4 DEF Assert
<1>2. ASSUME NEW j \in DynJob, handle_register_job(j)
      PROVE  ~aborted' \/ (registration_finished /\ ~reg_over)
  <2>1. ~reg_over /\ aborted' = ~(~registration_finished)
    BY <1>2 DEF handle_register_job, Assert
  <2> QED
    BY <2>1, Zenon
<1>3. ASSUME NEW j \in Job, handle_reject_job(j) PROVE ~aborted'
  BY <1>3 DEF handle_reject_job
<1>4. ASSUME NEW S \in SUBSET Job, handle_kill_job(S) PROVE ~aborted'
  BY <1>4 DEF handle_kill_job
<1>5. ASSUME NEW w \in Waiter, handle_call_me_later(w) PROVE ~aborted'
  BY <1>5 DEF handle_call_me_later
<1>6. ASSUME NotifyRegistrationFinished \/ NotifyContinueRegistration \/ ReplyApplied
             \/ send_message_at_time
      PROVE  ~aborted'
  BY <1>6 DEF NotifyRegistrationFinished, NotifyContinueRegistration, ReplyApplied,
     send_message_at_time
<1> QED
  BY <1>1, <1>2, <1>3, <1>4, <1>5, <1>6 DEF SchedulerStep, LateRegistration

\* The handlers: only the date of a call may come too late.
LEMMA HandlersDoNotAbort ==
  ASSUME Layers, EndInv, ~aborted, TypeOK', Handle
  PROVE  ~aborted' \/ LateCallHandled
<1>1. /\ TypeOK /\ JobPhases /\ DecisionInv /\ MachinesInv /\ KillInv /\ AccountInv /\ CountInv
      /\ SubmitterInv
  BY LayersOfTheLiving
<1>2. CASE server_on_submitter_hello \/ server_on_submitter_bye \/ server_on_job_submitted
  BY <1>1, <1>2, SubmittersAreServed
<1>3. CASE server_on_job_completed \/ server_on_killing_done
  BY <1>1, <1>3, EndsAreCounted
<1>4. CASE server_on_execute_job
  BY <1>1, <1>4, JobsCanBeExecuted
<1>5. CASE server_on_reject_job
  BY <1>1, <1>5, JobsCanBeRejected
<1>6. CASE server_on_kill_jobs
  BY <1>1, <1>6, KillsCanBeRequested
<1>7. CASE \/ server_on_event_occurred \/ server_on_register_job
           \/ server_on_waiting_done \/ server_on_end_dynamic_register
           \/ server_on_continue_dynamic_register \/ server_on_sched_ready
  BY <1>7 DEF server_on_event_occurred, server_on_register_job,
     server_on_waiting_done, server_on_end_dynamic_register,
     server_on_continue_dynamic_register, server_on_sched_ready
<1>8. CASE server_on_call_me_later /\ Received.about \cap LateCall = {}
  <2>1. \E future \in {TRUE} : aborted' = ~future
    BY <1>8 DEF server_on_call_me_later, InTheFuture, Assert
  <2> QED
    BY <2>1
<1> QED
  BY <1>2, <1>3, <1>4, <1>5, <1>6, <1>7, <1>8 DEF Handle, LateCallHandled

LEMMA LoopDoesNotAbort ==
  ASSUME TypeOK, AccountInv, EndInv, ~aborted,
         Deliver \/ ServerSendsEvents \/ ServerEndsSimulation \/ ServerLoops \/ ServerLeavesLoop
  PROVE  ~aborted'
<1>1. CASE Deliver \/ ServerEndsSimulation \/ ServerLoops
  BY <1>1 DEF Deliver, ServerEndsSimulation, ServerLoops
<1>2. CASE ServerSendsEvents
  <2>1. Assert(\A j \in Job : to_delete[j] <= IF j \in jobs THEN 1 ELSE 0)
    BY <1>2 DEF ServerSendsEvents
  <2>2. \A j \in Job : to_delete[j] = IF Counted(j) /\ j \in jobs THEN 1 ELSE 0
    BY DEF AccountInv, Accounted
  <2>3. \A j \in Job : to_delete[j] <= IF j \in jobs THEN 1 ELSE 0
    BY <2>2
  <2> QED
    BY <2>1, <2>3 DEF Assert
<1>3. CASE ServerLeavesLoop
  <2>1. /\ end_ack
        /\ Assert(/\ end_sent /\ sched_ready
                  /\ nb_running = 0 /\ nb_killers = 0 /\ nb_waiters = 0
                  /\ nb_completed = nb_submitted)
    BY <1>3 DEF ServerLeavesLoop
  <2>2. /\ end_sent /\ sched_ready
        /\ nb_running = 0 /\ nb_killers = 0 /\ nb_waiters = 0
        /\ nb_completed = nb_submitted
    BY <2>1 DEF EndInv, NothingLeft
  <2> QED
    BY <2>1, <2>2 DEF Assert
<1> QED
  BY <1>1, <1>2, <1>3

\* Of all the steps, two may abort.
LEMMA OnlyLateStepsAbort ==
  ASSUME Layers, EndInv, ~aborted, TypeOK', Next
  PROVE  ~aborted' \/ LateRegistration \/ LateCallHandled
<1>1. /\ TypeOK /\ JobPhases /\ LinkInv /\ MachinesInv /\ KillInv /\ AccountInv /\ RunningHaveActors
  BY LayersOfTheLiving
<1>2. CASE \E s \in Submitter : SubmitterStep(s)
  BY <1>2 DEF SubmitterStep, SubmitterHello, SubmitBatch, SubmitterBye, submitterUnchanged
<1>3. CASE ExecutionStep
  BY <1>1, <1>3, JobsLeaveTheirMachines
<1>4. CASE SchedulerStep
  BY <1>1, <1>4, DecisionsAreRead
<1>5. CASE Handle
  BY <1>5, HandlersDoNotAbort
<1>6. CASE Deliver \/ ServerSendsEvents \/ ServerEndsSimulation \/ ServerLoops \/ ServerLeavesLoop
  BY <1>1, <1>6, LoopDoesNotAbort
<1> QED
  BY <1>2, <1>3, <1>4, <1>5, <1>6 DEF Next, ServerStep

(***************************************************************************)
(* With any scheduler that follows the protocol, two assertions of all     *)
(* those of the server, the job actors, the killers and the reader can     *)
(* fail: handle_register_job's test of registration_finished, when the job *)
(* follows a continue_registration that the server has not handled yet,    *)
(* and server_on_call_me_later's test of the date, when it is over.        *)
(***************************************************************************)
THEOREM OnlyLateStepsAbortBatsim == Spec => OnlyLateAborts
<1>1. Layers /\ EndState /\ TypeOK' /\ [Next]_vars
        => [aborted' => aborted \/ LateRegistration \/ LateCallHandled]_vars
  <2> SUFFICES ASSUME Layers, EndState, TypeOK', Next, ~aborted, aborted'
               PROVE  LateRegistration \/ LateCallHandled
    OBVIOUS
  <2> QED
    BY OnlyLateStepsAbort DEF EndState
<1> QED
  BY <1>1, LayersHold, EndStateHolds, TypeCorrect, PTL DEF Spec, OnlyLateAborts

(***************************************************************************)
(* With a scheduler that follows the protocol, does not send               *)
(* continue_registration and asks to be called at dates that are still to  *)
(* come when the server handles the request, no assertion fails, for any   *)
(* number of jobs, machines, submitters, waiters and kills, and whatever   *)
(* the order in which the actors run and the messages arrive.              *)
(***************************************************************************)
THEOREM NeverAborts == ~MayContinue /\ LateCall = {} => (Spec => []NoAbort)
<1> SUFFICES ASSUME ~MayContinue, LateCall = {} PROVE Spec => []NoAbort
  OBVIOUS
<1>1. Init => NoAbort
  BY DEF Init, NoAbort
<1>2. Layers /\ EndState /\ TypeOK' /\ NoAbort /\ [Next]_vars => NoAbort'
  <2> SUFFICES ASSUME Layers, EndState, TypeOK', ~aborted, [Next]_vars PROVE ~aborted'
    BY DEF NoAbort
  <2>1. CASE Next
    <3>1. registration_finished => reg_over
      BY LayersOfTheLiving DEF RegisterInv, WordIsKept
    <3> QED
      BY <2>1, <3>1, OnlyLateStepsAbort DEF EndState, LateRegistration, LateCallHandled
  <2>2. CASE UNCHANGED vars
    BY <2>2 DEF vars
  <2> QED
    BY <2>1, <2>2
<1> QED
  BY <1>1, <1>2, LayersHold, EndStateHolds, TypeCorrect, PTL DEF Spec

(***************************************************************************)
(* The same scheduler never sees the books of Batsim wrong: the properties *)
(* proved above for a process that has not aborted then hold for ever.     *)
(***************************************************************************)
THEOREM BooksStayRight ==
  ~MayContinue /\ LateCall = {} =>
    (Spec => [](/\ CountersMatchJobs /\ MachinesConsistent /\ NoDanglingJob
                /\ EndReportedOnce /\ CompletedBeforeKilled
                /\ NoMoreStaticJobIsTrue /\ EndsWhenNothingIsLeft))
<1> SUFFICES ASSUME ~MayContinue, LateCall = {}
             PROVE  Spec => [](/\ CountersMatchJobs /\ MachinesConsistent /\ NoDanglingJob
                               /\ EndReportedOnce /\ CompletedBeforeKilled
                               /\ NoMoreStaticJobIsTrue /\ EndsWhenNothingIsLeft)
  OBVIOUS
<1>1. Spec => []NoAbort
  BY NeverAborts
<1> QED
  BY <1>1, CountersStayExact, MachinesStayConsistent, NoJobStaysDangling, EndsStayReportedOnce,
     NoMoreStaticJobStaysTrue, EndsOnlyWhenNothingIsLeft, PTL

----------------------------------------------------------------------------
(***************************************************************************)
(* Batsim implements ResourceManager: every step maps to a step of it, or  *)
(* to none. Stage and Holding are the refinement mapping, job by job.      *)
(***************************************************************************)
Stage(j)   == Life(state[j])
Holding(j) == IF actor[j] \in {"running", "cancelled"} THEN alloc[j] ELSE {}

lifeMap  == [j \in Job |-> Life(state[j])]
holdsMap == [j \in Job |-> IF actor[j] \in {"running", "cancelled"} THEN alloc[j] ELSE {}]
mapped   == <<lifeMap, holdsMap, view, kill_asked, end_sent>>

LEMMA LifeOfStates ==
  /\ Life("ABSENT") = "none" /\ Life("NOT_SUBMITTED") = "none" /\ Life("SUBMITTED") = "queued"
  /\ Life("RUNNING") = "running" /\ Life("COMPLETED_KILLED") = "killed" /\ Life("REJECTED") = "rejected"
  /\ \A st \in OrdinaryEnds : Life(st) = "ended"
<1>1. /\ Life("ABSENT") = "none" /\ Life("NOT_SUBMITTED") = "none" /\ Life("SUBMITTED") = "queued"
      /\ Life("RUNNING") = "running"
  BY DEF Life, OrdinaryEnds
<1>2. Life("COMPLETED_KILLED") = "killed" /\ Life("REJECTED") = "rejected"
  BY DEF Life, OrdinaryEnds
<1>3. \A st \in OrdinaryEnds : Life(st) = "ended"
  BY DEF Life, OrdinaryEnds
<1> QED
  BY <1>1, <1>2, <1>3

\* The step changes what ResourceManager sees of the jobs in S only.
Turns(S, what, M) ==
  \A j \in Job : /\ j \in S => Stage(j)' = what /\ Holding(j)' = M
                 /\ j \notin S => Stage(j)' = Stage(j) /\ Holding(j)' = Holding(j)

LEMMA TurnsBecome ==
  ASSUME NEW S, NEW what, NEW M, Turns(S, what, M)
  PROVE  RM!Become(S, what, M)
BY DEF Turns, Stage, Holding, RM!Become

LEMMA NothingTurns ==
  ASSUME \A j \in Job : Stage(j)' = Stage(j) /\ Holding(j)' = Holding(j)
  PROVE  UNCHANGED <<lifeMap, holdsMap>>
BY DEF Stage, Holding, lifeMap, holdsMap

LEMMA StutterMapped ==
  ASSUME UNCHANGED mapped
  PROVE  [RM!RMNext]_(RM!rmVars)
BY DEF mapped, lifeMap, holdsMap, RM!rmVars

\* A job on its machines runs, and holds some.
LEMMA OnMachines ==
  ASSUME TypeOK, JobPhases, DecisionInv, MachinesInv, NEW j \in Job,
         actor[j] \in {"created", "running", "cancelled"}
  PROVE  state[j] = "RUNNING" /\ Stage(j) = "running" /\ view[j] = "running" /\ alloc[j] # {}
<1>1. state[j] = "RUNNING"
  BY DEF JobPhases
<1>2. view[j] = "running"
  BY <1>1 DEF DecisionInv, BeliefsAreTrue
<1>3. Cardinality(alloc[j]) = NbRes[j]
  BY <1>2 DEF MachinesInv, RightSize
<1>4. NbRes[j] # 0
  BY ConstantsAssumption
<1>5. alloc[j] # {}
  BY <1>3, <1>4, FS_EmptySet
<1> QED
  BY <1>1, <1>2, <1>5, LifeOfStates DEF Stage

LEMMA StartComputes ==
  ASSUME TypeOK, JobPhases, DecisionInv, MachinesInv, NEW j \in Job, JobStarts(j)
  PROVE  \E M \in SUBSET Machine : RM!Compute(j, M)
<1>1. /\ actor[j] = "created" /\ actor' = [actor EXCEPT ![j] = "running"]
      /\ UNCHANGED <<state, alloc, view, kill_asked, end_sent>>
  BY DEF JobStarts, executionUnchanged, schedVars, loopVars
<1>2. actor \in [Job -> {"none", "created", "running", "cancelled", "notifying", "dead"}]
  BY DEF TypeOK, JobsTypeOK
<1>3. Stage(j) = "running" /\ view[j] = "running" /\ Holding(j) = {}
  BY <1>1, OnMachines DEF Holding
<1>4. PICK M \in SUBSET Machine : M = alloc[j]
  BY DEF TypeOK, JobsTypeOK
<1>5. AllowSharing \/ \A k \in Job \ {j} : Holding(k) \cap M = {}
  <2> SUFFICES ASSUME ~AllowSharing, NEW k \in Job, k # j, actor[k] \in {"running", "cancelled"}
               PROVE  alloc[k] \cap alloc[j] = {}
    BY <1>4 DEF Holding
  <2>1. view[k] = "running"
    BY OnMachines
  <2> QED
    BY <1>3, <2>1 DEF MachinesInv, Exclusive
<1>6. Turns({j}, "running", M)
  BY <1>1, <1>2, <1>3, <1>4 DEF Turns, Stage, Holding
<1>7. RM!Become({j}, "running", M)
  BY <1>6, TurnsBecome
<1>8. RM!Compute(j, M)
  BY <1>1, <1>3, <1>5, <1>7 DEF RM!Compute, Stage, Holding
<1> QED
  BY <1>8

LEMMA JobEndEnds ==
  ASSUME TypeOK, JobPhases, DecisionInv, MachinesInv, NEW j \in Job, NEW outcome \in Outcome,
         JobEnds(j, outcome)
  PROVE  RM!End({j}, "ended")
<1>1. /\ actor[j] = "running" /\ actor' = [actor EXCEPT ![j] = "notifying"]
      /\ state' = [state EXCEPT ![j] = outcome]
      /\ UNCHANGED <<alloc, view, kill_asked, end_sent>>
  BY DEF JobEnds, executionUnchanged, schedVars, loopVars
<1>2. /\ actor \in [Job -> {"none", "created", "running", "cancelled", "notifying", "dead"}]
      /\ state \in [Job -> JobState]
  BY DEF TypeOK, JobsTypeOK
<1>3. Stage(j) = "running" /\ Holding(j) # {}
  BY <1>1, OnMachines DEF Holding
<1>4. Life(outcome) = "ended"
  BY ConstantsAssumption, LifeOfStates
<1>5. Turns({j}, "ended", {})
  BY <1>1, <1>2, <1>4 DEF Turns, Stage, Holding
<1>6. RM!Become({j}, "ended", {})
  BY <1>5, TurnsBecome
<1> QED
  BY <1>1, <1>3, <1>6 DEF RM!End, Stage, Holding

LEMMA CancelKills ==
  ASSUME TypeOK, JobPhases, DecisionInv, MachinesInv, KillInv, AckInv, NEW j \in Job, JobCancelled(j)
  PROVE  RM!End({j}, "killed")
<1>1. /\ actor[j] = "cancelled" /\ actor' = [actor EXCEPT ![j] = "dead"]
      /\ state' = [state EXCEPT ![j] = "COMPLETED_KILLED"]
      /\ UNCHANGED <<alloc, view, kill_asked, end_sent>>
  BY DEF JobCancelled, executionUnchanged, schedVars, loopVars
<1>2. /\ actor \in [Job -> {"none", "created", "running", "cancelled", "notifying", "dead"}]
      /\ state \in [Job -> JobState]
  BY DEF TypeOK, JobsTypeOK
<1>3. Stage(j) = "running" /\ Holding(j) # {}
  BY <1>1, OnMachines DEF Holding
<1>4. Turns({j}, "killed", {})
  BY <1>1, <1>2, LifeOfStates DEF Turns, Stage, Holding
<1>5. RM!Become({j}, "killed", {})
  BY <1>4, TurnsBecome
<1>6. j \in kill_asked
  <2>1. j \in kill_requested
    BY <1>1 DEF KillInv, EndsAreOnTheirWay, Killing, Ending
  <2> QED
    BY <2>1 DEF AckInv, KillsAsked
<1> QED
  BY <1>1, <1>3, <1>5, <1>6 DEF RM!End, Stage, Holding

LEMMA KillerKills ==
  ASSUME TypeOK, JobPhases, LinkInv, DecisionInv, MachinesInv, KillInv, AckInv, RunningHaveActors,
         NEW S \in killers, NEW inPtask \in SUBSET S, killer_process(S, inPtask)
  PROVE  RM!End(RunningJobs(S) \ inPtask, "killed")
<1> DEFINE running == RunningJobs(S)
           toKill  == running \ inPtask
<1>1. /\ inPtask \subseteq running
      /\ state' = [j \in Job |-> IF j \in toKill THEN "COMPLETED_KILLED" ELSE state[j]]
      /\ actor' = [j \in Job |-> CASE j \in toKill  -> "dead"
                                   [] j \in inPtask -> "cancelled"
                                   [] OTHER         -> actor[j]]
      /\ UNCHANGED <<alloc, view, kill_asked, end_sent>>
  BY DEF killer_process, executionUnchanged, schedVars, loopVars
<1>2. S \subseteq Job
  BY DEF TypeOK, ActorsTypeOK
<1>3. \A j \in running : actor[j] = "running"
  <2>1. \A j \in S : actor[j] # "cancelled"
    BY DEF KillInv, KillersDiffer
  <2>2. \A j \in Job : actor[j] # "created"
    BY DEF LinkInv, Settled
  <2> QED
    BY <1>2, <2>1, <2>2 DEF RunningJobs, RunningHaveActors
<1>4. \A j \in toKill : Stage(j) = "running" /\ Holding(j) # {}
  BY <1>2, <1>3, OnMachines DEF Holding, RunningJobs
<1>5. \A j \in Job : /\ j \in toKill => actor'[j] = "dead" /\ state'[j] = "COMPLETED_KILLED"
                     /\ j \in inPtask /\ j \notin toKill => actor'[j] = "cancelled" /\ actor[j] = "running"
                     /\ j \notin inPtask /\ j \notin toKill => actor'[j] = actor[j]
                     /\ j \notin toKill => state'[j] = state[j]
  BY <1>1, <1>3
<1>6. Turns(toKill, "killed", {})
  BY <1>1, <1>5, LifeOfStates DEF Turns, Stage, Holding
<1>7. RM!Become(toKill, "killed", {})
  BY <1>6, TurnsBecome
<1>8. toKill \subseteq kill_asked
  BY DEF KillInv, KillersDiffer, AckInv, KillsAsked, RunningJobs
<1>9. \A j \in toKill : j \in Job
  BY <1>2 DEF RunningJobs
<1> QED
  BY <1>1, <1>4, <1>7, <1>8, <1>9 DEF RM!End, Stage, Holding

\* A step that ResourceManager does not see.
Unseen == UNCHANGED <<view, kill_asked, end_sent>>
          /\ \A j \in Job : Stage(j)' = Stage(j) /\ Holding(j)' = Holding(j)

LEMMA UnseenStutters ==
  ASSUME Unseen
  PROVE  [RM!RMNext]_(RM!rmVars)
BY NothingTurns, StutterMapped DEF Unseen, mapped

LEMMA ExecutionRefines ==
  ASSUME TypeOK, JobPhases, LinkInv, DecisionInv, MachinesInv, KillInv, AckInv, RunningHaveActors,
         ~end_sent, ExecutionStep
  PROVE  [RM!RMNext]_(RM!rmVars)
<1>1. ASSUME NEW j \in Job, JobStarts(j) PROVE RM!RMNext
  BY <1>1, StartComputes DEF RM!RMNext
<1>2. ASSUME NEW j \in Job, JobCancelled(j) PROVE RM!RMNext
  <2>1. {j} \in SUBSET Job /\ RM!End({j}, "killed")
    BY <1>2, CancelKills
  <2> QED
    BY <2>1 DEF RM!RMNext
<1>3. ASSUME NEW j \in Job, NEW outcome \in Outcome, JobEnds(j, outcome) PROVE RM!RMNext
  <2>1. {j} \in SUBSET Job /\ RM!End({j}, "ended")
    BY <1>3, JobEndEnds
  <2> QED
    BY <2>1 DEF RM!RMNext
<1>4. ASSUME NEW S \in killers, NEW inPtask \in SUBSET S, killer_process(S, inPtask) PROVE RM!RMNext
  <2>1. PICK T : T = RunningJobs(S) \ inPtask
    OBVIOUS
  <2>2. T \in SUBSET Job
    BY <2>1 DEF RunningJobs, TypeOK, ActorsTypeOK
  <2>3. RM!End(RunningJobs(S) \ inPtask, "killed")
    BY <1>4, KillerKills
  <2>4. RM!End(T, "killed")
    BY <2>1, <2>3 DEF RM!End, RM!Become
  <2> QED
    BY <2>2, <2>4 DEF RM!RMNext
<1>5. ASSUME NEW w \in Waiter, WaiterWakes(w) PROVE [RM!RMNext]_(RM!rmVars)
  <2>1. UNCHANGED <<state, actor, alloc, view, kill_asked, end_sent>>
    BY <1>5 DEF WaiterWakes, jobVars, executionUnchanged, schedVars, loopVars
  <2>2. Unseen
    BY <2>1 DEF Unseen, Stage, Holding
  <2> QED
    BY <2>2, UnseenStutters
<1> QED
  BY <1>1, <1>2, <1>3, <1>4, <1>5 DEF ExecutionStep

\* A step that has nothing to do with what ResourceManager sees.
LEMMA IdleRefines ==
  ASSUME UNCHANGED <<state, actor, alloc, view, kill_asked, end_sent>>
  PROVE  [RM!RMNext]_(RM!rmVars)
BY UnseenStutters DEF Unseen, Stage, Holding

LEMMA SubmittersRefine ==
  ASSUME NEW s \in Submitter, SubmitterStep(s)
  PROVE  [RM!RMNext]_(RM!rmVars)
<1>1. UNCHANGED <<state, actor, alloc, view, kill_asked, end_sent>>
  BY DEF SubmitterStep, SubmitterHello, SubmitBatch, SubmitterBye, submitterUnchanged, jobVars,
     schedVars, loopVars
<1> QED
  BY <1>1, IdleRefines

LEMMA DecisionsRefine ==
  ASSUME TypeOK, JobPhases, NEW j \in Job, view[j] = "waiting", NEW what \in {"running", "done"},
         view' = [view EXCEPT ![j] = what], UNCHANGED <<state, actor, kill_asked, end_sent>>,
         \A k \in Job : k # j => alloc'[k] = alloc[k], ~end_sent
  PROVE  RM!RMNext
<1>1. actor[j] = "none"
  BY DEF JobPhases
<1>2. \A k \in Job : Stage(k)' = Stage(k) /\ Holding(k)' = Holding(k)
  BY <1>1 DEF Stage, Holding
<1>3. UNCHANGED <<lifeMap, holdsMap>>
  BY <1>2, NothingTurns
<1>4. RM!Order(j, what)
  BY <1>3 DEF RM!Order, lifeMap, holdsMap
<1> QED
  BY <1>4 DEF RM!RMNext

LEMMA RegistrationRefines ==
  ASSUME TypeOK, JobPhases, NEW j \in DynJob, handle_register_job(j), ~end_sent
  PROVE  RM!RMNext
<1>1. /\ state[j] = "ABSENT" /\ state' = [state EXCEPT ![j] = "SUBMITTED"]
      /\ view' = [view EXCEPT ![j] = IF RegistrationAck THEN view[j] ELSE "waiting"]
      /\ UNCHANGED <<actor, alloc, kill_asked, end_sent>>
  BY DEF handle_register_job, Decide, Apply, linkUnchanged, loopVars
<1>2. j \in Job /\ j \notin StaticJob
  BY ConstantsAssumption DEF Job
<1>3. view[j] = "unknown" /\ actor[j] = "none"
  BY <1>1, <1>2 DEF JobPhases
<1>4. state \in [Job -> JobState]
  BY DEF TypeOK, JobsTypeOK
<1>5. Turns({j}, "queued", {})
  BY <1>1, <1>2, <1>3, <1>4, LifeOfStates DEF Turns, Stage, Holding
<1>6. RM!Become({j}, "queued", {})
  BY <1>5, TurnsBecome
<1>7. PICK known \in {"unknown", "waiting"} : known = IF RegistrationAck THEN view[j] ELSE "waiting"
  BY <1>3
<1>8. RM!Register(j, known)
  BY <1>1, <1>2, <1>6, <1>7, LifeOfStates DEF RM!Register
<1> QED
  BY <1>2, <1>8 DEF RM!RMNext

LEMMA SchedulerRefines ==
  ASSUME TypeOK, JobPhases, ~end_sent, SchedulerStep
  PROVE  [RM!RMNext]_(RM!rmVars)
<1>1. ASSUME NEW j \in Job, NEW machines \in SUBSET Machine, handle_execute_job(j, machines)
      PROVE  RM!RMNext
  <2>1. /\ view[j] = "waiting" /\ view' = [view EXCEPT ![j] = "running"]
        /\ alloc' = [alloc EXCEPT ![j] = machines]
        /\ UNCHANGED <<state, actor, kill_asked, end_sent>>
    BY <1>1 DEF handle_execute_job, Decide, Apply, linkUnchanged, loopVars
  <2>2. \A k \in Job : k # j => alloc'[k] = alloc[k]
    BY <2>1 DEF TypeOK, JobsTypeOK
  <2> QED
    BY <2>1, <2>2, DecisionsRefine
<1>2. ASSUME NEW j \in Job, handle_reject_job(j) PROVE RM!RMNext
  <2>1. /\ view[j] = "waiting" /\ view' = [view EXCEPT ![j] = "done"]
        /\ UNCHANGED <<state, actor, alloc, kill_asked, end_sent>>
    BY <1>2 DEF handle_reject_job, Decide, Apply, linkUnchanged, jobVars, loopVars
  <2> QED
    BY <2>1, DecisionsRefine
<1>3. ASSUME NEW S \in SUBSET Job, handle_kill_job(S) PROVE RM!RMNext
  <2>1. /\ \A j \in S : view[j] = "running"
        /\ kill_asked' = kill_asked \cup S
        /\ UNCHANGED <<state, actor, alloc, view, end_sent>>
    BY <1>3 DEF handle_kill_job, Decide, Apply, linkUnchanged, jobVars, loopVars
  <2>2. RM!AskKill(S)
    BY <2>1 DEF RM!AskKill
  <2> QED
    BY <2>2 DEF RM!RMNext
<1>4. ASSUME NEW j \in DynJob, handle_register_job(j) PROVE RM!RMNext
  BY <1>4, RegistrationRefines
<1>5. ASSUME \/ \E w \in Waiter : handle_call_me_later(w)
             \/ NotifyRegistrationFinished \/ NotifyContinueRegistration \/ ReplyApplied
             \/ send_message_at_time
      PROVE  UNCHANGED <<state, actor, alloc, view, kill_asked, end_sent>>
  BY <1>5 DEF handle_call_me_later, NotifyRegistrationFinished, NotifyContinueRegistration,
     ReplyApplied, send_message_at_time, Decide, Apply, linkUnchanged, jobVars, loopVars
<1> QED
  BY <1>1, <1>2, <1>3, <1>4, <1>5, IdleRefines DEF SchedulerStep

LEMMA SubmissionRefines ==
  ASSUME TypeOK, JobPhases, MessagesAreTrue, ~end_sent, server_on_job_submitted
  PROVE  RM!RMNext
<1>1. /\ Receive("JOB_SUBMITTED")
      /\ state' = [j \in Job |-> IF j \in Received.about THEN "SUBMITTED" ELSE state[j]]
      /\ UNCHANGED <<actor, alloc, view, kill_asked, end_sent>>
  BY DEF server_on_job_submitted, Receive, schedVars
<1>2. PICK batch : batch = Received.about
  OBVIOUS
<1>3. Received \in Message /\ Received.type = "JOB_SUBMITTED" /\ mailbox # <<>> /\ IsTrue(Received)
  <2>1. mailbox \in Seq(Message) /\ mailbox # <<>>
    BY <1>1 DEF TypeOK, MailTypeOK, Receive
  <2>2. Received = mailbox[1] /\ 1 \in 1..Len(mailbox)
    BY <2>1 DEF Received
  <2> QED
    BY <1>1, <2>1, <2>2, TakeFlight DEF MessagesAreTrue
<1>4. batch \in SUBSET StaticJob
  BY <1>2, <1>3 DEF Message
<1>5. \A j \in batch : state[j] = "NOT_SUBMITTED"
  BY <1>2, <1>3 DEF IsTrue
<1>6. \A j \in batch : j \in Job /\ Stage(j) = "none" /\ actor[j] = "none"
  BY <1>4, <1>5, LifeOfStates DEF Stage, JobPhases, Job
<1>7. Turns(batch, "queued", {})
  BY <1>1, <1>2, <1>6, LifeOfStates DEF Turns, Stage, Holding
<1>8. RM!Become(batch, "queued", {})
  BY <1>7, TurnsBecome
<1>9. RM!Appear(batch)
  BY <1>1, <1>6, <1>8 DEF RM!Appear, Stage
<1> QED
  BY <1>4, <1>9 DEF RM!RMNext

LEMMA OrdersAreObeyed ==
  ASSUME TypeOK, JobPhases, DecisionInv, ~end_sent, server_on_execute_job \/ server_on_reject_job
  PROVE  RM!RMNext
<1>1. CASE server_on_execute_job
  <2>1. /\ Receive("SCHED_EXECUTE_JOB")
        /\ state' = [j \in Job |-> IF j \in Received.about THEN "RUNNING" ELSE state[j]]
        /\ actor' = [j \in Job |-> IF j \in Received.about THEN "created" ELSE actor[j]]
        /\ UNCHANGED <<alloc, view, kill_asked, end_sent>>
    BY <1>1 DEF server_on_execute_job, Receive, schedVars
  <2>2. PICK j \in Job : Received.about = {j} /\ state[j] = "SUBMITTED" /\ view[j] = "running"
    BY <2>1, DecidedJob DEF Decision
  <2>3. Turns({j}, "running", {})
    BY <2>1, <2>2, LifeOfStates DEF Turns, Stage, Holding
  <2>4. RM!Become({j}, "running", {})
    BY <2>3, TurnsBecome
  <2>5. RM!Obey(j)
    BY <2>1, <2>2, <2>4, LifeOfStates DEF RM!Obey
  <2> QED
    BY <2>5 DEF RM!RMNext
<1>2. CASE server_on_reject_job
  <2>1. /\ Receive("SCHED_REJECT_JOB")
        /\ state' = [j \in Job |-> IF j \in Received.about THEN "REJECTED" ELSE state[j]]
        /\ UNCHANGED <<actor, alloc, view, kill_asked, end_sent>>
    BY <1>2 DEF server_on_reject_job, Receive, schedVars
  <2>2. PICK j \in Job : Received.about = {j} /\ state[j] = "SUBMITTED" /\ view[j] = "done"
    BY <2>1, DecidedJob DEF Decision
  <2>3. actor[j] \notin {"running", "cancelled"}
    BY <2>2 DEF JobPhases
  <2>4. Turns({j}, "rejected", {})
    BY <2>1, <2>2, <2>3, LifeOfStates DEF Turns, Stage, Holding
  <2>5. RM!Become({j}, "rejected", {})
    BY <2>4, TurnsBecome
  <2>6. RM!Obey(j)
    BY <2>1, <2>2, <2>5, LifeOfStates DEF RM!Obey
  <2> QED
    BY <2>6 DEF RM!RMNext
<1> QED
  BY <1>1, <1>2

LEMMA HandlersRefine ==
  ASSUME TypeOK, JobPhases, MessagesAreTrue, DecisionInv, KillInv, ~end_sent, Handle
  PROVE  [RM!RMNext]_(RM!rmVars)
<1>1. CASE server_on_job_submitted
  BY <1>1, SubmissionRefines
<1>2. CASE server_on_execute_job \/ server_on_reject_job
  BY <1>2, OrdersAreObeyed
<1>3. CASE server_on_job_completed
  <2>1. /\ Receive("JOB_COMPLETED")
        /\ actor' = [j \in Job |-> IF j \in Received.about THEN "dead" ELSE actor[j]]
        /\ UNCHANGED <<state, alloc, view, kill_asked, end_sent>>
    BY <1>3 DEF server_on_job_completed, Receive, schedVars
  <2>2. PICK j \in Job : Received.about = {j} /\ actor[j] = "notifying"
    BY <2>1, TakeFlight DEF KillInv, Ending
  <2>3. Unseen
    BY <2>1, <2>2 DEF Unseen, Stage, Holding
  <2> QED
    BY <2>3, UnseenStutters
<1>4. CASE \/ server_on_submitter_hello \/ server_on_submitter_bye \/ server_on_event_occurred
           \/ server_on_killing_done \/ server_on_register_job \/ server_on_kill_jobs
           \/ server_on_call_me_later \/ server_on_waiting_done \/ server_on_end_dynamic_register
           \/ server_on_continue_dynamic_register \/ server_on_sched_ready
  <2>1. UNCHANGED <<state, actor, alloc, view, kill_asked, end_sent>>
    BY <1>4 DEF server_on_submitter_hello, server_on_submitter_bye, server_on_event_occurred,
       server_on_killing_done, server_on_register_job, server_on_kill_jobs,
       server_on_call_me_later, server_on_waiting_done, server_on_end_dynamic_register,
       server_on_continue_dynamic_register, server_on_sched_ready, Receive, jobVars, schedVars
  <2> QED
    BY <2>1, IdleRefines
<1> QED
  BY <1>1, <1>2, <1>3, <1>4 DEF Handle

LEMMA SendingTells ==
  ASSUME TypeOK, EventsAreTrue, DecisionInv, AccountInv, ~end_sent, ServerSendsEvents
  PROVE  RM!RMNext
<1>1. /\ view' = [j \in Job |-> CASE Says(outbox, "JOB_COMPLETED", j) -> "done"
                                  [] Says(outbox, "JOB_SUBMITTED", j) -> "waiting"
                                  [] OTHER -> view[j]]
      /\ UNCHANGED <<state, actor, alloc, kill_asked, end_sent>>
  BY DEF ServerSendsEvents, generate_and_send_message, checkUnchanged
<1>2. PICK S : S = {j \in Job : Says(outbox, "JOB_SUBMITTED", j)}
  OBVIOUS
<1>3. PICK D : D = {j \in Job : Says(outbox, "JOB_COMPLETED", j)}
  OBVIOUS
<1>4. \A j \in S : view[j] = "unknown" /\ Stage(j) = "queued"
  BY <1>2, LifeOfStates DEF EventsAreTrue, Says, Stage
<1>5. \A j \in D : view[j] = "running" /\ Stage(j) \in {"ended", "killed"}
  <2> SUFFICES ASSUME NEW j \in D PROVE view[j] = "running" /\ Stage(j) \in {"ended", "killed"}
    OBVIOUS
  <2>1. j \in Job /\ Reported(j)
    BY <1>3 DEF Reported
  <2>2. view[j] = "running" /\ IsComplete(state[j])
    BY <2>1 DEF AccountInv, Accounted, Counted
  <2>3. state[j] # "REJECTED"
    BY <2>1, <2>2 DEF DecisionInv, BeliefsAreTrue
  <2> QED
    BY <2>2, <2>3, LifeOfStates DEF IsComplete, Stage
<1>6. view' = [j \in Job |-> IF j \in D THEN "done" ELSE IF j \in S THEN "waiting" ELSE view[j]]
  <2>1. \A j \in Job : j \in D => view'[j] = "done"
    BY <1>3, WhatIsLearnt
  <2>2. \A j \in Job : j \notin D /\ j \in S => view'[j] = "waiting"
    BY <1>1, <1>2, <1>3, Zenon
  <2>3. \A j \in Job : j \notin D /\ j \notin S => view'[j] = view[j]
    BY <1>1, <1>2, <1>3, Zenon
  <2>4. view' = [j \in Job |-> view'[j]]
    BY <1>1
  <2> QED
    BY <2>1, <2>2, <2>3, <2>4
<1>7. S \in SUBSET Job /\ D \in SUBSET Job
  BY <1>2, <1>3
<1>8. RM!Tell(S, D)
  BY <1>1, <1>4, <1>5, <1>6, <1>7 DEF RM!Tell, Stage
<1> QED
  BY <1>7, <1>8 DEF RM!RMNext

LEMMA EndFinishes ==
  ASSUME TypeOK, JobPhases, LinkInv, DecisionInv, KillInv, AccountInv, CountInv, SubmitterInv, StaticInv,
         ServerEndsSimulation
  PROVE  RM!RMNext
<1>1. Flight = {} /\ UNCHANGED <<actor, state>>
  BY CallsWhenAllIsQuiet
<1>2. /\ SubmittersFinished /\ nb_completed = nb_submitted /\ nb_running = 0
      /\ outbox = <<>> /\ ~end_sent /\ end_sent' = TRUE /\ UNCHANGED <<alloc, kill_asked>>
  BY DEF ServerEndsSimulation, is_simulation_finished, checkUnchanged
<1>3. view' = view
  <2> DEFINE events == <<Ev("SIMULATION_ENDS", {})>>
  <2>1. view' = [j \in Job |-> CASE Says(events, "JOB_COMPLETED", j) -> "done"
                                 [] Says(events, "JOB_SUBMITTED", j) -> "waiting"
                                 [] OTHER -> view[j]]
    BY DEF ServerEndsSimulation, generate_and_send_message
  <2>2. Len(events) = 1 /\ events[1].type = "SIMULATION_ENDS"
    BY DEF Ev
  <2>3. \A j \in Job : ~Says(events, "JOB_COMPLETED", j) /\ ~Says(events, "JOB_SUBMITTED", j)
    BY <2>2 DEF Says
  <2>4. view \in [Job -> {"unknown", "waiting", "running", "done"}]
    BY DEF TypeOK, SchedulerTypeOK
  <2> HIDE DEF events
  <2> QED
    BY <2>1, <2>3, <2>4
<1>4. ASSUME NEW j \in Job
      PROVE  \/ view[j] = "done" /\ Stage(j) \in {"ended", "killed", "rejected"}
             \/ j \notin StaticJob /\ Stage(j) = "none"
  <2>1. /\ state[j] = "ABSENT" \/ IsComplete(state[j])
        /\ actor[j] \in {"none", "dead"}
    BY <1>1, <1>2, JobsAreOver
  <2>2. CASE state[j] = "ABSENT"
    BY <2>2, LifeOfStates DEF Stage, StaticInv, OnTheirWay
  <2>3. CASE IsComplete(state[j])
    <3>1. Counted(j)
      BY <1>1, <2>1, <2>3 DEF Counted, Pending, Killing
    <3>2. Len(outbox) = 0
      BY <1>2
    <3>3. ~Reported(j)
      BY <3>2 DEF Reported, Says
    <3>4. view[j] = "done"
      BY <3>1, <3>3 DEF AccountInv, Accounted
    <3> QED
      BY <2>3, <3>4, LifeOfStates DEF IsComplete, Stage
  <2> QED
    BY <2>1, <2>2, <2>3
<1>5. RM!Finish
  BY <1>1, <1>2, <1>3, <1>4 DEF RM!Finish, RM!Over, Stage
<1> QED
  BY <1>2, <1>5 DEF RM!RMNext

LEMMA NextRefines ==
  ASSUME Layers, EndInv, ~aborted, Next
  PROVE  [RM!RMNext]_(RM!rmVars)
<1>1. /\ TypeOK /\ JobPhases /\ LifeCycle /\ LinkInv /\ DecisionInv /\ MachinesInv /\ KillInv
      /\ AccountInv /\ CountInv /\ AckInv /\ SubmitterInv /\ StaticInv /\ RunningHaveActors
  BY LayersOfTheLiving
<1>2. EventsAreTrue /\ MessagesAreTrue
  BY <1>1 DEF LifeCycle
<1>3. CASE end_sent
  <2>1. UNCHANGED settledVars
    BY <1>1, <1>3, NothingHappensAfterTheEnd
  <2> QED
    BY <2>1, IdleRefines DEF settledVars
<1>4. CASE ~end_sent
  <2>1. CASE \E s \in Submitter : SubmitterStep(s)
    BY <2>1, SubmittersRefine
  <2>2. CASE ExecutionStep
    BY <1>1, <1>4, <2>2, ExecutionRefines
  <2>3. CASE SchedulerStep
    BY <1>1, <1>4, <2>3, SchedulerRefines
  <2>4. CASE Handle
    BY <1>1, <1>2, <1>4, <2>4, HandlersRefine
  <2>5. CASE ServerSendsEvents
    BY <1>1, <1>2, <1>4, <2>5, SendingTells
  <2>6. CASE ServerEndsSimulation
    BY <1>1, <2>6, EndFinishes
  <2>7. CASE Deliver \/ ServerLoops \/ ServerLeavesLoop
    <3>1. UNCHANGED <<state, actor, alloc, view, kill_asked, end_sent>>
      BY <2>7 DEF Deliver, ServerLoops, ServerLeavesLoop, checkUnchanged, jobVars, schedVars, loopVars
    <3> QED
      BY <3>1, IdleRefines
  <2> QED
    BY <2>1, <2>2, <2>3, <2>4, <2>5, <2>6, <2>7 DEF Next, ServerStep
<1> QED
  BY <1>3, <1>4

(***************************************************************************)
(* Batsim implements ResourceManager, for any scheduler that follows the   *)
(* protocol: jobs compute only where and when they were told to, one at a  *)
(* time on a machine unless it is shared, are killed only on request, end  *)
(* once, what the scheduler is told has happened, and nothing happens      *)
(* after SIMULATION_ENDS.                                                  *)
(***************************************************************************)
THEOREM BatsimManagesResources == Spec => ImplementsResourceManager
<1>1. Init => RM!RMInit
  BY LifeOfStates DEF Init, RM!RMInit
<1>2. Layers /\ EndState /\ [Next]_vars => [RM!RMNext]_(RM!rmVars)
  <2> SUFFICES ASSUME Layers, EndState, [Next]_vars PROVE [RM!RMNext]_(RM!rmVars)
    OBVIOUS
  <2>1. CASE Next
    BY <2>1, StepsOfTheLiving, NextRefines DEF EndState
  <2>2. CASE UNCHANGED vars
    <3>1. UNCHANGED <<state, actor, alloc, view, kill_asked, end_sent>>
      BY <2>2 DEF vars, jobVars, schedVars, loopVars
    <3> QED
      BY <3>1, IdleRefines
  <2> QED
    BY <2>1, <2>2
<1> QED
  BY <1>1, <1>2, LayersHold, EndStateHolds, PTL DEF Spec, ImplementsResourceManager, RM!RMSpec
=============================================================================
