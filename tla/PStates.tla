------------------------------ MODULE PStates -------------------------------
(***************************************************************************)
(* Power states and availability of the machines: the handlers of          *)
(* SET_RESOURCE_STATE, of the end of a switch, of the availability events  *)
(* and of EXECUTE_JOB (server.cpp), the switchers and CurrentSwitches      *)
(* (pstate.cpp), and the machines' states (machines.cpp).                  *)
(*                                                                         *)
(* Submission, kills and the end of the simulation are in Batsim: here all *)
(* jobs have been submitted, and the server's step is a whole handler.     *)
(* As there, a message is handled only when no actor is about to run.      *)
(***************************************************************************)
EXTENDS Integers, Sequences, FiniteSets, SequencesExt

CONSTANTS
  Machine,
  Job,
  CompPState,     \* the COMPUTATION_PSTATEs
  SleepPState,    \* the SLEEP_PSTATEs
  AvailabilityEvents,  \* the event list: a sequence of [type, about]
  Switchable,     \* the machines the scheduler switches
  Patient,        \* it asks for a machine again only when it got the answer
  AllowSharing,
  MaxRequests     \* bounds the SET_RESOURCE_STATE of the scheduler

Virtual  == "TRANSITION_VIRTUAL_PSTATE"
PState   == CompPState \cup SleepPState

MState == {"SLEEPING", "IDLE", "COMPUTING", "UNAVAILABLE",
           "TRANSITING_FROM_SLEEPING_TO_COMPUTING",
           "TRANSITING_FROM_COMPUTING_TO_SLEEPING"}
Transiting(st) == st \in {"TRANSITING_FROM_SLEEPING_TO_COMPUTING",
                          "TRANSITING_FROM_COMPUTING_TO_SLEEPING"}

ASSUME PStatesAssumption ==
  /\ IsFiniteSet(Machine) /\ IsFiniteSet(Job)
  /\ CompPState # {} /\ CompPState \cap SleepPState = {} /\ Virtual \notin PState
  /\ AvailabilityEvents \in Seq([type : {"available", "unavailable"},
                                 about : SUBSET Machine])
  /\ Switchable \subseteq Machine
  /\ Patient \in BOOLEAN /\ AllowSharing \in BOOLEAN
  /\ MaxRequests \in Nat

VARIABLES
  pstate,        \* the host's power state
  mstate,        \* Machine::state
  computing,     \* Machine::jobs_being_computed
  alloc,         \* the machines of each job
  actor,         \* none | created | running | ended: the job's actor
  switches,      \* CurrentSwitches
  switcher,      \* the switch_on/off_machine_process that have not ended
  nb_switching,  \* ServerData::nb_switching_machines
  mailbox,       \* the messages put to the server
  outbox,        \* the events buffered for the scheduler
  occurred,      \* how many events of the list the submitter has sent
  sched,         \* ready | run | blocked: the scheduler and its REQ-REP actor
  view,          \* what the scheduler knows of each job
  pending,       \* its unanswered SET_RESOURCE_STATE, per machine
  wanted,        \* the power state it asked for last, per machine
  told_down,     \* the machines it was told are unavailable
  asked,         \* how many SET_RESOURCE_STATE it has sent
  aborted

machineVars == <<pstate, mstate, computing>>
jobVars     == <<alloc, actor>>
switchVars  == <<switches, switcher, nb_switching>>
schedVars   == <<sched, view, pending, wanted, told_down, asked>>
vars == <<machineVars, jobVars, switchVars, mailbox, outbox, occurred, schedVars, aborted>>

Msg(type, about, target) == [type |-> type, about |-> about, target |-> target]
Put(m) == mailbox' = Append(mailbox, m)
xbt_assert(condition) == aborted' = ~condition

\* The actors that run before simulated time advances.
Runnable ==
  \/ \E s \in switcher : s.phase = "created"
  \/ \E j \in Job : actor[j] = "created"

Init ==
  /\ pstate \in [Machine -> CompPState]
  /\ mstate = [m \in Machine |-> "IDLE"]
  /\ computing = [m \in Machine |-> {}]
  /\ alloc = [j \in Job |-> {}]
  /\ actor = [j \in Job |-> "none"]
  /\ switches = {} /\ switcher = {} /\ nb_switching = 0
  /\ mailbox = <<>> /\ outbox = <<>>
  /\ occurred = 0
  /\ sched = "run"
  /\ view = [j \in Job |-> "waiting"]
  /\ pending = [m \in Machine |-> 0]
  /\ wanted = pstate
  /\ told_down = {}
  /\ asked = 0
  /\ aborted = FALSE

----------------------------------------------------------------------------
(***************************************************************************)
(* CurrentSwitches. A request is [number, all, left, target]; the set      *)
(* holds those with machines left to switch. Requests are numbered as they *)
(* come: the scheduler waits until one is recorded before it sends more.   *)
(***************************************************************************)
add_switch(machines, target) ==
  switches \cup {[number |-> asked, all |-> machines, left |-> machines, target |-> target]}

\* The oldest request for this power state in which the machine is left: the one
\* that mark_switch_as_done credits.
Credited(requests, m, target) ==
  {r \in requests :
     /\ r.target = target /\ m \in r.left
     /\ \A q \in requests : q.target = target /\ m \in q.left => r.number <= q.number}

\* Mutant of mark_switch_as_done: the first machine finishes the request.
AllAtOnce(requests, S, target) ==
  {[r EXCEPT !.left = IF \E m \in S : r \in Credited(requests, m, target) THEN {} ELSE @] :
     r \in requests}

\* For each machine of S. Which request a machine is credited to does not depend on
\* the other machines.
mark_switch_as_done(requests, S, target) ==
  {[r EXCEPT !.left = {m \in @ : ~ (m \in S /\ r \in Credited(requests, m, target))}] :
     r \in requests}

\* Mutant of Unfinished: the finished request is not erased.
Kept(requests) == requests

Unfinished(requests) == {r \in requests : r.left # {}}
Finished(requests)   == {r \in requests : r.left = {}}

\* Mutant of answered: the machines still switching, of which there are none.
AnsweredLeft(r) == r.left

answered(r) == r.all

\* append_resource_state_changed for each request that has just been finished, in
\* any order: the code's is that of the machines that finished them.
StateChanged(requests) ==
  {[i \in DOMAIN done |-> Msg("RESOURCE_STATE_CHANGED", answered(done[i]), done[i].target)] :
     done \in SetToSeqs(Finished(requests))}

----------------------------------------------------------------------------
\* The switchers

\* Up to the computation of 1 flop in the virtual power state.
SwitcherStarts(s) ==
  /\ ~aborted
  /\ s \in switcher /\ s.phase = "created"
  /\ xbt_assert(/\ mstate[s.machine] = IF s.target \in CompPState
                                       THEN "TRANSITING_FROM_SLEEPING_TO_COMPUTING"
                                       ELSE "TRANSITING_FROM_COMPUTING_TO_SLEEPING"
                /\ computing[s.machine] = {})
  /\ pstate' = [pstate EXCEPT ![s.machine] = Virtual]
  /\ switcher' = (switcher \ {s}) \cup {[s EXCEPT !.phase = "computing"]}
  /\ UNCHANGED <<mstate, computing, jobVars, switches, nb_switching, mailbox, outbox,
                 occurred, schedVars>>

\* Mutant of SwitchedState: a copy of the other switcher.
SwitchedIdle(target) == "IDLE"

SwitchedState(target) == IF target \in CompPState THEN "IDLE" ELSE "SLEEPING"

\* From the end of that computation: Machine::update_machine_state is
\* unconditional.
SwitcherEnds(s) ==
  /\ ~aborted
  /\ s \in switcher /\ s.phase = "computing"
  /\ pstate' = [pstate EXCEPT ![s.machine] = s.target]
  /\ mstate' = [mstate EXCEPT ![s.machine] = SwitchedState(s.target)]
  /\ switcher' = switcher \ {s}
  /\ Put(Msg("SWITCHED", {s.machine}, s.target))
  /\ UNCHANGED <<computing, jobVars, switches, nb_switching, outbox, occurred,
                 schedVars, aborted>>

----------------------------------------------------------------------------
\* The job actors

\* update_machines_on_job_run
JobStarts(j) ==
  /\ ~aborted
  /\ actor[j] = "created"
  /\ actor' = [actor EXCEPT ![j] = "running"]
  /\ mstate' = [m \in Machine |-> IF m \in alloc[j] THEN "COMPUTING" ELSE mstate[m]]
  /\ computing' = [m \in Machine |-> IF m \in alloc[j] THEN computing[m] \cup {j}
                                     ELSE computing[m]]
  /\ UNCHANGED <<pstate, alloc, switchVars, mailbox, outbox, occurred, schedVars, aborted>>

\* Mutant of IdleAgain: an unavailable machine becomes idle when its jobs are over.
IdleAlways(m) == computing'[m] = {}

IdleAgain(m) == computing'[m] = {} /\ mstate[m] # "UNAVAILABLE"

\* update_machines_on_job_end, and JOB_COMPLETED to the server.
JobEnds(j) ==
  /\ ~aborted
  /\ actor[j] = "running"
  /\ xbt_assert(\A m \in alloc[j] : j \in computing[m])
  /\ actor' = [actor EXCEPT ![j] = "ended"]
  /\ computing' = [m \in Machine |-> computing[m] \ {j}]
  /\ mstate' = [m \in Machine |-> IF m \in alloc[j] /\ IdleAgain(m) THEN "IDLE"
                                  ELSE mstate[m]]
  /\ Put(Msg("JOB_COMPLETED", {j}, Virtual))
  /\ UNCHANGED <<pstate, alloc, switchVars, outbox, occurred, schedVars>>

\* static_event_submitter_process: the next event of the list occurs.
EventOccurs ==
  /\ ~aborted
  /\ occurred < Len(AvailabilityEvents)
  /\ ~ \E i \in 1..Len(mailbox) : mailbox[i].type \in {"available", "unavailable"}
  /\ occurred' = occurred + 1
  /\ Put(Msg(AvailabilityEvents[occurred'].type, AvailabilityEvents[occurred'].about, Virtual))
  /\ UNCHANGED <<machineVars, jobVars, switchVars, outbox, schedVars, aborted>>

----------------------------------------------------------------------------
\* The scheduler (external): decisions from what it has been told.

\* The jobs it believes to be on machine m.
Busy(m) == {j \in Job : view[j] = "running" /\ m \in alloc[j]}

\* It believes that machine m can compute.
Usable(m) ==
  /\ m \notin told_down /\ pending[m] = 0 /\ wanted[m] \in CompPState
  /\ AllowSharing \/ Busy(m) = {}

Execute(j, S) ==
  /\ ~aborted
  /\ sched = "run" /\ view[j] = "waiting"
  /\ \A m \in S : Usable(m)
  /\ alloc' = [alloc EXCEPT ![j] = S]
  /\ view' = [view EXCEPT ![j] = "running"]
  /\ sched' = "blocked"
  /\ Put(Msg("SCHED_EXECUTE_JOB", {j}, Virtual))
  /\ UNCHANGED <<machineVars, actor, switchVars, outbox, occurred, pending, wanted,
                 told_down, asked, aborted>>

\* It never puts a machine to sleep under a job, nor from one sleep to another.
SetResourceState(S, target) ==
  /\ ~aborted
  /\ sched = "run" /\ asked < MaxRequests
  /\ \A m \in S : /\ Patient => pending[m] = 0
                  /\ target \in SleepPState => Busy(m) = {} /\ wanted[m] \in CompPState
  /\ asked' = asked + 1
  /\ wanted' = [m \in Machine |-> IF m \in S THEN target ELSE wanted[m]]
  /\ pending' = [m \in Machine |-> IF m \in S THEN pending[m] + 1 ELSE pending[m]]
  /\ sched' = "blocked"
  /\ Put(Msg("PSTATE_MODIFICATION", S, target))
  /\ UNCHANGED <<machineVars, jobVars, switchVars, outbox, occurred, view, told_down, aborted>>

EndReply ==
  /\ ~aborted
  /\ sched = "run"
  /\ sched' = "blocked"
  /\ Put(Msg("SCHED_READY", {}, Virtual))
  /\ UNCHANGED <<machineVars, jobVars, switchVars, outbox, occurred, view, pending, wanted,
                 told_down, asked, aborted>>

----------------------------------------------------------------------------
\* The server

Received == mailbox[1]

Receive(type) ==
  /\ ~aborted
  /\ mailbox # <<>> /\ Received.type = type
  /\ ~Runnable
  /\ mailbox' = Tail(mailbox)
  /\ UNCHANGED <<occurred, view, pending, wanted, told_down, asked>>

server_on_execute_job ==
  LET S == UNION {alloc[j] : j \in Received.about} IN
  /\ Receive("SCHED_EXECUTE_JOB")
  /\ xbt_assert(\A m \in S : /\ AllowSharing \/ computing[m] = {}
                             /\ mstate[m] \in {"COMPUTING", "IDLE"}
                             /\ pstate[m] \in CompPState)
  /\ actor' = [j \in Job |-> IF j \in Received.about THEN "created" ELSE actor[j]]
  /\ sched' = "run"
  /\ UNCHANGED <<machineVars, alloc, switchVars, outbox>>

\* A machine that computes changes its power state at once, or goes to sleep with
\* a switcher; one that sleeps wakes up with a switcher; one in a virtual power
\* state is left alone, with an error message.
server_on_pstate_modification ==
  LET S       == Received.about
      target  == Received.target
      awake   == {m \in S : pstate[m] \in CompPState}
      asleep  == {m \in S : pstate[m] \in SleepPState}
      atOnce  == IF target \in CompPState THEN awake ELSE {}
      slow    == (awake \ atOnce) \cup asleep
      marked  == mark_switch_as_done(add_switch(S, target), atOnce, target)
  IN
  /\ Receive("PSTATE_MODIFICATION")
  /\ xbt_assert(asleep # {} => target \in CompPState)
  /\ pstate' = [m \in Machine |-> IF m \in atOnce THEN target ELSE pstate[m]]
  /\ mstate' = [m \in Machine |->
                  CASE m \in slow /\ target \in CompPState -> "TRANSITING_FROM_SLEEPING_TO_COMPUTING"
                    [] m \in slow /\ target \in SleepPState -> "TRANSITING_FROM_COMPUTING_TO_SLEEPING"
                    [] OTHER -> mstate[m]]
  /\ switcher' = switcher \cup {[machine |-> m, target |-> target, phase |-> "created"] : m \in slow}
  /\ nb_switching' = nb_switching + Cardinality(slow)
  /\ switches' = Unfinished(marked)
  /\ \E answers \in StateChanged(marked) : outbox' = outbox \o answers
  /\ sched' = "run"
  /\ UNCHANGED <<computing, jobVars>>

\* Mutants of StillSwitching: the counter moves with the last machine of a request,
\* by one or by all the machines of the request.
StillSwitchingLast(requests) == nb_switching - Cardinality(Finished(requests))
StillSwitchingGroup(requests) ==
  nb_switching - Cardinality(UNION {r.all : r \in Finished(requests)})

StillSwitching(requests) == nb_switching - 1

server_on_switched ==
  LET target == Received.target
      marked == mark_switch_as_done(switches, Received.about, target)
  IN
  /\ Receive("SWITCHED")
  /\ xbt_assert(\A m \in Received.about : /\ pstate[m] = target
                                          /\ Credited(switches, m, target) # {})
  /\ switches' = Unfinished(marked)
  /\ \E answers \in StateChanged(marked) : outbox' = outbox \o answers
  /\ nb_switching' = StillSwitching(marked)
  /\ UNCHANGED <<machineVars, jobVars, switcher, sched>>

server_on_event_machine_unavailable ==
  LET S == Received.about IN
  /\ Receive("unavailable")
  /\ xbt_assert(\A m \in S : mstate[m] # "UNAVAILABLE")
  /\ mstate' = [m \in Machine |-> IF m \in S THEN "UNAVAILABLE" ELSE mstate[m]]
  /\ outbox' = IF S = {} THEN outbox
               ELSE Append(outbox, Msg("event_machine_unavailable", S, Virtual))
  /\ UNCHANGED <<pstate, computing, jobVars, switchVars, sched>>

\* Mutant of BackTo: the jobs that still run there are forgotten.
BackToIdle(m) == "IDLE"

BackTo(m) == IF computing[m] = {} THEN "IDLE" ELSE "COMPUTING"

server_on_event_machine_available ==
  LET S == Received.about IN
  /\ Receive("available")
  /\ xbt_assert(\A m \in S : mstate[m] = "UNAVAILABLE")
  /\ mstate' = [m \in Machine |-> IF m \in S THEN BackTo(m) ELSE mstate[m]]
  /\ outbox' = IF S = {} THEN outbox
               ELSE Append(outbox, Msg("event_machine_available", S, Virtual))
  /\ UNCHANGED <<pstate, computing, jobVars, switchVars, sched>>

server_on_job_completed ==
  /\ Receive("JOB_COMPLETED")
  /\ outbox' = Append(outbox, Msg("JOB_COMPLETED", Received.about, Virtual))
  /\ UNCHANGED <<machineVars, jobVars, switchVars, sched, aborted>>

server_on_sched_ready ==
  /\ Receive("SCHED_READY")
  /\ sched' = "ready"
  /\ UNCHANGED <<machineVars, jobVars, switchVars, outbox, aborted>>

\* What the events say, in their order, of the machines that are unavailable: the
\* last notification about a machine counts.
Notified(m, type) ==
  \E k \in 1..Len(outbox) :
    /\ outbox[k].type = type /\ m \in outbox[k].about
    /\ \A i \in (k+1)..Len(outbox) :
         ~ (/\ outbox[i].type \in {"event_machine_available", "event_machine_unavailable"}
            /\ m \in outbox[i].about)

\* The scheduler is ready, nothing is waiting: it is sent the buffered events.
ServerSendsEvents ==
  /\ ~aborted
  /\ sched = "ready" /\ mailbox = <<>> /\ outbox # <<>>
  /\ sched' = "run"
  /\ outbox' = <<>>
  /\ view' = [j \in Job |->
                IF \E k \in 1..Len(outbox) : outbox[k].type = "JOB_COMPLETED" /\ j \in outbox[k].about
                THEN "done" ELSE view[j]]
  /\ pending' = [m \in Machine |-> pending[m] -
                   Cardinality({k \in 1..Len(outbox) : /\ outbox[k].type = "RESOURCE_STATE_CHANGED"
                                                       /\ m \in outbox[k].about})]
  /\ told_down' = {m \in Machine : \/ Notified(m, "event_machine_unavailable")
                                   \/ m \in told_down /\ ~Notified(m, "event_machine_available")}
  /\ UNCHANGED <<machineVars, jobVars, switchVars, mailbox, occurred, wanted, asked, aborted>>

ServerStep ==
  \/ server_on_execute_job
  \/ server_on_pstate_modification
  \/ server_on_switched
  \/ server_on_event_machine_unavailable
  \/ server_on_event_machine_available
  \/ server_on_job_completed
  \/ server_on_sched_ready
  \/ ServerSendsEvents

Next ==
  \/ ServerStep
  \/ \E s \in switcher : SwitcherStarts(s) \/ SwitcherEnds(s)
  \/ \E j \in Job : JobStarts(j) \/ JobEnds(j)
  \/ EventOccurs
  \/ \E j \in Job, S \in SUBSET Machine \ {{}} : Execute(j, S)
  \/ \E S \in SUBSET Switchable \ {{}}, target \in PState : SetResourceState(S, target)
  \/ EndReply

Spec == Init /\ [][Next]_vars

\* SimGrid runs every actor that can run and advances the clock (see Batsim); the
\* scheduler ends each reply.
Fairness ==
  /\ WF_vars(ServerStep)
  /\ WF_vars(\E s \in switcher : SwitcherStarts(s) \/ SwitcherEnds(s))
  /\ \A j \in Job : WF_vars(JobStarts(j) \/ JobEnds(j))
  /\ WF_vars(EndReply)

FairSpec == Spec /\ Fairness

----------------------------------------------------------------------------
\* Every variable has its type.
PowerTypeOK ==
  /\ pstate \in [Machine -> PState \cup {Virtual}]
  /\ mstate \in [Machine -> MState]
  /\ computing \in [Machine -> SUBSET Job]
  /\ alloc \in [Job -> SUBSET Machine]
  /\ actor \in [Job -> {"none", "created", "running", "ended"}]
  /\ switches \subseteq [number : Nat, all : SUBSET Machine, left : SUBSET Machine,
                         target : PState]
  /\ switcher \subseteq [machine : Machine, target : PState, phase : {"created", "computing"}]
  /\ nb_switching \in Nat
  /\ sched \in {"ready", "run", "blocked"}
  /\ view \in [Job -> {"waiting", "running", "done"}]
  /\ pending \in [Machine -> Nat]
  /\ wanted \in [Machine -> PState]
  /\ told_down \subseteq Machine
  /\ aborted \in BOOLEAN

\* The availability events that the server has handled, and what they make of m.
Handled == occurred - Cardinality({i \in 1..Len(mailbox) :
                                     mailbox[i].type \in {"available", "unavailable"}})
DownAfter(n, m) ==
  \E k \in 1..n :
    /\ AvailabilityEvents[k].type = "unavailable" /\ m \in AvailabilityEvents[k].about
    /\ \A i \in (k+1)..n : m \notin AvailabilityEvents[i].about
Down(m) == DownAfter(Handled, m)

\* A machine that the scheduler switches has been made available by an event, which
\* looks at its jobs and not at its power state (server.cpp:370-377).
CameBack(m) ==
  m \in Switchable /\ \E k \in 1..Handled : /\ AvailabilityEvents[k].type = "available"
                                            /\ m \in AvailabilityEvents[k].about

(***************************************************************************)
(* What the machine states trace counts is what the hosts are doing: a     *)
(* computing machine is in a computation power state, an idle one too      *)
(* unless an event made it available while it was asleep or switching, a   *)
(* sleeping one is in a sleep power state, one in transition has a         *)
(* switcher, and an available machine is COMPUTING exactly while it        *)
(* computes jobs. The server, the switchers, the job actors and the        *)
(* availability events all write Machine::state, and few of them look at   *)
(* it first.                                                               *)
(***************************************************************************)
StateMatchesPState ==
  ~aborted => \A m \in Machine :
    /\ mstate[m] = "COMPUTING" => pstate[m] \in CompPState
    /\ mstate[m] = "IDLE" => pstate[m] \in CompPState \/ CameBack(m)
    /\ mstate[m] = "SLEEPING" => pstate[m] \in SleepPState
    /\ Transiting(mstate[m]) => \E s \in switcher : s.machine = m
    /\ mstate[m] # "UNAVAILABLE" => (mstate[m] = "COMPUTING" <=> computing[m] # {})

\* The end of the switch of machine m to this power state is on its way.
SwitchInFlight(m, target) ==
  \/ \E s \in switcher : s.machine = m /\ s.target = target
  \/ \E i \in 1..Len(mailbox) : mailbox[i] = Msg("SWITCHED", {m}, target)

(***************************************************************************)
(* A request that is still in CurrentSwitches can be answered: the end of  *)
(* the switch of every machine it waits for is on its way, and             *)
(* nb_switching_machines, which holds back the end of the simulation,      *)
(* counts those switches.                                                  *)
(***************************************************************************)
SwitchesAreCounted ==
  ~aborted =>
    /\ \A r \in switches : \A m \in r.left : SwitchInFlight(m, r.target)
    /\ nb_switching = Cardinality(switcher)
         + Cardinality({i \in 1..Len(mailbox) : mailbox[i].type = "SWITCHED"})

(***************************************************************************)
(* protocol.rst, SET_RESOURCE_STATE: "As soon as all the resources have    *)
(* been set into the given state, Batsim acknowledges it". An answer that  *)
(* waits to be sent is still true when it is, even if the request mixed    *)
(* machines that change at once with machines that need a switcher.        *)
(***************************************************************************)
AnswersAreTrue ==
  \A k \in 1..Len(outbox) : outbox[k].type = "RESOURCE_STATE_CHANGED" =>
    \A m \in outbox[k].about : pstate[m] = outbox[k].target

(***************************************************************************)
(* The same sentence, for the request: when all its machines are in the    *)
(* state it asked for and none of their switches is unreported, it has     *)
(* been answered (it is no longer in CurrentSwitches).                     *)
(***************************************************************************)
SetMeansAnswered ==
  \A r \in switches :
    (\A m \in r.all : pstate[m] = r.target) => \E m \in r.all : SwitchInFlight(m, r.target)

(***************************************************************************)
(* Each request is answered by one event with the machines of the request: *)
(* what the scheduler waits for is in the mailbox, in CurrentSwitches or   *)
(* in the buffer, once.                                                    *)
(***************************************************************************)
OneAnswerPerRequest ==
  \A m \in Machine :
    pending[m] = Cardinality({i \in 1..Len(mailbox) : /\ mailbox[i].type = "PSTATE_MODIFICATION"
                                                      /\ m \in mailbox[i].about})
               + Cardinality({r \in switches : m \in r.all})
               + Cardinality({i \in 1..Len(outbox) : /\ outbox[i].type = "RESOURCE_STATE_CHANGED"
                                                     /\ m \in outbox[i].about})

\* What Batsim asks of the list of events: a machine goes away when it is there and
\* comes back when it is away.
EventsAlternate ==
  \A k \in 1..Len(AvailabilityEvents) : \A m \in AvailabilityEvents[k].about :
    AvailabilityEvents[k].type = "unavailable" <=> ~DownAfter(k - 1, m)

\* The server starts a job on a machine that has gone away, and the scheduler that
\* chose the machine has not been told.
StaleExecution ==
  /\ server_on_execute_job
  /\ \E j \in Received.about : \E m \in alloc[j] : Down(m) /\ m \notin told_down

\* A machine that is away comes back, but it was switched meanwhile: the request or
\* the end of the switch has overwritten UNAVAILABLE.
SwitchedWhileDown ==
  /\ server_on_event_machine_available
  /\ \E m \in Received.about : m \in Switchable /\ Down(m) /\ mstate[m] # "UNAVAILABLE"

(***************************************************************************)
(* With alternating events and a scheduler that waits for its answers,     *)
(* Batsim aborts in two ways only: at the EXECUTE_JOB of a scheduler that  *)
(* has not been told yet that the machine went away, and at the return of  *)
(* a machine that was being switched, or asked to switch, while it was     *)
(* away.                                                                   *)
(***************************************************************************)
OnlyStaleDecisionsAbort ==
  [][aborted' => aborted \/ StaleExecution \/ SwitchedWhileDown]_vars

(***************************************************************************)
(* input-events.rst, Machine_unavailable: "It is no longer possible to     *)
(* execute jobs on these machines", whatever jobs end there meanwhile and  *)
(* however late the scheduler learns it.                                   *)
(***************************************************************************)
NoJobStartsWhileDown ==
  [][\A m \in Machine : Down(m) => computing'[m] \subseteq computing[m]]_vars

\* Every SET_RESOURCE_STATE is eventually answered.
RequestsAreAnswered == \A m \in Machine : pending[m] > 0 ~> pending[m] = 0
=============================================================================
