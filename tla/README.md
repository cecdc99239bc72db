# Batsim in TLA+

Batsim simulates a computing platform for a scheduler that runs in another
process. This directory specifies what Batsim promises that scheduler and how its
actors keep the promise: the server and the actors around it, the dialogue with
the scheduler, the execution of a job's tasks, power states and availability of
machines, workflows, and the table of profiles. TLC checks the specifications on
small instances. TLAPS proves every invariant and every action property that a
passing run checks, and that the core implements its abstract specification, for
instances of any size. Liveness is model-checked only.

## The system

Batsim's actors are SimGrid actors (`src/src/batsim.cpp`,
`start_initial_simulation_processes`). They share memory, run one at a time, and
talk to the server through one mailbox.

| Component | State | Operations | Talks to |
|---|---|---|---|
| server (`server.cpp`) | counters of submitted, running and completed jobs, of killers, waiters, switches and finished submitters; readiness of the scheduler; end flags; jobs to delete | one handler per message, then "shall the scheduler be called?" | everyone, by its mailbox |
| job submitters (`job_submitter.cpp`) | jobs left to submit; for a workflow, its ready and submitted tasks | hello, one batch per date, bye; the workflow submitter also waits for callbacks | server |
| event submitters (`event_submitter.cpp`, `events.cpp`) | events left | hello, one batch per date, bye | server |
| REQ-REP actor (`network.cpp`, `protocol.cpp`) | the reply being applied | send the message, read each event of the reply, sleep until its date, put it; SCHED_READY last | server, scheduler |
| scheduler (another process) | what it has been told | execute, reject, kill, register, call me later, notify | REQ-REP actor |
| job actors (`jobs_execution.cpp`) | task tree, remaining walltime | occupy machines, run tasks, release machines, JOB_COMPLETED | machines, server |
| killers, waiters (`jobs_execution.cpp`) | a list of jobs; a date | cancel or kill running jobs, KILLING_DONE; sleep, WAITING_DONE | job actors, server |
| machines, pstates (`machines.cpp`, `pstate.cpp`) | state, jobs being computed, current switches | job run/end, switch on/off, available/unavailable | server, job actors, switchers |
| jobs, workloads (`jobs.cpp`, `workload.cpp`) | the job table, each job's state | add, look up (aborts when absent), delete | everyone |
| workflows (`workflow.cpp`) | task graph, completed parents and depth of each task | add an edge, sources, sinks, depth | workflow submitter |
| profiles (`profiles.cpp`) | the table of profiles, reference counts | load, register, link, remove | jobs, job actors |
| parallel tasks (`task_execution.cpp`) | - | matrices of a profile, merge with the IO task, permissions | job actors, SimGrid |
| protocol writer (`protocol.cpp`) | buffer of events | append, generate, clear | server |
| exporters (`export.cpp`) | output buffers, counters | write_job, machine states, energy | server, machines |
| storage, footprint reader, option parsing | input data | parsing, I/O | - |

What is hard here is not any single handler, it is their order: a job may end
while its kill is on the way; a job is deleted while messages about it may still
be queued; the REQ-REP actor reads flags that the server changes later; the end
of the simulation is decided from counters that many actors move; the server and
a workflow's submitter block on each other's mailboxes; one remaining time is
handed from task to task of a job while ranks, polls and killers run; a profile
is forgotten while other jobs share it. `PROJECT.json`
lists these hazards line by line, with the properties aimed at them.

## Modules

| Module | Models | Notes |
|---|---|---|
| `BatsimState` | shared variables, mailbox, event buffer, job table, machine updates | constants and their assumptions |
| `JobSubmitters` | `static_job_submitter_process`, `static_event_submitter_process` | hello, one batch per date, bye |
| `SchedulerLink` | `request_reply_scheduler_process`, `JsonProtocolReader`, and the scheduler | each event is read and checked, held until its date, then put |
| `JobExecution` | `execute_job_process`, `killer_process`, `waiter_process` | |
| `Server` | `server_process` and its handlers | handlers keep their names |
| `Batsim` | the composition: `Init`, `Next`, fairness, all properties | refines `ResourceManager` |
| `ResourceManager` | abstract: what the scheduler may rely on | no actors, messages or counters |
| `MCBatsim` | constants of the instances | |
| `PStates`, `MCPStates` | power states, switchers, availability events and the machines' states (`pstate.cpp`, handlers of `server.cpp`, `machines.cpp`) | on its own, see below |
| `Workflows`, `MCWorkflows` | `workflow.cpp`, `workflow_submitter_process`, and the handlers it meets | on its own, see below |
| `Profiles` | the kinds of profiles and the checks of `Profile::from_json` | constant-level |
| `ParallelTasks` | `task_execution.cpp`: matrices, merge with the IO task, permissions | constant-level |
| `TaskExecution`, `MCTaskExecution` | `execute_task`, `execute_parallel_task`, `do_delay_task`, the replay actors, `killer_process` and the progress it computes | one job, with a clock |
| `ProfileTable`, `MCProfileTable` | `Profiles`, `Jobs` and `Workload` over a simulation | |
| `LifeCycleProofs` | proves `TypeOK`, `LifeCycle` and `MachinesConsistent` | the lemmas about the mail; mail discipline, decisions in flight |
| `EndProofs` | proves `EndReportedOnce`, `CompletedBeforeKilled`, `NoDanglingJob`, `CountersMatchJobs` | kills and ends that cross; counting lemmas |
| `RefinementProofs` | proves `NoMoreStaticJobIsTrue`, `EndsWhenNothingIsLeft`, `EveryKillAcknowledged`, `NoAbort` and the refinement | waiters, submitters, registration; each of these three modules extends the one before it |
| `PStatesProofs` | proves `PowerTypeOK`, `OneAnswerPerRequest`, `SwitchesAreCounted`, `AnswersAreTrue`, `SetMeansAnswered` | |
| `AvailabilityProofs` | proves `StateMatchesPState`, `NoJobStartsWhileDown`, `OnlyStaleDecisionsAbort` | extends `PStatesProofs` |
| `ProfileTableProofs` | proves `CollectedAfterUse`, `NamesMissOnlyForgotten` | |
| `WorkflowsProofs` | proves `WorkflowTypeOK`, `OnceAfterParents`, `CallbacksFindTheirTarget`, `ByeMeansAllRun`, `DepthIsLongestPath` | |
| `TaskExecutionProofs` | proves `TaskTypeOK`, `WalltimeRespected`, `EndsAreTold`, `OnlyTheseInputsAbort`, `RunsInOrder`, `WorkIsConserved` | |

### How state and steps correspond to the code

Variables have the names of the members they stand for (`nb_running` for
`ServerData::nb_running_jobs`, `jobs` for `Jobs::_jobs`, `computing` for
`Machine::jobs_being_computed`, `outbox` for the protocol writer's events,
`to_delete` for `jobs_to_be_deleted`, ...). `actor[j]` says where the execution
actor of job `j` is. `view`, `told`, `asked`, `kill_asked`, `unacked` and
`reg_over` are the scheduler's own knowledge; Batsim never reads them.

* **Actors are cooperative.** An actor runs alone until it blocks in a put, a
  get, a sleep or the wait for a task, so one action is one such run.
* **A put blocks its sender** until the server takes the message, first come
  first served (`mailbox`). Message transfer takes simulated time, so a message is
  delivered only when no actor can run (`Deliver` is guarded by `~Runnable`).
  After the delivery, sender and server both can run: which goes first depends on
  which came first to the rendezvous, so the model allows both orders.
* **Sleeps** (submission dates, calls, dates of the scheduler's events, durations
  of jobs) may end at any time after they start: the model has no clock, so every
  relative order of dates is covered. Jobs of one workload keep the order of their
  dates (`Date`).
* **The scheduler's reply takes no simulated time**, and the scheduler learns
  nothing while it replies. Choosing each event of the reply when the previous one
  has been put is therefore the same as choosing the reply at once.
* **A failed `xbt_assert`** (or a lookup of a job that is not in the table) sets
  `aborted`, after which nothing moves.
* **A killed job** is either inside a parallel task, which is cancelled so that the
  job actor ends by itself with return code -2, or not, in which case its actor is
  killed. Profiles and dates decide; the model allows both.
* **Kill lists.** `JOB_COMPLETED` events that one `server_on_killing_done`
  appends one after the other are one event about a set of jobs, because nothing
  distinguishes their order.

The scheduler takes any decision the protocol allows *from what it knows*: it
executes and rejects jobs it was told of, uses machines it believes free, kills
jobs it executed and was not told are complete, registers jobs while it has not
said it is over, and asks to be called later. After SIMULATION_ENDS
it only says it is ready. A scheduler that breaks these rules makes Batsim abort
on purpose, which is not interesting.

The server asserts that the date of a CALL_ME_LATER is in the future when it
handles the message (`server.cpp:961`), and the reader only warns about a date that
is over. Since dates are not modelled, `LateCall` names the calls whose date may be
over by then: for them the assertion may hold or fail (`InTheFuture`).

### `PStates`

Power states are a module of their own: the handlers of SET_RESOURCE_STATE,
SWITCHED_ON/OFF, availability events and EXECUTE_JOB, the switchers, and
`CurrentSwitches`. Submission, kills and the end of the simulation, which
`Batsim` covers, are reduced to jobs that are executed once and end. A server step
is a whole handler, because nothing here depends on who runs first after a
delivery. A message is still handled only when no fresh switcher or job actor is
about to run. `mark_switch_as_done` is applied to all the machines of a request
that change at once: the request a machine is credited to does not depend on the
other machines. `CurrentSwitches` is a set of requests, numbered so that two equal
ones stay two; the list's order decides only in which order one handler appends
several answers, and the model allows every order. Hosts start in a computation power state, as idle machines do.
A patient scheduler asks for a machine again only when it was answered; it never
puts a machine to sleep under a job or from one sleep power state to another
(`docs/input-platform.rst` forbids it). Any machine may go away and come back, also
one that sleeps or is being switched: the handlers and the switchers then overwrite
each other's state, as in the code (fourth observed difference).

### `ResourceManager`

The abstract specification has five variables: what happened to each job, the
machines it computes on, what the scheduler knows of it, the kills it asked for,
and whether the simulation is over. The refinement mapping (`RM` in `Batsim`)
takes the life of a job from its `state`, its machines from its actor, and the
scheduler's knowledge as it is; messages, counters, killers, submitters and the
event buffer disappear. A step of Batsim maps to one step or to none: a kill list
ends several jobs at once, and a message to the scheduler tells of several jobs,
as `End` and `Tell` allow.

### `Workflows`

The graph is built edge by edge (`add_edge`), as the XML file gives it. The
submitter's loop is cut where it blocks: `SubmitTask` (the put of JOB_SUBMITTED),
`RememberTask` (what follows it), `WaitForCompletion`, `TaskCompleted`. The server
has two waits of its own: its mailbox, and the put of SUBMITTER_CALLBACK in
`server_on_job_completed` (`server = "callback"`). The dialogue with the scheduler
is reduced to decisions about submitted jobs; `Fate` says whether it may also
kill and reject.

### `TaskExecution`

The recursion of `execute_task` is a stack. `wait` is what the execution actor is
blocked on: a parallel task, a sleep, a put, or the reports of the ranks. The clock
advances when nothing is due, so that walltimes, durations, polling periods and
kills meet in every order at the same date. The description of the job is chosen
in `Init`, with the `smpi_ranks_to_hosts_mapping` it may hold. The put of
FROM_JOB_MSG lasts as long as its transfer (`Transfer`); `in_puts` is a history of
that time, which `execute_task` does not take from the walltime. A replay has at
least one rank. Where the code reads behind a vector's end
(`check_ptask_execution_permission`), both outcomes are allowed; where it calls
`xbt_assert` or reads what does not exist, the model sets `aborted`.

### `ProfileTable`

`entry` tells a name that never existed from one whose profile was forgotten, as
`_profiles` does with a null pointer. `remove_unreferenced_profiles` is one action
per profile, in any order, because the order of the hash table is not known. Jobs
and linked sequences have pointers, branches of receive profiles have names; a
sequence registered by the scheduler is never linked, because only
`Workload::check_validity` links. What a sequence executes (`Members`) and what
`remove_profile` forgets (`Removed`) are least closed sets, so sequences may be
nested as deep as one likes, but not in themselves: there the code recurses for
ever. Registration is enabled, as it must be for
`--enable-profile-reuse` to have an effect.

## Properties

| Property | Says |
|---|---|
| `TypeOK` | types, including sender and subject of each kind of message |
| `NoAbort` | no assertion of the modelled code fails, with a legal scheduler that does not reopen its registration and asks for dates that are still in the future when the server handles the call |
| `OnlyLateAborts` | action property: otherwise Batsim aborts only on a registration behind a `continue_registration` not handled yet, or on a call whose date is over |
| `LifeCycle` | a job's state, actor, messages, buffered events and the scheduler's view agree |
| `CountersMatchJobs` | the server's counters are those of the jobs' states, up to messages in flight |
| `CompletedBeforeKilled` | each JOB_KILLED comes behind the JOB_COMPLETED of its jobs |
| `EndReportedOnce` | one trace line per completed or killed job (rejected ones: second observed difference) and at most one JOB_COMPLETED per job |
| `EndsWhenNothingIsLeft` | SIMULATION_ENDS only when every actor, job and message is over |
| `NoDanglingJob` | nobody can refer to a deleted job |
| `MachinesConsistent` | machine states and job sets agree with the actors; no sharing unless allowed |
| `NoMoreStaticJobIsTrue` | the notification is behind every submission of a static job |
| `EveryKillAcknowledged` | no KILL_JOB is unanswered when the simulation is over (`docs/protocol.rst`) |
| `ImplementsResourceManager` | every behaviour of `Batsim` is one of `ResourceManager` |
| `SimulationEnds`, `KillsAreAnswered` | liveness |
| `PowerTypeOK` | types of `PStates` |
| `StateMatchesPState` | `Machine::state` agrees with the host's power state, its switcher and its jobs, but for a machine that came back IDLE while it was not in a computation power state |
| `SwitchesAreCounted` | each machine a request waits for is being switched; `nb_switching_machines` counts them |
| `AnswersAreTrue`, `SetMeansAnswered`, `OneAnswerPerRequest` | RESOURCE_STATE_CHANGED comes once, when and only when all machines of the request are in the state |
| `OnlyStaleDecisionsAbort` | action property: with availability events Batsim aborts only on an EXECUTE_JOB decided before the scheduler was told, or at the return of a machine that was switched while it was away |
| `NoJobStartsWhileDown` | action property: no job starts on an unavailable machine |
| `RequestsAreAnswered` | liveness: every SET_RESOURCE_STATE is answered |
| `WorkflowTypeOK`, `TaskTypeOK` | types of `Workflows` and `TaskExecution`; in the latter, the remaining time is negative only without walltime |
| `OnceAfterParents` | each task is submitted at most once, after all its parents are completed |
| `CallbacksFindTheirTarget` | the unguarded lookups of the submitter and of the server find what they look for |
| `ByeMeansAllRun` | a submitter says goodbye only when its whole graph has run |
| `DepthIsLongestPath` | the logged depth is the longest path of the graph, in whatever order parents complete |
| `StopsForAReason` | liveness: the simulation ends, or a task was killed, rejected or ignored, or server and submitter block each other |
| `WorkflowsEnd`, `IgnoredBeyondLastOnly` | what the code's comment and the option's help say (violated) |
| `WalltimeRespected` | no job runs beyond its walltime but for the time it spent putting messages to the scheduler, and "walltime reached" is said at that date only |
| `RunsInOrder` | tasks run in the order of the profile, and all of them in a successful job |
| `EndsAreTold` | the end of a job reaches the server exactly once, and no rank outlives its job |
| `WorkIsConserved` | the merged task does the job's work and the IO work, per machine and per pair |
| `OnlyTheseInputsAbort` | only jobs of the listed descriptions can abort Batsim, whatever meets them |
| `JobsEnd` | liveness: a job with a walltime, or that is killed, ends |
| `CollectedAfterUse` | without reuse, the end of a job forgets its profile and all below it |
| `NamesMissOnlyForgotten` | why a name may miss its profile, or an execution fail |

## Runs

| Run | Instance | Shows |
|---|---|---|
| `kill` | 2 static jobs in 2 workloads, 2 machines, 1 call, 2 unacknowledged kills at most, 2 outcomes (991,752 states) | the safety properties and the refinement hold |
| `dynamic` | 1 static and 1 dynamic job, 1 external event, sharing, acknowledged registration that may be continued, a call that may be late (5,882,993 states) | the books stay right with registrations in flight, and the only two ways to abort |
| `liveness` | eager scheduler, registration without acknowledgement (54,920 states) | the simulation ends and kills are answered |
| `switch` | `PStates`, 2 machines, 2 jobs, 2 computation and 1 sleep power states, 3 requests (147,396 states) | requests are answered once, truly, and eventually |
| `availability` | `PStates`, both machines go away and come back, one of them is also switched, 2 jobs that may share (162,196 states) | what availability does to machine states, and the only two ways to abort |
| `workflow` | `Workflows`, a graph of 5 tasks with a join of three parents, limit of 2 jobs, 1 ordinary job, kills and rejections, `--ignore-beyond-last-workflow` (190,460 states) | the graph is run in order, and what may stop it |
| `tasks` | `TaskExecution`, 7 profiles with 4 walltimes each and 31 other descriptions (matrices, mappings, rank mappings), 2 durations, transfers of 0 and 2, 2 messages (23,520 states) | walltime, order, ends and matrices |
| `profiles` | `ProfileTable`, 9 profiles, 6 jobs, 10 files (612,514 states) | when profiles are there |
| `impatient` | `PStates`, requests not waiting for answers | **violation**: a request for a machine in transition is never answered |
| `workflow_deadlock` | two chains of two tasks, no limit, every job completes | **violation**: a workflow does not end |
| `workflow_ignore` | two workflows, `--ignore-beyond-last-workflow` | **violation**: tasks of the second are ignored when the first is over |
| `workflow_duplicate` | one edge given twice | **violation**: its child is never run |

In `switch` three requests let a machine go to sleep, wake up and change again
while the other machine is part of the same or of another request; the runs bound
`MaxRequests` and the event list.

Two jobs are enough for a kill list of two of which one has ended, for two jobs
competing for a machine and for two submitters; two unacknowledged kills let
killers overlap; one waiter is enough to keep the simulation from ending.
`MaxKills` bounds how many KILL_JOB may be unanswered, each `Waiter` is
asked for once and each job is killed at most once unless `MayKillAgain`: these
are the only bounds of `Batsim`. Five tasks give a join of three parents of
different depths, and a task that is ready beside two others when the limit is
two. `MaxMessages` and `MaxClock` bound `TaskExecution`: two messages feed one
receive task twice or two receive tasks, and only a job without walltime that
polls for ever reaches the last date (the longest walltime is 6, and a job puts one
message at most). Its `Depth` (3) only bounds how far two
properties unfold the profiles, which are nested less deep. Deadlock is not checked: the specification stops when the
server has left its loop.

The run `dynamic`, where the scheduler may continue the registration and call too
late, checks `OnlyLateAborts` in the place of `NoAbort` (third and eighth observed
differences below).

### Fairness

`Fairness` is weak fairness of the server, of the REQ-REP actor with its
scheduler, of each submitter, of each job actor, of each killer and of each
waiter. SimGrid runs every runnable actor and then advances the clock to the next
wake-up, so no enabled step waits for ever; a job's tasks are finite, and Batsim
is blocked in its socket until the scheduler replies. A scheduler that never
decides anything makes the simulation wait for ever, so the run `liveness` takes
an *eager* one, which starts every job it can and ends the registration before it
says it is ready.

`PStates!Fairness` is the same for the server, the switchers and the job actors,
and says that the scheduler ends each reply; nothing makes it take a decision.

`Workflows!FairSpec` adds that jobs end and that the scheduler decides about every
job. `TaskExecution!Fairness` is weak fairness of the job's own steps and of the
clock; neither a kill nor a message need ever come.

### Disagreements a run shows

1. `docs/protocol.rst:909-910` says a request is acknowledged as soon as its
   machines are in the state. `server_on_pstate_modification` records a request for
   a machine in transition, logs an error, and nothing ever finishes it
   (`impatient`).
2. The submitter's loop "Stops when there are no more ready tasks or tasks actually
   running" (`job_submitter.cpp:214`). It may never: the server's put of
   SUBMITTER_CALLBACK and the submitter's put of JOB_SUBMITTED block each other
   (`workflow_deadlock`).
3. `--ignore-beyond-last-workflow` "Ignores workload jobs that occur after all
   workflows have completed." `Workflows::size` returns a bool, so it ignores jobs
   when the first one has (`workflow_ignore`).
4. "Edge already there, no hyperedge" (`workflow.cpp:142`): the test looks for the
   parent among its own children, so a repeated edge adds the child again, which
   is then never ready (`workflow_duplicate`).

### Differences observed while modelling

No run of its own shows these; the models contain the code's behaviour.

1. `docs/protocol.rst:811-813` promises one JOB_KILLED per KILL_JOB.
   `server_on_kill_jobs` drops jobs whose kill was already requested, so a second
   request gets no answer (`MayKillAgain` is FALSE in the runs).
2. `docs/protocol.rst:704-705` says a rejected job is not in the jobs trace;
   `server_on_reject_job` writes it. `EndReportedOnce` says nothing of the trace
   lines of rejected jobs.
3. `docs/protocol.rst:245` says `continue_registration` re-enables registration.
   The REQ-REP actor checks the flag when it reads REGISTER_JOB, the server clears
   it: when the actor runs first after the delivery of CONTINUE_DYNAMIC_REGISTER,
   the assertion of `handle_register_job` fails.
4. `docs/output-energy.rst:57` defines `nb_idle` as hosts in a computation power
   state. `server_on_event_machine_available` makes the machine IDLE whatever its
   power state, so a machine that slept when it went away comes back IDLE
   (`CameBack` in `StateMatchesPState`). The other way round, a switch that is asked
   for or ends while the machine is away overwrites UNAVAILABLE, and the assertion of
   `server_on_event_machine_available` then aborts Batsim at its return
   (`SwitchedWhileDown`). Nothing in the code or in the documents keeps a switched
   machine out of the list of events.
5. `server_on_change_job_state` calls `write_job` before it sets the new state, and
   `write_job` dies on a job that is not complete: CHANGE_JOB_STATE, which
   `docs/protocol.rst:952` documents with a completed state, cannot complete a job.
6. A profile may have any return code, and -1 and -2 are read as "walltime reached"
   and "killed by the scheduler"; nobody tells the server of the end of a job that
   returned -2. The instances of `TaskExecution` have codes of 0 and more.
7. `profile_type == "smpi" || "usage_trace"` (`profiles.cpp:640`) is always true: a
   profile of an unknown type is read as a replay.
8. The reader warns about a CALL_ME_LATER in the past (`protocol.cpp:1229`) and goes
   on; the server then aborts on it (`server.cpp:961`).
9. The put of a SCHEDULER_SEND task blocks for the time of the transfer
   (`jobs_execution.cpp:167`), and `do_delay_task` is given the time that remained
   before it: the job may run that much longer than its walltime.
10. The size of `smpi_ranks_to_hosts_mapping` is not checked when the job is read
   (`jobs.cpp:512-535`); when it is not the number of traces, Batsim aborts as the
   job starts its replay (`jobs_execution.cpp:303`).

## Proofs

Every statement below is proved for all values of the constants that satisfy the
assumptions next to their declarations: `ConstantsAssumption` (finite, disjoint
sets of names; an owner and a date for each static job and event),
`SchedulerAssumption`, `PStatesAssumption`, `WorkflowAssumption` (edges join tasks
of one workflow; the map of tasks lists each task once), and for `TaskExecution`
`ProfilesAreValid`, `ProfilesAreTyped`, `JobsAreValid` and `BoundsAreNatural` (what
`Profile::from_json` and `Job::from_json` check). What more a theorem needs is
written in its statement. TLC evaluates the assumptions on every run, and
`MCPStates` and `MCTaskExecution` assume the hypotheses on their constants, so the
runs are instances of the theorems.

### The core

None of the properties is inductive alone. Each rests on what the layers below say
of the messages and events that are still on their way:

| Layer | Says | Needed for |
|---|---|---|
| `TypeOK` | each message has the sender and the subject its handler expects | all |
| `LifeCycle` | a job's state, actor, messages, buffered events and view agree | all |
| `LinkInv` | each actor has one message in the mailbox at most; the reply's last is SCHED_READY | the order of decisions |
| `DecisionInv` | a decision on its way still finds its job as the scheduler saw it; what the scheduler believes free is free | `NoAbort` |
| `MachinesInv` | machines compute the jobs whose actors run there | `MachinesConsistent`, refinement |
| `KillInv` | what a kill list, its killer and KILLING_DONE know of each job | the end of killed jobs |
| `AccountInv` | each job's end is traced, reported and told once; a job to delete is in nobody's hands | `EndReportedOnce`, `CompletedBeforeKilled`, `NoDanglingJob` |
| `CountInv` | each counter is the cardinality of a set of jobs | `CountersMatchJobs` |
| `AckInv` | `nb_killers` counts killers, and each KILL_JOB has one request, killer or answer | `EveryKillAcknowledged` |
| `WaitInv`, `SubmitterInv` | waiters and submitters are counted, also the ones whose goodbye is in flight | end of the simulation |
| `StaticInv`, `RegisterInv` | static jobs are on their way before the notification; registration flags | `NoMoreStaticJobIsTrue` |
| `EndInv` | SIMULATION_ENDS was sent only when nothing is left, and nothing comes back | `EndsWhenNothingIsLeft` |

`LifeCycle` shows the pattern: that a job is not submitted twice needs what the
messages claim (`MessagesAreTrue`), no two of which may announce the same job
(`SubmittedOnce`), and that the scheduler's view is right needs what the buffered
events claim (`EventsAreTrue`). One lemma for each way the mail changes (put, take,
hold, send, nothing) reduces an action to two facts: the claims of the old
messages are kept, the claim of the new one holds. The counters rest on lemmas
about finite sets: one member more, one less, none, or a whole kill list.

A failed assertion stops Batsim in the middle of a handler, so a layer says
`~aborted => XInv`, and the theorems of the single properties are about a process
that has not aborted (`NoAbort => P`). What may abort is then a question of its
own. `OnlyLateStepsAbortBatsim` answers it without hypothesis (`OnlyLateAborts`):
every assertion and every lookup of the modelled code succeeds, except the one on a
job registered behind a `continue_registration` that the server has not handled,
and the one on a call whose date is over. Hence

* `NeverAborts`: without `MayContinue` and with no `LateCall`, `[]NoAbort`;
* `BooksStayRight`: under the same hypotheses, the properties hold outright.

`MayContinue` is the third observed difference above, `LateCall` the eighth. `EveryKillIsAcknowledged`
has the hypothesis `~MayKillAgain`, the first one: a second KILL_JOB for the same
job really gets no answer.

`BatsimManagesResources` (`Spec => ImplementsResourceManager`) needs no hypothesis:
an abort changes none of the five abstract variables. The proof takes the actions
one by one. Most change nothing the scheduler can see; a start, an end, a kill
list, a rejection, a submission and the message to the scheduler each map to one
step of `ResourceManager`, whose guards are what the layers provide.

### Power states and availability

* `Base` (all constants): types; one decision is on its way while the scheduler is
  blocked; a machine has at most one switcher; each request is in the mailbox, in
  `CurrentSwitches` or answered, once. It gives `PowerTypesHold` and
  `RequestsAnsweredOnce`, for impatient schedulers too.
* `PatientBase` (hypothesis `Patient`) adds that a machine is in one unanswered
  request, that a machine of a request either is being switched to its power state
  or is in it, and that the scheduler knows the power state of the machines it did
  not ask for. It gives `SwitchesStayCounted`, `AnswersStayTrue` and
  `SetIsAnswered`. The run `impatient` shows that the last is false without
  `Patient`.
* `MachineBase` (all constants) says what each machine's state means, that an
  `UNAVAILABLE` machine is down by the events handled so far, and that a machine
  which is down and never switched is `UNAVAILABLE`. It gives `StatesMatch`,
  whatever the scheduler asks for, however often, and whichever machines go away.
* `NothingStartsWhileDown` (hypothesis `Patient`): a switch may overwrite
  `UNAVAILABLE`, and the handler of EXECUTE_JOB then finds a machine it accepts.
  `ToldInv` says why no such decision comes: the scheduler of a machine that is down
  has been told or is told with its next message, and where the state was
  overwritten it has been told or still waits for the answer to its request.
  `StartInv` says that no job about to start is on a machine that is down.
* `OnlyStaleAborts` needs `PatientBase`, `MachineBase` and `EventsAlternate` (no
  machine goes away twice in a row), because its claim is that only two assertions
  can fail, each in one way.

### Profiles

`ProfilesAreCollected` and `NamesMissForAReason` hold for every table that satisfies
`NamesAreKnown`. Their invariant calls a profile *gone* when a deleted job used it:

* `PointersInv`: the parts of a live linked sequence, and the profile of a known
  job, are live or gone. `UnreferencedIsUnused` shows that `use_count() < 2` never
  takes one of them away while the file is loaded.
* `CollectedInv`: without reuse, what is gone is not live; a null pointer is gone
  or was not pointed to by a job of the file.

The step that matters is `DeleteJobs`: `remove_profile` stops at a null pointer, so
something below it might survive. It does not, because a null pointer below a known
job is gone, and what is gone is closed under the parts of sequences. Members and
Removed are least sets, so these arguments name a closed set and need no induction.

### Workflows

The five theorems are about every `SimpleGraph`: no edge is given twice, none leads
from a task to itself. The fourth disagreement shows that the first condition is
needed. `SubmittersLeaveLast` and `DepthsAreRight` also suppose the graph `Acyclic`;
the tasks of a cycle are never ready. The instance of the run `workflow` is both.

| Part | Says |
|---|---|
| `MailInv`, `SenderInv` | each submitter has one message in the mailbox at most, and exactly while it is blocked |
| `JobMailInv` | what a message about a job says agrees with the job's state; no job has two |
| `TaskInv` | a task is in `ready` once, or submitted, or neither; `submitted` holds what was put and not called back for |
| `DoneInv` | `nb_parent_completed` of a task is the number of its parents that are done: submitted, and their completion seen by the submitter |
| `CallInv` | the job of the callback is tracked, recorded and completed |
| `RegInv` | a registered submitter has not left; the jobs in `origin_of_jobs` are those of registered submitters |
| `CountInv` | `current_nb`, `nb_running` and the goodbyes are cardinalities |
| `DepthInv` | a task is one deeper than its deepest done parent |

`DoneInv` is the heart. `TaskCompleted` adds the task's children to `ready` when
the count reaches the number of parents. Since the count is that of the done
parents, and a task is done once, each child becomes ready once and after all its
parents. `SubmittersLeaveLast` adds an argument about the graph: with nothing ready
and nothing submitted, a task that was never run has a parent that was never run,
and so on; the one of least rank cannot.

The graph, the sources and the paths are recursive functions. That they satisfy
their equations is proved from the least index at which they would not, which needs
no induction principle.

### Task execution

Three questions have an invariant each.

*Time and end.* `TimeInv` says what `remaining` is at each place of the execution
actor, dates being counted without the time spent in puts (`clock - in_puts`): the
walltime less the date while it runs or puts a message; the walltime less the date at
which a task or a sleep began while it waits for it; and while it waits for ranks,
less the date of the last report. A wait for the job's own time never ends beyond
the walltime (the sleep is cut, the parallel task and the ranks time out), and
`Tick` stops at the date at which something is due. `CodeInv` says that a negative
code goes up the stack only from the walltime or from a kill, and `EndInv` what is
left of a job that has ended. `WalltimeHolds` and `EndsHold` suppose
`CodesAreNatural`: the sixth observed difference shows that a profile with a return
code of -1 or -2 refutes them. `TaskTypes` does not need it.

*Tasks.* A profile is unfolded by recursive functions over `0 .. Depth + 1`, and
`DepthIsEnough` says that the last level adds nothing; it holds whenever `Depth` is
at least the nesting of the profiles.

* `OnlyListedInputsAbort`: `AbortInv` says, until something aborts, that each task
  on the stack is an executed profile called by a sequence or by a receive task
  (`StackInv`) and that the mapping of ranks is the given one or that of an executed
  replay (`RankInv`); and that the first abort finds one of the listed inputs. Every
  assertion and every read that can fail is a case of this proof. It also supposes
  `CodesAreNatural`.
* `TasksRunInOrder`: `OrderInv` says that `done` is, as long as no task failed, the
  concatenation of what each sequence on the stack has behind it, as its index
  says, and always a beginning of the unfolded profile; `LeafInv` that only a task that is not a sequence blocks. A task under a
  branch of a receive task adds nothing until that branch returns.

*Matrices.* `MergeKeepsWork` needs one simple invariant, that the task given to
SimGrid is a merge (`MergeInv`); the rest is about the merge. `Ordered` lists a set
of machines (`OrderedFacts`), so each machine of an allocation has one place and
each two machines one cell (`PosFacts`, `AtFacts`). A running index of the merge is
the number of cells read before; `CountMachines` and `CountCells` give a bijection
between these and the cells of the smaller matrix up to the same machines, so the
index is the cell that is wanted, however the allocations overlap. Sums over one
cell at most then give `WorkIsConserved`.

The provers have no induction over data. What the proofs need of recursive
functions (they satisfy their equations, `FlattenSeq` concatenates, a finite set
can be listed) is proved from the least number that would be a counterexample.

### What is only model-checked

Liveness and everything with fairness, which is out of TLAPS's reach:
`SimulationEnds`, `KillsAreAnswered`, `RequestsAreAnswered`, `StopsForAReason` and
`JobsEnd`. The violations are counterexamples that TLC finds.

## Not modelled

CHANGE_JOB_STATE (see above), job metadata, energy and footprint queries, and the
extra scheduling points that SimGrid's energy queries introduce; the stubs
WAIT_QUERY and `wait_for_query_answer`; batexec, which runs jobs without a server;
platform loading, the time machines spend in each state; broken connections;
parsing, formatting, tracing and Redis (I/O). In `Batsim`,
`is_simulation_finished` is without `nb_switching_machines` (`PStates` shows that it
counts the switches in flight, and no machine is switched in `Batsim`), and
`server_on_execute_job` without the assertions on storage machines and on the number
of machines, of which custom mappings and homogeneous tasks with a total amount are
exempt: they concern one decision and no other state. A replay without any trace,
which returns at once, is not modelled. `NextBatch` groups the jobs of equal
dates; the code groups those that are due when the submitter wakes up, which clock
drift (a put that takes long shifts the next sleep) can make more: each order of
the submissions is covered, as sleeps may end at any time. Amounts of flops and bytes are integers, and the
instances' totals divide evenly.
