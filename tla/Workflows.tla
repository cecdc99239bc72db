----------------------------- MODULE Workflows -----------------------------
(***************************************************************************)
(* Workflows (workflow.cpp) and the actor that submits their tasks as jobs *)
(* (workflow_submitter_process, job_submitter.cpp), with the part of the   *)
(* server they talk to: submissions, the callback when a job completes,    *)
(* goodbyes, and --ignore-beyond-last-workflow.                            *)
(*                                                                         *)
(* The server and the submitters send each other messages with blocking    *)
(* puts, each to the mailbox of the other. As in BatsimState, a message is *)
(* delivered when no actor can run.                                        *)
(***************************************************************************)
EXTENDS Integers, Sequences, FiniteSets, SequencesExt

CONSTANTS
  Workflow,     \* the workflows, each of which has a submitter
  Task,         \* their tasks; a task's job is named after it
  In,           \* the workflow of each task
  TaskOrder,    \* the tasks in the order of the map Workflow::tasks
  Edge,         \* the <<parent, child>> pairs in the order of the XML file
  Plain,        \* the jobs of an ordinary workload, submitted beside the workflows
  Limit,        \* --workflow-jobs-limit (0: no limit)
  IgnoreBeyond, \* the values of --ignore-beyond-last-workflow to consider
  Fate          \* what the scheduler may do with a job beside running it to its end

Job == Task \cup Plain

ASSUME WorkflowAssumption ==
  /\ IsFiniteSet(Workflow) /\ IsFiniteSet(Task) /\ IsFiniteSet(Plain)
  /\ Task \cap Plain = {}
  /\ Workflow \cap {"ordinary", "sched", "job", "killer"} = {}
  /\ In \in [Task -> Workflow]
  /\ TaskOrder \in Seq(Task) /\ Range(TaskOrder) = Task /\ IsInjective(TaskOrder)
  /\ Edge \in Seq(Task \X Task)
  /\ \A k \in 1..Len(Edge) : In[Edge[k][1]] = In[Edge[k][2]]
  /\ Limit \in Nat
  /\ IgnoreBeyond \subseteq BOOLEAN
  /\ Fate \subseteq {"killed", "rejected"}

----------------------------------------------------------------------------
\* The task graph

\* Workflow::add_edge. A parent is recorded once, but the test for a known child
\* looks for the parent among its own children, so a repeated edge adds the child again.
add_edge(g, e) ==
  [parents  |-> [g.parents EXCEPT ![e[2]] = @ \cup {e[1]}],
   children |-> [g.children EXCEPT ![e[1]] = IF e[1] \in Range(@) THEN @
                                             ELSE Append(@, e[2])]]

\* The graph after the first k edges.
graph[k \in 0..Len(Edge)] ==
  IF k = 0
  THEN [parents |-> [t \in Task |-> {}], children |-> [t \in Task |-> <<>>]]
  ELSE add_edge(graph[k - 1], Edge[k])

\* Workflow::load_from_xml
load_from_xml == graph[Len(Edge)]

Parents(t)  == load_from_xml.parents[t]
Children(t) == load_from_xml.children[t]

\* The elements of a sequence that are in S, in its order.
Only(seq, S) ==
  LET kept[k \in 0..Len(seq)] ==
        IF k = 0 THEN <<>>
        ELSE IF seq[k] \in S THEN Append(kept[k - 1], seq[k]) ELSE kept[k - 1]
  IN kept[Len(seq)]

get_source_tasks(w) == Only(TaskOrder, {t \in Task : In[t] = w /\ Parents(t) = {}})
get_sink_tasks(w)   == {t \in Task : In[t] = w /\ Children(t) = <<>>}

\* What the theorems suppose of the file: no edge twice, no edge from a task to itself...
SimpleGraph ==
  /\ \A k, l \in 1..Len(Edge) : k # l => Edge[k] # Edge[l]
  /\ \A k \in 1..Len(Edge) : Edge[k][1] # Edge[k][2]

\* ... and no cycle.
Acyclic ==
  \E rank \in [Task -> Nat] :
    \A k \in 1..Len(Edge) : rank[Edge[k][1]] < rank[Edge[k][2]]

----------------------------------------------------------------------------
VARIABLES
  pc,           \* where each submitter is
  ready,        \* ready_tasks
  submitted,    \* submitted_tasks
  current_nb,   \* the number of its jobs that are not completed
  key,          \* job_key, then completed_job_key: the job it submits, or is told of
  nb_parent_completed, depth,   \* of each task
  job,          \* the state of each job
  times,        \* how many times each job has been submitted
  mailbox,      \* the messages put to "server"
  server,       \* receive | handle | callback | finish | done
  submitters,   \* ServerData::submitters
  origin_of_jobs,               \* the jobs whose submitter is to be called back
  nb_submitted, nb_completed, nb_running,
  nb_submitters_finished, nb_workflow_submitters_finished,
  ignore_beyond \* context->terminate_with_last_workflow

Submitter == Workflow \cup {"ordinary"}

taskVars    == <<ready, submitted, current_nb, key, nb_parent_completed, depth>>
counters    == <<nb_submitted, nb_completed, nb_running>>
goodbyes    == <<nb_submitters_finished, nb_workflow_submitters_finished>>
serverVars  == <<submitters, origin_of_jobs, counters, goodbyes>>
vars        == <<pc, taskVars, job, times, mailbox, server, serverVars, ignore_beyond>>

Msg(type, from, about) == [type |-> type, from |-> from, about |-> about]
Put(m) == mailbox' = Append(mailbox, m)
Received == Head(mailbox)

get_maximum_depth(w) ==
  IF get_sink_tasks(w) = {} THEN -1
  ELSE CHOOSE d \in {depth[t] : t \in get_sink_tasks(w)} :
         \A t \in get_sink_tasks(w) : depth[t] <= d

WorkflowTypeOK ==
  /\ pc \in [Submitter -> {"hello", "asleep", "run", "sent", "waiting", "called",
                           "blocked", "gone"}]
  /\ ready \in [Workflow -> Seq(Task)]
  /\ submitted \in [Workflow -> SUBSET Task]
  /\ current_nb \in [Workflow -> 0..Cardinality(Task)]
  /\ key \in [Workflow -> Task \cup {""}]
  /\ nb_parent_completed \in [Task -> Nat] /\ depth \in [Task -> Nat]
  /\ job \in [Job -> {"none", "created", "ignored", "submitted", "decided", "running",
                      "completed", "killed", "rejected"}]
  /\ times \in [Job -> Nat]
  /\ server \in {"receive", "handle", "callback", "finish", "done"}
  /\ server \in {"handle", "callback", "finish"} => mailbox # <<>>
  /\ submitters \subseteq Submitter
  /\ origin_of_jobs \subseteq Task
  /\ {nb_submitted, nb_completed, nb_running} \subseteq Nat
  /\ nb_submitters_finished \in 0..Cardinality(Submitter)
  /\ nb_workflow_submitters_finished \in 0..Cardinality(Workflow)
  /\ ignore_beyond \in BOOLEAN

Init ==
  /\ pc = [s \in Submitter |-> "hello"]
  /\ ready = [w \in Workflow |-> get_source_tasks(w)]
  /\ submitted = [w \in Workflow |-> {}]
  /\ current_nb = [w \in Workflow |-> 0]
  /\ key = [w \in Workflow |-> ""]
  /\ nb_parent_completed = [t \in Task |-> 0]
  /\ depth = [t \in Task |-> 0]
  /\ job = [j \in Job |-> IF j \in Task THEN "none" ELSE "created"]
  /\ times = [j \in Job |-> 0]
  /\ mailbox = <<>>
  /\ server = "receive"
  /\ submitters = {}
  /\ origin_of_jobs = {}
  /\ nb_submitted = 0 /\ nb_completed = 0 /\ nb_running = 0
  /\ nb_submitters_finished = 0 /\ nb_workflow_submitters_finished = 0
  /\ ignore_beyond \in IgnoreBeyond

----------------------------------------------------------------------------
\* The submitters

\* The head of a submitter's step: it runs from one place to the next.
Moves(s, from, to) ==
  /\ pc[s] = from
  /\ pc' = [pc EXCEPT ![s] = to]
  /\ UNCHANGED <<server, serverVars, ignore_beyond>>

Hello(s) ==
  /\ Moves(s, "hello", "blocked")
  /\ Put(Msg("SUBMITTER_HELLO", s, s))
  /\ UNCHANGED <<taskVars, job, times>>

\* The start time of the workflow, or the date of the workload's next job.
WakeUp(s) ==
  /\ Moves(s, "asleep", "run")
  /\ UNCHANGED <<taskVars, job, times, mailbox>>

MaySubmit(w) == Limit = 0 \/ Limit > current_nb[w]

\* submit_workflow_task_as_job: the job of the first ready task is created and put.
SubmitTask(w) ==
  LET t == Head(ready[w]) IN
  /\ ready[w] # <<>> /\ MaySubmit(w)
  /\ Moves(w, "run", "blocked")
  /\ ready' = [ready EXCEPT ![w] = Tail(@)]
  /\ job' = [job EXCEPT ![t] = "created"]
  /\ times' = [times EXCEPT ![t] = @ + 1]
  /\ key' = [key EXCEPT ![w] = t]
  /\ Put(Msg("JOB_SUBMITTED", w, t))
  /\ UNCHANGED <<submitted, current_nb, nb_parent_completed, depth>>

\* Mutant of RememberTask: the job is not counted.
RememberUncounted(w) ==
  /\ Moves(w, "sent", "run")
  /\ submitted' = [submitted EXCEPT ![w] = @ \cup {key[w]}]
  /\ UNCHANGED <<ready, current_nb, key, nb_parent_completed, depth, job, times, mailbox>>

\* The put is over: the task is inserted into submitted_tasks.
RememberTask(w) ==
  /\ Moves(w, "sent", "run")
  /\ submitted' = [submitted EXCEPT ![w] = @ \cup {key[w]}]
  /\ current_nb' = [current_nb EXCEPT ![w] = @ + 1]
  /\ UNCHANGED <<ready, key, nb_parent_completed, depth, job, times, mailbox>>

\* wait_for_job_completion: nothing more may be submitted, so it waits for a callback.
WaitForCompletion(w) ==
  /\ ready[w] = <<>> \/ ~MaySubmit(w)
  /\ submitted[w] # {}
  /\ Moves(w, "run", "waiting")
  /\ UNCHANGED <<taskVars, job, times, mailbox>>

\* How many times t is among the children of the completed task.
Occurrences(t, kids) == Cardinality({k \in 1..Len(kids) : kids[k] = t})

\* Mutant of ReadyKids: one completed parent is enough.
EagerKids(kids) == Only(kids, {t \in Task : nb_parent_completed'[t] >= 1})

\* The kids all of whose parents are completed, in the order of the children.
ReadyKids(kids) ==
  Only(kids, {t \in Task : nb_parent_completed'[t] = Cardinality(Parents(t))})

\* Mutant of DepthOf: the last parent to complete decides.
DepthOfLastParent(t, parent) == depth[parent] + 1

\* bottom_level_f
DepthOf(t, parent) == IF depth[parent] + 1 > depth[t] THEN depth[parent] + 1 ELSE depth[t]

\* A task is completed: its children are told (inc_child, bottom_level_f), and those
\* that wait for no other parent become ready.
TaskCompleted(w) ==
  LET kids == Children(key[w]) IN
  /\ Moves(w, "called", "run")
  /\ current_nb' = [current_nb EXCEPT ![w] = @ - 1]
  /\ nb_parent_completed' = [t \in Task |-> nb_parent_completed[t] + Occurrences(t, kids)]
  /\ depth' = [t \in Task |-> IF t \in Range(kids) THEN DepthOf(t, key[w]) ELSE depth[t]]
  /\ ready' = [ready EXCEPT ![w] = @ \o ReadyKids(kids)]
  /\ submitted' = [submitted EXCEPT ![w] = @ \ {key[w]}]
  /\ UNCHANGED <<key, job, times, mailbox>>

\* Mutant of NothingLeft: the tasks that are still running are forgotten.
NothingToSubmit(w) == ready[w] = <<>>

NothingLeft(w) == ready[w] = <<>> /\ submitted[w] = {}

Bye(w) ==
  /\ NothingLeft(w)
  /\ Moves(w, "run", "blocked")
  /\ Put(Msg("SUBMITTER_BYE", w, w))
  /\ UNCHANGED <<taskVars, job, times>>

WorkflowSubmitterStep(w) ==
  \/ Hello(w) \/ WakeUp(w) \/ SubmitTask(w) \/ RememberTask(w)
  \/ WaitForCompletion(w) \/ TaskCompleted(w) \/ Bye(w)

\* static_job_submitter_process, one job at a time (JobSubmitters has the batches).
PlainSubmit(j) ==
  /\ times[j] = 0
  /\ Moves("ordinary", "run", "blocked")
  /\ times' = [times EXCEPT ![j] = 1]
  /\ Put(Msg("JOB_SUBMITTED", "ordinary", j))
  /\ UNCHANGED <<taskVars, job>>

PlainBye ==
  /\ \A j \in Plain : times[j] > 0
  /\ Moves("ordinary", "run", "blocked")
  /\ Put(Msg("SUBMITTER_BYE", "ordinary", "ordinary"))
  /\ UNCHANGED <<taskVars, job, times>>

PlainSubmitterStep ==
  Hello("ordinary") \/ WakeUp("ordinary") \/ PlainBye \/ \E j \in Plain : PlainSubmit(j)

----------------------------------------------------------------------------
\* The scheduler and the jobs, as far as the server is told of them

jobUnchanged == UNCHANGED <<pc, taskVars, times, server, serverVars, ignore_beyond>>

\* The scheduler decides to execute or to reject a submitted job.
Decide(j, type) ==
  /\ job[j] = "submitted"
  /\ job' = [job EXCEPT ![j] = "decided"]
  /\ Put(Msg(type, "sched", j))
  /\ jobUnchanged

\* The job ends by itself, or its killer runs.
JobEnds(j) ==
  /\ job[j] = "running"
  /\ job' = [job EXCEPT ![j] = "completed"]
  /\ Put(Msg("JOB_COMPLETED", "job", j))
  /\ jobUnchanged

JobIsKilled(j) ==
  /\ job[j] = "running"
  /\ job' = [job EXCEPT ![j] = "killed"]
  /\ Put(Msg("KILLING_DONE", "killer", j))
  /\ jobUnchanged

JobStep(j) ==
  \/ Decide(j, "SCHED_EXECUTE_JOB")
  \/ JobEnds(j)
  \/ "killed" \in Fate /\ JobIsKilled(j)
  \/ "rejected" \in Fate /\ Decide(j, "SCHED_REJECT_JOB")

----------------------------------------------------------------------------
\* The server

\* The actors that run before the network delivers anything.
Runnable == \E s \in Submitter : pc[s] \in {"hello", "run", "sent", "called"}

\* Where a submitter goes on when its put is over.
AfterPut(m) ==
  CASE m.type = "SUBMITTER_BYE" -> "gone"
    [] m.type = "JOB_SUBMITTED" /\ m.from \in Workflow -> "sent"
    [] OTHER -> "asleep"

\* The oldest message is delivered: its sender and the server can go on.
Deliver ==
  /\ server = "receive"
  /\ mailbox # <<>>
  /\ ~Runnable
  /\ server' = "handle"
  /\ pc' = [s \in Submitter |-> IF s = Received.from THEN AfterPut(Received) ELSE pc[s]]
  /\ UNCHANGED <<taskVars, job, times, mailbox, serverVars, ignore_beyond>>

\* A handler that ends here, and what no handler changes.
Handles(type) ==
  /\ server = "handle"
  /\ Received.type = type
  /\ server' = "receive"
  /\ mailbox' = Tail(mailbox)
  /\ UNCHANGED <<pc, taskVars, times, ignore_beyond>>

server_on_submitter_hello ==
  /\ Handles("SUBMITTER_HELLO")
  /\ submitters' = submitters \cup {Received.from}
  /\ UNCHANGED <<job, origin_of_jobs, counters, goodbyes>>

server_on_submitter_bye ==
  /\ Handles("SUBMITTER_BYE")
  /\ submitters' = submitters \ {Received.from}
  /\ nb_submitters_finished' = nb_submitters_finished + 1
  /\ nb_workflow_submitters_finished' = nb_workflow_submitters_finished
                                        + (IF Received.from \in Workflow THEN 1 ELSE 0)
  /\ UNCHANGED <<job, origin_of_jobs, counters>>

\* Workflows::size returns a bool.
size == IF Workflow = {} THEN 0 ELSE 1

Ignoring == size # 0 /\ ignore_beyond /\ nb_workflow_submitters_finished = size

\* Mutant of Tracked: enable_callback_on_job_completion is lost.
NotTracked(j) == {}

\* Only the workflows' submitters asked to be called back.
Tracked(j) == {j} \cap Task

server_on_job_submitted ==
  LET j == Received.about IN
  /\ Handles("JOB_SUBMITTED")
  /\ job' = [job EXCEPT ![j] = IF Ignoring THEN "ignored" ELSE "submitted"]
  /\ origin_of_jobs' = IF Ignoring THEN origin_of_jobs ELSE origin_of_jobs \cup Tracked(j)
  /\ nb_submitted' = IF Ignoring THEN nb_submitted ELSE nb_submitted + 1
  /\ UNCHANGED <<submitters, nb_completed, nb_running, goodbyes>>

\* server_on_job_completed: the job's submitter is called back first. The put
\* blocks the server until the submitter receives.
ServerCallsBack ==
  /\ server = "handle"
  /\ Received.type = "JOB_COMPLETED"
  /\ Received.about \in origin_of_jobs
  /\ server' = "callback"
  /\ UNCHANGED <<pc, taskVars, job, times, mailbox, serverVars, ignore_beyond>>

DeliverCallback ==
  LET w == In[Received.about] IN
  /\ server = "callback"
  /\ pc[w] = "waiting"
  /\ ~Runnable
  /\ server' = "finish"
  /\ pc' = [pc EXCEPT ![w] = "called"]
  /\ key' = [key EXCEPT ![w] = Received.about]
  /\ UNCHANGED <<ready, submitted, current_nb, nb_parent_completed, depth, job, times,
                 mailbox, serverVars, ignore_beyond>>

\* The rest of the handler.
server_on_job_completed ==
  /\ \/ server = "finish"
     \/ /\ server = "handle"
        /\ Received.type = "JOB_COMPLETED"
        /\ Received.about \notin origin_of_jobs
  /\ server' = "receive"
  /\ mailbox' = Tail(mailbox)
  /\ origin_of_jobs' = origin_of_jobs \ {Received.about}
  /\ nb_running' = nb_running - 1
  /\ nb_completed' = nb_completed + 1
  /\ UNCHANGED <<pc, taskVars, job, times, submitters, nb_submitted, goodbyes, ignore_beyond>>

server_on_execute_job ==
  /\ Handles("SCHED_EXECUTE_JOB")
  /\ job' = [job EXCEPT ![Received.about] = "running"]
  /\ nb_running' = nb_running + 1
  /\ UNCHANGED <<submitters, origin_of_jobs, nb_submitted, nb_completed, goodbyes>>

server_on_killing_done ==
  /\ Handles("KILLING_DONE")
  /\ nb_running' = nb_running - 1
  /\ nb_completed' = nb_completed + 1
  /\ UNCHANGED <<job, submitters, origin_of_jobs, nb_submitted, goodbyes>>

server_on_reject_job ==
  /\ Handles("SCHED_REJECT_JOB")
  /\ job' = [job EXCEPT ![Received.about] = "rejected"]
  /\ nb_completed' = nb_completed + 1
  /\ UNCHANGED <<submitters, origin_of_jobs, nb_submitted, nb_running, goodbyes>>

\* is_simulation_finished, and the end of the loop (Server has the exchange with
\* the scheduler).
SimulationEnds ==
  /\ server = "receive"
  /\ mailbox = <<>>
  /\ nb_submitters_finished = Cardinality(Submitter)
  /\ nb_completed = nb_submitted
  /\ nb_running = 0
  /\ server' = "done"
  /\ UNCHANGED <<pc, taskVars, job, times, mailbox, serverVars, ignore_beyond>>

ServerStep ==
  \/ Deliver \/ DeliverCallback \/ ServerCallsBack \/ SimulationEnds
  \/ server_on_submitter_hello \/ server_on_submitter_bye
  \/ server_on_job_submitted \/ server_on_job_completed
  \/ server_on_execute_job \/ server_on_killing_done \/ server_on_reject_job

----------------------------------------------------------------------------
Next ==
  \/ \E w \in Workflow : WorkflowSubmitterStep(w)
  \/ PlainSubmitterStep
  \/ \E j \in Job : JobStep(j)
  \/ ServerStep

Spec == Init /\ [][Next]_vars

\* SimGrid runs every actor that can run and lets time pass; jobs end; the scheduler
\* takes a decision about every job.
FairSpec ==
  /\ Spec
  /\ \A w \in Workflow : WF_vars(WorkflowSubmitterStep(w))
  /\ WF_vars(PlainSubmitterStep)
  /\ \A j \in Job : WF_vars(JobStep(j))
  /\ WF_vars(ServerStep)

----------------------------------------------------------------------------
(***************************************************************************)
(* Properties                                                              *)
(***************************************************************************)
Completed(t) == job[t] = "completed"

\* Every task is submitted at most once, and only when the jobs of all its parents are
\* completed, however the completions interleave with the submissions that the limit
\* holds back (nb_parent_completed, ready_tasks).
OnceAfterParents ==
  \A t \in Task : /\ times[t] <= 1
                  /\ times[t] > 0 => \A p \in Parents(t) : Completed(p)

\* The two lookups that nothing guards. The submitter reads submitted_tasks[key], a null
\* task if the job is not recorded; origin_of_jobs holds pointers to the submitters that
\* server_on_submitter_bye deletes.
CallbacksFindTheirTarget ==
  /\ \A w \in Workflow : pc[w] = "called" => key[w] \in submitted[w]
  /\ \A t \in origin_of_jobs : In[t] \in submitters

\* A workflow's submitter says goodbye only when the whole graph has been run.
ByeMeansAllRun ==
  \A w \in Workflow : pc[w] = "gone" => \A t \in Task : In[t] = w => Completed(t)

\* The tasks at the end of a path of k edges from a source.
AtEndOfPath[k \in 0..Cardinality(Task)] ==
  IF k = 0 THEN {t \in Task : Parents(t) = {}}
  ELSE {t \in Task : Parents(t) \cap AtEndOfPath[k - 1] # {}}

\* The depth logged with the makespan (get_maximum_depth) is the length of the longest
\* path of the graph, whatever the order in which parents complete (bottom_level_f). It
\* is -1 when the workflow has no task.
DepthIsLongestPath ==
  \A w \in Workflow : pc[w] = "gone" /\ (\E t \in Task : In[t] = w) =>
    LET n == get_maximum_depth(w) IN
    /\ \E t \in AtEndOfPath[n] : In[t] = w
    /\ \A k \in (n + 1)..Cardinality(Task) : \A t \in AtEndOfPath[k] : In[t] # w

\* The submitter of this task will never be called back.
Lost(t) == times[t] > 0 /\ job[t] \in {"killed", "rejected", "ignored"}

\* The server waits for a submitter to receive while the submitter waits for the server.
MutuallyBlocked == server = "callback" /\ pc[In[Received.about]] = "blocked"

\* A simulation with workflows ends, or it stops for one of two reasons: a task's job was
\* killed, rejected or ignored, so that nobody calls its submitter back; or the server's
\* callback met the submitter's next submission (server_on_job_completed).
StopsForAReason == <>(server = "done" \/ MutuallyBlocked \/ \E t \in Task : Lost(t))

\* "Stops when there are no more ready tasks or tasks actually running": a workflow whose
\* jobs all complete is run to its end and its submitter says goodbye.
WorkflowsEnd == <>(\A w \in Workflow : pc[w] = "gone")

\* --ignore-beyond-last-workflow ignores jobs only after all workflows have completed.
IgnoredBeyondLastOnly ==
  (\E j \in Job : job[j] = "ignored") => \A w \in Workflow : pc[w] = "gone"
=============================================================================
