---------------------------- MODULE TaskExecution ----------------------------
(***************************************************************************)
(* The execution of one job's task tree by its execution actor:            *)
(* execute_job_process and execute_task of jobs_execution.cpp,             *)
(* execute_parallel_task of task_execution.cpp, and what reaches the job   *)
(* from outside: its killer (with the progress computation of jobs.cpp),   *)
(* the messages of the scheduler, and the passing of time.                 *)
(*                                                                         *)
(* The recursion of execute_task is the stack of the tasks being executed, *)
(* the root first. Between two blocking calls the actor runs alone: it has *)
(* a wait of "none", and nothing else moves until it blocks again.         *)
(***************************************************************************)
EXTENDS ParallelTasks, Profiles

CONSTANTS
  JobToRun,      \* the descriptions of the jobs that may be run
  Duration,      \* how long a parallel task or the replay of a rank may last
  Transfer,      \* how long the put of a message to the server may last
  Text,          \* messages of the scheduler: "match" satisfies every regex
  MaxMessages,   \* bound on the messages the scheduler sends
  MaxClock,      \* bound on the date, for jobs that never end
  Depth          \* how deep profiles are nested (only the properties use it)

Unlimited == -1    \* the remaining time of a job without walltime

ASSUME ProfilesAreValid ==
  DOMAIN Def = Profile /\ \A p \in Profile : Valid(Def[p], TRUE)

ASSUME ProfilesAreTyped ==
  \A p \in Profile :
    LET d == Def[p] IN
    /\ d.ret \in Int
    /\ d.type = "DELAY" => d.delay \in Nat
    /\ d.type = "SEQUENCE" => d.repeat \in Nat /\ d.seq \in Seq(Profile)
    /\ d.type = "SCHEDULER_SEND" => d.sleeptime \in Nat
    /\ d.type = "SCHEDULER_RECV" =>
         /\ d.polltime \in Nat
         /\ {d.on_success, d.on_failure, d.on_timeout} \subseteq Profile \cup {None}
    /\ d.type \in ReplayTypes => d.nb_ranks \in Nat \ {0}
    /\ d.type = "PARALLEL" => {d.cpu, d.com} \subseteq Seq(Int)
    /\ d.type \in {"PARALLEL_HOMOGENEOUS", "PARALLEL_HOMOGENEOUS_TOTAL_AMOUNT"} =>
         {d.cpu, d.com} \subseteq Int
    /\ d.type = "DATA_STAGING" => d.nb_bytes \in Int

\* The executors of a job, as many as the machines it asked for: those of its
\* allocation or, with a mapping, those of the mapping (server_on_execute_job).
Executors(j) == IF j.mapping = << >> THEN Cardinality(j.alloc) ELSE Len(j.mapping)

\* smpi_ranks_to_hosts_mapping as Job::from_json takes it, empty when there is none: its
\* size is not compared with the ranks of any profile.
ValidRankMapping(j) ==
  /\ j.rank_mapping \in Seq(Nat)
  /\ \A r \in 1 .. Len(j.rank_mapping) : j.rank_mapping[r] < Executors(j)

ASSUME JobsAreValid ==
  \A j \in JobToRun :
    /\ j.profile \in Profile /\ j.io_profile \in Profile \cup {None}
    /\ j.walltime = Unlimited \/ j.walltime \in Nat \ {0}
    /\ {j.alloc, j.io_alloc} \subseteq SUBSET Machine
    /\ IsFiniteSet(j.alloc) /\ IsFiniteSet(j.io_alloc)
    /\ j.mapping \in Seq(Nat)
    /\ ValidRankMapping(j)

\* The return code of a profile is any integer, but execute_job_process reads -1 and -2
\* as the walltime and a kill: what is said of the end of a job supposes this.
CodesAreNatural == \A p \in Profile : Def[p].ret \in Nat

ASSUME BoundsAreNatural ==
  /\ Duration \subseteq Nat \ {0}
  /\ Transfer \subseteq Nat
  /\ {MaxMessages, MaxClock, Depth} \subseteq Nat

VARIABLES
  job,        \* the description: profile, io_profile, walltime, allocation...
  stack,      \* tasks being executed: profile, io profile, current_task_index
  wait,       \* what the execution actor is blocked on
  ret,        \* the return code going up the stack: << >> or <<code>>
  clock,      \* the date, from the start of the job
  in_puts,    \* history: the time spent in the puts of messages to the server
  remaining,  \* *remaining_time
  buffer,     \* incoming_message_buffer
  nbSent,     \* messages the scheduler has sent
  ranks,      \* the child actors that replay traces: rank |-> its end
  rankMap,    \* smpi_ranks_to_hosts_mapping
  ptask,      \* the last parallel task given to SimGrid, with what it is for
  state,      \* the job's state
  kill,       \* "no", "requested", "cancelled" (its ptask), "done"
  told,       \* whether JOB_COMPLETED has been sent
  done,       \* history: the leaves that returned 0, outside of recv branches
  aborted     \* an assertion failed, or memory was read where there is none

vars == <<job, stack, wait, ret, clock, in_puts, remaining, buffer, nbSent, ranks,
          rankMap, ptask, state, kill, told, done, aborted>>

outside == <<job, clock, in_puts, buffer, nbSent, kill>>

Top == stack[Len(stack)]

Task(p, io) == [p |-> p, io |-> io, index |-> -1]

\* The actor is between two blocking calls.
Running == ~aborted /\ state = "RUNNING" /\ wait.on = None

Calling == Running /\ ret = << >> /\ stack # << >>

Returned == Running /\ ret # << >>

Code == ret[1]

Blocked == ~aborted /\ state = "RUNNING" /\ wait.on # None

Awake == [on |-> None]

NoTask ==
  [task |-> [hosts |-> << >>, comp |-> << >>, comm |-> << >>], p |-> None, io |-> None]

Init ==
  /\ job \in JobToRun
  /\ stack = <<Task(job.profile, job.io_profile)>>
  /\ wait = Awake
  /\ ret = << >>
  /\ clock = 0
  /\ in_puts = 0
  /\ remaining = job.walltime
  /\ buffer = << >>
  /\ nbSent = 0
  /\ ranks = << >>
  /\ rankMap = job.rank_mapping
  /\ ptask = NoTask
  /\ state = "RUNNING"
  /\ kill = "no"
  /\ told = FALSE
  /\ done = << >>
  /\ aborted = FALSE

Abort ==
  /\ aborted' = TRUE
  /\ UNCHANGED <<job, stack, wait, ret, clock, in_puts, remaining, buffer, nbSent, ranks,
                 rankMap, ptask, state, kill, told, done>>

\* The task on the top of the stack returns code to its caller.
Return(code) ==
  /\ ret' = <<code>>
  /\ stack' = SubSeq(stack, 1, Len(stack) - 1)
  /\ done' = IF /\ code = 0
                /\ ~IsSequence(Top.p)
                /\ \A i \in 1 .. Len(stack) - 1 : IsSequence(stack[i].p)
             THEN Append(done, Top.p)
             ELSE done

\* The index-th sub task of the top of the stack is called.
Call(index, p, io) ==
  /\ ret' = << >>
  /\ stack' = Append([stack EXCEPT ![Len(stack)].index = index], Task(p, io))
  /\ UNCHANGED done

-----------------------------------------------------------------------------
(* do_delay_task *)

\* Mutant of WholeSleep: the sleep is compared with the wrong bound.
WholeSleepLate(sleeptime, left) == left < 0 \/ sleeptime <= left + 1

WholeSleep(sleeptime, left) == left < 0 \/ sleeptime < left

\* The sleep of do_delay_task when left is *remaining_time.
do_delay_task(sleeptime, left) ==
  LET whole == WholeSleep(sleeptime, left)
      slept == IF whole THEN sleeptime ELSE left
  IN [on |-> "sleep", until |-> clock + slept, slept |-> slept, cut |-> ~whole]

\* Mutant of Slept: sleeping costs no walltime.
SleptForFree == UNCHANGED remaining

\* After the actor slept.
Slept ==
  remaining' = IF wait.cut THEN 0
               ELSE IF remaining > 0 THEN remaining - wait.slept ELSE remaining

-----------------------------------------------------------------------------
(* execute_job_process and execute_task: parallel tasks *)

\* The hosts of the job: the machines of its allocation, through the mapping of
\* executors to machines when there is one.
JobHosts ==
  LET machines == Ordered(job.alloc) IN
  IF job.mapping = << >>
  THEN machines
  ELSE [i \in 1 .. Len(job.mapping) |-> machines[job.mapping[i] + 1]]

\* io_hosts: the first machines of the platform, as many as io_allocation has. The
\* merge replaces them, so that only their number matters.
IoHosts == [i \in 1 .. Cardinality(job.io_alloc) |-> i - 1]

JobTask(p) == generate_matrices_from_profile(Def[p], JobHosts, job.storage_mapping, FALSE)

IoTask(p) == generate_matrices_from_profile(Def[p], IoHosts, {}, TRUE)

\* What execute_parallel_task gives to SimGrid for a task and its IO task.
TasksToRun(t) ==
  IF t.io = None
  THEN JobTask(t.p)
  ELSE UNION {Merged(j, i, job.alloc, job.io_alloc) : j \in JobTask(t.p), i \in IoTask(t.io)}

\* The allocation whose permissions are checked for the whole task.
Machines(t) == IF t.io = None THEN job.alloc ELSE job.alloc \cup job.io_alloc

\* execute_parallel_task, until it waits for the end of the task.
StartParallelTask ==
  /\ Calling
  /\ IsParallel(Top.p)
  /\ \/ TasksToRun(Top) = {} /\ Abort
     \/ \E own \in JobTask(Top.p), whole \in TasksToRun(Top) :
        \E first \in check_ptask_execution_permission(job.alloc, own.comp),
           second \in check_ptask_execution_permission(Machines(Top), whole.comp) :
          IF first /\ second
          THEN /\ ptask' = [task |-> whole, p |-> Top.p, io |-> Top.io]
               /\ \E d \in Duration :
                    wait' = [on |-> "ptask", start |-> clock, until |-> clock + d]
               /\ UNCHANGED <<stack, ret, remaining, ranks, rankMap, state, told, done,
                              aborted>>
               /\ UNCHANGED outside
          ELSE Abort

AfterPtask == IF remaining < 0 THEN remaining ELSE remaining - (clock - wait.start)

PtaskTimesOut == remaining >= 0 /\ clock = wait.start + remaining

\* The wait for a parallel task ends: the task is complete, the walltime is
\* reached, or the killer cancelled the task.
ParallelTaskEnds(why) ==
  /\ Blocked
  /\ wait.on = "ptask"
  /\ CASE why = "complete"  -> clock = wait.until
       [] why = "timeout"   -> PtaskTimesOut
       [] why = "cancelled" -> kill = "cancelled"
  /\ wait' = Awake
  /\ remaining' = AfterPtask
  /\ Return(CASE why = "complete"  -> Def[Top.p].ret
              [] why = "timeout"   -> -1
              [] why = "cancelled" -> -2)
  /\ UNCHANGED <<ranks, rankMap, ptask, state, told, aborted>>
  /\ UNCHANGED outside

-----------------------------------------------------------------------------
(* execute_task: sequences *)

\* Mutant of Fails: a sequence goes on after a sub task that failed.
OnlyInterrupted(code) == code < 0

Fails(code) == code # 0

NbSubTasks(d) == d.repeat * Len(d.seq)

\* initialize_sequential_tasks gives each sub task the IO profile of its rank.
SubIo(io, i) == IF io = None THEN None ELSE Def[io].seq[i]

\* A sequence that a receive task starts has no sub task to read. The IO profile of a
\* sequence is read as a sequence with a part for each of its own.
HasSubTasks ==
  /\ Len(stack) > 1 => IsSequence(stack[Len(stack) - 1].p)
  /\ Top.io # None => IsSequence(Top.io) /\ Len(Def[Top.io].seq) >= Len(Def[Top.p].seq)

SequenceStep ==
  /\ Running
  /\ stack # << >>
  /\ IsSequence(Top.p)
  /\ Returned \/ Top.index = -1
  /\ \/ ~HasSubTasks /\ Abort
     \/ /\ HasSubTasks
        /\ LET d    == Def[Top.p]
               next == Top.index + 1
               i    == (next % Len(d.seq)) + 1
           IN IF Returned /\ Fails(Code)
              THEN Return(Code)
              ELSE IF next < NbSubTasks(d)
                   THEN Call(next, d.seq[i], SubIo(Top.io, i))
                   ELSE Return(d.ret)
        /\ UNCHANGED <<wait, remaining, ranks, rankMap, ptask, state, told, aborted>>
        /\ UNCHANGED outside

-----------------------------------------------------------------------------
(* execute_task: delays, messages to and from the scheduler *)

DelayStarts ==
  /\ Calling
  /\ Def[Top.p].type = "DELAY"
  /\ wait' = do_delay_task(Def[Top.p].delay, remaining)
  /\ UNCHANGED <<stack, ret, remaining, ranks, rankMap, ptask, state, told, done, aborted>>
  /\ UNCHANGED outside

\* FROM_JOB_MSG is put; the put returns when the server has received it, which takes
\* the time of the transfer.
SendStarts ==
  /\ Calling
  /\ Def[Top.p].type = "SCHEDULER_SEND"
  /\ \E d \in Transfer : wait' = [on |-> "put", until |-> clock + d]
  /\ UNCHANGED <<stack, ret, remaining, ranks, rankMap, ptask, state, told, done, aborted>>
  /\ UNCHANGED outside

\* The put returns: *remaining_time is what it was before.
ServerReceives ==
  /\ Blocked
  /\ wait.on = "put"
  /\ clock = wait.until
  /\ wait' = do_delay_task(Def[Top.p].sleeptime, remaining)
  /\ UNCHANGED <<stack, ret, remaining, ranks, rankMap, ptask, state, told, done, aborted>>
  /\ UNCHANGED outside

\* A delay, or the sleep behind a message to the scheduler, is over.
SleepEnds ==
  /\ Blocked
  /\ wait.on = "sleep"
  /\ Def[Top.p].type # "SCHEDULER_RECV"
  /\ clock = wait.until
  /\ wait' = Awake
  /\ Slept
  /\ Return(IF wait.cut THEN -1 ELSE Def[Top.p].ret)
  /\ UNCHANGED <<ranks, rankMap, ptask, state, told, aborted>>
  /\ UNCHANGED outside

\* The profile to execute after a message, or None.
Branch(d, text) == IF text = "match" THEN d.on_success ELSE d.on_failure

\* Goes on with a branch of a receive task, or without.
Receive(branch) ==
  IF branch # None THEN Call(0, branch, None) ELSE Return(Def[Top.p].ret)

RecvStarts ==
  /\ Calling
  /\ Def[Top.p].type = "SCHEDULER_RECV"
  /\ LET d == Def[Top.p] IN
     \/ /\ buffer # << >>
        /\ buffer' = Tail(buffer)
        /\ Receive(Branch(d, Head(buffer)))
        /\ UNCHANGED wait
     \/ /\ buffer = << >> /\ d.on_timeout # None
        /\ Receive(d.on_timeout)
        /\ UNCHANGED <<wait, buffer>>
     \/ /\ buffer = << >> /\ d.on_timeout = None
        /\ wait' = do_delay_task(d.polltime, remaining)
        /\ UNCHANGED <<stack, ret, done, buffer>>
  /\ UNCHANGED <<remaining, ranks, rankMap, ptask, state, told, aborted,
                 job, clock, in_puts, nbSent, kill>>

\* A receive task has slept for its polling period.
Poll ==
  /\ Blocked
  /\ wait.on = "sleep"
  /\ Def[Top.p].type = "SCHEDULER_RECV"
  /\ clock = wait.until
  /\ Slept
  /\ IF wait.cut
     THEN Return(-1) /\ wait' = Awake /\ UNCHANGED buffer
     ELSE IF buffer # << >>
          THEN /\ buffer' = Tail(buffer)
               /\ wait' = Awake
               /\ Receive(Branch(Def[Top.p], Head(buffer)))
          ELSE /\ wait' = do_delay_task(Def[Top.p].polltime, remaining')
               /\ UNCHANGED <<stack, ret, done, buffer>>
  /\ UNCHANGED <<ranks, rankMap, ptask, state, told, aborted, job, clock, in_puts,
                 nbSent, kill>>

\* The sub task of a receive task has returned.
RecvReturns ==
  /\ Returned
  /\ stack # << >>
  /\ Def[Top.p].type = "SCHEDULER_RECV"
  /\ Return(IF Fails(Code) THEN Code ELSE Def[Top.p].ret)
  /\ UNCHANGED <<wait, remaining, ranks, rankMap, ptask, state, told, aborted>>
  /\ UNCHANGED outside

-----------------------------------------------------------------------------
(* execute_task: replay of SMPI and usage traces *)

\* smpi_ranks_to_hosts_mapping: given with the job (Init), or filled the first time,
\* round-robin on the requested resources.
RankMapping(nbRanks) ==
  IF rankMap # << >>
  THEN rankMap
  ELSE [r \in 1 .. nbRanks |-> (r - 1) % Len(JobHosts)]

ReplayStarts ==
  /\ Calling
  /\ IsReplay(Top.p)
  /\ LET n == Def[Top.p].nb_ranks IN
     \/ Len(RankMapping(n)) # n /\ Abort
     \/ /\ Len(RankMapping(n)) = n
        /\ rankMap' = RankMapping(n)
        /\ \E last \in [1 .. n -> Duration] :
             ranks' = [r \in 1 .. n |-> clock + last[r]]
        /\ wait' = [on |-> "ranks", start |-> clock, has_walltime |-> remaining >= 0]
        /\ UNCHANGED <<stack, ret, remaining, ptask, state, told, done, aborted>>
        /\ UNCHANGED outside

\* Mutant of AfterRank: each rank is given the whole walltime.
AfterRankUnchanged == remaining

AfterRank == IF wait.has_walltime THEN remaining - (clock - wait.start) ELSE remaining

\* smpi_replay_process and usage_trace_replayer_process end by a put that the
\* execution actor receives.
RankReports(r) ==
  /\ Blocked
  /\ wait.on = "ranks"
  /\ r \in DOMAIN ranks
  /\ ranks[r] <= clock
  /\ ranks' = [q \in DOMAIN ranks \ {r} |-> ranks[q]]
  /\ remaining' = AfterRank
  /\ IF DOMAIN ranks = {r}
     THEN Return(Def[Top.p].ret) /\ wait' = Awake
     ELSE wait' = [wait EXCEPT !.start = clock] /\ UNCHANGED <<stack, ret, done>>
  /\ UNCHANGED <<rankMap, ptask, state, told, aborted>>
  /\ UNCHANGED outside

\* Mutant of Survivors: the ranks that have not reported are not killed.
AllSurvive(children) == children

\* Child actors left after the walltime is reached.
Survivors(children) == << >>

ReplayTimesOut ==
  /\ Blocked
  /\ wait.on = "ranks"
  /\ wait.has_walltime
  /\ clock = wait.start + remaining
  /\ ranks' = Survivors(ranks)
  /\ wait' = Awake
  /\ Return(-1)
  /\ UNCHANGED <<remaining, rankMap, ptask, state, told, aborted>>
  /\ UNCHANGED outside

-----------------------------------------------------------------------------
(* The end of execute_job_process *)

EndState(code) ==
  CASE code = 0  -> "COMPLETED_SUCCESSFULLY"
    [] code > 0  -> "COMPLETED_FAILED"
    [] code = -1 -> "COMPLETED_WALLTIME_REACHED"
    [] code = -2 -> "COMPLETED_KILLED"

\* The end of a killed job is told by its killer.
MustTell(s) == s # "COMPLETED_KILLED"

JobEnds ==
  /\ Running
  /\ stack = << >>
  /\ IF Code < -2
     THEN Abort
     ELSE /\ state' = EndState(Code)
          /\ told' = MustTell(EndState(Code))
          /\ UNCHANGED <<stack, wait, ret, remaining, ranks, rankMap, ptask, done, aborted>>
          /\ UNCHANGED outside

-----------------------------------------------------------------------------
(* Outside of the job *)

\* server_on_to_job_msg
ToJobMsg(text) ==
  /\ Blocked
  /\ nbSent < MaxMessages
  /\ nbSent' = nbSent + 1
  /\ buffer' = Append(buffer, text)
  /\ UNCHANGED <<job, stack, wait, ret, clock, in_puts, remaining, ranks, rankMap, ptask,
                 state, kill, told, done, aborted>>

\* Mutant of ProgressIsKnown: the progress of sequences is not computed.
RootIsLeaf == Len(stack) = 1

\* compute_leaf_progress: the first task on the path that is not a sequence must
\* have no sub task.
ProgressIsKnown ==
  \A i \in 1 .. Len(stack) - 1 : IsSequence(stack[i].p)

(***************************************************************************)
(* killer_process: the progress is computed, then the parallel task the    *)
(* job is in is cancelled or, when there is none, the actors of the job    *)
(* are killed and its state is set. The server tells of a kill only once.  *)
(***************************************************************************)
killer_process ==
  /\ Blocked
  /\ kill = "no"
  /\ \/ ~ProgressIsKnown /\ Abort
     \/ /\ ProgressIsKnown
        /\ IF wait.on = "ptask"
           THEN kill' = "cancelled" /\ UNCHANGED <<state, ranks, wait, stack>>
           ELSE /\ kill' = "done"
                /\ state' = "COMPLETED_KILLED"
                /\ ranks' = << >>
                /\ wait' = Awake
                /\ stack' = << >>
        /\ UNCHANGED <<job, ret, clock, in_puts, remaining, buffer, nbSent, rankMap, ptask,
                       told, done, aborted>>

\* The date when something is due for the blocked actor.
Due ==
  CASE wait.on = "ptask" -> clock = wait.until \/ PtaskTimesOut \/ kill = "cancelled"
    [] wait.on \in {"sleep", "put"} -> clock = wait.until
    [] wait.on = "ranks" -> \/ \E r \in DOMAIN ranks : ranks[r] <= clock
                            \/ wait.has_walltime /\ clock = wait.start + remaining

\* SimGrid advances the clock when every actor is blocked until later.
Tick ==
  /\ Blocked
  /\ ~Due
  /\ clock < MaxClock
  /\ clock' = clock + 1
  /\ in_puts' = IF wait.on = "put" THEN in_puts + 1 ELSE in_puts
  /\ UNCHANGED <<job, stack, wait, ret, remaining, buffer, nbSent, ranks, rankMap, ptask,
                 state, kill, told, done, aborted>>

\* The execution actor, its children and the server run, and time passes.
JobStep ==
  \/ StartParallelTask
  \/ \E why \in {"complete", "timeout", "cancelled"} : ParallelTaskEnds(why)
  \/ SequenceStep
  \/ DelayStarts
  \/ SendStarts
  \/ ServerReceives
  \/ SleepEnds
  \/ RecvStarts
  \/ Poll
  \/ RecvReturns
  \/ ReplayStarts
  \/ \E r \in DOMAIN ranks : RankReports(r)
  \/ ReplayTimesOut
  \/ JobEnds
  \/ Tick

Next == JobStep \/ killer_process \/ \E text \in Text : ToJobMsg(text)

Spec == Init /\ [][Next]_vars

\* The scheduler need not send anything nor kill.
Fairness == WF_vars(JobStep)

FairSpec == Spec /\ Fairness

-----------------------------------------------------------------------------
(* Properties *)

TaskTypeOK ==
  /\ job \in JobToRun
  /\ \A i \in 1 .. Len(stack) : /\ stack[i].p \in Profile
                               /\ stack[i].io \in Profile \cup {None}
                               /\ stack[i].index \in Int
  /\ wait.on \in {None, "ptask", "sleep", "put", "ranks"}
  /\ Len(ret) <= 1 /\ \A i \in 1 .. Len(ret) : ret[i] \in Int
  /\ clock \in 0 .. MaxClock
  /\ in_puts \in 0 .. clock
  /\ remaining \in Int
  /\ remaining < 0 <=> job.walltime = Unlimited
  /\ buffer \in Seq(Text)
  /\ nbSent \in 0 .. MaxMessages
  /\ state \in {"RUNNING", "COMPLETED_SUCCESSFULLY", "COMPLETED_FAILED",
                "COMPLETED_WALLTIME_REACHED", "COMPLETED_KILLED"}
  /\ kill \in {"no", "cancelled", "done"}
  /\ told \in BOOLEAN
  /\ aborted \in BOOLEAN

(***************************************************************************)
(* A job never runs beyond its walltime but for the transfers of its       *)
(* messages to the scheduler, whichever tasks shared it, and it is only    *)
(* said to have reached it at that very date: the remaining time that      *)
(* execute_task hands from task to task is what is left of it. The         *)
(* transfers come on top of the walltime because jobs_execution.cpp:167    *)
(* blocks in the put and do_delay_task (:169) is given the time that       *)
(* remained before it.                                                     *)
(***************************************************************************)
WalltimeRespected ==
  job.walltime # Unlimited =>
    /\ clock - in_puts <= job.walltime
    /\ state = "COMPLETED_WALLTIME_REACHED" => clock - in_puts = job.walltime

\* The leaves a profile stands for, in order, when its sequences are unfolded n times;
\* a receive task counts as one.
LeavesTo[n \in 0 .. Depth + 1] ==
  [p \in Profile |->
     IF n = 0 \/ ~IsSequence(p)
     THEN <<p>>
     ELSE LET d == Def[p] IN
          FlattenSeq([i \in 1 .. d.repeat * Len(d.seq) |->
                        LeavesTo[n - 1][d.seq[((i - 1) % Len(d.seq)) + 1]]])]

Leaves(p) == LeavesTo[Depth][p]

(***************************************************************************)
(* The tasks of a job run in the order of its profile, repetitions         *)
(* included, and a job is successful only when all of them have returned   *)
(* zero: execute_task never skips, repeats or reorders a task, and stops   *)
(* at the first one that fails.                                            *)
(***************************************************************************)
RunsInOrder ==
  /\ IsPrefix(done, Leaves(job.profile))
  /\ state = "COMPLETED_SUCCESSFULLY" => done = Leaves(job.profile)

(***************************************************************************)
(* The end of a job is known to the server exactly once: a job that ends   *)
(* by itself tells it, a job that does not was killed on demand; and no    *)
(* actor of an ended job is left (Job::~Job asserts it).                   *)
(***************************************************************************)
EndsAreTold ==
  state # "RUNNING" =>
    /\ told <=> state # "COMPLETED_KILLED"
    /\ state = "COMPLETED_KILLED" => kill # "no"
    /\ DOMAIN ranks = {}

\* What a task sends from machine a to machine b, and computes on machine a.
Bytes(t, a, b) ==
  LET n == Len(t.hosts) IN
  IF t.comm = << >> THEN 0
  ELSE MapThenSumSet(LAMBDA k : t.comm[k],
         {k \in 1 .. n * n : /\ t.hosts[((k - 1) \div n) + 1] = a
                            /\ t.hosts[((k - 1) % n) + 1] = b})

Flops(t, a) ==
  MapThenSumSet(LAMBDA i : t.comp[i], {i \in 1 .. Len(t.hosts) : t.hosts[i] = a})

(***************************************************************************)
(* The task made from a job's task and its IO task does the work of both,  *)
(* on each machine and between each two machines, when the job has no      *)
(* mapping and its profile adds no host (the merge of                      *)
(* execute_parallel_task walks both matrices with running indices).        *)
(***************************************************************************)
WorkIsConserved ==
  ptask.io # None /\ job.mapping = << >> =>
    \A own \in JobTask(ptask.p), unplaced \in IoTask(ptask.io) :
      LET io == [unplaced EXCEPT !.hosts = Ordered(job.io_alloc)] IN
      own.hosts = JobHosts =>
        \A a, b \in Machine :
          /\ Flops(ptask.task, a) = Flops(own, a) + Flops(io, a)
          /\ Bytes(ptask.task, a, b) = Bytes(own, a, b) + Bytes(io, a, b)

\* The profiles that are executed at most n levels below a profile.
Within[n \in 0 .. Depth + 1] ==
  [p \in Profile |->
     {p} \cup (IF n = 0 THEN {}
               ELSE UNION {Within[n - 1][q] : q \in Parts(p) \cup Branches(p)})]

\* What the theorems suppose of Depth: one level more adds nothing.
DepthIsEnough ==
  /\ LeavesTo[Depth + 1] = LeavesTo[Depth]
  /\ Within[Depth + 1] = Within[Depth]

Executes(type) == {p \in Within[Depth][job.profile] : Def[p].type = type}

(***************************************************************************)
(* Batsim can abort on a job only for what its description says: a receive *)
(* task with a branch, in which it can be killed (jobs.cpp:143) or which   *)
(* is a sequence without sub tasks (jobs_execution.cpp:141); replays of    *)
(* different numbers of ranks, since the default mapping of the first one  *)
(* stays, or of another number than the smpi_ranks_to_hosts_mapping given  *)
(* with the job (jobs_execution.cpp:303); fewer executors than machines,   *)
(* where the permissions are read beyond the computations                  *)
(* (task_execution.cpp:455); storage, matrices or an IO task that do not   *)
(* fit. No interleaving of tasks, messages, kills and walltime aborts on   *)
(* another job.                                                            *)
(***************************************************************************)
OnlyTheseInputsAbort ==
  aborted =>
    \/ \E p \in Executes("SCHEDULER_RECV") : Branches(p) # {}
    \/ \E p, q \in Within[Depth][job.profile] :
         IsReplay(p) /\ IsReplay(q) /\ Def[p].nb_ranks # Def[q].nb_ranks
    \/ /\ job.rank_mapping # << >>
       /\ \E p \in Within[Depth][job.profile] :
            IsReplay(p) /\ Def[p].nb_ranks # Len(job.rank_mapping)
    \/ Executes("PARALLEL_HOMOGENEOUS_PFS") \cup Executes("DATA_STAGING") # {}
    \/ \E p \in Executes("PARALLEL") : Len(Def[p].cpu) # Len(JobHosts)
    \/ job.mapping # << >> /\ Len(job.mapping) < Cardinality(job.alloc)
    \/ job.alloc \cap Storage # {}
    \/ job.io_profile # None

(***************************************************************************)
(* A job that has a walltime ends, and so does a job that is killed:       *)
(* polling for a message that never comes, waiting for ranks or sleeping   *)
(* consumes the walltime, and a cancelled task is left at once.            *)
(***************************************************************************)
JobsEnd ==
  (job.walltime # Unlimited \/ kill # "no") ~> (state # "RUNNING" \/ aborted)
=============================================================================
