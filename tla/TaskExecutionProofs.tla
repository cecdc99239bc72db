------------------------ MODULE TaskExecutionProofs -------------------------
(***************************************************************************)
(* Proofs about TaskExecution, for all profiles, jobs, durations and       *)
(* messages: types, the walltime and the end of a job (the invariant       *)
(* relates *remaining_time to the clock at each place where the actor      *)
(* blocks); the only descriptions of jobs that can abort; the order of the *)
(* tasks (done is what the places of the stack say); and the work of the   *)
(* merged task (the running indices of the merge count the machines and    *)
(* the cells of each allocation).                                          *)
(***************************************************************************)
EXTENDS TaskExecution, FiniteSetTheorems, SequenceTheorems, TLAPS

\* The frames of the recursion and the waits of the actor.
Frame == [p : Profile, io : Profile \cup {None}, index : Int]
PtaskWait == [on : {"ptask"}, start : Nat, until : Nat]
SleepWait == [on : {"sleep"}, until : Int, slept : Int, cut : BOOLEAN]
RanksWait == [on : {"ranks"}, start : Nat, has_walltime : BOOLEAN]
PutWait   == [on : {"put"}, until : Nat]
Waits     == {Awake} \cup PtaskWait \cup SleepWait \cup RanksWait \cup PutWait

States == {"RUNNING", "COMPLETED_SUCCESSFULLY", "COMPLETED_FAILED",
           "COMPLETED_WALLTIME_REACHED", "COMPLETED_KILLED"}

\* The types, and what the actor is doing: a blocked actor is inside a task that has
\* not returned, an actor without task has a return code, a put is that of a task that
\* sends.
Types ==
  /\ job \in JobToRun
  /\ stack \in Seq(Frame)
  /\ wait \in Waits
  /\ ret \in {<< >>} \cup {<<c>> : c \in Int}
  /\ clock \in 0 .. MaxClock
  /\ in_puts \in 0 .. clock
  /\ remaining \in Int
  /\ buffer \in Seq(Text)
  /\ nbSent \in 0 .. MaxMessages
  /\ state \in States
  /\ kill \in {"no", "cancelled", "done"}
  /\ told \in BOOLEAN
  /\ aborted \in BOOLEAN

ActorInv ==
  state = "RUNNING" =>
    /\ wait.on # None => stack # << >> /\ ret = << >>
    /\ stack = << >> => ret # << >>
    /\ wait.on = "put" => Def[Top.p].type = "SCHEDULER_SEND"

\* What is left of the walltime at date t.
HasWalltime == job.walltime # Unlimited
Left(t) == IF HasWalltime THEN job.walltime - t ELSE Unlimited

\* The walltime is reached, the time spent in puts not counted.
OutOfTime == HasWalltime /\ clock - in_puts = job.walltime

\* How *remaining_time and the clock are related. A replay that reaches the walltime
\* does not update *remaining_time, but nothing reads it any more: -1 goes up.
TimeInv ==
  /\ HasWalltime => clock - in_puts <= job.walltime
  /\ HasWalltime <=> remaining >= 0
  /\ ~HasWalltime => remaining = Unlimited
  /\ state = "RUNNING" =>
       /\ wait.on \in {None, "put"} => remaining = Left(clock - in_puts) \/ (ret = <<-1>> /\ OutOfTime)
       /\ wait.on \in {"ptask", "ranks"} => remaining = Left(wait.start - in_puts) /\ wait.start <= clock
       /\ wait.on = "ranks" => (wait.has_walltime <=> HasWalltime)
       /\ wait.on = "put" => clock <= wait.until
       /\ wait.on = "sleep" =>
            /\ remaining = Left(wait.until - wait.slept - in_puts)
            /\ clock <= wait.until /\ wait.slept >= 0
            /\ wait.cut => HasWalltime /\ wait.until - in_puts = job.walltime
            /\ ~wait.cut /\ HasWalltime => wait.until - in_puts < job.walltime /\ remaining > 0

\* A negative code is not that of a profile: it comes from the walltime or from a kill.
CodeInv ==
  state = "RUNNING" /\ ret # << >> =>
    /\ Code >= -2
    /\ Code = -1 => OutOfTime
    /\ Code = -2 => kill = "cancelled"

\* Nobody is told of a job that runs, and only a replay has children.
EndInv ==
  /\ state = "RUNNING" => ~told /\ (wait.on # "ranks" => DOMAIN ranks = {})
  /\ state # "RUNNING" =>
       /\ told <=> state # "COMPLETED_KILLED"
       /\ state = "COMPLETED_KILLED" => kill # "no"
       /\ DOMAIN ranks = {}
       /\ state = "COMPLETED_WALLTIME_REACHED" => OutOfTime

Inv == Types /\ ActorInv /\ TimeInv

-----------------------------------------------------------------------------
(* What the steps are made of *)

\* Facts about the constants, in the form the proofs use.
LEMMA ProfileTypes ==
  ASSUME NEW p \in Profile
  PROVE  /\ Def[p].ret \in Int
         /\ Def[p].type = "DELAY" => Def[p].delay \in Nat /\ Def[p].delay > 0
         /\ IsSequence(p) => Def[p].repeat \in Nat /\ Def[p].seq \in Seq(Profile) /\ Def[p].seq # << >>
         /\ Def[p].type = "SCHEDULER_SEND" => Def[p].sleeptime \in Nat /\ Def[p].sleeptime > 0
         /\ Def[p].type = "SCHEDULER_RECV" =>
              /\ Def[p].polltime \in Nat /\ Def[p].polltime > 0
              /\ {Def[p].on_success, Def[p].on_failure, Def[p].on_timeout} \subseteq Profile \cup {None}
         /\ IsReplay(p) => Def[p].nb_ranks \in Nat
<1>1. Valid(Def[p], TRUE)
  BY ProfilesAreValid
<1>2. Def[p].type = "DELAY" => Def[p].delay > 0
  BY <1>1 DEF Valid, ValidDelay
<1>3. IsSequence(p) => Def[p].seq # << >>
  BY <1>1 DEF Valid, ValidSequence, IsSequence
<1>4. Def[p].type = "SCHEDULER_SEND" => Def[p].sleeptime > 0
  BY <1>1 DEF Valid, ValidSend
<1>5. Def[p].type = "SCHEDULER_RECV" => Def[p].polltime > 0
  BY <1>1 DEF Valid, ValidRecv
<1> QED
  BY <1>2, <1>3, <1>4, <1>5, ProfilesAreTyped DEF IsSequence, IsReplay

\* The walltime of a job.
LEMMA Walltimes == Types => /\ job.profile \in Profile /\ job.io_profile \in Profile \cup {None}
                           /\ job.walltime \in Int /\ (HasWalltime => job.walltime > 0)
BY JobsAreValid DEF Types, HasWalltime, Unlimited

\* The frame on the top of the stack.
LEMMA TopFrame ==
  ASSUME Types, stack # << >>
  PROVE  /\ Len(stack) \in Nat /\ Len(stack) > 0 /\ Top \in Frame
         /\ Top.p \in Profile /\ Top.io \in Profile \cup {None} /\ Top.index \in Int
<1>1. stack \in Seq(Frame)
  BY DEF Types
<1>2. Len(stack) \in Nat /\ Len(stack) > 0
  BY <1>1
<1>3. Top \in Frame
  BY <1>1, <1>2 DEF Top
<1> QED
  BY <1>2, <1>3 DEF Frame

\* A task returns.
LEMMA ReturnTypes ==
  ASSUME Types, stack # << >>, NEW code \in Int, Return(code)
  PROVE  stack' \in Seq(Frame) /\ ret' = <<code>>
<1>1. stack' = SubSeq(stack, 1, Len(stack) - 1) /\ ret' = <<code>>
  BY DEF Return
<1>2. \A i \in 1 .. Len(stack) - 1 : stack[i] \in Frame
  BY DEF Types
<1> QED
  BY <1>1, <1>2, TopFrame, SubSeqProperties DEF Types

\* A sub task is called.
LEMMA CallTypes ==
  ASSUME Types, stack # << >>, NEW index \in Int, NEW p \in Profile, NEW io \in Profile \cup {None},
         Call(index, p, io)
  PROVE  stack' \in Seq(Frame) /\ stack' # << >> /\ ret' = << >>
<1> DEFINE n == Len(stack)
           marked == [stack EXCEPT ![n].index = index]
<1>1. n \in 1 .. n /\ stack[n] \in Frame
  BY TopFrame DEF Top
<1>2. [stack[n] EXCEPT !.index = index] \in Frame
  BY <1>1 DEF Frame
<1>3. marked \in Seq(Frame)
  BY <1>1, <1>2 DEF Types
<1>4. Task(p, io) \in Frame
  BY DEF Task, Frame
<1>5. stack' = Append(marked, Task(p, io)) /\ ret' = << >>
  BY DEF Call
<1> HIDE DEF marked
<1> QED
  BY <1>3, <1>4, <1>5

\* The record of a sleep.
LEMMA SleepRecord ==
  ASSUME NEW u \in Int, NEW n \in Int, NEW c \in BOOLEAN
  PROVE  [on |-> "sleep", until |-> u, slept |-> n, cut |-> c] \in SleepWait
BY DEF SleepWait

\* The sleep of do_delay_task ends when the walltime is reached, at the latest.
LEMMA DelayTypes ==
  ASSUME Types, NEW sleeptime \in Nat, sleeptime > 0, NEW left \in Int,
         left = Left(clock - in_puts), NEW w, w = do_delay_task(sleeptime, left)
  PROVE  /\ w \in SleepWait /\ w.on = "sleep"
         /\ left = Left(w.until - w.slept - in_puts) /\ w.slept = w.until - clock
         /\ (HasWalltime /\ clock - in_puts <= job.walltime) =>
              /\ clock <= w.until /\ w.slept >= 0
              /\ w.cut => w.until - in_puts = job.walltime
              /\ ~w.cut => w.until - in_puts < job.walltime /\ left > 0
         /\ ~HasWalltime => ~w.cut /\ clock <= w.until /\ w.slept >= 0
<1>1. clock \in Nat /\ in_puts \in Nat /\ job.walltime \in Int
  BY Walltimes DEF Types
<1>2. CASE left < 0 \/ sleeptime < left
  <2>1. w = [on |-> "sleep", until |-> clock + sleeptime, slept |-> sleeptime, cut |-> FALSE]
    BY <1>2 DEF do_delay_task, WholeSleep
  <2>2. w \in SleepWait /\ w.on = "sleep"
    <3>1. clock + sleeptime \in Int /\ sleeptime \in Int
      BY <1>1
    <3>2. w \in SleepWait
      BY <2>1, <3>1, SleepRecord
    <3>3. w.on = "sleep"
      BY <2>1
    <3> QED
      BY <3>2, <3>3
  <2>3. w.until = clock + sleeptime /\ w.slept = sleeptime /\ ~w.cut
    BY <2>1
  <2>4. w.until - w.slept = clock /\ w.slept = w.until - clock /\ clock <= w.until
    BY <1>1, <2>3
  <2>5. HasWalltime /\ clock - in_puts <= job.walltime => w.until - in_puts < job.walltime /\ left > 0
    BY <1>1, <1>2, <2>3 DEF Left
  <2> QED
    BY <2>2, <2>3, <2>4, <2>5
<1>3. CASE ~(left < 0 \/ sleeptime < left)
  <2>1. w = [on |-> "sleep", until |-> clock + left, slept |-> left, cut |-> TRUE]
    BY <1>3 DEF do_delay_task, WholeSleep
  <2>2. w \in SleepWait /\ w.on = "sleep"
    <3>1. clock + left \in Int /\ left \in Int
      BY <1>1
    <3>2. w \in SleepWait
      BY <2>1, <3>1, SleepRecord
    <3>3. w.on = "sleep"
      BY <2>1
    <3> QED
      BY <3>2, <3>3
  <2>3. w.until = clock + left /\ w.slept = left /\ w.cut
    BY <2>1
  <2>4. w.until - w.slept = clock /\ w.slept = w.until - clock /\ clock <= w.until /\ left >= 0
    BY <1>1, <1>3, <2>3
  <2>5. HasWalltime /\ w.until - in_puts = job.walltime
    BY <1>1, <1>3, <2>3 DEF Left, Unlimited
  <2> QED
    BY <2>2, <2>3, <2>4, <2>5
<1> QED
  BY <1>2, <1>3

\* After a sleep, what remains is again what is left at this date.
LEMMA SleptRight ==
  ASSUME Inv, state = "RUNNING", wait.on = "sleep", clock = wait.until, Slept
  PROVE  /\ remaining' = Left(clock - in_puts)
         /\ wait.cut => OutOfTime
<1>1. wait \in SleepWait /\ remaining \in Int /\ clock \in Nat /\ in_puts \in Nat /\ job.walltime \in Int
  BY Walltimes DEF Inv, Types, Waits, Awake, None, PtaskWait, RanksWait, PutWait
<1>2. /\ remaining = Left(wait.until - wait.slept - in_puts)
      /\ wait.cut => HasWalltime /\ wait.until - in_puts = job.walltime
      /\ ~wait.cut /\ HasWalltime => remaining > 0
      /\ ~HasWalltime => remaining = Unlimited
  BY DEF Inv, TimeInv
<1>3. wait.cut \in BOOLEAN /\ wait.slept \in Int
  BY <1>1 DEF SleepWait
<1>4. CASE wait.cut
  <2>1. remaining' = 0
    BY <1>4 DEF Slept
  <2> QED
    BY <1>1, <1>2, <1>4, <2>1 DEF Left, OutOfTime
<1>5. CASE ~wait.cut /\ HasWalltime
  <2>1. remaining' = remaining - wait.slept
    BY <1>2, <1>5 DEF Slept
  <2> QED
    BY <1>1, <1>2, <1>3, <1>5, <2>1 DEF Left
<1>6. CASE ~wait.cut /\ ~HasWalltime
  <2>1. remaining' = remaining
    BY <1>2, <1>6 DEF Slept, Unlimited
  <2> QED
    BY <1>2, <1>6, <2>1 DEF Left
<1> QED
  BY <1>4, <1>5, <1>6

-----------------------------------------------------------------------------
(* The shapes of a step *)

\* A step that leaves the actor between two blocking calls, at the same date.
LEMMA Resumes ==
  ASSUME Inv, state = "RUNNING",
         UNCHANGED <<job, clock, in_puts, nbSent, state, kill, told, aborted>>,
         wait' = Awake, stack' \in Seq(Frame), buffer' \in Seq(Text),
         ret' \in {<< >>} \cup {<<c>> : c \in Int},
         stack' = << >> => ret' # << >>,
         \/ remaining' = Left(clock - in_puts)
         \/ ret' = <<-1>> /\ OutOfTime /\ remaining' = remaining
  PROVE  Inv'
<1>1. clock \in Nat /\ in_puts \in Nat /\ job.walltime \in Int /\ remaining \in Int
  BY Walltimes DEF Inv, Types
<1>2. (HasWalltime' <=> HasWalltime) /\ (OutOfTime' <=> OutOfTime) /\ Left(clock - in_puts)' = Left(clock - in_puts)
  BY DEF HasWalltime, OutOfTime, Left
<1>3. HasWalltime => clock - in_puts <= job.walltime
  BY DEF Inv, TimeInv
<1>4. Left(clock - in_puts) \in Int /\ (HasWalltime <=> Left(clock - in_puts) >= 0) /\ (~HasWalltime => Left(clock - in_puts) = Unlimited)
  BY <1>1, <1>3 DEF Left, Unlimited
<1>5. wait'.on = None
  BY DEF Awake
<1>6. Types'
  BY <1>1, <1>4 DEF Inv, Types, Waits
<1>7. ActorInv'
  BY <1>5 DEF ActorInv, None
<1>8. TimeInv'
  BY <1>2, <1>3, <1>4, <1>5 DEF Inv, TimeInv, None
<1> QED
  BY <1>6, <1>7, <1>8 DEF Inv

\* A step that blocks the actor in a task.
LEMMA Blocks ==
  ASSUME Inv, state = "RUNNING", stack # << >>, ret = << >>,
         UNCHANGED <<job, stack, ret, clock, in_puts, buffer, nbSent, state, kill, told, aborted>>,
         remaining' = Left(clock - in_puts),
         NEW w \in Waits, wait' = w, w.on # None,
         w.on = "put" => Def[Top.p].type = "SCHEDULER_SEND" /\ clock <= w.until,
         w.on \in {"ptask", "ranks"} => w.start = clock,
         w.on = "ranks" => (w.has_walltime <=> HasWalltime),
         w.on = "sleep" => \E s \in Nat : s > 0 /\ w = do_delay_task(s, remaining')
  PROVE  Inv'
<1>1. clock \in Nat /\ in_puts \in Nat /\ job.walltime \in Int
  BY Walltimes DEF Inv, Types
<1>2. (HasWalltime' <=> HasWalltime) /\ \A t \in Int : Left(t)' = Left(t)
  BY DEF HasWalltime, Left
<1>3. HasWalltime => clock - in_puts <= job.walltime
  BY DEF Inv, TimeInv
<1>4. remaining' \in Int /\ (HasWalltime <=> remaining' >= 0) /\ (~HasWalltime => remaining' = Unlimited)
  BY <1>1, <1>3 DEF Left, Unlimited
<1>5. Types'
  BY <1>4 DEF Inv, Types
<1>6. ActorInv'
  BY DEF ActorInv, Top
<1>7. TimeInv'
  <2>1. CASE w.on = "sleep"
    <3>1. PICK s \in Nat : s > 0 /\ w = do_delay_task(s, remaining')
      BY <2>1
    <3>2. /\ w \in SleepWait /\ w.on = "sleep"
          /\ remaining' = Left(w.until - w.slept - in_puts)
          /\ HasWalltime =>
               /\ clock <= w.until /\ w.slept >= 0
               /\ w.cut => w.until - in_puts = job.walltime
               /\ ~w.cut => w.until - in_puts < job.walltime /\ remaining' > 0
          /\ ~HasWalltime => ~w.cut /\ clock <= w.until /\ w.slept >= 0
      BY <1>3, <1>4, <3>1, DelayTypes DEF Inv
    <3>3. w.until - w.slept - in_puts \in Int
      BY <1>1, <3>2 DEF SleepWait
    <3>4. remaining' = Left(w.until - w.slept - in_puts)'
      BY <1>2, <3>2, <3>3
    <3> QED
      BY <1>2, <1>3, <1>4, <3>2, <3>4 DEF TimeInv, None
  <2>2. CASE w.on # "sleep"
    BY <1>1, <1>2, <1>3, <1>4, <2>2 DEF TimeInv, None
  <2> QED
    BY <2>1, <2>2
<1> QED
  BY <1>5, <1>6, <1>7 DEF Inv

\* A step that changes neither the actor nor the time.
LEMMA TaskFrame ==
  ASSUME Inv, UNCHANGED <<job, stack, wait, ret, clock, in_puts, remaining, state>>,
         buffer' \in Seq(Text), nbSent' \in 0 .. MaxMessages, kill' \in {"no", "cancelled", "done"},
         told' \in BOOLEAN, aborted' \in BOOLEAN
  PROVE  Inv'
<1>1. Types' /\ ActorInv'
  BY DEF Inv, Types, ActorInv, Top
<1>2. TimeInv'
  BY DEF Inv, TimeInv, HasWalltime, OutOfTime, Left
<1> QED
  BY <1>1, <1>2 DEF Inv

\* A job that has ended.
LEMMA Ends ==
  ASSUME Inv, UNCHANGED <<job, clock, in_puts, remaining, ret, buffer, nbSent, aborted>>,
         stack' \in Seq(Frame), wait' \in Waits, kill' \in {"no", "cancelled", "done"},
         state' \in States, state' # "RUNNING", told' \in BOOLEAN
  PROVE  Inv'
<1>1. Types' /\ ActorInv'
  BY DEF Inv, Types, ActorInv
<1>2. TimeInv'
  BY DEF Inv, TimeInv, HasWalltime
<1> QED
  BY <1>1, <1>2 DEF Inv

\* A failed assertion changes nothing else.
LEMMA AbortKeeps == ASSUME Inv, Abort PROVE Inv'
BY TaskFrame DEF Inv, Types, Abort

-----------------------------------------------------------------------------
(* The actions *)

\* An actor that calls a task has what is left of the walltime.
LEMMA CallingFacts ==
  ASSUME Inv, Calling
  PROVE  /\ state = "RUNNING" /\ stack # << >> /\ ret = << >> /\ wait.on = None /\ remaining = Left(clock - in_puts)
         /\ Top.p \in Profile
<1>1. state = "RUNNING" /\ stack # << >> /\ ret = << >> /\ wait.on = None
  BY DEF Calling, Running
<1> QED
  BY <1>1, TopFrame DEF Inv, TimeInv

\* A blocked actor is in a task.
LEMMA BlockedFacts ==
  ASSUME Inv, Blocked
  PROVE  /\ state = "RUNNING" /\ wait.on # None /\ stack # << >> /\ ret = << >>
         /\ Top.p \in Profile /\ Def[Top.p].ret \in Int
<1>1. state = "RUNNING" /\ wait.on # None
  BY DEF Blocked
<1>2. stack # << >> /\ ret = << >>
  BY <1>1 DEF Inv, ActorInv
<1> QED
  BY <1>1, <1>2, TopFrame, ProfileTypes DEF Inv

\* A running actor that has a code.
LEMMA ReturnedFacts ==
  ASSUME Inv, Running
  PROVE  /\ state = "RUNNING" /\ wait.on = None /\ wait = Awake
         /\ ret # << >> => Code \in Int /\ ret = <<Code>>
         /\ remaining = Left(clock - in_puts) \/ (Code = -1 /\ ret = <<-1>> /\ OutOfTime)
<1>1. state = "RUNNING" /\ wait.on = None
  BY DEF Running
<1>2. wait = Awake
  BY <1>1 DEF Inv, Types, Waits, PtaskWait, SleepWait, RanksWait, PutWait, None
<1>3. ret # << >> => Code \in Int /\ ret = <<Code>>
  BY DEF Inv, Types, Code
<1>4. remaining = Left(clock - in_puts) \/ (ret = <<-1>> /\ OutOfTime)
  BY <1>1 DEF Inv, TimeInv
<1> QED
  BY <1>1, <1>2, <1>3, <1>4 DEF Code

\* A parallel task starts with the walltime that is left.
LEMMA StartParallelTaskInv == ASSUME Inv, StartParallelTask PROVE Inv'
<1>1. CASE Abort
  BY <1>1, AbortKeeps
<1>2. CASE \E d \in Duration :
             /\ wait' = [on |-> "ptask", start |-> clock, until |-> clock + d]
             /\ UNCHANGED <<stack, ret, remaining, ranks, rankMap, state, told, done, aborted>>
             /\ UNCHANGED outside
  <2>1. PICK d \in Duration :
             /\ wait' = [on |-> "ptask", start |-> clock, until |-> clock + d]
             /\ UNCHANGED <<stack, ret, remaining, ranks, rankMap, state, told, done, aborted>>
             /\ UNCHANGED outside
    BY <1>2
  <2>2. Calling
    BY DEF StartParallelTask
  <2>3. clock \in Nat /\ in_puts \in Nat /\ d \in Nat
    BY BoundsAreNatural DEF Inv, Types
  <2>4. wait' \in Waits /\ wait'.on = "ptask" /\ wait'.start = clock
    BY <2>1, <2>3 DEF Waits, PtaskWait
  <2> QED
    BY <2>1, <2>2, <2>4, CallingFacts, Blocks DEF outside, None
<1> QED
  BY <1>1, <1>2 DEF StartParallelTask

\* The parallel task is done, or the walltime ends it.
LEMMA ParallelTaskEndsInv ==
  ASSUME Inv, NEW why \in {"complete", "timeout", "cancelled"}, ParallelTaskEnds(why) PROVE Inv'
<1>1. Blocked /\ wait.on = "ptask" /\ wait' = Awake /\ remaining' = AfterPtask
  BY DEF ParallelTaskEnds
<1>2. PICK code \in Int : Return(code)
  BY <1>1, BlockedFacts DEF ParallelTaskEnds
<1>3. stack' \in Seq(Frame) /\ ret' = <<code>>
  BY <1>1, <1>2, BlockedFacts, ReturnTypes DEF Inv
<1>4. remaining' = Left(clock - in_puts)
  <2>1. remaining = Left(wait.start - in_puts) /\ (~HasWalltime => remaining = Unlimited) /\ (HasWalltime => remaining >= 0)
    BY <1>1 DEF Inv, TimeInv, Blocked
  <2>2. wait.start \in Int /\ clock \in Int /\ in_puts \in Int /\ job.walltime \in Int
    BY <1>1, Walltimes DEF Inv, Types, Waits, PtaskWait, SleepWait, RanksWait, PutWait, Awake, None
  <2> QED
    BY <1>1, <2>1, <2>2 DEF AfterPtask, Left, Unlimited
<1>5. UNCHANGED <<job, clock, in_puts, nbSent, state, kill, told, aborted, buffer>>
  BY DEF ParallelTaskEnds, outside
<1> QED
  BY <1>1, <1>3, <1>4, <1>5, Resumes, BlockedFacts DEF Inv, Types

\* A sequence starts its next part, or returns.
LEMMA SequenceStepInv == ASSUME Inv, SequenceStep PROVE Inv'
<1>1. CASE Abort
  BY <1>1, AbortKeeps
<1>2. CASE HasSubTasks /\ ~Abort
  <2> DEFINE d == Def[Top.p]
             next == Top.index + 1
             i == (next % Len(d.seq)) + 1
  <2>1. /\ Running /\ stack # << >> /\ IsSequence(Top.p)
        /\ UNCHANGED <<wait, remaining, state, told, aborted, job, clock, in_puts, buffer, nbSent, kill>>
    BY <1>2 DEF SequenceStep, outside
  <2>2. \/ Returned /\ Fails(Code) /\ Return(Code)
        \/ ~(Returned /\ Fails(Code)) /\ Call(next, d.seq[i], SubIo(Top.io, i))
        \/ ~(Returned /\ Fails(Code)) /\ Return(d.ret)
    BY <1>2 DEF SequenceStep
  <2>3. /\ Top.p \in Profile /\ Top.io \in Profile \cup {None} /\ Top.index \in Int
        /\ d.ret \in Int /\ d.seq \in Seq(Profile) /\ d.seq # << >>
    BY <2>1, TopFrame, ProfileTypes DEF Inv
  <2>4. ret # <<-1>> => remaining = Left(clock - in_puts)
    BY <2>1, ReturnedFacts
  <2>5. CASE Returned /\ Fails(Code) /\ Return(Code)
    <3>1. Code \in Int /\ ret = <<Code>>
      BY <2>1, <2>5, ReturnedFacts DEF Returned
    <3>2. stack' \in Seq(Frame) /\ ret' = ret
      BY <2>1, <2>5, <3>1, ReturnTypes DEF Inv
    <3> QED
      BY <2>1, <3>1, <3>2, ReturnedFacts, Resumes DEF Inv, Types
  <2>6. CASE ~(Returned /\ Fails(Code)) /\ Call(next, d.seq[i], SubIo(Top.io, i))
    <3>1. ret # <<-1>>
      BY <2>1, <2>6 DEF Returned, Fails, Code
    <3>2. i \in 1 .. Len(d.seq) /\ next \in Int
      BY <2>3
    <3>3. d.seq[i] \in Profile
      BY <2>3, <3>2
    <3>4. SubIo(Top.io, i) \in Profile \cup {None}
      <4>1. CASE Top.io = None
        BY <4>1 DEF SubIo
      <4>2. CASE Top.io # None
        <5>1. Top.io \in Profile /\ IsSequence(Top.io) /\ Len(Def[Top.io].seq) >= Len(d.seq)
          BY <1>2, <2>3, <4>2 DEF HasSubTasks
        <5>2. Def[Top.io].seq \in Seq(Profile)
          BY <5>1, ProfileTypes
        <5>3. i \in 1 .. Len(Def[Top.io].seq)
          BY <2>3, <3>2, <5>1, <5>2
        <5> QED
          BY <4>2, <5>2, <5>3 DEF SubIo
      <4> QED
        BY <4>1, <4>2
    <3> HIDE DEF d, next, i
    <3>5. stack' \in Seq(Frame) /\ stack' # << >> /\ ret' = << >>
      BY <2>1, <2>6, <3>2, <3>3, <3>4, CallTypes DEF Inv
    <3> QED
      BY <2>1, <2>4, <3>1, <3>5, ReturnedFacts, Resumes DEF Inv, Types
  <2>7. CASE ~(Returned /\ Fails(Code)) /\ Return(d.ret)
    <3>1. ret # <<-1>>
      BY <2>1, <2>7 DEF Returned, Fails, Code
    <3> HIDE DEF d
    <3>2. stack' \in Seq(Frame) /\ ret' = <<d.ret>>
      BY <2>1, <2>3, <2>7, ReturnTypes DEF Inv
    <3> QED
      BY <2>1, <2>3, <2>4, <3>1, <3>2, ReturnedFacts, Resumes DEF Inv, Types
  <2> QED
    BY <2>2, <2>5, <2>6, <2>7
<1> QED
  BY <1>1, <1>2 DEF SequenceStep

\* The sleep of a task, as a wait.
LEMMA SleepIsWait ==
  ASSUME Inv, NEW s \in Nat, s > 0, NEW left \in Int, left = Left(clock - in_puts)
  PROVE  do_delay_task(s, left) \in Waits /\ do_delay_task(s, left).on = "sleep"
BY DelayTypes DEF Inv, Waits

\* What is left is an integer.
LEMMA LeftIsInt == ASSUME Types PROVE Left(clock - in_puts) \in Int
BY Walltimes DEF Types, Left, Unlimited

\* A delay sleeps for its time or for what is left of the walltime.
LEMMA DelayStartsInv == ASSUME Inv, DelayStarts PROVE Inv'
<1>1. /\ Calling /\ Def[Top.p].type = "DELAY" /\ wait' = do_delay_task(Def[Top.p].delay, remaining)
      /\ UNCHANGED <<job, stack, ret, clock, in_puts, remaining, buffer, nbSent, state, kill, told, aborted>>
  BY DEF DelayStarts, outside
<1>2. Def[Top.p].delay \in Nat /\ Def[Top.p].delay > 0
  BY <1>1, CallingFacts, ProfileTypes
<1>3. wait' \in Waits /\ wait'.on = "sleep"
  BY <1>1, <1>2, CallingFacts, LeftIsInt, SleepIsWait DEF Inv
<1> QED
  BY <1>1, <1>2, <1>3, CallingFacts, Blocks DEF None

\* A send profile puts its message and waits for the server.
LEMMA SendStartsInv == ASSUME Inv, SendStarts PROVE Inv'
<1>0. PICK d \in Transfer : wait' = [on |-> "put", until |-> clock + d]
  BY DEF SendStarts
<1>1. /\ Calling /\ Def[Top.p].type = "SCHEDULER_SEND"
      /\ UNCHANGED <<job, stack, ret, clock, in_puts, remaining, buffer, nbSent, state, kill, told, aborted>>
  BY DEF SendStarts, outside
<1>2. wait' \in Waits /\ wait'.on = "put" /\ clock <= wait'.until
  <2>1. clock \in Nat /\ d \in Nat
    BY BoundsAreNatural DEF Inv, Types
  <2>2. wait' \in PutWait /\ wait'.until = clock + d
    BY <1>0, <2>1 DEF PutWait
  <2> QED
    BY <1>0, <2>1, <2>2 DEF Waits
<1> QED
  BY <1>1, <1>2, CallingFacts, Blocks DEF None

\* The server receives the message and the job goes on.
LEMMA ServerReceivesInv == ASSUME Inv, ServerReceives PROVE Inv'
<1>1. /\ Blocked /\ wait.on = "put" /\ wait' = do_delay_task(Def[Top.p].sleeptime, remaining)
      /\ UNCHANGED <<job, stack, ret, clock, in_puts, remaining, buffer, nbSent, state, kill, told, aborted>>
  BY DEF ServerReceives, outside
<1>2. Def[Top.p].type = "SCHEDULER_SEND" /\ remaining = Left(clock - in_puts)
  <2>1. state = "RUNNING" /\ ret # <<-1>>
    BY <1>1, BlockedFacts
  <2>2. Def[Top.p].type = "SCHEDULER_SEND"
    BY <1>1, <2>1 DEF Inv, ActorInv
  <2>3. remaining = Left(clock - in_puts)
    BY <1>1, <2>1 DEF Inv, TimeInv
  <2> QED
    BY <2>2, <2>3
<1>3. Def[Top.p].sleeptime \in Nat /\ Def[Top.p].sleeptime > 0
  BY <1>1, <1>2, BlockedFacts, ProfileTypes
<1>4. wait' \in Waits /\ wait'.on = "sleep"
  BY <1>1, <1>2, <1>3, LeftIsInt, SleepIsWait DEF Inv
<1> QED
  BY <1>1, <1>2, <1>3, <1>4, BlockedFacts, Blocks DEF None

\* A sleep is over: what was slept is taken from the walltime.
LEMMA SleepEndsInv == ASSUME Inv, SleepEnds PROVE Inv'
<1>1. /\ Blocked /\ wait.on = "sleep" /\ clock = wait.until /\ wait' = Awake /\ Slept
      /\ UNCHANGED <<job, clock, in_puts, buffer, nbSent, state, kill, told, aborted>>
  BY DEF SleepEnds, outside
<1>2. PICK code \in Int : Return(code)
  BY <1>1, BlockedFacts DEF SleepEnds
<1>3. stack' \in Seq(Frame) /\ ret' = <<code>>
  BY <1>1, <1>2, BlockedFacts, ReturnTypes DEF Inv
<1>4. remaining' = Left(clock - in_puts)
  BY <1>1, BlockedFacts, SleptRight
<1> QED
  BY <1>1, <1>3, <1>4, BlockedFacts, Resumes DEF Inv, Types

\* A receive task goes on, with a branch or without.
LEMMA ReceiveTypes ==
  ASSUME Types, stack # << >>, NEW branch \in Profile \cup {None}, Receive(branch)
  PROVE  /\ stack' \in Seq(Frame) /\ ret' \in {<< >>} \cup {<<c>> : c \in Int}
         /\ stack' = << >> => ret' # << >>
         /\ ret' \in {<< >>, <<Def[Top.p].ret>>}
<1>1. Def[Top.p].ret \in Int
  BY TopFrame, ProfileTypes
<1>2. CASE branch # None
  BY <1>2, CallTypes DEF Receive
<1>3. CASE branch = None
  <2>1. Return(Def[Top.p].ret)
    BY <1>3 DEF Receive
  <2>2. stack' \in Seq(Frame) /\ ret' = <<Def[Top.p].ret>>
    BY <1>1, <2>1, ReturnTypes
  <2> QED
    BY <1>1, <2>2
<1> QED
  BY <1>2, <1>3

\* Taking a message from the buffer.
LEMMA TakeMessage ==
  ASSUME Types, buffer # << >>
  PROVE  Tail(buffer) \in Seq(Text) /\ Head(buffer) \in Text
BY DEF Types

\* The branches of a receive task are profiles, or none.
LEMMA BranchTypes ==
  ASSUME NEW p \in Profile, Def[p].type = "SCHEDULER_RECV", NEW text
  PROVE  Branch(Def[p], text) \in Profile \cup {None} /\ Def[p].on_timeout \in Profile \cup {None}
BY ProfileTypes DEF Branch

\* A receive profile reads the buffer, or starts to poll.
LEMMA RecvStartsInv == ASSUME Inv, RecvStarts PROVE Inv'
<1> DEFINE d == Def[Top.p]
<1>1. /\ Calling /\ d.type = "SCHEDULER_RECV"
      /\ UNCHANGED <<job, clock, in_puts, remaining, nbSent, state, kill, told, aborted>>
  BY DEF RecvStarts
<1>2. Top.p \in Profile /\ Types /\ wait = Awake
  BY <1>1, CallingFacts, ReturnedFacts DEF Inv, Calling
<1>3. CASE buffer # << >> /\ buffer' = Tail(buffer) /\ Receive(Branch(d, Head(buffer))) /\ UNCHANGED wait
  <2>1. Branch(d, Head(buffer)) \in Profile \cup {None}
    BY <1>1, <1>2, BranchTypes
  <2>2. /\ stack' \in Seq(Frame) /\ ret' \in {<< >>} \cup {<<c>> : c \in Int}
        /\ stack' = << >> => ret' # << >>
    BY <1>1, <1>2, <1>3, <2>1, CallingFacts, ReceiveTypes
  <2> QED
    BY <1>1, <1>2, <1>3, <2>2, CallingFacts, TakeMessage, Resumes
<1>4. CASE Receive(d.on_timeout) /\ UNCHANGED <<wait, buffer>>
  <2>1. d.on_timeout \in Profile \cup {None}
    BY <1>1, <1>2, BranchTypes
  <2>2. /\ stack' \in Seq(Frame) /\ ret' \in {<< >>} \cup {<<c>> : c \in Int}
        /\ stack' = << >> => ret' # << >>
    BY <1>1, <1>2, <1>4, <2>1, CallingFacts, ReceiveTypes
  <2> QED
    BY <1>1, <1>2, <1>4, <2>2, CallingFacts, Resumes DEF Types
<1>5. CASE wait' = do_delay_task(d.polltime, remaining) /\ UNCHANGED <<stack, ret, done, buffer>>
  <2>1. d.polltime \in Nat /\ d.polltime > 0
    BY <1>1, <1>2, ProfileTypes
  <2>2. wait' \in Waits /\ wait'.on = "sleep"
    BY <1>1, <1>2, <1>5, <2>1, CallingFacts, LeftIsInt, SleepIsWait
  <2> QED
    BY <1>1, <1>5, <2>1, <2>2, CallingFacts, Blocks DEF None
<1> QED
  BY <1>3, <1>4, <1>5 DEF RecvStarts

\* A poll finds a message, the end of the walltime, or sleeps again.
LEMMA PollInv == ASSUME Inv, Poll PROVE Inv'
<1> DEFINE d == Def[Top.p]
<1>1. /\ Blocked /\ wait.on = "sleep" /\ d.type = "SCHEDULER_RECV" /\ clock = wait.until /\ Slept
      /\ UNCHANGED <<job, clock, in_puts, nbSent, state, kill, told, aborted>>
  BY DEF Poll
<1>2. remaining' = Left(clock - in_puts) /\ Types
  BY <1>1, BlockedFacts, SleptRight DEF Inv
<1>3. CASE Return(-1) /\ wait' = Awake /\ UNCHANGED buffer
  <2>1. stack' \in Seq(Frame) /\ ret' = <<-1>>
    BY <1>1, <1>2, <1>3, BlockedFacts, ReturnTypes
  <2> QED
    BY <1>1, <1>2, <1>3, <2>1, BlockedFacts, Resumes DEF Types
<1>4. CASE buffer # << >> /\ buffer' = Tail(buffer) /\ wait' = Awake /\ Receive(Branch(d, Head(buffer)))
  <2>1. Branch(d, Head(buffer)) \in Profile \cup {None}
    BY <1>1, BlockedFacts, BranchTypes
  <2>2. /\ stack' \in Seq(Frame) /\ ret' \in {<< >>} \cup {<<c>> : c \in Int}
        /\ stack' = << >> => ret' # << >>
    BY <1>1, <1>2, <1>4, <2>1, BlockedFacts, ReceiveTypes
  <2> QED
    BY <1>1, <1>2, <1>4, <2>2, BlockedFacts, TakeMessage, Resumes
<1>5. CASE wait' = do_delay_task(d.polltime, remaining') /\ UNCHANGED <<stack, ret, done, buffer>>
  <2>1. d.polltime \in Nat /\ d.polltime > 0
    BY <1>1, BlockedFacts, ProfileTypes
  <2>2. wait' \in Waits /\ wait'.on = "sleep"
    BY <1>2, <1>5, <2>1, LeftIsInt, SleepIsWait
  <2> QED
    BY <1>1, <1>2, <1>5, <2>1, <2>2, BlockedFacts, Blocks DEF None
<1> QED
  BY <1>3, <1>4, <1>5 DEF Poll

\* The branch that a receive profile chose has returned.
LEMMA RecvReturnsInv == ASSUME Inv, RecvReturns PROVE Inv'
<1>1. /\ Running /\ ret # << >> /\ stack # << >>
      /\ UNCHANGED <<wait, remaining, job, clock, in_puts, buffer, nbSent, state, kill, told, aborted>>
      /\ Return(IF Fails(Code) THEN Code ELSE Def[Top.p].ret)
  BY DEF RecvReturns, Returned, outside
<1>2. Code \in Int /\ ret = <<Code>> /\ Def[Top.p].ret \in Int
  BY <1>1, ReturnedFacts, TopFrame, ProfileTypes DEF Inv
<1>3. PICK code \in Int : Return(code) /\ (Code = -1 => code = -1)
  BY <1>1, <1>2 DEF Fails
<1>4. stack' \in Seq(Frame) /\ ret' = <<code>>
  BY <1>1, <1>3, ReturnTypes DEF Inv
<1> QED
  BY <1>1, <1>3, <1>4, ReturnedFacts, Resumes DEF Inv, Types

\* A replay starts its ranks.
LEMMA ReplayStartsInv == ASSUME Inv, ReplayStarts PROVE Inv'
<1>1. CASE Abort
  BY <1>1, AbortKeeps
<1>2. CASE ~Abort
  <2>1. /\ Calling
        /\ wait' = [on |-> "ranks", start |-> clock, has_walltime |-> remaining >= 0]
        /\ UNCHANGED <<job, stack, ret, clock, in_puts, remaining, buffer, nbSent, state, kill, told, aborted>>
    BY <1>2 DEF ReplayStarts, outside
  <2>2. wait'.on = "ranks" /\ wait'.start = clock /\ (wait'.has_walltime <=> HasWalltime)
    BY <2>1 DEF Inv, TimeInv
  <2>3. wait' \in Waits
    BY <2>1 DEF Inv, Types, Waits, RanksWait
  <2> QED
    BY <2>1, <2>2, <2>3, CallingFacts, Blocks DEF None
<1> QED
  BY <1>1, <1>2

\* While the actor waits for ranks.
LEMMA RanksFacts ==
  ASSUME Inv, Blocked, wait.on = "ranks"
  PROVE  /\ wait \in RanksWait /\ clock \in Nat /\ in_puts \in Nat /\ job.walltime \in Int /\ wait.start \in Nat
         /\ remaining = Left(wait.start - in_puts) /\ (wait.has_walltime <=> HasWalltime)
         /\ wait.start <= clock /\ (HasWalltime => clock - in_puts <= job.walltime)
<1>1. wait \in RanksWait
  BY DEF Inv, Types, Waits, PtaskWait, SleepWait, PutWait, Awake, None
<1>2. clock \in Nat /\ in_puts \in Nat /\ job.walltime \in Int
  BY Walltimes DEF Inv, Types
<1> QED
  BY <1>1, <1>2 DEF Inv, TimeInv, RanksWait, Blocked

\* A rank is done; the last one wakes the job up.
LEMMA RankReportsInv ==
  ASSUME Inv, NEW r \in DOMAIN ranks, RankReports(r) PROVE Inv'
<1>1. /\ Blocked /\ wait.on = "ranks" /\ remaining' = AfterRank
      /\ UNCHANGED <<job, clock, in_puts, buffer, nbSent, state, kill, told, aborted>>
  BY DEF RankReports, outside
<1>2. remaining' = Left(clock - in_puts)
  BY <1>1, RanksFacts DEF AfterRank, Left
<1>3. CASE Return(Def[Top.p].ret) /\ wait' = Awake
  <2>1. stack' \in Seq(Frame) /\ ret' = <<Def[Top.p].ret>> /\ Def[Top.p].ret \in Int
    BY <1>1, <1>3, BlockedFacts, ReturnTypes DEF Inv
  <2> QED
    BY <1>1, <1>2, <1>3, <2>1, BlockedFacts, Resumes DEF Inv, Types
<1>4. CASE wait' = [wait EXCEPT !.start = clock] /\ UNCHANGED <<stack, ret, done>>
  <2>1. wait' \in RanksWait /\ wait'.on = "ranks" /\ wait'.start = clock /\ wait'.has_walltime = wait.has_walltime
    BY <1>1, <1>4, RanksFacts DEF RanksWait
  <2>2. wait' \in Waits
    BY <2>1 DEF Waits
  <2> QED
    BY <1>1, <1>2, <1>4, <2>1, <2>2, BlockedFacts, RanksFacts, Blocks DEF None
<1> QED
  BY <1>3, <1>4 DEF RankReports

\* The walltime ends the wait for the ranks.
LEMMA ReplayTimesOutInv == ASSUME Inv, ReplayTimesOut PROVE Inv'
<1>1. /\ Blocked /\ wait.on = "ranks" /\ wait.has_walltime /\ clock = wait.start + remaining
      /\ wait' = Awake /\ Return(-1)
      /\ UNCHANGED <<job, clock, in_puts, remaining, buffer, nbSent, state, kill, told, aborted>>
  BY DEF ReplayTimesOut, outside
<1>2. stack' \in Seq(Frame) /\ ret' = <<-1>>
  BY <1>1, BlockedFacts, ReturnTypes DEF Inv
<1>3. OutOfTime
  BY <1>1, RanksFacts DEF OutOfTime, Left
<1> QED
  BY <1>1, <1>2, <1>3, BlockedFacts, Resumes DEF Inv, Types

\* A code is that of an end.
LEMMA EndStates ==
  ASSUME NEW code \in Int, code >= -2
  PROVE  /\ EndState(code) \in States /\ EndState(code) # "RUNNING"
         /\ EndState(code) = "COMPLETED_WALLTIME_REACHED" => code = -1
         /\ EndState(code) = "COMPLETED_KILLED" => code = -2
BY DEF EndState, States

\* The root task has returned: the job's state is set and its end is told.
LEMMA JobEndsInv == ASSUME Inv, JobEnds PROVE Inv'
<1>1. CASE Abort
  BY <1>1, AbortKeeps
<1>2. CASE ~Abort
  <2>1. /\ Running /\ stack = << >> /\ Code >= -2
        /\ state' = EndState(Code) /\ told' = MustTell(EndState(Code))
        /\ UNCHANGED <<stack, wait, job, ret, clock, in_puts, remaining, buffer, nbSent, kill, aborted>>
    <3>1. Running /\ stack = << >>
      BY DEF JobEnds
    <3>2. Code \in Int
      BY <3>1, ReturnedFacts DEF Inv, ActorInv, Running
    <3> QED
      BY <1>2, <3>1, <3>2 DEF JobEnds, outside
  <2>2. Code \in Int
    BY <2>1, ReturnedFacts DEF Inv, ActorInv, Running
  <2>3. told' \in BOOLEAN
    BY <2>1 DEF MustTell
  <2>4. state' \in States /\ state' # "RUNNING"
    BY <2>1, <2>2, EndStates
  <2> QED
    BY <2>1, <2>3, <2>4, Ends DEF Inv, Types
<1> QED
  BY <1>1, <1>2

\* ToJobMsg adds to the buffer of a job.
LEMMA ToJobMsgInv == ASSUME Inv, NEW text \in Text, ToJobMsg(text) PROVE Inv'
<1>1. buffer' \in Seq(Text)
  BY DEF ToJobMsg, Inv, Types
<1>2. nbSent' \in 0 .. MaxMessages
  BY BoundsAreNatural DEF ToJobMsg, Inv, Types
<1> QED
  BY <1>1, <1>2, TaskFrame DEF ToJobMsg, Inv, Types

\* killer_process ends the job's actor, or finds it ended.
LEMMA KillerInv == ASSUME Inv, killer_process PROVE Inv'
<1>1. CASE Abort
  BY <1>1, AbortKeeps
<1>2. CASE kill' = "cancelled" /\ UNCHANGED <<state, ranks, wait, stack>>
           /\ UNCHANGED <<job, ret, clock, in_puts, remaining, buffer, nbSent, rankMap, ptask, told, done, aborted>>
  BY <1>2, TaskFrame DEF Inv, Types
<1>3. CASE /\ kill' = "done" /\ state' = "COMPLETED_KILLED" /\ wait' = Awake /\ stack' = << >>
           /\ UNCHANGED <<job, ret, clock, in_puts, remaining, buffer, nbSent, rankMap, ptask, told, done, aborted>>
  <2>1. stack' \in Seq(Frame) /\ wait' \in Waits
    BY <1>3 DEF Waits
  <2> QED
    BY <1>3, <2>1, Ends DEF Inv, Types, States
<1> QED
  BY <1>1, <1>2, <1>3 DEF killer_process

\* Time passes while the job waits and nothing is due.
LEMMA TickInv == ASSUME Inv, Tick PROVE Inv'
<1>0. in_puts' = IF wait.on = "put" THEN in_puts + 1 ELSE in_puts
  BY DEF Tick
<1>1. /\ Blocked /\ ~Due /\ clock < MaxClock /\ clock' = clock + 1
      /\ UNCHANGED <<job, stack, wait, ret, remaining, buffer, nbSent, state, kill, told, aborted>>
  BY DEF Tick
<1>2. clock \in Nat /\ in_puts \in Nat /\ MaxClock \in Nat /\ job.walltime \in Int /\ remaining \in Int
  BY Walltimes, BoundsAreNatural DEF Inv, Types
<1>3. Types'
  BY <1>0, <1>1, <1>2 DEF Inv, Types
<1>4. ActorInv'
  BY <1>1 DEF Inv, ActorInv, Top
<1>5. (HasWalltime' <=> HasWalltime) /\ \A t : Left(t)' = Left(t)
  BY <1>1 DEF HasWalltime, Left
<1>6. wait.on \in {"ptask", "sleep", "ranks", "put"}
  BY <1>1 DEF Blocked, Inv, Types, Waits, PtaskWait, SleepWait, RanksWait, PutWait, Awake
<1>7. state = "RUNNING" /\ (HasWalltime => clock - in_puts <= job.walltime)
  BY <1>1 DEF Blocked, Inv, TimeInv
<1>8. CASE wait.on = "ptask"
  <2>1. ~(remaining >= 0 /\ clock = wait.start + remaining)
    BY <1>1, <1>8 DEF Due, PtaskTimesOut
  <2>2. remaining = Left(wait.start - in_puts) /\ wait.start <= clock /\ (HasWalltime => remaining >= 0)
    BY <1>7, <1>8 DEF Inv, TimeInv
  <2>3. wait.start \in Nat
    BY <1>8 DEF Inv, Types, Waits, PtaskWait, SleepWait, RanksWait, PutWait, Awake, None
  <2>4. (HasWalltime => clock + 1 - in_puts <= job.walltime) /\ wait.start <= clock + 1
    BY <1>2, <1>7, <2>1, <2>2, <2>3 DEF Left
  <2>5. in_puts' = in_puts
    BY <1>0, <1>8
  <2>6. TimeInv'
    <3>1. remaining' = Left(wait.start - in_puts)'
      BY <1>1, <1>5, <2>2, <2>5
    <3>2. HasWalltime' => (clock - in_puts <= job.walltime)'
      BY <1>1, <1>2, <1>5, <2>4, <2>5
    <3> QED
      BY <1>1, <1>5, <1>8, <2>4, <3>1, <3>2 DEF Inv, TimeInv, None
  <2> QED
    BY <1>3, <1>4, <2>6 DEF Inv
<1>9. CASE wait.on = "ranks"
  <2>1. ~(wait.has_walltime /\ clock = wait.start + remaining)
    BY <1>1, <1>9 DEF Due
  <2>2. (HasWalltime => clock + 1 - in_puts <= job.walltime) /\ wait.start <= clock + 1
    BY <1>1, <1>2, <1>7, <1>9, <2>1, RanksFacts DEF Left
  <2>3. TimeInv'
    BY <1>0, <1>1, <1>5, <1>9, <2>2, RanksFacts DEF Inv, TimeInv, None
  <2> QED
    BY <1>3, <1>4, <2>3 DEF Inv
<1>10. CASE wait.on = "sleep"
  <2>1. clock # wait.until
    BY <1>1, <1>10 DEF Due
  <2>2. /\ clock <= wait.until
        /\ wait.cut => wait.until - in_puts = job.walltime
        /\ ~wait.cut /\ HasWalltime => wait.until - in_puts < job.walltime
    BY <1>7, <1>10 DEF Inv, TimeInv
  <2>3. wait.until \in Int /\ wait.cut \in BOOLEAN
    BY <1>10 DEF Inv, Types, Waits, PtaskWait, SleepWait, RanksWait, PutWait, Awake, None
  <2>4. (HasWalltime => clock + 1 - in_puts <= job.walltime) /\ clock + 1 <= wait.until
    BY <1>2, <2>1, <2>2, <2>3
  <2>5. in_puts' = in_puts
    BY <1>0, <1>10
  <2>6. TimeInv'
    <3>1. remaining' = Left(wait.until - wait.slept - in_puts)'
      BY <1>1, <1>5, <1>7, <1>10, <2>5 DEF Inv, TimeInv
    <3>2. HasWalltime' => (clock - in_puts <= job.walltime)'
      BY <1>1, <1>2, <1>5, <2>4, <2>5
    <3> QED
      BY <1>1, <1>5, <1>10, <2>4, <2>5, <3>1, <3>2 DEF Inv, TimeInv, None
  <2> QED
    BY <1>3, <1>4, <2>6 DEF Inv
<1>11. CASE wait.on = "put"
  <2>1. clock # wait.until
    BY <1>1, <1>11 DEF Due
  <2>0. ret # <<-1>> /\ ret = << >>
    BY <1>1, BlockedFacts
  <2>2. clock <= wait.until /\ remaining = Left(clock - in_puts)
    BY <1>7, <1>11, <2>0 DEF Inv, TimeInv
  <2>3. wait.until \in Nat
    BY <1>11 DEF Inv, Types, Waits, PtaskWait, SleepWait, RanksWait, PutWait, Awake, None
  <2>4. clock' <= wait.until /\ clock' - in_puts' = clock - in_puts
    BY <1>0, <1>1, <1>2, <1>11, <2>1, <2>2, <2>3
  <2>5. TimeInv'
    BY <1>1, <1>5, <1>7, <1>11, <2>2, <2>4 DEF Inv, TimeInv, None
  <2> QED
    BY <1>3, <1>4, <2>5 DEF Inv
<1> QED
  BY <1>6, <1>8, <1>9, <1>10, <1>11

-----------------------------------------------------------------------------
(* Types and the time that remains *)

\* Init establishes the invariant.
LEMMA TaskInitInv == Init => Inv
<1> SUFFICES ASSUME Init PROVE Inv
  OBVIOUS
<1>1. job.profile \in Profile /\ job.io_profile \in Profile \cup {None}
      /\ (job.walltime = Unlimited \/ job.walltime \in Nat \ {0})
  BY JobsAreValid DEF Init
<1>2. stack \in Seq(Frame) /\ stack # << >>
  BY <1>1 DEF Init, Task, Frame
<1>3. job.walltime \in Int /\ (HasWalltime <=> job.walltime >= 0)
  BY <1>1 DEF HasWalltime, Unlimited
<1>4. Types
  <2>1. job \in JobToRun /\ wait \in Waits /\ remaining \in Int /\ buffer \in Seq(Text)
    BY <1>3 DEF Init, Waits
  <2>2. clock \in 0 .. MaxClock /\ in_puts \in 0 .. clock /\ nbSent \in 0 .. MaxMessages
    BY BoundsAreNatural DEF Init
  <2> QED
    BY <1>2, <2>1, <2>2 DEF Init, Types, States
<1>5. ActorInv
  BY <1>2 DEF Init, ActorInv, Awake, None
<1>6. TimeInv
  BY <1>3 DEF Init, TimeInv, HasWalltime, Left, Awake, None
<1> QED
  BY <1>4, <1>5, <1>6 DEF Inv

\* Every step keeps it.
LEMMA TaskNextInv == Inv /\ [Next]_vars => Inv'
<1> SUFFICES ASSUME Inv, [Next]_vars PROVE Inv'
  OBVIOUS
<1>1. CASE UNCHANGED vars
  BY <1>1, TaskFrame DEF vars, Inv, Types
<1>2. CASE Next
  BY <1>2, StartParallelTaskInv, ParallelTaskEndsInv, SequenceStepInv, DelayStartsInv, SendStartsInv,
     ServerReceivesInv, SleepEndsInv, RecvStartsInv, PollInv, RecvReturnsInv, ReplayStartsInv,
     RankReportsInv, ReplayTimesOutInv, JobEndsInv, TickInv, KillerInv, ToJobMsgInv DEF Next, JobStep
<1> QED
  BY <1>1, <1>2

\* In every reachable state *remaining_time is what is left of the walltime at the
\* date the actor blocked, or at this date when it runs.
LEMMA TaskInvHolds == Spec => []Inv
<1>1. Init => Inv
  BY TaskInitInv
<1>2. Inv /\ [Next]_vars => Inv'
  BY TaskNextInv
<1> QED
  BY <1>1, <1>2, PTL DEF Spec

\* The invariant has the types of the properties.
LEMMA InvTypes == Inv => TaskTypeOK
<1> SUFFICES ASSUME Inv PROVE TaskTypeOK
  OBVIOUS
<1>1. \A i \in 1 .. Len(stack) : /\ stack[i].p \in Profile
                                 /\ stack[i].io \in Profile \cup {None}
                                 /\ stack[i].index \in Int
  <2> SUFFICES ASSUME NEW i \in 1 .. Len(stack)
               PROVE  stack[i] \in Frame
    BY DEF Frame
  <2> QED
    BY DEF Inv, Types
<1>2. wait.on \in {None, "ptask", "sleep", "put", "ranks"}
  BY DEF Inv, Types, Waits, PtaskWait, SleepWait, RanksWait, PutWait, Awake
<1>3. Len(ret) <= 1 /\ \A i \in 1 .. Len(ret) : ret[i] \in Int
  <2>1. CASE ret = << >>
    BY <2>1
  <2>2. CASE ret # << >>
    <3>1. PICK c \in Int : ret = <<c>>
      BY <2>2 DEF Inv, Types
    <3> QED
      BY <3>1
  <2> QED
    BY <2>1, <2>2
<1>4. remaining < 0 <=> job.walltime = Unlimited
  BY DEF Inv, Types, TimeInv, HasWalltime
<1> QED
  BY <1>1, <1>2, <1>3, <1>4 DEF Inv, Types, TaskTypeOK, States

(***************************************************************************)
(* The tasks, the return code, the dates and the messages of an execution  *)
(* keep their types, and *remaining_time (jobs_execution.cpp) is negative  *)
(* exactly when the job has no walltime: no task ever drives it below      *)
(* zero, whatever the profiles, the durations and the kills.               *)
(***************************************************************************)
THEOREM TaskTypes == Spec => []TaskTypeOK
BY TaskInvHolds, InvTypes, PTL

-----------------------------------------------------------------------------
(* The end of the job *)

\* A code that may go up the stack.
CodeIsRight(c) == /\ c \in Int /\ c >= -2
                  /\ c = -1 => OutOfTime
                  /\ c = -2 => kill = "cancelled"

\* A step of the running actor that returns such a code, or none.
LEMMA KeepsRunning ==
  ASSUME EndInv, state = "RUNNING",
         UNCHANGED <<job, clock, in_puts, state, kill, told>>,
         ret' = << >> \/ \E c : CodeIsRight(c) /\ ret' = <<c>>,
         wait'.on # "ranks" => DOMAIN ranks' = {}
  PROVE  CodeInv' /\ EndInv'
<1>1. OutOfTime' <=> OutOfTime
  BY DEF OutOfTime, HasWalltime
<1>2. CodeInv'
  BY <1>1 DEF CodeInv, CodeIsRight, Code
<1>3. EndInv'
  BY DEF EndInv
<1> QED
  BY <1>2, <1>3

\* The code that the actor has is right.
LEMMA CodeOfRet ==
  ASSUME Inv, CodeInv, Running, ret # << >>
  PROVE  CodeIsRight(Code) /\ ret = <<Code>>
BY ReturnedFacts DEF CodeInv, CodeIsRight

\* So is the code of a profile.
LEMMA CodeOfProfile ==
  ASSUME CodesAreNatural, NEW p \in Profile PROVE CodeIsRight(Def[p].ret)
BY DEF CodesAreNatural, CodeIsRight

\* Only a replay has children.
LEMMA NoChildren ==
  ASSUME EndInv, state = "RUNNING", wait.on # "ranks" PROVE DOMAIN ranks = {}
BY DEF EndInv

\* What only the invariant of the end needs of a step.
LEMMA TaskNextEnd ==
  ASSUME CodesAreNatural, Inv, CodeInv, EndInv, Next
  PROVE  CodeInv' /\ EndInv'
<1>1. CASE Abort
  BY <1>1 DEF Abort, CodeInv, EndInv, Code, OutOfTime, HasWalltime
<1>2. CASE StartParallelTask /\ ~Abort
  <2>1. Calling /\ wait'.on = "ptask" /\ UNCHANGED <<job, clock, in_puts, state, kill, told, ret, ranks>>
    BY <1>2 DEF StartParallelTask, outside
  <2>2. DOMAIN ranks' = {}
    BY <2>1, CallingFacts, NoChildren DEF None
  <2> QED
    BY <2>1, <2>2, CallingFacts, KeepsRunning
<1>3. ASSUME NEW why \in {"complete", "timeout", "cancelled"}, ParallelTaskEnds(why)
      PROVE  CodeInv' /\ EndInv'
  <2>1. /\ Blocked /\ wait.on = "ptask" /\ wait' = Awake
        /\ UNCHANGED <<job, clock, in_puts, state, kill, told, ranks>>
    BY <1>3 DEF ParallelTaskEnds, outside
  <2>2. PICK c : CodeIsRight(c) /\ ret' = <<c>>
    <3>1. CASE why = "complete"
      BY <1>3, <2>1, <3>1, BlockedFacts, CodeOfProfile DEF ParallelTaskEnds, Return
    <3>2. CASE why = "timeout"
      <4>1. ret' = <<-1>> /\ remaining >= 0 /\ clock = wait.start + remaining
        BY <1>3, <3>2 DEF ParallelTaskEnds, Return, PtaskTimesOut
      <4>2. HasWalltime /\ remaining = Left(wait.start - in_puts)
        BY <2>1, <4>1 DEF Blocked, Inv, TimeInv
      <4>3. wait.start \in Nat /\ job.walltime \in Int /\ clock \in Nat /\ in_puts \in Nat
        BY <2>1, Walltimes DEF Inv, Types, Waits, PtaskWait, SleepWait, RanksWait, PutWait, Awake, None
      <4>4. OutOfTime
        BY <4>1, <4>2, <4>3 DEF OutOfTime, Left
      <4> QED
        BY <4>1, <4>4 DEF CodeIsRight
    <3>3. CASE why = "cancelled"
      <4>1. ret' = <<-2>> /\ kill = "cancelled"
        BY <1>3, <3>3 DEF ParallelTaskEnds, Return
      <4> QED
        BY <4>1 DEF CodeIsRight
    <3> QED
      BY <3>1, <3>2, <3>3
  <2>3. DOMAIN ranks' = {}
    BY <2>1, BlockedFacts, NoChildren
  <2> QED
    BY <2>1, <2>2, <2>3, BlockedFacts, KeepsRunning
<1>4. CASE SequenceStep /\ ~Abort
  <2>1. /\ Running /\ stack # << >> /\ UNCHANGED <<wait, job, clock, in_puts, state, kill, told, ranks>>
    BY <1>4 DEF SequenceStep, outside
  <2>2. \/ Returned /\ ret' = <<Code>>
        \/ ret' = << >>
        \/ ret' = <<Def[Top.p].ret>>
    BY <1>4 DEF SequenceStep, Return, Call
  <2>3. CodeIsRight(Def[Top.p].ret)
    BY <2>1, TopFrame, CodeOfProfile DEF Inv
  <2>4. Returned => CodeIsRight(Code)
    BY CodeOfRet DEF Returned
  <2>5. state = "RUNNING" /\ DOMAIN ranks' = {}
    BY <2>1, ReturnedFacts, NoChildren DEF None
  <2> QED
    BY <2>1, <2>2, <2>3, <2>4, <2>5, KeepsRunning
<1>5. CASE DelayStarts \/ SendStarts
  <2>1. Calling /\ UNCHANGED <<job, clock, in_puts, state, kill, told, ret, ranks>>
    BY <1>5 DEF DelayStarts, SendStarts, outside
  <2>2. DOMAIN ranks' = {}
    BY <2>1, CallingFacts, NoChildren DEF None
  <2> QED
    BY <2>1, <2>2, CallingFacts, KeepsRunning
<1>6. CASE ServerReceives
  <2>1. Blocked /\ wait.on = "put" /\ UNCHANGED <<job, clock, in_puts, state, kill, told, ret, ranks>>
    BY <1>6 DEF ServerReceives, outside
  <2>2. DOMAIN ranks' = {}
    BY <2>1, BlockedFacts, NoChildren
  <2> QED
    BY <2>1, <2>2, BlockedFacts, KeepsRunning
<1>7. CASE SleepEnds
  <2>1. /\ Blocked /\ wait.on = "sleep" /\ clock = wait.until /\ Slept
        /\ ret' = <<IF wait.cut THEN -1 ELSE Def[Top.p].ret>>
        /\ UNCHANGED <<job, clock, in_puts, state, kill, told, ranks>>
    BY <1>7 DEF SleepEnds, Return, outside
  <2>2. \E c : CodeIsRight(c) /\ ret' = <<c>>
    <3>1. CASE wait.cut
      <4>1. OutOfTime
        BY <2>1, <3>1, BlockedFacts, SleptRight
      <4> QED
        BY <2>1, <3>1, <4>1 DEF CodeIsRight
    <3>2. CASE ~wait.cut
      BY <2>1, <3>2, BlockedFacts, CodeOfProfile
    <3> QED
      BY <3>1, <3>2
  <2>3. DOMAIN ranks' = {}
    BY <2>1, BlockedFacts, NoChildren
  <2> QED
    BY <2>1, <2>2, <2>3, BlockedFacts, KeepsRunning
<1>8. CASE RecvStarts
  <2>1. /\ Calling /\ Def[Top.p].type = "SCHEDULER_RECV"
        /\ UNCHANGED <<job, clock, in_puts, state, kill, told, ranks>>
    BY <1>8 DEF RecvStarts
  <2>2. ret' \in {<< >>, <<Def[Top.p].ret>>}
    BY <1>8, <2>1, CallingFacts DEF RecvStarts, Receive, Call, Return
  <2>3. CodeIsRight(Def[Top.p].ret)
    BY <2>1, CallingFacts, CodeOfProfile
  <2>4. DOMAIN ranks' = {}
    BY <2>1, CallingFacts, NoChildren DEF None
  <2> QED
    BY <2>1, <2>2, <2>3, <2>4, CallingFacts, KeepsRunning
<1>9. CASE Poll
  <2>1. /\ Blocked /\ wait.on = "sleep" /\ clock = wait.until /\ Slept
        /\ UNCHANGED <<job, clock, in_puts, state, kill, told, ranks>>
    BY <1>9 DEF Poll
  <2>2. ret' \in {<< >>, <<Def[Top.p].ret>>} \/ (wait.cut /\ ret' = <<-1>>)
    BY <1>9, <2>1, BlockedFacts DEF Poll, Receive, Call, Return
  <2>3. CodeIsRight(Def[Top.p].ret)
    BY <2>1, BlockedFacts, CodeOfProfile
  <2>4. wait.cut => CodeIsRight(-1)
    BY <2>1, BlockedFacts, SleptRight DEF CodeIsRight
  <2>5. DOMAIN ranks' = {}
    BY <2>1, BlockedFacts, NoChildren
  <2> QED
    BY <2>1, <2>2, <2>3, <2>4, <2>5, BlockedFacts, KeepsRunning
<1>10. CASE RecvReturns
  <2>1. /\ Running /\ ret # << >> /\ stack # << >> /\ UNCHANGED <<job, clock, in_puts, state, kill, told, ranks>>
        /\ ret' = <<IF Fails(Code) THEN Code ELSE Def[Top.p].ret>>
    BY <1>10 DEF RecvReturns, Returned, Return, outside
  <2>2. CodeIsRight(Code) /\ CodeIsRight(Def[Top.p].ret)
    BY <2>1, CodeOfRet, TopFrame, CodeOfProfile DEF Inv
  <2>3. state = "RUNNING" /\ DOMAIN ranks' = {}
    BY <2>1, ReturnedFacts, NoChildren DEF None
  <2> QED
    BY <2>1, <2>2, <2>3, KeepsRunning
<1>11. CASE ReplayStarts /\ ~Abort
  <2>1. Calling /\ wait'.on = "ranks" /\ UNCHANGED <<job, clock, in_puts, state, kill, told, ret>>
    BY <1>11 DEF ReplayStarts, outside
  <2> QED
    BY <2>1, CallingFacts, KeepsRunning
<1>12. ASSUME NEW r \in DOMAIN ranks, RankReports(r)
       PROVE  CodeInv' /\ EndInv'
  <2>1. /\ Blocked /\ wait.on = "ranks" /\ UNCHANGED <<job, clock, in_puts, state, kill, told>>
        /\ ranks' = [q \in DOMAIN ranks \ {r} |-> ranks[q]]
    BY <1>12 DEF RankReports, outside
  <2>2. CASE DOMAIN ranks = {r}
    <3>1. ret' = <<Def[Top.p].ret>> /\ DOMAIN ranks' = {}
      BY <1>12, <2>1, <2>2 DEF RankReports, Return
    <3> QED
      BY <2>1, <3>1, BlockedFacts, CodeOfProfile, KeepsRunning
  <2>3. CASE DOMAIN ranks # {r}
    <3>1. wait' = [wait EXCEPT !.start = clock] /\ ret' = ret
      BY <1>12, <2>3 DEF RankReports
    <3>2. wait'.on = "ranks"
      BY <2>1, <3>1, RanksFacts DEF RanksWait
    <3> QED
      BY <2>1, <3>1, <3>2, BlockedFacts, KeepsRunning
  <2> QED
    BY <2>2, <2>3
<1>13. CASE ReplayTimesOut
  <2>1. /\ Blocked /\ wait.on = "ranks" /\ wait.has_walltime /\ clock = wait.start + remaining
        /\ ret' = <<-1>> /\ ranks' = << >>
        /\ UNCHANGED <<job, clock, in_puts, state, kill, told>>
    BY <1>13 DEF ReplayTimesOut, Survivors, Return, outside
  <2>2. OutOfTime
    BY <2>1, RanksFacts DEF OutOfTime, Left
  <2>3. CodeIsRight(-1) /\ DOMAIN ranks' = {}
    BY <2>1, <2>2 DEF CodeIsRight
  <2> QED
    BY <2>1, <2>3, BlockedFacts, KeepsRunning
<1>14. CASE JobEnds /\ ~Abort
  <2>1. Running /\ stack = << >>
    BY <1>14 DEF JobEnds
  <2>2. CodeIsRight(Code) /\ state = "RUNNING" /\ DOMAIN ranks = {}
    BY <2>1, CodeOfRet, ReturnedFacts, NoChildren DEF Inv, ActorInv, None
  <2>3. /\ state' = EndState(Code) /\ told' = MustTell(EndState(Code))
        /\ UNCHANGED <<job, clock, in_puts, kill, ranks>>
    BY <1>14, <2>2 DEF JobEnds, outside, CodeIsRight
  <2>4. /\ state' # "RUNNING"
        /\ state' = "COMPLETED_WALLTIME_REACHED" => OutOfTime
        /\ state' = "COMPLETED_KILLED" => kill # "no"
    BY <2>2, <2>3, EndStates DEF CodeIsRight
  <2>5. OutOfTime' <=> OutOfTime
    BY <2>3 DEF OutOfTime, HasWalltime
  <2> QED
    BY <2>2, <2>3, <2>4, <2>5 DEF CodeInv, EndInv, MustTell
<1>15. CASE Tick
  <2>1. Blocked /\ UNCHANGED <<job, wait, state, kill, told, ret, ranks>>
    BY <1>15 DEF Tick
  <2>2. state = "RUNNING" /\ ret' = << >>
    BY <2>1, BlockedFacts
  <2> QED
    BY <2>1, <2>2 DEF CodeInv, EndInv
<1>16. CASE killer_process /\ ~Abort
  <2>1. Blocked /\ UNCHANGED <<job, clock, in_puts, ret, told>>
    BY <1>16 DEF killer_process
  <2>2. state = "RUNNING" /\ ret' = << >> /\ ~told
    BY <2>1, BlockedFacts DEF EndInv
  <2>3. \/ UNCHANGED <<state, ranks, wait>>
        \/ kill' = "done" /\ state' = "COMPLETED_KILLED" /\ ranks' = << >>
    BY <1>16 DEF killer_process
  <2> QED
    BY <2>1, <2>2, <2>3 DEF CodeInv, EndInv
<1>17. ASSUME NEW text \in Text, ToJobMsg(text)
       PROVE  CodeInv' /\ EndInv'
  BY <1>17 DEF ToJobMsg, CodeInv, EndInv, Code, OutOfTime, HasWalltime
<1> QED
  BY <1>1, <1>2, <1>3, <1>4, <1>5, <1>6, <1>7, <1>8, <1>9, <1>10, <1>11, <1>12, <1>13, <1>14, <1>15,
     <1>16, <1>17 DEF Next, JobStep

\* In every reachable state.
LEMMA TaskEndHolds == CodesAreNatural => (Spec => [](Inv /\ CodeInv /\ EndInv))
<1> SUFFICES ASSUME CodesAreNatural PROVE Spec => [](Inv /\ CodeInv /\ EndInv)
  OBVIOUS
<1>1. Init => Inv /\ CodeInv /\ EndInv
  BY TaskInitInv DEF Init, CodeInv, EndInv, Awake
<1>2. (Inv /\ CodeInv /\ EndInv) /\ [Next]_vars => (Inv /\ CodeInv /\ EndInv)'
  <2> SUFFICES ASSUME Inv, CodeInv, EndInv, [Next]_vars PROVE (Inv /\ CodeInv /\ EndInv)'
    OBVIOUS
  <2>1. Inv'
    BY TaskNextInv
  <2>2. CASE UNCHANGED vars
    BY <2>1, <2>2 DEF vars, CodeInv, EndInv, Code, OutOfTime, HasWalltime
  <2> QED
    BY <2>1, <2>2, TaskNextEnd
<1> QED
  BY <1>1, <1>2, PTL DEF Spec

(***************************************************************************)
(* No job runs beyond its walltime but for the transfers of its messages   *)
(* to the scheduler, and none is said to have reached it at another date,  *)
(* whatever its tree of tasks, how long they and the transfers last, and   *)
(* which messages and kills it meets (do_delay_task, the waits of parallel *)
(* tasks and of replays all share *remaining_time; the put of a            *)
(* SCHEDULER_SEND task, jobs_execution.cpp:167, does not). The code of a   *)
(* profile must not be negative: -1 and -2 stand for the walltime and for  *)
(* a kill.                                                                 *)
(***************************************************************************)
THEOREM WalltimeHolds == CodesAreNatural => (Spec => []WalltimeRespected)
<1> SUFFICES ASSUME CodesAreNatural PROVE Spec => []WalltimeRespected
  OBVIOUS
<1>1. Spec => [](Inv /\ CodeInv /\ EndInv)
  BY TaskEndHolds
<1>2. Inv /\ CodeInv /\ EndInv => WalltimeRespected
  BY DEF Inv, TimeInv, EndInv, WalltimeRespected, HasWalltime, OutOfTime
<1> QED
  BY <1>1, <1>2, PTL

(***************************************************************************)
(* A job that ends by itself tells the server, a job that does not was     *)
(* killed, and no actor that replays a trace outlives its job.             *)
(***************************************************************************)
THEOREM EndsHold == CodesAreNatural => (Spec => []EndsAreTold)
<1> SUFFICES ASSUME CodesAreNatural PROVE Spec => []EndsAreTold
  OBVIOUS
<1>1. Spec => [](Inv /\ CodeInv /\ EndInv)
  BY TaskEndHolds
<1>2. EndInv => EndsAreTold
  BY DEF EndInv, EndsAreTold
<1> QED
  BY <1>1, <1>2, PTL
-----------------------------------------------------------------------------
(* Recursive definitions *)

\* A set of natural numbers has a least element.
LEMMA LeastNat == ASSUME NEW T \in SUBSET Nat, T # {} PROVE \E n \in T : \A m \in T : n <= m
<1>1. PICK n \in T : \A m \in T : ~(<<m, n>> \in OpToRel(<, Nat))
  BY NatLessThanWellFounded, WFMin
<1>2. \A m \in T : m \in Nat /\ n \in Nat
  OBVIOUS
<1>3. \A m \in T : ~(m < n)
  <2> TAKE m \in T
  <2>1. m < n => <<m, n>> \in OpToRel(<, Nat)
    BY <1>2, Zenon DEF OpToRel
  <2> QED
    BY <1>1, <2>1
<1> QED
  BY <1>2, <1>3

\* A function that starts with b and goes on with the steps F.
Solution(f, V, b, F, n) ==
  f \in [0 .. n -> V] /\ f[0] = b /\ \A k \in 1 .. n : f[k] = F[k][f[k - 1]]

\* A recursion over 0 .. n has a solution.
LEMMA Recursion ==
  ASSUME NEW V, NEW b \in V, NEW F \in [Nat -> [V -> V]], NEW n \in Nat
  PROVE  \E f : Solution(f, V, b, F, n)
<1> DEFINE Sol(f, m) == f[0] = b /\ \A k \in 1 .. m : f[k] = F[k][f[k - 1]]
           B == {m \in Nat : ~\E f \in [0 .. m -> V] : Sol(f, m)}
<1>1. SUFFICES ASSUME B # {} PROVE FALSE
  <2>1. n \notin B
    BY <1>1
  <2>2. PICK f \in [0 .. n -> V] : Sol(f, n)
    BY <2>1
  <2> QED
    BY <2>2 DEF Solution
<1>2. PICK m \in B : \A o \in B : m <= o
  BY <1>1, LeastNat
<1>3. m # 0
  <2> DEFINE g == [k \in 0 .. 0 |-> b]
  <2>1. g \in [0 .. 0 -> V] /\ Sol(g, 0)
    OBVIOUS
  <2> HIDE DEF Sol
  <2> QED
    BY <2>1, <1>2
<1>4. PICK g \in [0 .. m - 1 -> V] : Sol(g, m - 1)
  <2>1. m - 1 \in Nat /\ ~(m <= m - 1)
    BY <1>2, <1>3
  <2> HIDE DEF Sol
  <2> QED
    BY <1>2, <2>1
<1>5. m \in Nat /\ m - 1 \in 0 .. m - 1
  BY <1>2, <1>3
<1> DEFINE f == [k \in 0 .. m |-> IF k < m THEN g[k] ELSE F[m][g[m - 1]]]
<1>6. \A k \in 0 .. m - 1 : f[k] = g[k]
  BY <1>5
<1>7. f[m] = F[m][g[m - 1]]
  BY <1>5
<1>8. g[m - 1] \in V /\ F[m] \in [V -> V]
  BY <1>5
<1>9. f \in [0 .. m -> V]
  BY <1>5, <1>8
<1> HIDE DEF f
<1>10. Sol(f, m)
  <2>1. f[0] = b
    BY <1>4, <1>5, <1>6
  <2>2. ASSUME NEW k \in 1 .. m PROVE f[k] = F[k][f[k - 1]]
    <3>1. CASE k = m
      BY <1>5, <1>6, <1>7, <3>1
    <3>2. CASE k < m
      <4>1. k \in 1 .. m - 1 /\ k \in 0 .. m - 1 /\ k - 1 \in 0 .. m - 1
        BY <1>5, <3>2
      <4> QED
        BY <1>4, <1>6, <4>1
    <3> QED
      BY <1>5, <3>1, <3>2
  <2> QED
    BY <2>1, <2>2
<1> QED
  BY <1>2, <1>9, <1>10

\* FlattenSeq concatenates one sequence after the other.
Joins(f, seqs) == f[0] = << >> /\ \A k \in 1 .. Len(seqs) : f[k] = f[k - 1] \o seqs[k]

\* There is such a concatenation for all sequences, and FlattenSeq is its last element.
LEMMA FlattenFacts ==
  ASSUME NEW T, NEW seqs \in Seq(Seq(T))
  PROVE  \E f \in [0 .. Len(seqs) -> Seq(T)] : Joins(f, seqs) /\ FlattenSeq(seqs) = f[Len(seqs)]
<1> DEFINE n == Len(seqs)
           V == Seq(T)
           F == [k \in Nat |-> [v \in V |-> IF k \in 1 .. n THEN v \o seqs[k] ELSE v]]
           Sol(g) == g = [i \in 1 .. n |-> IF i = 1 THEN seqs[i] ELSE g[i - 1] \o seqs[i]]
<1>1. n \in Nat /\ \A k \in 1 .. n : seqs[k] \in V
  OBVIOUS
<1>2. << >> \in V /\ F \in [Nat -> [V -> V]]
  <2>1. ASSUME NEW k \in Nat, NEW v \in V PROVE (IF k \in 1 .. n THEN v \o seqs[k] ELSE v) \in V
    BY <1>1
  <2> HIDE DEF V, n
  <2>2. \A k \in Nat : [v \in V |-> IF k \in 1 .. n THEN v \o seqs[k] ELSE v] \in [V -> V]
    BY <2>1
  <2> QED
    BY <2>2 DEF V
<1>3. PICK f \in [0 .. n -> V] : f[0] = << >> /\ \A k \in 1 .. n : f[k] = F[k][f[k - 1]]
  <2> DEFINE b == << >>
  <2>1. n \in Nat /\ b \in V /\ F \in [Nat -> [V -> V]]
    BY <1>1, <1>2
  <2> HIDE DEF F, V, n, b
  <2>2. PICK f : Solution(f, V, b, F, n)
    BY <2>1, Recursion
  <2> QED
    BY <2>2 DEF b, Solution
<1>4. \A k \in 1 .. n : f[k - 1] \in V /\ f[k] = f[k - 1] \o seqs[k]
  <2> TAKE k \in 1 .. n
  <2>1. k - 1 \in 0 .. n /\ k \in Nat
    BY <1>1
  <2>2. f[k - 1] \in V
    BY <2>1
  <2> HIDE DEF V, n
  <2> QED
    BY <1>3, <2>1, <2>2
<1>5. Joins(f, seqs)
  BY <1>3, <1>4 DEF Joins
<1>6. CASE n = 0
  BY <1>3, <1>5, <1>6 DEF FlattenSeq
<1>7. CASE n # 0
  <2> DEFINE g == [i \in 1 .. n |-> f[i]]
             h == CHOOSE h : Sol(h)
  <2>1. Sol(g)
    <3>1. ASSUME NEW i \in 1 .. n PROVE g[i] = IF i = 1 THEN seqs[i] ELSE g[i - 1] \o seqs[i]
      <4>1. CASE i = 1
        <5>1. 1 \in 1 .. n /\ 1 - 1 = 0
          BY <1>1, <1>7
        <5>2. f[1] = f[0] \o seqs[1] /\ seqs[1] \in Seq(T)
          <6> HIDE DEF n
          <6> QED
            BY <1>1, <1>4, <5>1 DEF V
        <5>3. << >> \o seqs[1] = seqs[1]
          BY <5>2, ConcatEmptySeq
        <5> QED
          BY <1>3, <4>1, <5>1, <5>2, <5>3
      <4>2. CASE i # 1
        <5>1. i - 1 \in 1 .. n
          BY <1>1, <4>2
        <5> HIDE DEF n
        <5> QED
          BY <1>4, <4>2, <5>1
      <4> QED
        BY <4>1, <4>2
    <3>2. g = [i \in 1 .. n |-> g[i]]
      OBVIOUS
    <3> HIDE DEF g
    <3> QED
      BY <3>1, <3>2
  <2>2. Sol(h)
    <3> HIDE DEF Sol, g
    <3> QED
      BY <2>1
  <2>3. FlattenSeq(seqs) = h[n]
    BY <1>7 DEF FlattenSeq
  <2> HIDE DEF h
  <2> DEFINE D == {i \in 1 .. n : h[i] # f[i]}
  <2>4. D = {}
    <3> SUFFICES ASSUME D # {} PROVE FALSE
      OBVIOUS
    <3>1. D \in SUBSET Nat
      OBVIOUS
    <3>2. PICK m \in D : \A o \in D : m <= o
      <4> HIDE DEF D
      <4> QED
        BY <3>1, LeastNat
    <3>3. m \in 1 .. n /\ h[m] # f[m]
      OBVIOUS
    <3>4. g[m] = IF m = 1 THEN seqs[m] ELSE g[m - 1] \o seqs[m]
      <4> HIDE DEF g
      <4> QED
        BY <2>1, <3>3
    <3>5. h[m] = IF m = 1 THEN seqs[m] ELSE h[m - 1] \o seqs[m]
      BY <2>2, <3>3
    <3>6. CASE m = 1
      BY <3>3, <3>4, <3>5, <3>6
    <3>7. CASE m # 1
      <4>1. m - 1 \in 1 .. n /\ ~(m <= m - 1)
        BY <1>1, <3>3, <3>7
      <4>2. h[m - 1] = f[m - 1]
        BY <3>2, <4>1
      <4> QED
        BY <3>3, <3>4, <3>5, <3>7, <4>1, <4>2
    <3> QED
      BY <3>6, <3>7
  <2>5. h[n] = f[n]
    BY <1>1, <1>7, <2>4
  <2> QED
    BY <1>5, <2>3, <2>5
<1> QED
  BY <1>6, <1>7

-----------------------------------------------------------------------------
(* The profiles of a job *)

\* What a profile may execute next.
Kids(p) == Parts(p) \cup Branches(p)

\* The parts and branches of a profile are profiles.
LEMMA KidsAreProfiles == ASSUME NEW p \in Profile PROVE Kids(p) \subseteq Profile
<1>1. Parts(p) \subseteq Profile
  BY ProfileTypes DEF Parts
<1>2. Branches(p) \subseteq Profile
  BY ProfileTypes DEF Branches
<1> QED
  BY <1>1, <1>2 DEF Kids

\* The recursion of Within.
Reaches(f) ==
  f = [n \in 0 .. Depth + 1 |->
         [p \in Profile |->
            {p} \cup (IF n = 0 THEN {} ELSE UNION {f[n - 1][q] : q \in Parts(p) \cup Branches(p)})]]

\* Within satisfies its recursion, and is typed.
LEMMA WithinSteps ==
  \A n \in 0 .. Depth + 1 : \A p \in Profile :
    /\ Within[n][p] = {p} \cup (IF n = 0 THEN {} ELSE UNION {Within[n - 1][q] : q \in Kids(p)})
    /\ Within[n][p] \subseteq Profile
<1> DEFINE N == Depth + 1
           V == [Profile -> SUBSET Profile]
           b == [p \in Profile |-> {p}]
           Step(v) == [p \in Profile |-> {p} \cup UNION {v[q] : q \in Kids(p)}]
           F == [k \in Nat |-> [v \in V |-> Step(v)]]
<1>1. N \in Nat
  BY BoundsAreNatural
<1>2. b \in V
  OBVIOUS
<1>3. F \in [Nat -> [V -> V]]
  <2>1. ASSUME NEW v \in V PROVE Step(v) \in V
    BY KidsAreProfiles
  <2> HIDE DEF V, Step
  <2> QED
    BY <2>1
<1> HIDE DEF N, b, F
<1>4. PICK f : Solution(f, V, b, F, N)
  <2> HIDE DEF V
  <2> QED
    BY <1>1, <1>2, <1>3, Recursion
<1>5. \A n \in 0 .. N : f[n] \in V /\ f[n] = IF n = 0 THEN b ELSE Step(f[n - 1])
  <2> TAKE n \in 0 .. N
  <2>1. CASE n = 0
    BY <1>1, <1>4, <2>1 DEF Solution
  <2>2. CASE n # 0
    <3>1. n \in 1 .. N /\ n - 1 \in 0 .. N /\ n \in Nat
      BY <1>1, <2>2
    <3>2. f[n - 1] \in V /\ f[n] \in V /\ f[n] = F[n][f[n - 1]]
      BY <1>4, <3>1 DEF Solution
    <3> HIDE DEF V, Step
    <3> QED
      BY <2>2, <3>1, <3>2 DEF F
  <2> QED
    BY <2>1, <2>2
<1>6. \A n \in 0 .. N : f[n] = [p \in Profile |->
            {p} \cup (IF n = 0 THEN {} ELSE UNION {f[n - 1][q] : q \in Parts(p) \cup Branches(p)})]
  <2> TAKE n \in 0 .. N
  <2>1. CASE n = 0
    BY <1>5, <2>1 DEF b
  <2>2. CASE n # 0
    BY <1>5, <2>2 DEF Kids
  <2> QED
    BY <2>1, <2>2
<1>7. Reaches(f)
  <2>1. f = [n \in 0 .. N |-> f[n]]
    BY <1>4 DEF Solution
  <2> QED
    BY <1>6, <2>1 DEF Reaches, N
<1>8. Reaches(Within)
  <2>1. Within = CHOOSE g : Reaches(g)
    BY DEF Within, Reaches
  <2> QED
    BY <1>7, <2>1
<1>9. \A n \in 0 .. N : \A p \in Profile :
        Within[n][p] = {p} \cup (IF n = 0 THEN {} ELSE UNION {Within[n - 1][q] : q \in Kids(p)})
  <2>1. ASSUME NEW n \in 0 .. N
        PROVE  Within[n] = [p \in Profile |-> {p} \cup (IF n = 0 THEN {}
                               ELSE UNION {Within[n - 1][q] : q \in Parts(p) \cup Branches(p)})]
    <3> DEFINE G(k) == [p \in Profile |-> {p} \cup (IF k = 0 THEN {}
                           ELSE UNION {Within[k - 1][q] : q \in Parts(p) \cup Branches(p)})]
    <3>1. Within = [k \in 0 .. N |-> G(k)]
      BY <1>8 DEF Reaches, N
    <3> HIDE DEF G
    <3>2. Within[n] = G(n)
      BY <3>1
    <3> QED
      BY <3>2 DEF G
  <2> QED
    BY <2>1 DEF Kids
<1> DEFINE B == {n \in 0 .. N : \E p \in Profile : ~(Within[n][p] \subseteq Profile)}
<1>10. B = {}
  <2> SUFFICES ASSUME B # {} PROVE FALSE
    OBVIOUS
  <2>1. B \in SUBSET Nat
    OBVIOUS
  <2>2. PICK m \in B : \A o \in B : m <= o
    <3> HIDE DEF B
    <3> QED
      BY <2>1, LeastNat
  <2>3. PICK p \in Profile : ~(Within[m][p] \subseteq Profile)
    OBVIOUS
  <2>4. m # 0
    BY <1>9, <2>3
  <2>5. m - 1 \in 0 .. N /\ ~(m <= m - 1)
    BY <1>1, <2>4
  <2>6. \A q \in Profile : Within[m - 1][q] \subseteq Profile
    BY <2>2, <2>5
  <2> QED
    BY <1>9, <2>3, <2>4, <2>6, KidsAreProfiles
<1> QED
  BY <1>9, <1>10 DEF N

\* When Depth is enough, nothing that a job executes is missing.
LEMMA WithinIsClosed ==
  ASSUME DepthIsEnough, NEW r \in Profile
  PROVE  /\ r \in Within[Depth][r] /\ Within[Depth][r] \subseteq Profile
         /\ \A q \in Within[Depth][r] : Kids(q) \subseteq Within[Depth][r]
<1> DEFINE Bad(n) == \E p \in Profile : \E q \in Within[n][p] : ~(Kids(q) \subseteq Within[n + 1][p])
           B == {n \in 0 .. Depth : Bad(n)}
<1>1. Depth \in Nat
  BY BoundsAreNatural
<1>2. B = {}
  <2> SUFFICES ASSUME B # {} PROVE FALSE
    OBVIOUS
  <2>1. B \in SUBSET Nat
    OBVIOUS
  <2>2. PICK m \in B : \A o \in B : m <= o
    <3> HIDE DEF B
    <3> QED
      BY <2>1, LeastNat
  <2>0. PICK p \in Profile : \E q \in Within[m][p] : ~(Kids(q) \subseteq Within[m + 1][p])
    OBVIOUS
  <2>3. PICK q \in Within[m][p] : ~(Kids(q) \subseteq Within[m + 1][p])
    BY <2>0
  <2>4. m \in 0 .. Depth + 1 /\ m + 1 \in 0 .. Depth + 1 /\ m + 1 # 0 /\ (m + 1) - 1 = m
    BY <1>1
  <2>5. Within[m + 1][p] = {p} \cup UNION {Within[m][k] : k \in Kids(p)}
    BY <2>4, WithinSteps
  <2>6. \A k \in Kids(p) : k \in Profile /\ k \in Within[m][k]
    BY <2>4, WithinSteps, KidsAreProfiles
  <2>7. q # p
    BY <2>3, <2>5, <2>6
  <2>8. PICK k \in Kids(p) : m # 0 /\ q \in Within[m - 1][k]
    BY <2>3, <2>4, <2>7, WithinSteps
  <2>9. m - 1 \in 0 .. Depth /\ ~(m <= m - 1) /\ (m - 1) + 1 = m
    BY <1>1, <2>8
  <2>10. ~Bad(m - 1)
    BY <2>2, <2>9
  <2>11. Kids(q) \subseteq Within[m][k]
    BY <2>6, <2>8, <2>9, <2>10
  <2> QED
    BY <2>3, <2>5, <2>11
<1>3. \A q \in Within[Depth][r] : Kids(q) \subseteq Within[Depth + 1][r]
  <2>1. Depth \notin B /\ Depth \in 0 .. Depth
    BY <1>1, <1>2
  <2> QED
    BY <2>1
<1>4. r \in Within[Depth][r] /\ Within[Depth][r] \subseteq Profile
  BY <1>1, WithinSteps
<1> QED
  BY <1>3, <1>4 DEF DepthIsEnough

-----------------------------------------------------------------------------
(* Ordered *)

\* s lists the numbers of S, from the least to the greatest.
Lists(s, S) ==
  /\ s \in [1 .. Cardinality(S) -> S]
  /\ \A i, j \in 1 .. Cardinality(S) : i < j => s[i] < s[j]

\* Every finite set of numbers can be listed, by induction on its cardinality.
LEMMA ListsExist ==
  ASSUME NEW S \in SUBSET Nat, IsFiniteSet(S)
  PROVE  \E s : Lists(s, S)
<1> DEFINE Bad(n) == \E T \in SUBSET Nat : IsFiniteSet(T) /\ Cardinality(T) = n /\ ~\E s : Lists(s, T)
           B == {n \in Nat : Bad(n)}
<1>1. SUFFICES ASSUME B # {} PROVE FALSE
  BY <1>1, FS_CardinalityType
<1>2. PICK n \in B : \A o \in B : n <= o
  BY <1>1, LeastNat
<1>3. PICK T \in SUBSET Nat : IsFiniteSet(T) /\ Cardinality(T) = n /\ ~\E s : Lists(s, T)
  BY <1>2
<1>4. n \in Nat
  BY <1>2
<1>5. n # 0
  <2> SUFFICES ASSUME n = 0 PROVE FALSE
    OBVIOUS
  <2>1. [i \in 1 .. 0 |-> 0] \in [1 .. Cardinality(T) -> T]
    BY <1>3
  <2>2. Lists([i \in 1 .. 0 |-> 0], T)
    BY <1>3, <2>1 DEF Lists
  <2> QED
    BY <1>3, <2>2
<1>6. PICK x \in T : \A y \in T : x <= y
  <2>1. T # {}
    BY <1>3, <1>5, FS_EmptySet
  <2> QED
    BY <2>1, LeastNat
<1> DEFINE U == T \ {x}
<1>7. U \in SUBSET Nat /\ IsFiniteSet(U) /\ Cardinality(U) = n - 1
  BY <1>3, FS_RemoveElement
<1>8. PICK s : Lists(s, U)
  <2>1. n - 1 \in Nat /\ ~(n <= n - 1)
    BY <1>4, <1>5
  <2>2. ~Bad(n - 1)
    <3> HIDE DEF Bad
    <3> QED
      BY <1>2, <2>1
  <2> HIDE DEF U
  <2> QED
    BY <1>7, <2>2
<1> DEFINE t == [i \in 1 .. n |-> IF i = 1 THEN x ELSE s[i - 1]]
<1>9. \A i \in 1 .. n : i # 1 => i - 1 \in 1 .. n - 1 /\ s[i - 1] \in U
  <2>1. s \in [1 .. n - 1 -> U]
    BY <1>7, <1>8 DEF Lists
  <2>2. \A i \in 1 .. n : i # 1 => i - 1 \in 1 .. n - 1
    BY <1>4
  <2> HIDE DEF U
  <2> QED
    BY <2>1, <2>2
<1>10. t \in [1 .. n -> T]
  BY <1>9
<1>11. ASSUME NEW i \in 1 .. n, NEW j \in 1 .. n, i < j PROVE t[i] < t[j]
  <2>1. j # 1 /\ t[j] = s[j - 1] /\ s[j - 1] \in U /\ j - 1 \in 1 .. n - 1
    BY <1>4, <1>9, <1>11
  <2>2. CASE i = 1
    <3>1. x \in Nat /\ s[j - 1] \in Nat /\ x <= s[j - 1] /\ x # s[j - 1]
      BY <1>6, <2>1
    <3>2. t[i] = x
      BY <2>2
    <3> HIDE DEF t
    <3> QED
      BY <2>1, <3>1, <3>2
  <2>3. CASE i # 1
    <3>1. t[i] = s[i - 1] /\ i - 1 \in 1 .. n - 1 /\ i - 1 < j - 1
      BY <1>4, <1>9, <1>11, <2>3
    <3> QED
      BY <1>7, <1>8, <2>1, <3>1 DEF Lists
  <2> QED
    BY <2>2, <2>3
<1> HIDE DEF t
<1>12. Lists(t, T)
  BY <1>3, <1>10, <1>11 DEF Lists
<1> QED
  BY <1>3, <1>12

\* Ordered lists the machines of a set, each once.
LEMMA OrderedFacts ==
  ASSUME NEW S \in SUBSET Nat, IsFiniteSet(S)
  PROVE  /\ Cardinality(S) \in Nat /\ Len(Ordered(S)) = Cardinality(S)
         /\ Lists(Ordered(S), S)
         /\ \A x \in S : \E i \in 1 .. Cardinality(S) : Ordered(S)[i] = x
<1> DEFINE n == Cardinality(S)
<1>1. n \in Nat
  BY FS_CardinalityType
<1>2. PICK s : Lists(s, S)
  BY ListsExist
<1>3. s \in SetToSeqs(S)
  <2>1. s \in [1 .. n -> S]
    BY <1>2 DEF Lists
  <2>2. ASSUME NEW i \in 1 .. n, NEW j \in 1 .. n, i # j PROVE s[i] # s[j]
    <3>1. i < j \/ j < i
      BY <1>1, <2>2
    <3>2. s[i] \in Nat /\ s[j] \in Nat /\ (s[i] < s[j] \/ s[j] < s[i])
      BY <1>2, <2>1, <3>1 DEF Lists
    <3> QED
      BY <3>2
  <2> QED
    BY <2>1, <2>2 DEF SetToSeqs
<1>4. /\ Ordered(S) \in SetToSeqs(S)
      /\ \A i, j \in 1 .. Cardinality(S) : i < j => Ordered(S)[i] < Ordered(S)[j]
  BY <1>2, <1>3 DEF Ordered, Lists
<1> DEFINE o == Ordered(S)
<1>5. o \in [1 .. n -> S] /\ \A i, j \in 1 .. n : i # j => o[i] # o[j]
  BY <1>4 DEF SetToSeqs
<1>6. Lists(o, S) /\ Len(o) = n
  BY <1>1, <1>4, <1>5 DEF Lists
<1> HIDE DEF o
<1>7. o \in Injection(1 .. n, S)
  BY <1>5 DEF Injection, IsInjective
<1>8. Cardinality(1 .. n) = n
  BY <1>1, FS_Interval
<1>9. o \in Surjection(1 .. n, S)
  <2> HIDE DEF n
  <2> QED
    BY <1>7, <1>8, FS_Injection DEF n
<1>10. \A x \in S : \E i \in 1 .. n : o[i] = x
  BY <1>9 DEF Surjection
<1> QED
  BY <1>1, <1>6, <1>10 DEF o

-----------------------------------------------------------------------------
(* What can abort *)

\* The profiles that the job may execute.
Executed == Within[Depth][job.profile]

\* What OnlyTheseInputsAbort lists.
Listed ==
  \/ \E p \in Executed : Branches(p) # {}
  \/ \E p, q \in Executed : IsReplay(p) /\ IsReplay(q) /\ Def[p].nb_ranks # Def[q].nb_ranks
  \/ /\ job.rank_mapping # << >>
     /\ \E p \in Executed : IsReplay(p) /\ Def[p].nb_ranks # Len(job.rank_mapping)
  \/ \E p \in Executed : Def[p].type \in {"PARALLEL_HOMOGENEOUS_PFS", "DATA_STAGING"}
  \/ \E p \in Executed : Def[p].type = "PARALLEL" /\ Len(Def[p].cpu) # Len(JobHosts)
  \/ job.mapping # << >> /\ Len(job.mapping) < Cardinality(job.alloc)
  \/ job.alloc \cap Storage # {}
  \/ job.io_profile # None

\* The tasks on the stack are profiles of the job, each called by a sequence or by a
\* receive task; without IO profile none of them has one.
StackInv ==
  /\ \A i \in 1 .. Len(stack) : stack[i].p \in Executed
  /\ \A i \in 1 .. Len(stack) - 1 : IsSequence(stack[i].p) \/ Branches(stack[i].p) # {}
  /\ job.io_profile = None => \A i \in 1 .. Len(stack) : stack[i].io = None

\* The ranks are those given with the job, or those of a replay of the job.
RankInv ==
  rankMap # << >> =>
    \/ rankMap = job.rank_mapping
    \/ \E q \in Executed : IsReplay(q) /\ Len(rankMap) = Def[q].nb_ranks

\* The list is that of the property.
LEMMA ListedIsListed == (aborted => Listed) => OnlyTheseInputsAbort
BY DEF Listed, OnlyTheseInputsAbort, Executes, Executed, Branches

\* They are about the job only.
LEMMA ListedStays == ASSUME UNCHANGED job PROVE Listed' = Listed /\ Executed' = Executed
BY DEF Listed, Executed, JobHosts

\* What an executed profile names is executed.
LEMMA ExecutedFacts ==
  ASSUME DepthIsEnough, Types
  PROVE  job.profile \in Executed /\ \A p \in Executed : p \in Profile /\ Kids(p) \subseteq Executed
BY WithinIsClosed, Walltimes DEF Executed

\* A task returns.
LEMMA StackReturns ==
  ASSUME Types, StackInv, stack # << >>, UNCHANGED job, NEW code, Return(code)
  PROVE  StackInv'
<1> DEFINE n == Len(stack)
<1>1. stack \in Seq(Frame) /\ n \in Nat /\ n > 0 /\ stack' = SubSeq(stack, 1, n - 1)
  BY DEF Types, Return
<1>2. Len(stack') = n - 1 /\ \A i \in 1 .. n - 1 : stack'[i] = stack[i]
  <2> HIDE DEF n
  <2>1. 1 \in Int /\ n - 1 \in Int /\ \A i \in 1 .. n - 1 : stack[i] \in Frame
    BY <1>1 DEF n
  <2>2. /\ Len(SubSeq(stack, 1, n - 1)) = IF 1 <= n - 1 THEN (n - 1) - 1 + 1 ELSE 0
        /\ \A i \in 1 .. (n - 1) - 1 + 1 : SubSeq(stack, 1, n - 1)[i] = stack[1 + i - 1]
    BY <2>1, SubSeqProperties
  <2>3. \A i \in 1 .. n - 1 : i \in 1 .. (n - 1) - 1 + 1 /\ 1 + i - 1 = i
    BY <1>1
  <2>4. (IF 1 <= n - 1 THEN (n - 1) - 1 + 1 ELSE 0) = n - 1
    BY <1>1
  <2> QED
    BY <1>1, <2>2, <2>3, <2>4
<1> HIDE DEF n
<1>3. \A i \in 1 .. n - 1 : i \in 1 .. n
  BY <1>1
<1>4. \A i \in 1 .. (n - 1) - 1 : i \in 1 .. n - 1
  BY <1>1
<1> QED
  BY <1>2, <1>3, <1>4, ListedStays DEF StackInv, n

\* The stack after a call: the same tasks, and a new one.
LEMMA CallStack ==
  ASSUME Types, stack # << >>, NEW index \in Int, NEW p \in Profile, NEW io \in Profile \cup {None},
         Call(index, p, io)
  PROVE  /\ Len(stack') = Len(stack) + 1
         /\ \A i \in 1 .. Len(stack) : stack'[i].p = stack[i].p /\ stack'[i].io = stack[i].io
         /\ \A i \in 1 .. Len(stack) - 1 : stack'[i] = stack[i]
         /\ stack'[Len(stack)].index = index
         /\ stack'[Len(stack) + 1] = Task(p, io)
<1> DEFINE n == Len(stack)
           top == [stack[n] EXCEPT !.index = index]
           marked == [stack EXCEPT ![n] = top]
<1>1. n \in Nat /\ n > 0 /\ n \in 1 .. n /\ stack \in Seq(Frame) /\ stack[n] \in Frame
  BY TopFrame DEF Top, Types
<1>2. top \in Frame /\ top.p = stack[n].p /\ top.io = stack[n].io /\ top.index = index
  BY <1>1 DEF Frame
<1>3. Task(p, io) \in Frame
  BY DEF Task, Frame
<1>4. stack' = Append(marked, Task(p, io))
  BY DEF Call
<1> HIDE DEF n, top
<1>5. marked \in Seq(Frame) /\ Len(marked) = n
  BY <1>1, <1>2 DEF n
<1>6. \A i \in 1 .. n : marked[i] = IF i = n THEN top ELSE stack[i]
  BY <1>1 DEF n
<1> HIDE DEF marked
<1>7. Len(stack') = n + 1 /\ stack'[n + 1] = Task(p, io) /\ \A i \in 1 .. n : stack'[i] = marked[i]
  BY <1>1, <1>3, <1>4, <1>5, AppendProperties
<1>8. \A i \in 1 .. n - 1 : i \in 1 .. n /\ i # n
  BY <1>1
<1> QED
  BY <1>1, <1>2, <1>6, <1>7, <1>8 DEF n

\* A task that may be called is.
LEMMA StackCalls ==
  ASSUME DepthIsEnough, Types, StackInv, stack # << >>, UNCHANGED job,
         NEW index \in Int, NEW p \in Kids(Top.p), NEW io \in Profile \cup {None},
         job.io_profile = None /\ Top.io = None => io = None,
         Call(index, p, io)
  PROVE  StackInv'
<1> DEFINE n == Len(stack)
<1>1. n \in Nat /\ n > 0 /\ Top = stack[n]
  BY TopFrame DEF Top
<1>2. Top.p \in Executed /\ p \in Executed /\ p \in Profile
  BY <1>1, ExecutedFacts DEF StackInv
<1>3. IsSequence(Top.p) \/ Branches(Top.p) # {}
  BY DEF Kids, Parts
<1>4. /\ Len(stack') = n + 1
      /\ \A i \in 1 .. n : stack'[i].p = stack[i].p /\ stack'[i].io = stack[i].io
      /\ stack'[n + 1].p = p /\ stack'[n + 1].io = io
  <2>1. Task(p, io).p = p /\ Task(p, io).io = io
    BY DEF Task
  <2> QED
    BY <1>2, <2>1, CallStack
<1>5. job.io_profile = None => Top.io = None
  BY <1>1 DEF StackInv
<1> HIDE DEF n
<1>6. ASSUME NEW i \in 1 .. n + 1 PROVE i \in 1 .. n \/ i = n + 1
  BY <1>1
<1>7. ASSUME NEW i \in 1 .. (n + 1) - 1 PROVE i \in 1 .. n /\ (i \in 1 .. n - 1 \/ i = n)
  BY <1>1
<1>8. Executed' = Executed
  BY ListedStays
<1>9. \A i \in 1 .. Len(stack') : stack'[i].p \in Executed'
  BY <1>2, <1>4, <1>6, <1>8 DEF StackInv, n
<1>10. \A i \in 1 .. Len(stack') - 1 : IsSequence(stack'[i].p) \/ Branches(stack'[i].p) # {}
  BY <1>1, <1>3, <1>4, <1>7 DEF StackInv, n
<1>11. job'.io_profile = None => \A i \in 1 .. Len(stack') : stack'[i].io = None
  BY <1>4, <1>5, <1>6 DEF StackInv, n
<1> QED
  BY <1>9, <1>10, <1>11 DEF StackInv

\* The branches of a receive task.
LEMMA StackReceives ==
  ASSUME DepthIsEnough, Types, StackInv, stack # << >>, UNCHANGED job, Def[Top.p].type = "SCHEDULER_RECV",
         NEW branch, branch \in {Def[Top.p].on_success, Def[Top.p].on_failure, Def[Top.p].on_timeout},
         Receive(branch)
  PROVE  StackInv'
<1>1. CASE branch = None
  BY <1>1, StackReturns DEF Receive
<1>2. CASE branch # None
  <2>1. branch \in Kids(Top.p)
    BY <1>2 DEF Kids, Branches
  <2>2. Call(0, branch, None)
    BY <1>2 DEF Receive
  <2>3. 0 \in Int
    OBVIOUS
  <2> QED
    BY <2>1, <2>2, <2>3, StackCalls, Zenon
<1> QED
  BY <1>1, <1>2

\* The hosts of a job.
LEMMA HostsOfJob ==
  ASSUME Types
  PROVE  /\ job.alloc \in SUBSET Nat /\ IsFiniteSet(job.alloc) /\ Cardinality(job.alloc) \in Nat
         /\ job.mapping \in Seq(Nat)
         /\ Len(JobHosts) = IF job.mapping = << >> THEN Cardinality(job.alloc) ELSE Len(job.mapping)
<1>1. job.alloc \in SUBSET Nat /\ IsFiniteSet(job.alloc) /\ job.mapping \in Seq(Nat)
  BY JobsAreValid, MachinesAreNumbered DEF Types
<1>2. Len(Ordered(job.alloc)) = Cardinality(job.alloc) /\ Cardinality(job.alloc) \in Nat
  BY <1>1, OrderedFacts
<1>3. CASE job.mapping = << >>
  BY <1>1, <1>2, <1>3 DEF JobHosts
<1>4. CASE job.mapping # << >>
  <2>1. JobHosts = [i \in 1 .. Len(job.mapping) |-> Ordered(job.alloc)[job.mapping[i] + 1]]
    BY <1>4 DEF JobHosts
  <2>2. Len(job.mapping) \in Nat
    BY <1>1
  <2> QED
    BY <1>1, <1>2, <1>4, <2>1, <2>2
<1> QED
  BY <1>3, <1>4

\* A task that has a computation for each machine, none of which stores, may run.
LEMMA Permission ==
  ASSUME NEW S \in SUBSET Nat, IsFiniteSet(S), NEW comp, Len(comp) \in Nat,
         FALSE \in check_ptask_execution_permission(S, comp)
  PROVE  S \cap Storage # {} \/ Len(comp) < Cardinality(S)
<1>1. Len(Ordered(S)) = Cardinality(S) /\ Ordered(S) \in [1 .. Cardinality(S) -> S]
  BY OrderedFacts DEF Lists
<1> SUFFICES ASSUME ~(Len(comp) < Cardinality(S))
             PROVE  S \cap Storage # {}
  OBVIOUS
<1>2. \E i \in 1 .. Len(Ordered(S)) : Ordered(S)[i] \in Storage
  BY <1>1 DEF check_ptask_execution_permission
<1> QED
  BY <1>1, <1>2

\* A homogeneous task computes on each of its hosts.
LEMMA HomogeneousLength ==
  ASSUME NEW cpu, NEW com, NEW hosts, Len(hosts) \in Nat
  PROVE  Len(Homogeneous(cpu, com, hosts).comp) = Len(hosts)
<1>1. Homogeneous(cpu, com, hosts).comp = [i \in 1 .. Len(hosts) |-> cpu]
  BY Zenon DEF Homogeneous
<1> QED
  BY <1>1

\* Only the listed parallel tasks abort.
LEMMA ParallelAborts ==
  ASSUME DepthIsEnough, Inv, StackInv, StartParallelTask, Abort
  PROVE  Listed
<1> SUFFICES ASSUME ~Listed PROVE FALSE
  OBVIOUS
<1>1. Calling /\ IsParallel(Top.p) /\ aborted' /\ ~aborted
  BY DEF StartParallelTask, Abort, Calling, Running
<1>2. Top.p \in Profile /\ Top.p \in Executed /\ Top.io = None
  <2>1. Len(stack) \in 1 .. Len(stack) /\ job.io_profile = None
    BY <1>1, CallingFacts, TopFrame DEF Inv, Listed
  <2> QED
    BY <1>1, <2>1, CallingFacts DEF Top, StackInv
<1> DEFINE d == Def[Top.p]
<1>3. d.type \in {"PARALLEL", "PARALLEL_HOMOGENEOUS", "PARALLEL_HOMOGENEOUS_TOTAL_AMOUNT"}
  BY <1>1, <1>2 DEF IsParallel, ParallelTypes, Listed
<1>4. d.type = "PARALLEL" => Len(d.cpu) = Len(JobHosts)
  BY <1>2 DEF Listed
<1>5. /\ Len(JobHosts) \in Nat /\ ~(Len(JobHosts) < Cardinality(job.alloc))
      /\ job.alloc \in SUBSET Nat /\ IsFiniteSet(job.alloc)
  BY HostsOfJob DEF Inv, Listed
<1>6. JobTask(Top.p) # {} /\ \A own \in JobTask(Top.p) : Len(own.comp) = Len(JobHosts)
  <2>1. CASE d.type = "PARALLEL"
    <3>1. generate_matrices_from_profile(d, JobHosts, job.storage_mapping, FALSE) = generate_parallel_task(d, JobHosts)
      BY <2>1 DEF generate_matrices_from_profile
    <3>2. JobTask(Top.p) = {[hosts |-> JobHosts, comp |-> d.cpu, comm |-> d.com]}
      BY <1>4, <2>1, <3>1 DEF JobTask, generate_parallel_task
    <3> QED
      BY <1>4, <2>1, <3>2
  <2>2. CASE d.type = "PARALLEL_HOMOGENEOUS"
    <3>1. JobTask(Top.p) = {Homogeneous(d.cpu, d.com, JobHosts)}
      BY <2>2 DEF JobTask, generate_matrices_from_profile, generate_parallel_homogeneous
    <3>2. Len(Homogeneous(d.cpu, d.com, JobHosts).comp) = Len(JobHosts)
      BY <1>5, HomogeneousLength
    <3> QED
      BY <3>1, <3>2
  <2>3. CASE d.type = "PARALLEL_HOMOGENEOUS_TOTAL_AMOUNT"
    <3> DEFINE cpu == d.cpu \div Len(JobHosts)
               com == d.com \div Len(JobHosts)
    <3>1. JobTask(Top.p) = {Homogeneous(cpu, com, JobHosts)}
      BY <2>3 DEF JobTask, generate_matrices_from_profile, generate_parallel_homogeneous_total_amount
    <3> HIDE DEF cpu, com
    <3>2. Len(Homogeneous(cpu, com, JobHosts).comp) = Len(JobHosts)
      BY <1>5, HomogeneousLength
    <3> QED
      BY <3>1, <3>2
  <2> QED
    BY <1>3, <2>1, <2>2, <2>3
<1>7. TasksToRun(Top) = JobTask(Top.p) /\ Machines(Top) = job.alloc
  BY <1>2 DEF TasksToRun, Machines
<1>8. \A own \in JobTask(Top.p) : FALSE \notin check_ptask_execution_permission(job.alloc, own.comp)
  BY <1>5, <1>6, Permission DEF Listed
<1>9. PICK own \in JobTask(Top.p), whole \in JobTask(Top.p) :
        \E first \in check_ptask_execution_permission(job.alloc, own.comp),
           second \in check_ptask_execution_permission(job.alloc, whole.comp) : ~(first /\ second)
  <2>1. TasksToRun(Top) # {}
    BY <1>6, <1>7
  <2>2. \E own \in JobTask(Top.p), whole \in TasksToRun(Top) :
        \E first \in check_ptask_execution_permission(job.alloc, own.comp),
           second \in check_ptask_execution_permission(Machines(Top), whole.comp) :
             ~(first /\ second)
    BY <1>1, <2>1, Zenon DEF StartParallelTask
  <2> QED
    BY <1>7, <2>2
<1>10. \A comp : check_ptask_execution_permission(job.alloc, comp) \subseteq BOOLEAN
  BY DEF check_ptask_execution_permission
<1>11. PICK first \in check_ptask_execution_permission(job.alloc, own.comp),
            second \in check_ptask_execution_permission(job.alloc, whole.comp) : ~(first /\ second)
  BY <1>9, Zenon
<1>12. \A S \in SUBSET BOOLEAN : FALSE \notin S => \A x \in S : x = TRUE
  OBVIOUS
<1>13. first = TRUE /\ second = TRUE
  BY <1>8, <1>10, <1>12, Zenon
<1> QED
  BY <1>11, <1>13

\* A sequence aborts below a receive task, or with an IO profile.
LEMMA SequenceAborts ==
  ASSUME DepthIsEnough, Inv, StackInv, SequenceStep, Abort
  PROVE  Listed
<1>1. stack # << >> /\ ~HasSubTasks
  BY DEF SequenceStep, Abort, Running
<1>2. Len(stack) \in Nat /\ Len(stack) > 0
  BY <1>1, TopFrame DEF Inv
<1>3. CASE Top.io # None
  <2>1. Len(stack) \in 1 .. Len(stack)
    BY <1>2
  <2>2. job.io_profile # None
    BY <1>3, <2>1 DEF StackInv, Top
  <2> QED
    BY <2>2 DEF Listed
<1>4. CASE Top.io = None
  <2>1. Len(stack) > 1 /\ ~IsSequence(stack[Len(stack) - 1].p)
    BY <1>1, <1>4 DEF HasSubTasks
  <2>2. Len(stack) - 1 \in 1 .. Len(stack) /\ Len(stack) - 1 \in 1 .. Len(stack) - 1
    BY <1>2, <2>1
  <2>3. Branches(stack[Len(stack) - 1].p) # {} /\ stack[Len(stack) - 1].p \in Executed
    BY <2>1, <2>2 DEF StackInv
  <2> QED
    BY <2>3 DEF Listed
<1> QED
  BY <1>3, <1>4

\* A replay aborts after one of another number of ranks, or with a mapping that was
\* given for another number.
LEMMA ReplayAborts ==
  ASSUME DepthIsEnough, Inv, StackInv, RankInv, ReplayStarts, Abort
  PROVE  Listed
<1> DEFINE n == Def[Top.p].nb_ranks
<1>1. Calling /\ IsReplay(Top.p) /\ Len(RankMapping(n)) # n
  BY DEF ReplayStarts, Abort, Calling, Running
<1>2. Top.p \in Profile /\ Top.p \in Executed /\ n \in Nat
  <2>1. Len(stack) \in 1 .. Len(stack)
    BY <1>1, CallingFacts, TopFrame DEF Inv
  <2> QED
    BY <1>1, <2>1, CallingFacts, ProfileTypes DEF StackInv, Top
<1>3. rankMap # << >>
  <2> SUFFICES ASSUME rankMap = << >> PROVE FALSE
    OBVIOUS
  <2>1. RankMapping(n) = [r \in 1 .. n |-> (r - 1) % Len(JobHosts)]
    BY DEF RankMapping
  <2> HIDE DEF n
  <2>2. Len([r \in 1 .. n |-> (r - 1) % Len(JobHosts)]) = n
    BY <1>2
  <2> QED
    BY <1>1, <2>1, <2>2
<1>4. Len(rankMap) # Def[Top.p].nb_ranks
  BY <1>1, <1>3 DEF RankMapping
<1>5. CASE rankMap = job.rank_mapping
  BY <1>1, <1>2, <1>3, <1>4, <1>5 DEF Listed
<1>6. CASE \E q \in Executed : IsReplay(q) /\ Len(rankMap) = Def[q].nb_ranks
  <2>1. PICK q \in Executed : IsReplay(q) /\ Len(rankMap) = Def[q].nb_ranks
    BY <1>6
  <2>2. Def[Top.p].nb_ranks # Def[q].nb_ranks
    BY <1>4, <2>1
  <2> QED
    BY <1>1, <1>2, <2>1, <2>2 DEF Listed
<1> QED
  BY <1>3, <1>5, <1>6 DEF RankInv

\* The killer aborts in a branch of a receive task.
LEMMA KillerAborts ==
  ASSUME Inv, StackInv, killer_process, Abort
  PROVE  Listed
<1>1. Blocked /\ ~ProgressIsKnown
  BY DEF killer_process, Abort, Blocked
<1>2. PICK i \in 1 .. Len(stack) - 1 : ~IsSequence(stack[i].p)
  BY <1>1 DEF ProgressIsKnown
<1>3. Len(stack) \in Nat
  BY <1>1, BlockedFacts, TopFrame DEF Inv
<1>4. i \in 1 .. Len(stack)
  BY <1>3
<1>5. Branches(stack[i].p) # {} /\ stack[i].p \in Executed
  BY <1>2, <1>4 DEF StackInv
<1> QED
  BY <1>5 DEF Listed

\* No other step aborts.
LEMMA NextAborts ==
  ASSUME DepthIsEnough, CodesAreNatural, Inv, CodeInv, StackInv, RankInv, Next, ~aborted, aborted'
  PROVE  Listed
<1>1. CASE StartParallelTask
  <2>1. Abort
    BY <1>1, Zenon DEF StartParallelTask
  <2> QED
    BY <1>1, <2>1, ParallelAborts
<1>2. CASE SequenceStep
  <2>1. Abort
    BY <1>2 DEF SequenceStep
  <2> QED
    BY <1>2, <2>1, SequenceAborts
<1>3. CASE ReplayStarts
  <2>1. Abort
    BY <1>3 DEF ReplayStarts
  <2> QED
    BY <1>3, <2>1, ReplayAborts
<1>4. CASE killer_process
  <2>1. Abort
    BY <1>4 DEF killer_process
  <2> QED
    BY <1>4, <2>1, KillerAborts
<1>5. CASE JobEnds
  <2>1. Running /\ stack = << >> /\ Code < -2
    BY <1>5 DEF JobEnds
  <2>2. Code \in Int /\ Code >= -2
    BY <2>1, ReturnedFacts DEF Inv, ActorInv, CodeInv
  <2> QED
    BY <2>1, <2>2
<1> QED
  BY <1>1, <1>2, <1>3, <1>4, <1>5 DEF Next, JobStep, ParallelTaskEnds, DelayStarts, SendStarts,
     ServerReceives, SleepEnds, RecvStarts, Poll, RecvReturns, RankReports, ReplayTimesOut, Tick, ToJobMsg

\* The tasks stay.
LEMMA StackKeeps ==
  ASSUME StackInv, UNCHANGED <<job, stack>> PROVE StackInv'
BY ListedStays DEF StackInv

\* The ranks stay.
LEMMA RankKeeps ==
  ASSUME RankInv, UNCHANGED <<job, rankMap>> PROVE RankInv'
BY ListedStays DEF RankInv

\* The part of a sequence that is called.
LEMMA SequenceCalls ==
  ASSUME DepthIsEnough, Inv, StackInv, SequenceStep, ~aborted'
  PROVE  StackInv'
<1> DEFINE d == Def[Top.p]
           next == Top.index + 1
           i == (next % Len(d.seq)) + 1
<1>1. Running /\ stack # << >> /\ IsSequence(Top.p) /\ HasSubTasks /\ UNCHANGED job
  BY DEF SequenceStep, Abort, outside
<1>2. \/ \E code : Return(code)
      \/ Call(next, d.seq[i], SubIo(Top.io, i))
  BY DEF SequenceStep, Abort
<1>3. CASE \E code : Return(code)
  BY <1>1, <1>3, StackReturns DEF Inv
<1>4. CASE Call(next, d.seq[i], SubIo(Top.io, i))
  <2>1. /\ Top.p \in Profile /\ Top.io \in Profile \cup {None} /\ next \in Int
        /\ d.seq \in Seq(Profile) /\ d.seq # << >>
    BY <1>1, TopFrame, ProfileTypes DEF Inv
  <2>2. i \in 1 .. Len(d.seq)
    BY <2>1
  <2>3. d.seq[i] \in Kids(Top.p)
    BY <1>1, <2>2 DEF Kids, Parts
  <2>4. SubIo(Top.io, i) \in Profile \cup {None}
    <3>1. CASE Top.io = None
      BY <3>1 DEF SubIo
    <3>2. CASE Top.io # None
      <4>1. Top.io \in Profile /\ IsSequence(Top.io) /\ Len(Def[Top.io].seq) >= Len(d.seq)
        BY <1>1, <2>1, <3>2 DEF HasSubTasks
      <4>2. Def[Top.io].seq \in Seq(Profile)
        BY <4>1, ProfileTypes
      <4>3. i \in 1 .. Len(Def[Top.io].seq)
        BY <2>1, <2>2, <4>1, <4>2
      <4> QED
        BY <3>2, <4>2, <4>3 DEF SubIo
    <3> QED
      BY <3>1, <3>2
  <2>5. Top.io = None => SubIo(Top.io, i) = None
    BY DEF SubIo
  <2> HIDE DEF d, next, i
  <2> QED
    BY <1>1, <1>4, <2>1, <2>3, <2>4, <2>5, StackCalls DEF Inv
<1> QED
  BY <1>2, <1>3, <1>4

\* Every step that does not abort keeps the tasks to those of the job.
LEMMA NextStack ==
  ASSUME DepthIsEnough, Inv, StackInv, Next, ~aborted'
  PROVE  StackInv'
<1>1. CASE UNCHANGED <<job, stack>>
  BY <1>1, StackKeeps
<1>2. CASE SequenceStep
  BY <1>2, SequenceCalls
<1>3. CASE \E why \in {"complete", "timeout", "cancelled"} : ParallelTaskEnds(why)
  <2>1. Blocked /\ UNCHANGED job /\ \E code : Return(code)
    BY <1>3 DEF ParallelTaskEnds, outside
  <2> QED
    BY <2>1, BlockedFacts, StackReturns DEF Inv
<1>4. CASE SleepEnds \/ ReplayTimesOut
  <2>1. Blocked /\ UNCHANGED job /\ \E code : Return(code)
    BY <1>4 DEF SleepEnds, ReplayTimesOut, outside
  <2> QED
    BY <2>1, BlockedFacts, StackReturns DEF Inv
<1>5. CASE RecvReturns
  <2>1. stack # << >> /\ UNCHANGED job /\ \E code : Return(code)
    BY <1>5 DEF RecvReturns, outside
  <2> QED
    BY <2>1, StackReturns DEF Inv
<1>6. CASE \E r \in DOMAIN ranks : RankReports(r)
  <2>1. Blocked /\ UNCHANGED job /\ (UNCHANGED stack \/ \E code : Return(code))
    BY <1>6 DEF RankReports, outside
  <2> QED
    BY <2>1, BlockedFacts, StackReturns, StackKeeps DEF Inv
<1>7. CASE RecvStarts
  <2>1. Calling /\ Def[Top.p].type = "SCHEDULER_RECV" /\ UNCHANGED job
    BY <1>7 DEF RecvStarts
  <2>2. \/ UNCHANGED stack
        \/ \E branch \in {Def[Top.p].on_success, Def[Top.p].on_failure, Def[Top.p].on_timeout} : Receive(branch)
    BY <1>7 DEF RecvStarts, Branch
  <2> QED
    BY <2>1, <2>2, CallingFacts, StackReceives, StackKeeps DEF Inv
<1>8. CASE Poll
  <2>1. Blocked /\ Def[Top.p].type = "SCHEDULER_RECV" /\ UNCHANGED job
    BY <1>8 DEF Poll
  <2>2. \/ UNCHANGED stack
        \/ \E code : Return(code)
        \/ \E branch \in {Def[Top.p].on_success, Def[Top.p].on_failure, Def[Top.p].on_timeout} : Receive(branch)
    BY <1>8 DEF Poll, Branch
  <2> QED
    BY <2>1, <2>2, BlockedFacts, StackReceives, StackReturns, StackKeeps DEF Inv
<1>9. CASE killer_process
  <2>1. UNCHANGED <<job, stack>> \/ (UNCHANGED job /\ stack' = << >>)
    BY <1>9 DEF killer_process, Abort
  <2> QED
    BY <1>1, <2>1 DEF StackInv
<1>10. CASE StartParallelTask
  BY <1>1, <1>10, Zenon DEF StartParallelTask, Abort, outside
<1>11. CASE \E text \in Text : ToJobMsg(text)
  BY <1>1, <1>11 DEF ToJobMsg
<1>12. CASE DelayStarts \/ SendStarts \/ ServerReceives \/ ReplayStarts \/ JobEnds \/ Tick
  BY <1>1, <1>12 DEF DelayStarts, SendStarts, ServerReceives, ReplayStarts, JobEnds, Tick, outside, Abort
<1> QED
  BY <1>2, <1>3, <1>4, <1>5, <1>6, <1>7, <1>8, <1>9, <1>10, <1>11, <1>12 DEF Next, JobStep

\* And the ranks to those of its replays.
LEMMA NextRank ==
  ASSUME DepthIsEnough, Inv, StackInv, RankInv, Next
  PROVE  RankInv'
<1>1. CASE UNCHANGED <<job, rankMap>>
  BY <1>1, RankKeeps
<1>2. CASE ReplayStarts /\ ~UNCHANGED <<job, rankMap>>
  <2> DEFINE n == Def[Top.p].nb_ranks
  <2>1. /\ Calling /\ IsReplay(Top.p) /\ UNCHANGED job
        /\ Len(RankMapping(n)) = n /\ rankMap' = RankMapping(n)
    BY <1>2 DEF ReplayStarts, Abort, outside
  <2>2. Top.p \in Executed /\ Executed' = Executed
    <3>1. Len(stack) \in 1 .. Len(stack)
      BY <2>1, CallingFacts, TopFrame DEF Inv
    <3> QED
      BY <2>1, <3>1, ListedStays DEF StackInv, Top
  <2> QED
    BY <2>1, <2>2 DEF RankInv
<1>3. CASE StartParallelTask
  BY <1>1, <1>3, Zenon DEF StartParallelTask, Abort, outside
<1>4. CASE killer_process
  BY <1>1, <1>4 DEF killer_process, Abort
<1>5. CASE SequenceStep
  BY <1>1, <1>5 DEF SequenceStep, Abort, outside
<1>6. CASE JobEnds
  BY <1>1, <1>6 DEF JobEnds, Abort, outside
<1>7. CASE \E why \in {"complete", "timeout", "cancelled"} : ParallelTaskEnds(why)
  BY <1>1, <1>7 DEF ParallelTaskEnds, outside
<1>8. CASE \E r \in DOMAIN ranks : RankReports(r)
  BY <1>1, <1>8 DEF RankReports, outside
<1>9. CASE \E text \in Text : ToJobMsg(text)
  BY <1>1, <1>9 DEF ToJobMsg
<1>10. CASE DelayStarts \/ SendStarts \/ ServerReceives \/ SleepEnds \/ RecvReturns \/ ReplayTimesOut
  BY <1>1, <1>10 DEF DelayStarts, SendStarts, ServerReceives, SleepEnds, RecvReturns, ReplayTimesOut, outside
<1>11. CASE RecvStarts \/ Poll \/ Tick
  BY <1>1, <1>11 DEF RecvStarts, Poll, Tick
<1> QED
  BY <1>1, <1>2, <1>3, <1>4, <1>5, <1>6, <1>7, <1>8, <1>9, <1>10, <1>11 DEF Next, JobStep

\* Until it aborts, the job executes its own tasks; and it aborts for what is listed.
AbortInv == IF aborted THEN Listed ELSE StackInv /\ RankInv

\* Every step keeps that.
LEMMA NextAbortInv ==
  ASSUME DepthIsEnough, CodesAreNatural, Inv, CodeInv, AbortInv, [Next]_vars
  PROVE  AbortInv'
<1>1. CASE UNCHANGED vars
  BY <1>1, ListedStays, StackKeeps, RankKeeps DEF vars, AbortInv
<1>2. CASE Next
  <2>1. ~aborted
    BY <1>2 DEF Next, JobStep, StartParallelTask, ParallelTaskEnds, SequenceStep, DelayStarts, SendStarts,
       ServerReceives, SleepEnds, RecvStarts, Poll, RecvReturns, ReplayStarts, RankReports, ReplayTimesOut,
       JobEnds, Tick, killer_process, ToJobMsg, Calling, Returned, Running, Blocked
  <2>2. StackInv /\ RankInv
    BY <2>1 DEF AbortInv
  <2>3. CASE aborted'
    <3>1. Listed
      BY <1>2, <2>1, <2>2, <2>3, NextAborts
    <3>2. UNCHANGED job
      BY <1>2, Zenon DEF Next, JobStep, StartParallelTask, ParallelTaskEnds, SequenceStep, DelayStarts, SendStarts,
       ServerReceives, SleepEnds, RecvStarts, Poll, RecvReturns, ReplayStarts, RankReports, ReplayTimesOut,
       JobEnds, Tick, killer_process, ToJobMsg, Abort, outside
    <3> QED
      BY <2>3, <3>1, <3>2, ListedStays DEF AbortInv
  <2>4. CASE ~aborted'
    BY <1>2, <2>2, <2>4, NextStack, NextRank DEF AbortInv
  <2> QED
    BY <2>3, <2>4
<1> QED
  BY <1>1, <1>2

(***************************************************************************)
(* No interleaving of tasks, messages, kills and walltime makes Batsim     *)
(* abort on a job that OnlyTheseInputsAbort does not list: the asserts of  *)
(* execute_task, of the parallel tasks and of the killer's progress fail   *)
(* on what the job's description says, never on how the job ran. Depth     *)
(* must be large enough to reach every profile that the job may execute.   *)
(***************************************************************************)
THEOREM OnlyListedInputsAbort ==
  CodesAreNatural /\ DepthIsEnough => (Spec => []OnlyTheseInputsAbort)
<1> SUFFICES ASSUME CodesAreNatural, DepthIsEnough PROVE Spec => []OnlyTheseInputsAbort
  OBVIOUS
<1>1. Spec => [](Inv /\ CodeInv /\ EndInv)
  BY TaskEndHolds
<1>2. Init => AbortInv
  <2> SUFFICES ASSUME Init PROVE AbortInv
    OBVIOUS
  <2>1. job.profile \in Executed
    BY TaskInitInv, ExecutedFacts DEF Inv
  <2>2. Len(stack) = 1 /\ stack[1].p = job.profile /\ stack[1].io = job.io_profile
    BY DEF Init, Task
  <2>3. StackInv
    BY <2>1, <2>2 DEF StackInv
  <2> QED
    BY <2>3 DEF Init, AbortInv, RankInv
<1>3. (Inv /\ CodeInv /\ EndInv) /\ AbortInv /\ [Next]_vars => AbortInv'
  BY NextAbortInv
<1>4. AbortInv => OnlyTheseInputsAbort
  BY ListedIsListed DEF AbortInv
<1> QED
  BY <1>1, <1>2, <1>3, <1>4, PTL DEF Spec

-----------------------------------------------------------------------------
(* The leaves of a profile *)

\* The parts of a sequence, repetitions included.
Nb(p) == NbSubTasks(Def[p])
PartOf(p, k) == Def[p].seq[((k - 1) % Len(Def[p].seq)) + 1]

\* The rank of a part in the sequence of a profile.
LEMMA ModRange == \A x \in Int : \A n \in Nat : n > 0 => (x % n) + 1 \in 1 .. n
OBVIOUS

\* The parts of a sequence are profiles.
LEMMA PartsOfSequence ==
  ASSUME NEW p \in Profile, IsSequence(p)
  PROVE  /\ Nb(p) \in Nat
         /\ \A k \in 1 .. Nb(p) : PartOf(p, k) \in Profile /\ k - 1 \in 0 .. Nb(p) /\ k \in 0 .. Nb(p)
<1>1. Def[p].repeat \in Nat /\ Def[p].seq \in Seq(Profile) /\ Def[p].seq # << >>
  BY ProfileTypes
<1>2. Len(Def[p].seq) \in Nat /\ Len(Def[p].seq) > 0
  BY <1>1
<1>3. Nb(p) \in Nat
  BY <1>1, <1>2 DEF Nb, NbSubTasks
<1>4. ASSUME NEW k \in 1 .. Nb(p) PROVE PartOf(p, k) \in Profile
  <2>1. k - 1 \in Int
    BY <1>3
  <2>2. ((k - 1) % Len(Def[p].seq)) + 1 \in 1 .. Len(Def[p].seq)
    BY <1>2, <2>1, ModRange
  <2> QED
    BY <1>1, <2>2 DEF PartOf
<1> QED
  BY <1>3, <1>4

\* One level of a profile, and the recursion of LeavesTo.
Level(v) ==
  [p \in Profile |-> IF ~IsSequence(p) THEN <<p>> ELSE FlattenSeq([i \in 1 .. Nb(p) |-> v[PartOf(p, i)]])]

Unfolds(f) ==
  f = [n \in 0 .. Depth + 1 |->
         [p \in Profile |->
            IF n = 0 \/ ~IsSequence(p)
            THEN <<p>>
            ELSE LET d == Def[p] IN
                 FlattenSeq([i \in 1 .. d.repeat * Len(d.seq) |->
                               f[n - 1][d.seq[((i - 1) % Len(d.seq)) + 1]]])]]

\* A level is made of sequences of profiles.
LEMMA LevelIsTyped ==
  ASSUME NEW v \in [Profile -> Seq(Profile)], NEW p \in Profile, IsSequence(p)
  PROVE  /\ [i \in 1 .. Nb(p) |-> v[PartOf(p, i)]] \in Seq(Seq(Profile))
         /\ Len([i \in 1 .. Nb(p) |-> v[PartOf(p, i)]]) = Nb(p)
         /\ FlattenSeq([i \in 1 .. Nb(p) |-> v[PartOf(p, i)]]) \in Seq(Profile)
<1> DEFINE S == Seq(Profile)
           seqs == [i \in 1 .. Nb(p) |-> v[PartOf(p, i)]]
<1>1. Nb(p) \in Nat
  BY PartsOfSequence
<1>2. \A i \in 1 .. Nb(p) : v[PartOf(p, i)] \in S
  BY PartsOfSequence
<1> HIDE DEF S
<1>3. seqs \in [1 .. Nb(p) -> S]
  BY <1>2
<1>4. seqs \in Seq(S)
  <2> HIDE DEF seqs
  <2> QED
    BY <1>1, <1>3, SeqDef
<1>5. Len(seqs) = Nb(p)
  BY <1>1
<1> HIDE DEF seqs
<1>6. FlattenSeq(seqs) \in S
  <2>1. PICK f \in [0 .. Len(seqs) -> Seq(Profile)] : Joins(f, seqs) /\ FlattenSeq(seqs) = f[Len(seqs)]
    BY <1>4, FlattenFacts DEF S
  <2>2. Len(seqs) \in 0 .. Len(seqs)
    BY <1>1, <1>5
  <2> QED
    BY <2>1, <2>2 DEF S
<1> QED
  BY <1>4, <1>5, <1>6 DEF seqs, S

\* LeavesTo satisfies its recursion, and is typed.
LEMMA LeavesSteps ==
  \A n \in 0 .. Depth + 1 :
    /\ LeavesTo[n] \in [Profile -> Seq(Profile)]
    /\ LeavesTo[n] = IF n = 0 THEN [p \in Profile |-> <<p>>] ELSE Level(LeavesTo[n - 1])
<1> DEFINE N == Depth + 1
           S == Seq(Profile)
           V == [Profile -> S]
           b == [p \in Profile |-> <<p>>]
           F == [k \in Nat |-> [v \in V |-> Level(v)]]
<1>1. N \in Nat
  BY BoundsAreNatural
<1>2. b \in V
  OBVIOUS
<1>3. F \in [Nat -> [V -> V]]
  <2>1. ASSUME NEW v \in V PROVE Level(v) \in V
    <3>1. ASSUME NEW p \in Profile
          PROVE  (IF ~IsSequence(p) THEN <<p>> ELSE FlattenSeq([i \in 1 .. Nb(p) |-> v[PartOf(p, i)]])) \in S
      <4>1. CASE IsSequence(p)
        BY <4>1, LevelIsTyped
      <4>2. CASE ~IsSequence(p)
        <5>1. <<p>> \in S
          OBVIOUS
        <5> QED
          BY <4>2, <5>1
      <4> QED
        BY <4>1, <4>2
    <3> HIDE DEF S
    <3> QED
      BY <3>1 DEF Level
  <2> HIDE DEF V
  <2> QED
    BY <2>1
<1> HIDE DEF N, b, F
<1>4. PICK f : Solution(f, V, b, F, N)
  <2> HIDE DEF V
  <2> QED
    BY <1>1, <1>2, <1>3, Recursion
<1>5. \A n \in 0 .. N : f[n] \in V /\ f[n] = IF n = 0 THEN b ELSE Level(f[n - 1])
  <2> TAKE n \in 0 .. N
  <2>1. CASE n = 0
    BY <1>1, <1>4, <2>1 DEF Solution
  <2>2. CASE n # 0
    <3>1. n \in 1 .. N /\ n - 1 \in 0 .. N /\ n \in Nat
      BY <1>1, <2>2
    <3>2. f[n - 1] \in V /\ f[n] \in V /\ f[n] = F[n][f[n - 1]]
      BY <1>4, <3>1 DEF Solution
    <3> HIDE DEF V
    <3> QED
      BY <2>2, <3>1, <3>2 DEF F
  <2> QED
    BY <2>1, <2>2
<1> DEFINE G(g, n) == [p \in Profile |->
            IF n = 0 \/ ~IsSequence(p)
            THEN <<p>>
            ELSE LET d == Def[p] IN
                 FlattenSeq([i \in 1 .. d.repeat * Len(d.seq) |->
                               g[n - 1][d.seq[((i - 1) % Len(d.seq)) + 1]]])]
<1>6. \A g : \A n : G(g, n) = IF n = 0 THEN b ELSE Level(g[n - 1])
  <2> TAKE g
  <2> TAKE n
  <2>1. CASE n = 0
    BY <2>1 DEF b
  <2>2. CASE n # 0
    <3>1. G(g, n) = [p \in Profile |-> IF ~IsSequence(p) THEN <<p>> ELSE
                 FlattenSeq([i \in 1 .. Def[p].repeat * Len(Def[p].seq) |->
                               g[n - 1][Def[p].seq[((i - 1) % Len(Def[p].seq)) + 1]]])]
      BY <2>2, Zenon
    <3>2. Level(g[n - 1]) = [p \in Profile |-> IF ~IsSequence(p) THEN <<p>> ELSE
                 FlattenSeq([i \in 1 .. Def[p].repeat * Len(Def[p].seq) |->
                               g[n - 1][Def[p].seq[((i - 1) % Len(Def[p].seq)) + 1]]])]
      BY Zenon DEF Level, Nb, NbSubTasks, PartOf
    <3> HIDE DEF G
    <3> QED
      BY <2>2, <3>1, <3>2, Zenon
  <2> QED
    BY <2>1, <2>2
<1>7. Unfolds(f)
  <2>1. f = [n \in 0 .. N |-> f[n]]
    BY <1>4 DEF Solution
  <2>2. \A n \in 0 .. N : f[n] = G(f, n)
    <3> HIDE DEF G
    <3> QED
      BY <1>5, <1>6
  <2> HIDE DEF G
  <2>3. f = [n \in 0 .. N |-> G(f, n)]
    BY <2>1, <2>2
  <2> QED
    BY <2>3, Zenon DEF Unfolds, N, G
<1>8. Unfolds(LeavesTo)
  <2>1. LeavesTo = CHOOSE g : Unfolds(g)
    BY Zenon DEF LeavesTo, Unfolds
  <2> QED
    BY <1>7, <2>1
<1>9. \A n \in 0 .. N : LeavesTo[n] = IF n = 0 THEN b ELSE Level(LeavesTo[n - 1])
  <2> TAKE n \in 0 .. N
  <2>1. LeavesTo = [k \in 0 .. N |-> G(LeavesTo, k)]
    BY <1>8, Zenon DEF Unfolds, N, G
  <2> HIDE DEF G
  <2>2. LeavesTo[n] = G(LeavesTo, n)
    BY <2>1
  <2> QED
    BY <1>6, <2>2
<1> HIDE DEF G
<1> DEFINE B == {n \in 0 .. N : LeavesTo[n] \notin V}
<1>10. B = {}
  <2> SUFFICES ASSUME B # {} PROVE FALSE
    OBVIOUS
  <2>1. B \in SUBSET Nat
    OBVIOUS
  <2>2. PICK m \in B : \A o \in B : m <= o
    <3> HIDE DEF B
    <3> QED
      BY <2>1, LeastNat
  <2>3. m # 0
    BY <1>2, <1>9
  <2>4. m - 1 \in 0 .. N /\ ~(m <= m - 1) /\ m \in Nat
    BY <1>1, <2>3
  <2>5. LeavesTo[m - 1] \in V
    BY <2>2, <2>4
  <2>6. Level(LeavesTo[m - 1]) \in V
    <3> HIDE DEF V
    <3>1. F[m] \in [V -> V] /\ F[m][LeavesTo[m - 1]] = Level(LeavesTo[m - 1])
      BY <1>3, <2>4, <2>5 DEF F
    <3> QED
      BY <2>5, <3>1
  <2> QED
    BY <1>9, <2>3, <2>6
<1> QED
  BY <1>9, <1>10 DEF N, b

\* Leaves unfolds: the leaves of a sequence are those of its parts, one after the other.
Sums(f, p) ==
  /\ f \in [0 .. Nb(p) -> Seq(Profile)]
  /\ f[0] = << >> /\ \A k \in 1 .. Nb(p) : f[k] = f[k - 1] \o Leaves(PartOf(p, k))
  /\ Leaves(p) = f[Nb(p)]

\* What Leaves is when Depth is enough: a task that is not a sequence is its own leaf, and
\* a sequence has the leaves of its parts, one after the other.
LEMMA LeavesFacts ==
  ASSUME DepthIsEnough, NEW p \in Profile
  PROVE  /\ Leaves(p) \in Seq(Profile)
         /\ ~IsSequence(p) => Leaves(p) = <<p>>
         /\ IsSequence(p) => \E f : Sums(f, p)
<1> DEFINE v == LeavesTo[Depth]
<1>1. Depth \in 0 .. Depth + 1 /\ Depth + 1 \in 0 .. Depth + 1 /\ Depth + 1 # 0 /\ (Depth + 1) - 1 = Depth
  BY BoundsAreNatural
<1>2. v \in [Profile -> Seq(Profile)]
  BY <1>1, LeavesSteps
<1>3. v = Level(v)
  <2>1. LeavesTo[Depth + 1] = Level(v)
    BY <1>1, LeavesSteps
  <2> QED
    BY <2>1 DEF DepthIsEnough
<1>4. \A q : Leaves(q) = v[q]
  BY DEF Leaves
<1> HIDE DEF v
<1>5. CASE ~IsSequence(p)
  BY <1>2, <1>3, <1>4, <1>5 DEF Level
<1>6. CASE IsSequence(p)
  <2> DEFINE seqs == [i \in 1 .. Nb(p) |-> v[PartOf(p, i)]]
  <2>1. v[p] = FlattenSeq(seqs)
    BY <1>3, <1>6 DEF Level
  <2>2. seqs \in Seq(Seq(Profile)) /\ Len(seqs) = Nb(p)
    BY <1>2, <1>6, LevelIsTyped
  <2>3. \A k \in 1 .. Nb(p) : seqs[k] = Leaves(PartOf(p, k))
    BY <1>4
  <2> HIDE DEF seqs
  <2>4. PICK f \in [0 .. Nb(p) -> Seq(Profile)] : Joins(f, seqs) /\ FlattenSeq(seqs) = f[Nb(p)]
    BY <2>2, FlattenFacts
  <2>5. Sums(f, p)
    BY <1>4, <2>1, <2>2, <2>3, <2>4 DEF Sums, Joins
  <2> QED
    BY <1>2, <1>4, <1>6, <2>5
<1> QED
  BY <1>5, <1>6

\* s is what t begins with.
Begins(s, t) == \E u \in Seq(Profile) : t = s \o u

\* IsPrefix, from a concatenation.
LEMMA BeginsIsPrefix ==
  ASSUME NEW s \in Seq(Profile), NEW t \in Seq(Profile), Begins(s, t)
  PROVE  IsPrefix(s, t)
<1>1. PICK u \in Seq(Profile) : t = s \o u
  BY DEF Begins
<1>2. Len(s) \in Nat /\ Len(u) \in Nat /\ Len(t) = Len(s) + Len(u)
  BY <1>1, ConcatProperties
<1>3. SubSeq(s, 1, Len(s)) = SubSeq(t, 1, Len(s))
  <2>1. CASE Len(s) = 0
    BY <1>2, <2>1, SubSeqEmpty
  <2>2. CASE Len(s) # 0
    <3>1. 1 \in 1 .. Len(s) /\ Len(s) \in 1 .. Len(s)
      BY <1>2, <2>2
    <3> QED
      BY <1>1, <3>1, SubSeqOfConcat1
  <2> QED
    BY <2>1, <2>2
<1> QED
  BY <1>2, <1>3 DEF IsPrefix

\* A beginning of a part is a beginning of the whole.
LEMMA BeginsExtends ==
  ASSUME NEW s \in Seq(Profile), NEW a \in Seq(Profile), NEW b \in Seq(Profile), NEW t,
         Begins(a, b), Begins(s \o b, t)
  PROVE  Begins(s \o a, t)
<1>1. PICK u \in Seq(Profile) : b = a \o u
  BY DEF Begins
<1>2. PICK w \in Seq(Profile) : t = (s \o b) \o w
  BY DEF Begins
<1>3. s \o b = (s \o a) \o u
  BY <1>1, ConcatAssociative
<1>4. s \o a \in Seq(Profile) /\ u \o w \in Seq(Profile)
  BY ConcatProperties
<1>5. t = (s \o a) \o (u \o w)
  <2>1. \A c \in Seq(Profile) : (c \o u) \o w = c \o (u \o w)
    BY ConcatAssociative
  <2> QED
    BY <1>2, <1>3, <1>4, <2>1
<1> QED
  BY <1>4, <1>5 DEF Begins

\* A sequence begins with itself and with nothing.
LEMMA BeginsWithItself ==
  ASSUME NEW s \in Seq(Profile)
  PROVE  Begins(s, s) /\ Begins(<< >>, s)
<1>1. << >> \in Seq(Profile) /\ s \o << >> = s /\ << >> \o s = s
  BY ConcatEmptySeq
<1> QED
  BY <1>1 DEF Begins

\* The leaves of the first k parts of a sequence.
LEMMA SumsBegin ==
  ASSUME DepthIsEnough, NEW p \in Profile, IsSequence(p), NEW f, Sums(f, p), NEW k \in 0 .. Nb(p)
  PROVE  Begins(f[k], Leaves(p))
<1> DEFINE B == {m \in Nat : m <= Nb(p) /\ ~Begins(f[Nb(p) - m], Leaves(p))}
<1>1. Nb(p) \in Nat /\ Nb(p) \in 0 .. Nb(p) /\ f[Nb(p)] = Leaves(p) /\ Leaves(p) \in Seq(Profile)
  BY PartsOfSequence, LeavesFacts DEF Sums
<1>2. B = {}
  <2> SUFFICES ASSUME B # {} PROVE FALSE
    OBVIOUS
  <2>1. B \in SUBSET Nat
    OBVIOUS
  <2>2. PICK m \in B : \A o \in B : m <= o
    <3> HIDE DEF B
    <3> QED
      BY <2>1, LeastNat
  <2>3. m \in Nat /\ m <= Nb(p) /\ ~Begins(f[Nb(p) - m], Leaves(p))
    OBVIOUS
  <2>4. m # 0
    <3>1. Nb(p) - 0 = Nb(p)
      BY <1>1
    <3> QED
      BY <1>1, <2>3, <3>1, BeginsWithItself
  <2> DEFINE j == Nb(p) - (m - 1)
  <2>5. m - 1 \in Nat /\ m - 1 <= Nb(p) /\ ~(m <= m - 1) /\ j \in 1 .. Nb(p) /\ j - 1 = Nb(p) - m
        /\ j \in 0 .. Nb(p) /\ j - 1 \in 0 .. Nb(p)
    BY <1>1, <2>3, <2>4
  <2>6. Begins(f[j], Leaves(p))
    BY <2>2, <2>5
  <2> HIDE DEF j
  <2>7. f[j - 1] \in Seq(Profile) /\ Leaves(PartOf(p, j)) \in Seq(Profile)
        /\ f[j] = f[j - 1] \o Leaves(PartOf(p, j))
    BY <2>5, PartsOfSequence, LeavesFacts DEF Sums
  <2>8. Begins(f[j - 1], Leaves(p))
    <3> DEFINE x == f[j - 1]
               y == Leaves(PartOf(p, j))
               e == << >>
    <3>1. x \in Seq(Profile) /\ y \in Seq(Profile) /\ e \in Seq(Profile) /\ x \o e = x
      BY <2>7, ConcatEmptySeq
    <3>2. Begins(x \o y, Leaves(p)) /\ Begins(e, y)
      BY <2>6, <2>7, BeginsWithItself
    <3> HIDE DEF x, y, e
    <3>3. Begins(x \o e, Leaves(p))
      BY <3>1, <3>2, BeginsExtends
    <3> QED
      BY <3>1, <3>3 DEF x
  <2> QED
    BY <2>3, <2>5, <2>8
<1>3. Nb(p) - k \in Nat /\ Nb(p) - k <= Nb(p) /\ Nb(p) - (Nb(p) - k) = k
  BY <1>1
<1> QED
  BY <1>2, <1>3

-----------------------------------------------------------------------------
(* The order of the tasks *)

Root == Leaves(job.profile)

\* The leaves of the first k parts of a sequence: Pre(p)[k].
Pre(p) == CHOOSE f : Sums(f, p)

\* The i-th task on the stack is not below a receive task.
Spine(i) == \A j \in 1 .. i - 1 : IsSequence(stack[j].p)

\* The i-th task is the part that its caller is at, and begins after the parts before.
ChildOf(i, offs) ==
  LET t == stack[i - 1] IN
  /\ t.index + 1 \in 1 .. Nb(t.p)
  /\ stack[i].p = PartOf(t.p, t.index + 1)
  /\ offs[i] = offs[i - 1] \o Pre(t.p)[t.index]

\* What is done when the i-th task, which begins after offs[i], is on the top.
TopIsAt(i, offs) ==
  IF ret = << 0 >> /\ IsSequence(stack[i].p)
  THEN /\ stack[i].index + 1 \in 0 .. Nb(stack[i].p)
       /\ done = offs[i] \o Pre(stack[i].p)[stack[i].index + 1]
  ELSE done = offs[i]

\* The i-th task on the stack begins after the leaves offs[i].
Position(offs) ==
  /\ offs \in [1 .. Len(stack) -> Seq(Profile)]
  /\ stack = << >> => done = Root
  /\ stack # << >> => stack[1].p = job.profile /\ offs[1] = << >>
  /\ \A i \in 1 .. Len(stack) : Spine(i) =>
       /\ Begins(offs[i] \o Leaves(stack[i].p), Root)
       /\ i > 1 => ChildOf(i, offs)
       /\ ~IsSequence(stack[i].p) => done = offs[i]
       /\ i = Len(stack) => TopIsAt(i, offs)

Failing == ret # << >> /\ Code # 0

\* As long as nothing failed, done is what comes before the task on the top.
OrderInv ==
  /\ done \in Seq(Profile) /\ Begins(done, Root)
  /\ state = "RUNNING" /\ ~Failing => \E offs : Position(offs)
  /\ state = "COMPLETED_SUCCESSFULLY" => done = Root

\* The prefixes of a sequence.
LEMMA PreFacts ==
  ASSUME DepthIsEnough, NEW p \in Profile, IsSequence(p)
  PROVE  /\ Nb(p) \in Nat /\ Pre(p)[0] = << >> /\ Pre(p)[Nb(p)] = Leaves(p)
         /\ \A k \in 0 .. Nb(p) : Pre(p)[k] \in Seq(Profile) /\ Begins(Pre(p)[k], Leaves(p))
         /\ \A k \in 1 .. Nb(p) : Pre(p)[k] = Pre(p)[k - 1] \o Leaves(PartOf(p, k))
<1>1. Nb(p) \in Nat
  BY PartsOfSequence
<1>2. Sums(Pre(p), p)
  BY LeavesFacts DEF Pre
<1>3. \A k \in 0 .. Nb(p) : Begins(Pre(p)[k], Leaves(p))
  BY <1>2, SumsBegin
<1> QED
  BY <1>1, <1>2, <1>3 DEF Sums

\* The stack without its top.
LEMMA PopStack ==
  ASSUME Types, stack # << >>, stack' = SubSeq(stack, 1, Len(stack) - 1)
  PROVE  /\ Len(stack') = Len(stack) - 1
         /\ \A i \in 1 .. Len(stack) - 1 : stack'[i] = stack[i] /\ i \in 1 .. Len(stack)
<1> DEFINE n == Len(stack)
<1>1. stack \in Seq(Frame) /\ n \in Nat /\ n > 0
  BY DEF Types
<1> HIDE DEF n
<1>2. 1 \in Int /\ n - 1 \in Int /\ \A i \in 1 .. n - 1 : stack[i] \in Frame
  BY <1>1 DEF n
<1>3. /\ Len(SubSeq(stack, 1, n - 1)) = IF 1 <= n - 1 THEN (n - 1) - 1 + 1 ELSE 0
      /\ \A i \in 1 .. (n - 1) - 1 + 1 : SubSeq(stack, 1, n - 1)[i] = stack[1 + i - 1]
  BY <1>2, SubSeqProperties
<1>4. \A i \in 1 .. n - 1 : i \in 1 .. (n - 1) - 1 + 1 /\ 1 + i - 1 = i /\ i \in 1 .. n
  BY <1>1
<1>5. (IF 1 <= n - 1 THEN (n - 1) - 1 + 1 ELSE 0) = n - 1
  BY <1>1
<1> QED
  BY <1>3, <1>4, <1>5 DEF n

\* Whether all the callers of a task are sequences depends on their profiles only.
LEMMA SpineStays ==
  ASSUME NEW i, \A j \in 1 .. i - 1 : stack'[j].p = stack[j].p
  PROVE  Spine(i)' = Spine(i)
BY DEF Spine

\* The tasks on the stack are typed.
LEMMA StackFrames ==
  ASSUME Types, NEW i \in 1 .. Len(stack)
  PROVE  stack[i].p \in Profile /\ stack[i].index \in Int /\ i \in Nat /\ Len(stack) \in Nat
<1>1. stack[i] \in Frame
  BY DEF Types
<1> QED
  BY <1>1 DEF Types, Frame

\* An empty stack has no task.
LEMMA NothingLeft == ASSUME stack' = << >> PROVE Len(stack') = 0
OBVIOUS

\* The task on the top returns zero.
LEMMA TaskDone ==
  ASSUME DepthIsEnough, Types, stack # << >>, NEW offs, Position(offs), done \in Seq(Profile),
         Begins(done, Root), UNCHANGED job,
         stack' = SubSeq(stack, 1, Len(stack) - 1), ret' = << 0 >>,
         Spine(Len(stack)) => done' = offs[Len(stack)] \o Leaves(Top.p),
         ~Spine(Len(stack)) => done' = done
  PROVE  /\ done' \in Seq(Profile) /\ Begins(done', Root')
         /\ \E o : Position(o)'
<1> DEFINE n == Len(stack)
<1>0. PICK new : new = [i \in 1 .. n - 1 |-> offs[i]]
  OBVIOUS
<1>1. n \in Nat /\ n > 0 /\ n \in 1 .. n /\ Top = stack[n] /\ 1 \in 1 .. n
  BY TopFrame DEF Top
<1>2. Len(stack') = n - 1 /\ \A i \in 1 .. n - 1 : stack'[i] = stack[i] /\ i \in 1 .. n
  BY PopStack
<1>3. \A i \in 1 .. n : stack[i].p \in Profile /\ stack[i].index \in Int /\ offs[i] \in Seq(Profile)
  BY StackFrames DEF Position
<1>4. Root' = Root
  BY DEF Root
<1>5. \A i \in 1 .. n - 1 : (Spine(i)' = Spine(i)) /\ new[i] = offs[i]
  <2> TAKE i \in 1 .. n - 1
  <2>1. \A j \in 1 .. i - 1 : j \in 1 .. n - 1
    BY <1>1
  <2> QED
    BY <1>0, <1>2, <2>1, SpineStays
<1>6. done' \in Seq(Profile) /\ Begins(done', Root')
  <2>1. CASE Spine(n)
    <3>1. Begins(offs[n] \o Leaves(stack[n].p), Root)
      BY <1>1, <2>1 DEF Position
    <3>2. Leaves(stack[n].p) \in Seq(Profile)
      BY <1>1, <1>3, LeavesFacts
    <3>3. offs[n] \o Leaves(stack[n].p) \in Seq(Profile)
      BY <1>1, <1>3, <3>2, ConcatProperties
    <3> QED
      BY <1>1, <1>4, <2>1, <3>1, <3>3
  <2>2. CASE ~Spine(n)
    BY <1>4, <2>2
  <2> QED
    BY <2>1, <2>2
<1>7. new \in [1 .. Len(stack') -> Seq(Profile)]
  BY <1>0, <1>2, <1>3
<1>8. stack' = << >> => done' = Root'
  <2> SUFFICES ASSUME stack' = << >> PROVE done' = Root
    BY <1>4
  <2>1. n = 1
    BY <1>1, <1>2, NothingLeft
  <2>2. Spine(n)
    BY <2>1 DEF Spine
  <2>3. offs[1] = << >> /\ stack[1].p = job.profile
    BY DEF Position
  <2>4. << >> \o Root = Root
    BY <1>1, <1>3, <2>3, LeavesFacts, ConcatEmptySeq DEF Root
  <2> QED
    BY <1>1, <2>1, <2>2, <2>3, <2>4 DEF Root
<1>9. stack' # << >> => stack'[1].p = job'.profile /\ new[1] = << >>
  <2> SUFFICES ASSUME stack' # << >> PROVE stack'[1].p = job.profile /\ new[1] = << >>
    OBVIOUS
  <2>1. stack' \in Seq(Frame)
    <3>1. stack \in Seq(Frame) /\ \A j \in 1 .. n - 1 : stack[j] \in Frame
      BY <1>1 DEF Types
    <3> QED
      BY <1>1, <3>1, SubSeqProperties
  <2>2. n - 1 # 0
    BY <1>2, <2>1
  <2>3. 1 \in 1 .. n - 1
    BY <1>1, <2>2
  <2>4. offs[1] = << >> /\ stack[1].p = job.profile
    BY DEF Position
  <2> QED
    BY <1>0, <1>2, <2>3, <2>4
<1>10. ASSUME NEW i \in 1 .. n - 1, Spine(i)
       PROVE  /\ Begins(new[i] \o Leaves(stack'[i].p), Root')
              /\ i > 1 => ChildOf(i, new)'
              /\ ~IsSequence(stack'[i].p) => done' = new[i]
              /\ i = Len(stack') => TopIsAt(i, new)'
  <2>1. /\ Begins(offs[i] \o Leaves(stack[i].p), Root)
        /\ i > 1 => ChildOf(i, offs)
        /\ ~IsSequence(stack[i].p) => done = offs[i]
    BY <1>2, <1>10 DEF Position
  <2>2. stack'[i] = stack[i] /\ new[i] = offs[i] /\ i \in 1 .. n
    BY <1>2, <1>5
  <2>3. i > 1 => stack'[i - 1] = stack[i - 1] /\ new[i - 1] = offs[i - 1]
    <3>1. i > 1 => i - 1 \in 1 .. n - 1
      BY <1>1
    <3> QED
      BY <1>2, <1>5, <3>1
  <2>4. i > 1 => ChildOf(i, new)'
    BY <2>1, <2>2, <2>3 DEF ChildOf
  <2>5. ~IsSequence(stack[i].p) => done' = offs[i]
    <3> SUFFICES ASSUME ~IsSequence(stack[i].p) PROVE done' = done
      BY <2>1
    <3>1. i \in 1 .. n - 1 /\ ~Spine(n)
      BY DEF Spine
    <3> QED
      BY <3>1
  <2>6. i = n - 1 => TopIsAt(i, new)'
    <3> SUFFICES ASSUME i = n - 1 PROVE TopIsAt(i, new)'
      OBVIOUS
    <3>1. CASE ~IsSequence(stack[i].p)
      BY <2>2, <2>5, <3>1 DEF TopIsAt
    <3>2. CASE IsSequence(stack[i].p)
      <4>1. Spine(n) /\ n > 1 /\ n - 1 = i
        <5>1. \A j \in 1 .. n - 1 : j \in 1 .. i - 1 \/ j = i
          BY <1>1
        <5> QED
          BY <1>1, <1>10, <3>2, <5>1 DEF Spine
      <4>2. ChildOf(n, offs)
        BY <1>1, <4>1 DEF Position
      <4> DEFINE t == stack[i]
                 k == t.index
      <4>3. /\ k + 1 \in 1 .. Nb(t.p) /\ stack[n].p = PartOf(t.p, k + 1)
            /\ offs[n] = offs[i] \o Pre(t.p)[k]
        BY <4>1, <4>2 DEF ChildOf
      <4>4. t.p \in Profile /\ k \in Int /\ stack[n].p \in Profile /\ offs[i] \in Seq(Profile)
        BY <1>1, <1>3, <2>2
      <4> HIDE DEF t
      <4>5. Nb(t.p) \in Nat
        BY <3>2, <4>4, PreFacts DEF t
      <4>6. k \in 0 .. Nb(t.p) /\ k + 1 \in 0 .. Nb(t.p) /\ (k + 1) - 1 = k
        BY <4>3, <4>4, <4>5
      <4> HIDE DEF k
      <4>7. Pre(t.p)[k] \in Seq(Profile) /\ Pre(t.p)[k + 1] = Pre(t.p)[k] \o Leaves(stack[n].p)
        BY <3>2, <4>3, <4>4, <4>6, PreFacts DEF t
      <4>8. Leaves(stack[n].p) \in Seq(Profile)
        BY <4>4, LeavesFacts
      <4>9. (offs[i] \o Pre(t.p)[k]) \o Leaves(stack[n].p) = offs[i] \o (Pre(t.p)[k] \o Leaves(stack[n].p))
        <5>1. \A x, y, z \in Seq(Profile) : (x \o y) \o z = x \o (y \o z)
          BY ConcatAssociative
        <5> QED
          BY <4>4, <4>7, <4>8, <5>1
      <4>10. done' = offs[i] \o Pre(t.p)[k + 1]
        BY <1>1, <4>1, <4>3, <4>7, <4>9
      <4> QED
        BY <2>2, <3>2, <4>6, <4>10 DEF TopIsAt, t, k
    <3> QED
      BY <3>1, <3>2
  <2> QED
    BY <1>2, <1>4, <2>1, <2>2, <2>4, <2>5, <2>6
<1>11. Position(new)'
  BY <1>2, <1>5, <1>7, <1>8, <1>9, <1>10 DEF Position
<1> QED
  BY <1>6, <1>11

\* A task is called by the one on the top: a part of a sequence, or a branch.
LEMMA TaskCalled ==
  ASSUME DepthIsEnough, Types, stack # << >>, NEW offs, Position(offs), UNCHANGED job,
         NEW index \in Int, NEW p \in Profile, NEW io \in Profile \cup {None}, Call(index, p, io),
         IsSequence(Top.p) /\ Spine(Len(stack)) =>
           /\ index + 1 \in 1 .. Nb(Top.p) /\ p = PartOf(Top.p, index + 1)
           /\ done = offs[Len(stack)] \o Pre(Top.p)[index]
  PROVE  \E o : Position(o)'
<1> DEFINE n == Len(stack)
           InSpine == IsSequence(Top.p) /\ Spine(n)
<1>0. PICK next : next = IF InSpine THEN offs[n] \o Pre(Top.p)[index] ELSE << >>
  OBVIOUS
<1>1. PICK new : new = [i \in 1 .. n + 1 |-> IF i = n + 1 THEN next ELSE offs[i]]
  OBVIOUS
<1>2. n \in Nat /\ n > 0 /\ n \in 1 .. n /\ Top = stack[n] /\ 1 \in 1 .. n /\ 1 # n + 1
  BY TopFrame DEF Top
<1>3. /\ Len(stack') = n + 1
      /\ \A i \in 1 .. n : stack'[i].p = stack[i].p /\ stack'[i].io = stack[i].io
      /\ \A i \in 1 .. n - 1 : stack'[i] = stack[i]
      /\ stack'[n].index = index
      /\ stack'[n + 1].p = p
  <2>1. Task(p, io).p = p
    BY DEF Task
  <2> QED
    BY <2>1, CallStack
<1>4. \A i \in 1 .. n : stack[i].p \in Profile /\ stack[i].index \in Int /\ offs[i] \in Seq(Profile)
  BY StackFrames DEF Position
<1>5. Root' = Root /\ done' = done /\ ret' = << >>
  BY DEF Root, Call
<1> HIDE DEF n
<1>6. InSpine => /\ Nb(Top.p) \in Nat /\ index \in 0 .. Nb(Top.p)
                           /\ Pre(Top.p)[index] \in Seq(Profile) /\ (index + 1) - 1 = index
  <2> SUFFICES ASSUME InSpine PROVE /\ Nb(Top.p) \in Nat /\ index \in 0 .. Nb(Top.p)
                           /\ Pre(Top.p)[index] \in Seq(Profile) /\ (index + 1) - 1 = index
    OBVIOUS
  <2>1. Nb(Top.p) \in Nat /\ Top.p \in Profile
    BY <1>2, <1>4, PreFacts
  <2>2. index \in 0 .. Nb(Top.p) /\ (index + 1) - 1 = index
    BY <2>1 DEF n
  <2> QED
    BY <2>1, <2>2, PreFacts
<1>7. next \in Seq(Profile)
  <2>1. CASE InSpine
    BY <1>0, <1>2, <1>4, <1>6, <2>1, ConcatProperties
  <2>2. CASE ~InSpine
    BY <1>0, <2>2
  <2> QED
    BY <2>1, <2>2
<1>8. new \in [1 .. n + 1 -> Seq(Profile)] /\ new[n + 1] = next /\ \A i \in 1 .. n : new[i] = offs[i]
  <2>1. n + 1 \in 1 .. n + 1 /\ \A i \in 1 .. n : i \in 1 .. n + 1 /\ i # n + 1
    BY <1>2
  <2>2. \A i \in 1 .. n + 1 : i # n + 1 => i \in 1 .. n
    BY <1>2
  <2> DEFINE S == Seq(Profile)
  <2>3. next \in S /\ \A i \in 1 .. n : offs[i] \in S
    BY <1>4, <1>7
  <2> HIDE DEF S
  <2> QED
    BY <1>1, <2>1, <2>2, <2>3 DEF S
<1>9. stack' # << >> /\ stack'[1].p = job'.profile /\ new[1] = << >>
  <2>1. stack[1].p = job.profile /\ offs[1] = << >>
    BY DEF Position
  <2>2. stack' # << >>
    <3>1. \A s : s = << >> => Len(s) = 0
      OBVIOUS
    <3> QED
      BY <1>2, <1>3, <3>1
  <2> QED
    BY <1>2, <1>3, <1>8, <2>1, <2>2
<1>10. \A i \in 1 .. n + 1 : Spine(i)' = Spine(i)
  <2> TAKE i \in 1 .. n + 1
  <2>1. \A j \in 1 .. i - 1 : j \in 1 .. n
    BY <1>2
  <2> QED
    BY <1>3, <2>1, SpineStays
<1>11. ASSUME NEW i \in 1 .. n, Spine(i)
       PROVE  /\ Begins(new[i] \o Leaves(stack'[i].p), Root')
              /\ i > 1 => ChildOf(i, new)'
              /\ ~IsSequence(stack'[i].p) => done' = new[i]
              /\ i # Len(stack')
  <2>1. /\ Begins(offs[i] \o Leaves(stack[i].p), Root)
        /\ i > 1 => ChildOf(i, offs)
        /\ ~IsSequence(stack[i].p) => done = offs[i]
    BY <1>11 DEF Position, n
  <2>2. stack'[i].p = stack[i].p /\ new[i] = offs[i] /\ i # n + 1
    BY <1>2, <1>3, <1>8
  <2>3. i > 1 => stack'[i - 1] = stack[i - 1] /\ new[i - 1] = offs[i - 1]
    <3>1. i > 1 => i - 1 \in 1 .. n - 1 /\ i - 1 \in 1 .. n
      BY <1>2
    <3> QED
      BY <1>3, <1>8, <3>1
  <2>4. i > 1 => ChildOf(i, new)'
    BY <2>1, <2>2, <2>3 DEF ChildOf
  <2> QED
    BY <1>3, <1>5, <2>1, <2>2, <2>4
<1>m. PICK m : m = n + 1
  OBVIOUS
<1>12. ASSUME Spine(n + 1)
       PROVE  /\ Begins(new[n + 1] \o Leaves(stack'[n + 1].p), Root')
              /\ ChildOf(m, new)'
              /\ done' = new[n + 1]
              /\ TopIsAt(m, new)'
  <2>1. IsSequence(Top.p) /\ Spine(n)
    <3>1. n \in 1 .. (n + 1) - 1 /\ \A j \in 1 .. n - 1 : j \in 1 .. (n + 1) - 1
      BY <1>2
    <3> QED
      BY <1>2, <1>12, <3>1 DEF Spine
  <2>2. next = offs[n] \o Pre(Top.p)[index] /\ done = next
    BY <1>0, <2>1 DEF n
  <2>3. Begins(next \o Leaves(p), Root)
    <3> DEFINE x == offs[n]
               y == Pre(Top.p)[index]
               z == Leaves(p)
               w == Leaves(Top.p)
    <3>1. x \in Seq(Profile) /\ y \in Seq(Profile) /\ z \in Seq(Profile) /\ w \in Seq(Profile)
      BY <1>2, <1>4, <1>6, <2>1, LeavesFacts
    <3>2. Begins(x \o w, Root)
      BY <1>2, <2>1 DEF Position, n
    <3>3. Begins(y \o z, w)
      <4>1. index + 1 \in 1 .. Nb(Top.p) /\ p = PartOf(Top.p, index + 1) /\ (index + 1) - 1 = index
        BY <1>6, <2>1 DEF n
      <4>2. index + 1 \in 0 .. Nb(Top.p) /\ Top.p \in Profile
        BY <1>2, <1>4, <1>6, <2>1, <4>1
      <4>3. Begins(Pre(Top.p)[index + 1], w)
        BY <2>1, <4>2, PreFacts
      <4>4. Pre(Top.p)[index + 1] = Pre(Top.p)[(index + 1) - 1] \o Leaves(PartOf(Top.p, index + 1))
        BY <2>1, <4>1, <4>2, PreFacts
      <4> QED
        BY <4>1, <4>3, <4>4
    <3>4. next = x \o y
      BY <2>2
    <3> HIDE DEF x, y, z, w
    <3>5. y \o z \in Seq(Profile)
      BY <3>1, ConcatProperties
    <3>6. \A v \in Seq(Profile) : Begins(v, w) => Begins(x \o v, Root)
      BY <3>1, <3>2, BeginsExtends
    <3>7. x \o (y \o z) = (x \o y) \o z
      <4>1. \A a, b, c \in Seq(Profile) : (a \o b) \o c = a \o (b \o c)
        BY ConcatAssociative
      <4> QED
        BY <3>1, <4>1
    <3>8. Begins(next \o z, Root)
      BY <3>3, <3>4, <3>5, <3>6, <3>7
    <3> QED
      BY <3>8 DEF z
  <2>4. ChildOf(m, new)'
    <3>1. m - 1 = n
      BY <1>2, <1>m
    <3>2. /\ stack'[n].index + 1 \in 1 .. Nb(stack'[n].p)
          /\ stack'[n + 1].p = PartOf(stack'[n].p, stack'[n].index + 1)
          /\ new[n + 1] = new[n] \o Pre(stack'[n].p)[stack'[n].index]
      BY <1>2, <1>3, <1>8, <2>1, <2>2 DEF n
    <3> QED
      BY <1>m, <3>1, <3>2 DEF ChildOf
  <2>5. done' = new[n + 1]
    BY <1>5, <1>8, <2>2
  <2>6. TopIsAt(m, new)'
    BY <1>5, <1>m, <2>5 DEF TopIsAt
  <2> QED
    BY <1>3, <1>5, <1>8, <2>3, <2>4, <2>5, <2>6
<1>13. Position(new)'
  <2>1. ASSUME NEW i \in 1 .. Len(stack'), Spine(i)'
        PROVE  /\ Begins(new[i] \o Leaves(stack'[i].p), Root')
               /\ i > 1 => ChildOf(i, new)'
               /\ ~IsSequence(stack'[i].p) => done' = new[i]
               /\ i = Len(stack') => TopIsAt(i, new)'
    <3>1. i \in 1 .. n \/ i = n + 1
      BY <1>2, <1>3
    <3>2. Spine(i)
      BY <1>3, <1>10, <2>1
    <3> QED
      BY <1>m, <1>11, <1>12, <3>1, <3>2
  <2> QED
    BY <1>3, <1>8, <1>9, <2>1 DEF Position
<1> QED
  BY <1>13

\* Nothing of what the order is about changes.
LEMMA OrderKeeps ==
  ASSUME OrderInv, UNCHANGED <<job, stack, ret, done, state>> PROVE OrderInv'
<1>1. Root' = Root /\ Failing' = Failing
  BY DEF Root, Failing, Code
<1>2. \A offs : Position(offs)' = Position(offs)
  <2> TAKE offs
  <2>1. \A i : /\ Spine(i)' = Spine(i) /\ ChildOf(i, offs)' = ChildOf(i, offs)
               /\ TopIsAt(i, offs)' = TopIsAt(i, offs)
    BY DEF Spine, ChildOf, TopIsAt
  <2> QED
    BY <1>1, <2>1 DEF Position
<1> QED
  BY <1>1, <1>2 DEF OrderInv

\* A task returns a code other than zero: nothing is added.
LEMMA OrderFails ==
  ASSUME OrderInv, state = "RUNNING", UNCHANGED <<job, state>>, NEW code \in Int, code # 0, Return(code)
  PROVE  OrderInv'
<1>1. done' = done /\ ret' = <<code>> /\ Root' = Root
  BY DEF Return, Root
<1>2. Failing'
  BY <1>1 DEF Failing, Code
<1> QED
  BY <1>1, <1>2 DEF OrderInv

\* A task that is not a sequence returns.
LEMMA LeafReturns ==
  ASSUME DepthIsEnough, Types, OrderInv, state = "RUNNING", stack # << >>, ~IsSequence(Top.p),
         UNCHANGED <<job, state>>, NEW code \in Int, Return(code), code = 0 => ~Failing
  PROVE  OrderInv'
<1>1. CASE code # 0
  BY <1>1, OrderFails
<1>2. CASE code = 0
  <2>1. PICK offs : Position(offs)
    BY <1>2 DEF OrderInv
  <2>2. done \in Seq(Profile) /\ Begins(done, Root)
    BY DEF OrderInv
  <2> DEFINE n == Len(stack)
  <2>3. n \in 1 .. n /\ Top = stack[n] /\ Top.p \in Profile
    BY TopFrame DEF Top
  <2>4. stack' = SubSeq(stack, 1, Len(stack) - 1) /\ ret' = << 0 >>
    BY <1>2 DEF Return
  <2>5. Spine(n) => done' = offs[n] \o Leaves(Top.p)
    <3> SUFFICES ASSUME Spine(n) PROVE done' = offs[n] \o Leaves(Top.p)
      OBVIOUS
    <3>1. done' = Append(done, Top.p)
      BY <1>2 DEF Return, Spine
    <3>2. done = offs[n]
      BY <2>1, <2>3 DEF Position
    <3>3. Leaves(Top.p) = <<Top.p>>
      BY <2>3, LeavesFacts
    <3>4. Append(done, Top.p) = done \o <<Top.p>>
      BY <2>2, <2>3, AppendIsConcat
    <3> QED
      BY <3>1, <3>2, <3>3, <3>4
  <2>6. ~Spine(n) => done' = done
    BY DEF Return, Spine
  <2>7. done' \in Seq(Profile) /\ Begins(done', Root') /\ \E o : Position(o)'
    BY <2>1, <2>2, <2>4, <2>5, <2>6, TaskDone
  <2> QED
    BY <2>7 DEF OrderInv
<1> QED
  BY <1>1, <1>2

\* A sequence calls its next part, or returns.
LEMMA SequenceInOrder ==
  ASSUME DepthIsEnough, Inv, OrderInv, SequenceStep
  PROVE  OrderInv'
<1> DEFINE d == Def[Top.p]
           next == Top.index + 1
           i == (next % Len(d.seq)) + 1
           n == Len(stack)
<1>1. CASE Abort
  BY <1>1, OrderKeeps DEF Abort
<1>2. CASE ~Abort
  <2>1. /\ Running /\ state = "RUNNING" /\ stack # << >> /\ IsSequence(Top.p) /\ HasSubTasks /\ UNCHANGED <<job, state>>
        /\ Returned \/ Top.index = -1
    BY <1>2 DEF SequenceStep, Running, outside
  <2>2. \/ Returned /\ Fails(Code) /\ Return(Code)
        \/ ~(Returned /\ Fails(Code)) /\ next < NbSubTasks(d) /\ Call(next, d.seq[i], SubIo(Top.io, i))
        \/ ~(Returned /\ Fails(Code)) /\ ~(next < NbSubTasks(d)) /\ Return(d.ret)
    BY <1>2 DEF SequenceStep
  <2>3. /\ Top.p \in Profile /\ Top.io \in Profile \cup {None} /\ Top.index \in Int /\ next \in Int
        /\ d.ret \in Int /\ d.seq \in Seq(Profile) /\ d.seq # << >> /\ Top = stack[n] /\ n \in 1 .. n
    BY <2>1, TopFrame, ProfileTypes DEF Inv, Top
  <2>4. CASE Returned /\ Fails(Code) /\ Return(Code)
    BY <2>1, <2>4, ReturnedFacts, OrderFails DEF Returned, Fails
  <2>5. ASSUME ~(Returned /\ Fails(Code))
        PROVE  \E offs : /\ Position(offs)
                         /\ Spine(n) => next \in 0 .. Nb(Top.p) /\ done = offs[n] \o Pre(Top.p)[next]
    <3>1. ~Failing
      BY <2>1, <2>5 DEF Returned, Fails, Failing
    <3>2. PICK offs : Position(offs)
      BY <2>1, <3>1 DEF OrderInv
    <3>3. Spine(n) => TopIsAt(n, offs)
      BY <2>3, <3>2 DEF Position
    <3>4. Nb(Top.p) \in Nat /\ Pre(Top.p)[0] = << >>
      BY <2>1, <2>3, PreFacts
    <3>5. CASE Returned
      <4>1. ret = << 0 >>
        BY <2>1, <2>5, <3>5, ReturnedFacts DEF Returned, Fails
      <4> QED
        BY <2>1, <2>3, <3>2, <3>3, <4>1 DEF TopIsAt
    <3>6. CASE ~Returned
      <4>1. Top.index = -1 /\ ret = << >> /\ next = 0
        BY <2>1, <3>6 DEF Returned
      <4>2. Spine(n) => done = offs[n]
        BY <3>3, <4>1 DEF TopIsAt
      <4>3. done \in Seq(Profile) /\ done \o << >> = done
        BY ConcatEmptySeq DEF OrderInv
      <4>4. 0 \in 0 .. Nb(Top.p)
        BY <3>4
      <4> QED
        BY <3>2, <3>4, <4>1, <4>2, <4>3, <4>4
    <3> QED
      BY <3>5, <3>6
  <2>6. CASE ~(Returned /\ Fails(Code)) /\ next < NbSubTasks(d) /\ Call(next, d.seq[i], SubIo(Top.io, i))
    <3>1. PICK offs : /\ Position(offs)
                      /\ Spine(n) => next \in 0 .. Nb(Top.p) /\ done = offs[n] \o Pre(Top.p)[next]
      BY <2>5, <2>6
    <3>2. i \in 1 .. Len(d.seq) /\ d.seq[i] \in Profile
      <4>1. Len(d.seq) \in Nat /\ Len(d.seq) > 0
        BY <2>3
      <4>2. i \in 1 .. Len(d.seq)
        BY <2>3, <4>1, ModRange
      <4> QED
        BY <2>3, <4>2
    <3>3. SubIo(Top.io, i) \in Profile \cup {None}
      <4>1. CASE Top.io = None
        BY <4>1 DEF SubIo
      <4>2. CASE Top.io # None
        <5>1. Top.io \in Profile /\ IsSequence(Top.io) /\ Len(Def[Top.io].seq) >= Len(d.seq)
          BY <2>1, <2>3, <4>2 DEF HasSubTasks
        <5>2. Def[Top.io].seq \in Seq(Profile)
          BY <5>1, ProfileTypes
        <5>3. i \in 1 .. Len(Def[Top.io].seq)
          BY <2>3, <3>2, <5>1, <5>2
        <5> QED
          BY <4>2, <5>2, <5>3 DEF SubIo
      <4> QED
        BY <4>1, <4>2
    <3>4. Spine(n) => /\ next + 1 \in 1 .. Nb(Top.p) /\ d.seq[i] = PartOf(Top.p, next + 1)
                      /\ done = offs[n] \o Pre(Top.p)[next]
      <4> SUFFICES ASSUME Spine(n) PROVE next + 1 \in 1 .. Nb(Top.p) /\ d.seq[i] = PartOf(Top.p, next + 1)
        BY <3>1
      <4>1. Nb(Top.p) \in Nat
        BY <2>1, <2>3, PartsOfSequence
      <4>2. (next + 1) - 1 = next
        BY <2>3
      <4>3. next + 1 \in 1 .. Nb(Top.p)
        BY <2>6, <3>1, <4>1 DEF Nb
      <4> QED
        BY <4>2, <4>3 DEF PartOf
    <3>5. PICK index \in Int, p \in Profile, io \in Profile \cup {None} :
            /\ Call(index, p, io)
            /\ Spine(n) => /\ index + 1 \in 1 .. Nb(Top.p) /\ p = PartOf(Top.p, index + 1)
                           /\ done = offs[n] \o Pre(Top.p)[index]
      BY <2>3, <2>6, <3>2, <3>3, <3>4
    <3>6. \E o : Position(o)'
      BY <2>1, <3>1, <3>5, TaskCalled DEF Inv
    <3>7. done' = done /\ Root' = Root
      BY <2>1, <3>5 DEF Call, Root
    <3> QED
      BY <2>1, <3>6, <3>7 DEF OrderInv
  <2>7. CASE ~(Returned /\ Fails(Code)) /\ ~(next < NbSubTasks(d)) /\ Return(d.ret)
    <3>1. CASE d.ret # 0
      BY <2>1, <2>3, <2>7, <3>1, OrderFails
    <3>2. CASE d.ret = 0
      <4>1. PICK offs : /\ Position(offs)
                        /\ Spine(n) => next \in 0 .. Nb(Top.p) /\ done = offs[n] \o Pre(Top.p)[next]
        BY <2>5, <2>7
      <4>2. Nb(Top.p) \in Nat /\ Pre(Top.p)[Nb(Top.p)] = Leaves(Top.p)
        BY <2>1, <2>3, PreFacts
      <4>3. Spine(n) => next = Nb(Top.p)
        BY <2>7, <4>1, <4>2 DEF Nb
      <4>4. done' = done /\ ret' = << 0 >> /\ stack' = SubSeq(stack, 1, Len(stack) - 1)
        BY <2>1, <2>7, <3>2 DEF Return
      <4>5. Spine(n) => done' = offs[n] \o Leaves(Top.p)
        BY <4>1, <4>2, <4>3, <4>4
      <4>6. done \in Seq(Profile) /\ Begins(done, Root)
        BY DEF OrderInv
      <4>7. done' \in Seq(Profile) /\ Begins(done', Root') /\ \E o : Position(o)'
        BY <2>1, <4>1, <4>4, <4>5, <4>6, TaskDone DEF Inv
      <4> QED
        BY <2>1, <4>7 DEF OrderInv
    <3> QED
      BY <3>1, <3>2
  <2> QED
    BY <2>2, <2>4, <2>6, <2>7
<1> QED
  BY <1>1, <1>2

\* A receive task calls a branch, or returns.
LEMMA ReceivesInOrder ==
  ASSUME DepthIsEnough, Types, OrderInv, state = "RUNNING", stack # << >>, ret = << >>,
         Def[Top.p].type = "SCHEDULER_RECV", UNCHANGED <<job, state>>,
         NEW branch \in Profile \cup {None}, Receive(branch)
  PROVE  OrderInv'
<1>1. ~IsSequence(Top.p) /\ ~Failing /\ Def[Top.p].ret \in Int
  BY TopFrame, ProfileTypes DEF IsSequence, Failing
<1>2. CASE branch = None
  BY <1>1, <1>2, LeafReturns DEF Receive
<1>3. CASE branch # None
  <2>1. Call(0, branch, None) /\ 0 \in Int /\ branch \in Profile
    BY <1>3 DEF Receive
  <2>2. PICK offs : Position(offs)
    BY <1>1 DEF OrderInv
  <2>3. \E o : Position(o)'
    BY <1>1, <2>1, <2>2, TaskCalled
  <2>4. done' = done /\ Root' = Root
    BY <2>1 DEF Call, Root
  <2> QED
    BY <2>3, <2>4 DEF OrderInv
<1> QED
  BY <1>2, <1>3

\* The actor only blocks in a task that is not a sequence.
LeafInv == state = "RUNNING" /\ wait.on # None => ~IsSequence(Top.p)

\* A sequence never blocks: only its parts do.
LEMMA NextLeaf ==
  ASSUME Inv, LeafInv, Next
  PROVE  LeafInv'
<1>1. CASE UNCHANGED <<stack, wait, state>>
  BY <1>1 DEF LeafInv, Top
<1>2. CASE wait' = Awake
  BY <1>2 DEF LeafInv, Awake
<1>3. CASE UNCHANGED stack /\ ~IsSequence(Top.p)
  BY <1>3 DEF LeafInv, Top
<1>4. CASE StartParallelTask
  <2>1. IsParallel(Top.p) /\ (UNCHANGED stack)
    BY <1>4, Zenon DEF StartParallelTask, Abort
  <2> QED
    BY <1>3, <2>1 DEF IsParallel, ParallelTypes, IsSequence
<1>5. CASE SequenceStep
  BY <1>1, <1>2, <1>5, ReturnedFacts DEF SequenceStep, Abort
<1>6. CASE DelayStarts \/ SendStarts \/ ReplayStarts
  <2>1. UNCHANGED stack
    BY <1>6 DEF DelayStarts, SendStarts, ReplayStarts, Abort
  <2>2. ~IsSequence(Top.p)
    BY <1>6 DEF DelayStarts, SendStarts, ReplayStarts, IsSequence, IsReplay, ReplayTypes
  <2> QED
    BY <1>3, <2>1, <2>2
<1>7. CASE ServerReceives \/ Tick
  <2>1. Blocked /\ UNCHANGED stack
    BY <1>7 DEF ServerReceives, Tick
  <2> QED
    BY <1>3, <2>1 DEF LeafInv, Blocked
<1>8. CASE RecvStarts
  <2>1. Calling /\ Def[Top.p].type = "SCHEDULER_RECV" /\ (UNCHANGED wait \/ UNCHANGED stack)
    BY <1>8 DEF RecvStarts
  <2>2. wait = Awake
    BY <2>1, ReturnedFacts DEF Calling
  <2> QED
    BY <1>2, <1>3, <2>1, <2>2 DEF IsSequence
<1>9. CASE Poll
  <2>1. Def[Top.p].type = "SCHEDULER_RECV" /\ (wait' = Awake \/ UNCHANGED stack)
    BY <1>9 DEF Poll
  <2> QED
    BY <1>2, <1>3, <2>1 DEF IsSequence
<1>10. CASE RecvReturns
  BY <1>2, <1>10, ReturnedFacts DEF RecvReturns, Returned
<1>11. CASE \E r \in DOMAIN ranks : RankReports(r)
  <2>1. Blocked /\ (wait' = Awake \/ UNCHANGED stack)
    BY <1>11 DEF RankReports
  <2> QED
    BY <1>2, <1>3, <2>1 DEF LeafInv, Blocked
<1>12. CASE killer_process
  <2>1. wait' = Awake \/ UNCHANGED <<stack, wait, state>>
    BY <1>12 DEF killer_process, Abort
  <2> QED
    BY <1>1, <1>2, <2>1
<1>13. CASE SleepEnds \/ ReplayTimesOut \/ \E why \in {"complete", "timeout", "cancelled"} : ParallelTaskEnds(why)
  BY <1>2, <1>13 DEF SleepEnds, ReplayTimesOut, ParallelTaskEnds
<1>14. CASE JobEnds
  <2>1. wait' = wait /\ wait = Awake
    BY <1>14, ReturnedFacts DEF JobEnds, Abort
  <2> QED
    BY <1>2, <2>1
<1>15. CASE \E text \in Text : ToJobMsg(text)
  BY <1>1, <1>15 DEF ToJobMsg
<1> QED
  BY <1>4, <1>5, <1>6, <1>7, <1>8, <1>9, <1>10, <1>11, <1>12, <1>13, <1>14, <1>15 DEF Next, JobStep

\* The end of a blocking task.
LEMMA BlockedReturns ==
  ASSUME DepthIsEnough, Inv, LeafInv, OrderInv, Blocked, UNCHANGED <<job, state>>, NEW code \in Int, Return(code)
  PROVE  OrderInv'
<1>1. state = "RUNNING" /\ stack # << >> /\ ~Failing /\ ~IsSequence(Top.p)
  BY BlockedFacts DEF LeafInv, Failing
<1> QED
  BY <1>1, LeafReturns DEF Inv

\* Every step keeps the order.
LEMMA NextOrder ==
  ASSUME DepthIsEnough, Inv, LeafInv, OrderInv, Next
  PROVE  OrderInv'
<1>1. CASE UNCHANGED <<job, stack, ret, done, state>>
  BY <1>1, OrderKeeps
<1>2. CASE SequenceStep
  BY <1>2, SequenceInOrder
<1>3. ASSUME NEW why \in {"complete", "timeout", "cancelled"}, ParallelTaskEnds(why)
      PROVE  OrderInv'
  <2>1. Blocked /\ UNCHANGED <<job, state>>
    BY <1>3 DEF ParallelTaskEnds, outside
  <2>2. \E code \in Int : Return(code)
    BY <1>3, <2>1, BlockedFacts DEF ParallelTaskEnds
  <2> QED
    BY <2>1, <2>2, BlockedReturns
<1>4. CASE SleepEnds
  <2>1. Blocked /\ UNCHANGED <<job, state>>
    BY <1>4 DEF SleepEnds, outside
  <2>2. \E code \in Int : Return(code)
    BY <1>4, <2>1, BlockedFacts DEF SleepEnds
  <2> QED
    BY <2>1, <2>2, BlockedReturns
<1>5. CASE ReplayTimesOut
  <2>1. Blocked /\ UNCHANGED <<job, state>> /\ Return(-1) /\ -1 \in Int
    BY <1>5 DEF ReplayTimesOut, outside
  <2> QED
    BY <2>1, BlockedReturns
<1>6. CASE \E r \in DOMAIN ranks : RankReports(r)
  <2>1. Blocked /\ UNCHANGED <<job, state>>
    BY <1>6 DEF RankReports, outside
  <2>2. UNCHANGED <<stack, ret, done>> \/ \E code \in Int : Return(code)
    BY <1>6, <2>1, BlockedFacts DEF RankReports
  <2> QED
    BY <1>1, <2>1, <2>2, BlockedReturns
<1>7. CASE RecvStarts
  <2>1. Calling /\ Def[Top.p].type = "SCHEDULER_RECV" /\ UNCHANGED <<job, state>>
    BY <1>7 DEF RecvStarts
  <2>2. UNCHANGED <<stack, ret, done>> \/ \E branch \in Profile \cup {None} : Receive(branch)
    BY <1>7, <2>1, CallingFacts, BranchTypes DEF RecvStarts
  <2> QED
    BY <1>1, <2>1, <2>2, CallingFacts, ReceivesInOrder DEF Inv
<1>8. CASE Poll
  <2>1. Blocked /\ Def[Top.p].type = "SCHEDULER_RECV" /\ UNCHANGED <<job, state>> /\ -1 \in Int
    BY <1>8 DEF Poll
  <2>2. UNCHANGED <<stack, ret, done>> \/ Return(-1) \/ \E branch \in Profile \cup {None} : Receive(branch)
    BY <1>8, <2>1, BlockedFacts, BranchTypes DEF Poll
  <2> QED
    BY <1>1, <2>1, <2>2, BlockedFacts, BlockedReturns, ReceivesInOrder DEF Inv
<1>9. CASE RecvReturns
  <2>1. /\ Running /\ ret # << >> /\ stack # << >> /\ Def[Top.p].type = "SCHEDULER_RECV" /\ UNCHANGED <<job, state>>
        /\ Return(IF Fails(Code) THEN Code ELSE Def[Top.p].ret)
    BY <1>9 DEF RecvReturns, Returned, outside
  <2>2. Code \in Int /\ Def[Top.p].ret \in Int /\ state = "RUNNING"
    BY <2>1, ReturnedFacts, TopFrame, ProfileTypes DEF Inv
  <2>3. ~IsSequence(Top.p)
    BY <2>1 DEF IsSequence
  <2>4. PICK code \in Int : Return(code) /\ (code = 0 => Code = 0)
    BY <2>1, <2>2 DEF Fails
  <2> QED
    BY <2>1, <2>2, <2>3, <2>4, LeafReturns DEF Inv, Failing
<1>10. CASE JobEnds
  <2>1. CASE Abort
    BY <1>1, <2>1 DEF Abort
  <2>2. CASE ~Abort
    <3>1. /\ Running /\ stack = << >> /\ Code >= -2 /\ Code \in Int /\ ret = <<Code>> /\ state = "RUNNING"
          /\ state' = EndState(Code) /\ UNCHANGED <<job, done>>
      <4>1. Running /\ stack = << >>
        BY <1>10 DEF JobEnds
      <4>2. Code \in Int /\ ret = <<Code>> /\ state = "RUNNING"
        BY <4>1, ReturnedFacts DEF Inv, ActorInv, Running
      <4> QED
        BY <1>10, <2>2, <4>1, <4>2 DEF JobEnds, outside
    <3>2. state' # "RUNNING" /\ (state' = "COMPLETED_SUCCESSFULLY" => Code = 0)
      BY <3>1 DEF EndState
    <3>3. Code = 0 => done = Root
      BY <3>1 DEF OrderInv, Failing, Position
    <3>4. Root' = Root
      BY <3>1 DEF Root
    <3> QED
      BY <3>1, <3>2, <3>3, <3>4 DEF OrderInv
  <2> QED
    BY <2>1, <2>2
<1>11. CASE killer_process
  <2>1. \/ UNCHANGED <<job, stack, ret, done, state>>
        \/ state' = "COMPLETED_KILLED" /\ UNCHANGED <<job, done>>
    BY <1>11 DEF killer_process, Abort
  <2>2. CASE state' = "COMPLETED_KILLED" /\ UNCHANGED <<job, done>>
    BY <2>2 DEF OrderInv, Root
  <2> QED
    BY <1>1, <2>1, <2>2
<1>12. CASE StartParallelTask
  <2>1. UNCHANGED <<job, stack, ret, done, state>>
    BY <1>12, Zenon DEF StartParallelTask, Abort, outside
  <2> QED
    BY <1>1, <2>1
<1>13. CASE DelayStarts \/ SendStarts \/ ServerReceives \/ ReplayStarts \/ Tick
  BY <1>1, <1>13 DEF DelayStarts, SendStarts, ServerReceives, ReplayStarts, Tick, Abort, outside
<1>14. CASE \E text \in Text : ToJobMsg(text)
  BY <1>1, <1>14 DEF ToJobMsg
<1> QED
  BY <1>2, <1>3, <1>4, <1>5, <1>6, <1>7, <1>8, <1>9, <1>10, <1>11, <1>12, <1>13, <1>14 DEF Next, JobStep

\* It holds at the start.
LEMMA InitOrder == ASSUME DepthIsEnough, Init PROVE LeafInv /\ OrderInv
<1>1. LeafInv
  BY DEF Init, LeafInv, Awake
<1>2. Types /\ job.profile \in Profile
  BY TaskInitInv, Walltimes DEF Inv
<1>3. Root \in Seq(Profile) /\ << >> \o Root = Root /\ Begins(<< >>, Root) /\ Begins(Root, Root)
  BY <1>2, LeavesFacts, ConcatEmptySeq, BeginsWithItself DEF Root
<1>4. Len(stack) = 1 /\ stack[1].p = job.profile /\ stack # << >>
  BY DEF Init, Task
<1>5. done = << >> /\ ret = << >> /\ << >> \in Seq(Profile) /\ state = "RUNNING"
  BY DEF Init
<1> DEFINE offs == [i \in 1 .. 1 |-> << >>]
<1>6. offs \in [1 .. 1 -> Seq(Profile)] /\ offs[1] = << >>
  <2> DEFINE S == Seq(Profile)
  <2>1. << >> \in S
    BY <1>5
  <2> HIDE DEF S
  <2>2. offs \in [1 .. 1 -> S] /\ offs[1] = << >>
    BY <2>1
  <2> QED
    BY <2>2 DEF S
<1> HIDE DEF offs
<1>7. Position(offs)
  <2>1. ASSUME NEW i \in 1 .. 1
        PROVE  /\ Begins(offs[i] \o Leaves(stack[i].p), Root)
               /\ ~(i > 1)
               /\ done = offs[i]
               /\ TopIsAt(i, offs)
    <3>1. i = 1
      OBVIOUS
    <3>2. done = offs[i]
      BY <1>5, <1>6, <3>1
    <3>3. ret # << 0 >>
      BY <1>5
    <3>4. TopIsAt(i, offs)
      BY <3>2, <3>3 DEF TopIsAt
    <3>5. offs[i] \o Leaves(stack[i].p) = Root
      BY <1>3, <1>4, <1>6, <3>1 DEF Root
    <3> QED
      BY <1>3, <3>1, <3>2, <3>4, <3>5
  <2> QED
    BY <1>4, <1>6, <2>1 DEF Position
<1>8. OrderInv
  BY <1>3, <1>5, <1>7 DEF OrderInv
<1> QED
  BY <1>1, <1>8

(***************************************************************************)
(* The tasks of a job run in the order of its profile, each repetition     *)
(* included, and a job ends successfully only when every one of them has   *)
(* returned zero, for all trees of sequences, delays, parallel tasks,      *)
(* replays and messages (execute_task, jobs_execution.cpp). Depth must be  *)
(* large enough to unfold the profiles.                                    *)
(***************************************************************************)
THEOREM TasksRunInOrder == DepthIsEnough => (Spec => []RunsInOrder)
<1> SUFFICES ASSUME DepthIsEnough PROVE Spec => []RunsInOrder
  OBVIOUS
<1>1. Spec => []Inv
  BY TaskInvHolds
<1>2. Init => LeafInv /\ OrderInv
  BY InitOrder
<1>3. Inv /\ (LeafInv /\ OrderInv) /\ [Next]_vars => (LeafInv /\ OrderInv)'
  <2> SUFFICES ASSUME Inv, LeafInv, OrderInv, [Next]_vars PROVE LeafInv' /\ OrderInv'
    OBVIOUS
  <2>1. CASE UNCHANGED vars
    BY <2>1, OrderKeeps DEF vars, LeafInv, Top
  <2>2. CASE Next
    BY <2>2, NextLeaf, NextOrder
  <2> QED
    BY <2>1, <2>2
<1>4. Inv /\ OrderInv => RunsInOrder
  <2> SUFFICES ASSUME Inv, OrderInv PROVE RunsInOrder
    OBVIOUS
  <2>1. Leaves(job.profile) \in Seq(Profile)
    BY Walltimes, LeavesFacts DEF Inv
  <2>2. IsPrefix(done, Leaves(job.profile))
    BY <2>1, BeginsIsPrefix DEF OrderInv, Root
  <2> QED
    BY <2>2 DEF RunsInOrder, OrderInv, Root
<1> QED
  BY <1>1, <1>2, <1>3, <1>4, PTL DEF Spec

\* Sums over cells.
SumOver(v, S) == MapThenSumSet(LAMBDA k : v[k], S)

Adds(iter, v, S) ==
  iter = [s \in SUBSET S |->
            IF s = {} THEN 0 ELSE v[CHOOSE x \in s : TRUE] + iter[s \ {CHOOSE x \in s : TRUE}]]

\* The sum of the library, as a function on the subsets.
LEMMA SumIsFold == ASSUME NEW v, NEW S PROVE SumOver(v, S) = (CHOOSE iter : Adds(iter, v, S))[S]
BY DEF SumOver, MapThenSumSet, MapThenFoldSet, Adds

\* Flops is such a sum.
LEMMA FlopsIsSum ==
  ASSUME NEW t, NEW a
  PROVE  Flops(t, a) = SumOver(t.comp, {i \in 1 .. Len(t.hosts) : t.hosts[i] = a})
BY DEF Flops, SumOver, MapThenSumSet, MapThenFoldSet

\* The cells of a task for what a machine sends to another.
CellsOf(t, a, b) ==
  {k \in 1 .. Len(t.hosts) * Len(t.hosts) :
     /\ t.hosts[((k - 1) \div Len(t.hosts)) + 1] = a
     /\ t.hosts[((k - 1) % Len(t.hosts)) + 1] = b}

\* Bytes is such a sum when something is communicated.
LEMMA BytesIsSum ==
  ASSUME NEW t, NEW a, NEW b, t.comm # << >>
  PROVE  Bytes(t, a, b) = SumOver(t.comm, CellsOf(t, a, b))
BY DEF Bytes, SumOver, MapThenSumSet, MapThenFoldSet, CellsOf

\* The sum over no cell.
LEMMA SumOfNone == ASSUME NEW v PROVE SumOver(v, {}) = 0
<1> DEFINE g == [s \in SUBSET {} |-> 0]
<1>1. Adds(g, v, {})
  BY DEF Adds
<1>2. PICK iter : iter = (CHOOSE i : Adds(i, v, {})) /\ Adds(iter, v, {})
  BY <1>1
<1>3. iter[{}] = 0
  BY <1>2 DEF Adds
<1> QED
  BY <1>2, <1>3, SumIsFold

\* The sum over one cell.
LEMMA SumOfOne == ASSUME NEW v, NEW x, v[x] \in Int PROVE SumOver(v, {x}) = v[x]
<1> DEFINE g == [s \in SUBSET {x} |-> IF s = {} THEN 0 ELSE v[x]]
<1>1. (CHOOSE y \in {x} : TRUE) = x
  OBVIOUS
<1>2. \A s \in SUBSET {x} : s = {} \/ s = {x}
  OBVIOUS
<1>3. Adds(g, v, {x})
  <2>1. \A s \in SUBSET {x} : g[s] =
          IF s = {} THEN 0 ELSE v[CHOOSE y \in s : TRUE] + g[s \ {CHOOSE y \in s : TRUE}]
    <3> TAKE s \in SUBSET {x}
    <3>1. CASE s = {}
      BY <3>1
    <3>2. CASE s = {x}
      <4>1. s \ {x} = {} /\ {} \in SUBSET {x} /\ s # {}
        BY <3>2
      <4>2. g[{}] = 0 /\ g[s] = v[x]
        BY <3>2
      <4>3. (CHOOSE y \in s : TRUE) = x
        BY <1>1, <3>2
      <4> HIDE DEF g
      <4>4. v[CHOOSE y \in s : TRUE] + g[s \ {CHOOSE y \in s : TRUE}] = v[x] + 0
        BY <4>1, <4>2, <4>3
      <4> QED
        BY <4>1, <4>2, <4>4
    <3> QED
      BY <1>2, <3>1, <3>2
  <2>2. g = [s \in SUBSET {x} |-> g[s]]
    OBVIOUS
  <2> HIDE DEF g
  <2> QED
    BY <2>1, <2>2 DEF Adds
<1>4. PICK iter : iter = (CHOOSE i : Adds(i, v, {x})) /\ Adds(iter, v, {x})
  <2> HIDE DEF g
  <2> QED
    BY <1>3
<1>5. iter[{x}] = v[x]
  <2>1. \A s \in SUBSET {x} : iter[s] =
          IF s = {} THEN 0 ELSE v[CHOOSE y \in s : TRUE] + iter[s \ {CHOOSE y \in s : TRUE}]
    <3> DEFINE F(s) == IF s = {} THEN 0 ELSE v[CHOOSE y \in s : TRUE] + iter[s \ {CHOOSE y \in s : TRUE}]
    <3>1. iter = [s \in SUBSET {x} |-> F(s)]
      BY <1>4, Zenon DEF Adds
    <3> HIDE DEF F
    <3>2. \A s \in SUBSET {x} : iter[s] = F(s)
      BY <3>1
    <3> QED
      BY <3>2 DEF F
  <2>2. {x} \in SUBSET {x} /\ {} \in SUBSET {x} /\ {x} # {} /\ {x} \ {x} = {}
    OBVIOUS
  <2>3. iter[{}] = 0
    BY <2>1, <2>2
  <2>4. iter[{x}] = v[x] + 0
    BY <1>1, <2>1, <2>2, <2>3
  <2> QED
    BY <2>4
<1> QED
  BY <1>4, <1>5, SumIsFold

-----------------------------------------------------------------------------
(* Matrices that are stored row after row *)

\* The cell of a row and a column of an n x n matrix, from 1.
Cell(n, row, col) == (row - 1) * n + col
RowOf(n, k) == ((k - 1) \div n) + 1
ColOf(n, k) == ((k - 1) % n) + 1

\* Multiplication is monotonic.
LEMMA Scaled == \A n, x, y \in Nat : x <= y => x * n <= y * n
OBVIOUS

\* A number is made of its quotient and its remainder.
LEMMA Divides ==
  ASSUME NEW n \in Nat, n > 0, NEW x \in Nat
  PROVE  x \div n \in Nat /\ x % n \in 0 .. n - 1 /\ x = (x \div n) * n + (x % n)
OBVIOUS

\* The cells of a row come before those of the next row.
LEMMA CellOrder ==
  ASSUME NEW n \in Nat, NEW r \in 1 .. n, NEW c \in 1 .. n, NEW s \in 1 .. n, NEW d \in 1 .. n
  PROVE  /\ r < s => Cell(n, r, c) < Cell(n, s, d)
         /\ Cell(n, r, c) <= Cell(n, s, d) => r < s \/ (r = s /\ c <= d)
         /\ r = s /\ c <= d => Cell(n, r, c) <= Cell(n, s, d)
         /\ Cell(n, r, c) \in 1 .. n * n
<1>1. ASSUME NEW x \in 1 .. n, NEW y \in 1 .. n, NEW u \in 1 .. n, NEW v \in 1 .. n, x < y
      PROVE  Cell(n, x, u) < Cell(n, y, v)
  <2>1. x \in Nat /\ y - 1 \in Nat /\ x <= y - 1 /\ x - 1 \in Nat
    BY <1>1
  <2>2. x * n <= (y - 1) * n
    BY <2>1, Scaled
  <2>3. (x - 1) * n = x * n - n
    BY <2>1
  <2>4. x * n \in Nat /\ (y - 1) * n \in Nat
    BY <2>1
  <2> DEFINE p == x * n
             q == (y - 1) * n
  <2>5. p \in Nat /\ q \in Nat /\ p <= q /\ (x - 1) * n = p - n
    BY <2>2, <2>3, <2>4
  <2> HIDE DEF p, q
  <2> QED
    BY <2>5 DEF Cell, q
<1>2. r < s => Cell(n, r, c) < Cell(n, s, d)
  BY <1>1
<1>3. s < r => Cell(n, s, d) < Cell(n, r, c)
  BY <1>1
<1>4. Cell(n, r, c) \in Int /\ Cell(n, s, d) \in Int
  BY DEF Cell
<1>5. r = s => (Cell(n, r, c) <= Cell(n, s, d) <=> c <= d)
  <2> DEFINE p == (r - 1) * n
  <2>1. p \in Int
    OBVIOUS
  <2>2. r = s => Cell(n, r, c) = p + c /\ Cell(n, s, d) = p + d
    BY DEF Cell
  <2> HIDE DEF p
  <2> QED
    BY <2>1, <2>2
<1>6. Cell(n, r, c) \in 1 .. n * n
  <2> DEFINE p == (r - 1) * n
  <2>1. r - 1 \in Nat /\ n - 1 \in Nat /\ r - 1 <= n - 1
    OBVIOUS
  <2>2. p \in Nat /\ p <= (n - 1) * n
    BY <2>1, Scaled
  <2>3. (n - 1) * n = n * n - n /\ n * n \in Nat
    OBVIOUS
  <2>4. Cell(n, r, c) = p + c
    BY DEF Cell
  <2> DEFINE q == n * n
  <2>5. q \in Nat /\ p <= q - n
    BY <2>2, <2>3
  <2> HIDE DEF p, q
  <2>6. p + c \in 1 .. q
    BY <2>2, <2>5
  <2> QED
    BY <2>4, <2>6 DEF q
<1>7. r < s \/ s < r \/ r = s
  OBVIOUS
<1> QED
  BY <1>2, <1>3, <1>4, <1>5, <1>6, <1>7

\* Each number of a cell is that of one row and column.
LEMMA CellOfNumber ==
  ASSUME NEW n \in Nat, NEW k \in 1 .. n * n
  PROVE  RowOf(n, k) \in 1 .. n /\ ColOf(n, k) \in 1 .. n /\ Cell(n, RowOf(n, k), ColOf(n, k)) = k
<1>1. n > 0
  <2>1. n = 0 => n * n = 0
    OBVIOUS
  <2> QED
    BY <2>1
<1> DEFINE q == (k - 1) \div n
           r == (k - 1) % n
<1>2. k - 1 \in Nat /\ n * n \in Nat /\ k - 1 < n * n
  OBVIOUS
<1>3. q \in Nat /\ r \in 0 .. n - 1 /\ k - 1 = q * n + r
  BY <1>1, <1>2, Divides
<1> HIDE DEF q, r
<1>4. q < n
  <2> SUFFICES ASSUME n <= q PROVE FALSE
    BY <1>3
  <2>1. n * n <= q * n
    BY <1>3, Scaled
  <2> DEFINE x == n * n
             y == q * n
  <2>2. x \in Nat /\ y \in Nat /\ x <= y /\ k - 1 = y + r /\ k - 1 < x
    BY <1>2, <1>3, <2>1
  <2> HIDE DEF x, y
  <2> QED
    BY <1>3, <2>2
<1>5. RowOf(n, k) = q + 1 /\ ColOf(n, k) = r + 1
  BY DEF RowOf, ColOf, q, r
<1>6. Cell(n, q + 1, r + 1) = k
  <2>1. (q + 1) - 1 = q
    BY <1>3
  <2> DEFINE y == q * n
  <2>2. y \in Nat /\ k - 1 = y + r /\ Cell(n, q + 1, r + 1) = y + (r + 1)
    BY <1>3, <2>1 DEF Cell
  <2> HIDE DEF y
  <2> QED
    BY <1>3, <2>2
<1> QED
  BY <1>3, <1>4, <1>5, <1>6

\* The row and the column of a cell are found from its number.
LEMMA NumberOfCell ==
  ASSUME NEW n \in Nat, NEW r \in 1 .. n, NEW c \in 1 .. n
  PROVE  RowOf(n, Cell(n, r, c)) = r /\ ColOf(n, Cell(n, r, c)) = c
<1> DEFINE k == Cell(n, r, c)
<1>1. k \in 1 .. n * n
  BY CellOrder
<1> HIDE DEF k
<1> DEFINE s == RowOf(n, k)
           d == ColOf(n, k)
<1>2. s \in 1 .. n /\ d \in 1 .. n /\ Cell(n, s, d) = k
  BY <1>1, CellOfNumber
<1> HIDE DEF s, d
<1>3. k \in Nat
  <2>1. n * n \in Nat
    OBVIOUS
  <2> QED
    BY <1>1, <2>1
<1>4. Cell(n, r, c) = k
  BY DEF k
<1>5. k <= k
  BY <1>3
<1>6. s < r \/ (s = r /\ d <= c)
  BY <1>2, <1>4, <1>5, CellOrder
<1>7. r < s \/ (r = s /\ c <= d)
  BY <1>2, <1>4, <1>5, CellOrder
<1>8. s = r /\ d = c
  BY <1>2, <1>6, <1>7
<1> QED
  BY <1>8 DEF s, d, k

-----------------------------------------------------------------------------
(* The places of machines in ordered lists *)

Pos(S, x) == CHOOSE i \in 1 .. Cardinality(S) : Ordered(S)[i] = x

\* Each machine of a set has one place, and places keep the order of the machines.
LEMMA PosFacts ==
  ASSUME NEW S \in SUBSET Nat, IsFiniteSet(S)
  PROVE  /\ Cardinality(S) \in Nat /\ Len(Ordered(S)) = Cardinality(S)
         /\ \A x \in S : Pos(S, x) \in 1 .. Cardinality(S) /\ Ordered(S)[Pos(S, x)] = x
         /\ \A i \in 1 .. Cardinality(S) : Ordered(S)[i] \in S /\ Pos(S, Ordered(S)[i]) = i
         /\ \A x, y \in S : x < y <=> Pos(S, x) < Pos(S, y)
<1> DEFINE n == Cardinality(S)
           o == Ordered(S)
<1>1. /\ n \in Nat /\ Len(o) = n /\ o \in [1 .. n -> S]
      /\ \A i, j \in 1 .. n : i < j => o[i] < o[j]
      /\ \A x \in S : \E i \in 1 .. n : o[i] = x
  BY OrderedFacts DEF Lists
<1>2. \A x : Pos(S, x) = CHOOSE i \in 1 .. n : o[i] = x
  BY DEF Pos
<1> HIDE DEF n, o
<1>3. \A x \in S : Pos(S, x) \in 1 .. n /\ o[Pos(S, x)] = x
  BY <1>1, <1>2
<1>4. \A i, j \in 1 .. n : o[i] \in Nat /\ o[j] \in Nat /\ (o[i] < o[j] <=> i < j)
  <2> TAKE i, j \in 1 .. n
  <2>1. o[i] \in Nat /\ o[j] \in Nat
    BY <1>1
  <2>2. i < j => o[i] < o[j]
    BY <1>1
  <2>3. j < i => o[j] < o[i]
    BY <1>1
  <2>4. i < j \/ j < i \/ i = j
    BY <1>1
  <2> QED
    BY <2>1, <2>2, <2>3, <2>4
<1>5. \A i \in 1 .. n : o[i] \in S /\ Pos(S, o[i]) = i
  <2> TAKE i \in 1 .. n
  <2>1. o[i] \in S
    BY <1>1
  <2>2. Pos(S, o[i]) \in 1 .. n /\ o[Pos(S, o[i])] = o[i]
    BY <1>3, <2>1
  <2> DEFINE j == Pos(S, o[i])
  <2>3. j \in 1 .. n /\ o[j] = o[i]
    BY <2>2
  <2> HIDE DEF j
  <2>4. ~(i < j) /\ ~(j < i)
    BY <1>4, <2>3
  <2>5. i = j
    BY <1>1, <2>3, <2>4
  <2> QED
    BY <2>1, <2>5 DEF j
<1>6. \A x, y \in S : x < y <=> Pos(S, x) < Pos(S, y)
  BY <1>3, <1>4
<1> QED
  BY <1>1, <1>3, <1>5, <1>6 DEF n, o

\* The cell of two machines in the matrix of a set, and the machines of a cell.
At(S, x, y) == Cell(Cardinality(S), Pos(S, x), Pos(S, y))
From(S, k) == Ordered(S)[RowOf(Cardinality(S), k)]
To(S, k) == Ordered(S)[ColOf(Cardinality(S), k)]
Size(S) == Cardinality(S) * Cardinality(S)

\* Each two machines of a set have one cell; cells are ordered by the first, then by the
\* second machine.
LEMMA AtFacts ==
  ASSUME NEW S \in SUBSET Nat, IsFiniteSet(S)
  PROVE  /\ Size(S) \in Nat
         /\ \A x, y \in S : At(S, x, y) \in 1 .. Size(S) /\ From(S, At(S, x, y)) = x /\ To(S, At(S, x, y)) = y
         /\ \A k \in 1 .. Size(S) : From(S, k) \in S /\ To(S, k) \in S /\ At(S, From(S, k), To(S, k)) = k
         /\ \A u, v, x, y \in S : At(S, u, v) <= At(S, x, y) <=> u < x \/ (u = x /\ v <= y)
<1> DEFINE n == Cardinality(S)
<1>1. /\ n \in Nat /\ Len(Ordered(S)) = n
      /\ \A x \in S : Pos(S, x) \in 1 .. n /\ Ordered(S)[Pos(S, x)] = x
      /\ \A i \in 1 .. n : Ordered(S)[i] \in S /\ Pos(S, Ordered(S)[i]) = i
      /\ \A x, y \in S : x < y <=> Pos(S, x) < Pos(S, y)
  BY PosFacts
<1>2. Size(S) = n * n /\ n * n \in Nat
  BY <1>1 DEF Size
<1>3. /\ \A x, y : At(S, x, y) = Cell(n, Pos(S, x), Pos(S, y))
      /\ \A k : From(S, k) = Ordered(S)[RowOf(n, k)] /\ To(S, k) = Ordered(S)[ColOf(n, k)]
  BY DEF At, From, To
<1> HIDE DEF n
<1>4. ASSUME NEW x \in S, NEW y \in S
      PROVE  At(S, x, y) \in 1 .. n * n /\ From(S, At(S, x, y)) = x /\ To(S, At(S, x, y)) = y
  <2> DEFINE k == Cell(n, Pos(S, x), Pos(S, y))
  <2>1. k \in 1 .. n * n /\ RowOf(n, k) = Pos(S, x) /\ ColOf(n, k) = Pos(S, y)
    BY <1>1, CellOrder, NumberOfCell
  <2> HIDE DEF k
  <2>2. At(S, x, y) = k
    BY <1>3 DEF k
  <2> QED
    BY <1>1, <1>3, <2>1, <2>2
<1>5. ASSUME NEW k \in 1 .. n * n
      PROVE  From(S, k) \in S /\ To(S, k) \in S /\ At(S, From(S, k), To(S, k)) = k
  <2>1. RowOf(n, k) \in 1 .. n /\ ColOf(n, k) \in 1 .. n /\ Cell(n, RowOf(n, k), ColOf(n, k)) = k
    BY <1>1, CellOfNumber
  <2> QED
    BY <1>1, <1>3, <2>1
<1>6. ASSUME NEW u \in S, NEW v \in S, NEW x \in S, NEW y \in S
      PROVE  At(S, u, v) <= At(S, x, y) <=> u < x \/ (u = x /\ v <= y)
  <2> DEFINE a == Pos(S, u)
             b == Pos(S, v)
             c == Pos(S, x)
             d == Pos(S, y)
  <2>1. a \in 1 .. n /\ b \in 1 .. n /\ c \in 1 .. n /\ d \in 1 .. n
    BY <1>1
  <2>2. /\ u \in Nat /\ v \in Nat /\ x \in Nat /\ y \in Nat
        /\ u < x <=> a < c
        /\ y < v <=> d < b
        /\ u = x <=> a = c
    <3>1. u = Ordered(S)[a] /\ x = Ordered(S)[c]
      BY <1>1
    <3> QED
      BY <1>1, <3>1
  <2>3. At(S, u, v) = Cell(n, a, b) /\ At(S, x, y) = Cell(n, c, d)
    BY <1>3
  <2> HIDE DEF a, b, c, d
  <2>4. /\ a < c => Cell(n, a, b) < Cell(n, c, d)
        /\ Cell(n, a, b) <= Cell(n, c, d) => a < c \/ (a = c /\ b <= d)
        /\ a = c /\ b <= d => Cell(n, a, b) <= Cell(n, c, d)
        /\ Cell(n, a, b) \in 1 .. n * n
        /\ Cell(n, c, d) \in 1 .. n * n
    BY <1>1, <2>1, CellOrder
  <2>5. Cell(n, a, b) <= Cell(n, c, d) <=> a < c \/ (a = c /\ b <= d)
    <3> DEFINE p == Cell(n, a, b)
               q == Cell(n, c, d)
    <3>1. p \in Nat /\ q \in Nat
      BY <1>2, <2>4
    <3> HIDE DEF p, q
    <3>2. p < q => p <= q
      BY <3>1
    <3> QED
      BY <2>4, <3>2 DEF p, q
  <2>6. b <= d <=> v <= y
    BY <1>1, <2>1, <2>2
  <2> QED
    BY <2>2, <2>3, <2>5, <2>6
<1> QED
  BY <1>2, <1>4, <1>5, <1>6

\* What the running index of the merge counts to: the place in the smaller list.
LEMMA CountMachines ==
  ASSUME NEW S \in SUBSET Nat, IsFiniteSet(S), NEW A \in SUBSET S, IsFiniteSet(A), NEW x \in A
  PROVE  Cardinality({h \in 1 .. Pos(S, x) : Ordered(S)[h] \in A}) = Pos(A, x)
<1> DEFINE T == {h \in 1 .. Pos(S, x) : Ordered(S)[h] \in A}
           e == Pos(A, x)
           f == [k \in 1 .. e |-> Pos(S, Ordered(A)[k])]
           n == Cardinality(S)
           m == Cardinality(A)
<1>1. /\ n \in Nat
      /\ \A y \in S : Pos(S, y) \in 1 .. n /\ Ordered(S)[Pos(S, y)] = y
      /\ \A i \in 1 .. n : Ordered(S)[i] \in S /\ Pos(S, Ordered(S)[i]) = i
      /\ \A y, z \in S : y < z <=> Pos(S, y) < Pos(S, z)
  BY PosFacts
<1>2. /\ m \in Nat
      /\ \A y \in A : Pos(A, y) \in 1 .. m /\ Ordered(A)[Pos(A, y)] = y
      /\ \A i \in 1 .. m : Ordered(A)[i] \in A /\ Pos(A, Ordered(A)[i]) = i
      /\ \A y, z \in A : y < z <=> Pos(A, y) < Pos(A, z)
  BY PosFacts
<1> HIDE DEF n, m
<1>3. e \in 1 .. m /\ e \in Nat /\ x \in S /\ Pos(S, x) \in 1 .. n
  BY <1>1, <1>2
<1>4. \A k \in 1 .. e : k \in 1 .. m
  BY <1>2, <1>3
<1>5. \A y \in A : /\ y \in S /\ y \in Nat /\ Pos(S, y) \in Int /\ Pos(A, y) \in Int
                    /\ (Pos(A, y) <= e <=> Pos(S, y) <= Pos(S, x))
  <2> TAKE y \in A
  <2>1. y \in S /\ y \in Nat /\ Pos(S, y) \in 1 .. n /\ Pos(A, y) \in 1 .. m
    BY <1>1, <1>2
  <2>2. x < y <=> Pos(S, x) < Pos(S, y)
    BY <1>1, <1>3, <2>1
  <2>3. x < y <=> e < Pos(A, y)
    BY <1>2
  <2> DEFINE py == Pos(S, y)
             px == Pos(S, x)
             qy == Pos(A, y)
  <2>4. py \in 1 .. n /\ px \in 1 .. n /\ qy \in 1 .. m /\ (px < py <=> e < qy)
    BY <1>3, <2>1, <2>2, <2>3
  <2> HIDE DEF py, px, qy, e
  <2>5. (qy <= e <=> py <= px) /\ py \in Int /\ qy \in Int
    BY <1>1, <1>2, <1>3, <2>4
  <2> QED
    BY <2>1, <2>5 DEF py, px, qy
<1>6. \A k \in 1 .. e : Pos(S, Ordered(A)[k]) \in T
  <2> TAKE k \in 1 .. e
  <2>1. Ordered(A)[k] \in A /\ Pos(A, Ordered(A)[k]) = k /\ k <= e
    BY <1>2, <1>3, <1>4
  <2>2. Ordered(A)[k] \in S /\ Pos(S, Ordered(A)[k]) <= Pos(S, x)
    BY <1>5, <2>1
  <2>3. Pos(S, Ordered(A)[k]) \in 1 .. n /\ Ordered(S)[Pos(S, Ordered(A)[k])] = Ordered(A)[k]
    BY <1>1, <2>2
  <2>4. Pos(S, Ordered(A)[k]) \in 1 .. Pos(S, x)
    BY <1>1, <1>3, <2>2, <2>3
  <2> QED
    BY <2>1, <2>3, <2>4
<1>7. f \in [1 .. e -> T]
  <2> HIDE DEF T, e
  <2> QED
    BY <1>6
<1>8. ASSUME NEW k \in 1 .. e, NEW l \in 1 .. e, f[k] = f[l] PROVE k = l
  <2>1. Pos(S, Ordered(A)[k]) = Pos(S, Ordered(A)[l])
    BY <1>8
  <2>2. Ordered(A)[k] \in A /\ Ordered(A)[l] \in A
    BY <1>2, <1>4
  <2>3. Ordered(A)[k] = Ordered(A)[l]
    BY <1>1, <1>5, <2>1, <2>2
  <2> QED
    BY <1>2, <1>4, <2>3
<1>9. ASSUME NEW h \in T PROVE \E k \in 1 .. e : f[k] = h
  <2>1. h \in 1 .. Pos(S, x) /\ Ordered(S)[h] \in A
    OBVIOUS
  <2>2. h \in 1 .. n /\ h <= Pos(S, x)
    BY <1>1, <1>3, <2>1
  <2>3. Pos(S, Ordered(S)[h]) = h
    BY <1>1, <2>2
  <2> DEFINE k == Pos(A, Ordered(S)[h])
  <2>4. k \in 1 .. m /\ Ordered(A)[k] = Ordered(S)[h] /\ k <= e
    BY <1>2, <1>5, <2>1, <2>2, <2>3
  <2> HIDE DEF k, e
  <2>5. k \in 1 .. e
    BY <1>2, <1>3, <2>4
  <2>6. f[k] = h
    BY <2>3, <2>4, <2>5
  <2> QED
    BY <2>5, <2>6
<1> HIDE DEF f, T, e
<1>10. f \in Bijection(1 .. e, T)
  BY <1>7, <1>8, <1>9 DEF Bijection, Injection, Surjection, IsInjective
<1>11. Cardinality(T) = e
  BY <1>3, <1>10, FS_CountingElements DEF ExistsBijection
<1> QED
  BY <1>11 DEF T, e

\* The same for cells: the running index reaches the cell in the smaller matrix.
LEMMA CountCells ==
  ASSUME NEW S \in SUBSET Nat, IsFiniteSet(S), NEW A \in SUBSET S, IsFiniteSet(A), NEW x \in A, NEW y \in A
  PROVE  Cardinality({h \in 1 .. At(S, x, y) : From(S, h) \in A /\ To(S, h) \in A}) = At(A, x, y)
<1> DEFINE T == {h \in 1 .. At(S, x, y) : From(S, h) \in A /\ To(S, h) \in A}
           e == At(A, x, y)
           g == At(S, x, y)
           f == [k \in 1 .. e |-> At(S, From(A, k), To(A, k))]
           n == Size(S)
           m == Size(A)
<1>1. /\ n \in Nat
      /\ \A u, v \in S : At(S, u, v) \in 1 .. n /\ From(S, At(S, u, v)) = u /\ To(S, At(S, u, v)) = v
      /\ \A k \in 1 .. n : From(S, k) \in S /\ To(S, k) \in S /\ At(S, From(S, k), To(S, k)) = k
      /\ \A u, v \in S : At(S, u, v) <= g <=> u < x \/ (u = x /\ v <= y)
  BY AtFacts
<1>2. /\ m \in Nat
      /\ \A u, v \in A : At(A, u, v) \in 1 .. m /\ From(A, At(A, u, v)) = u /\ To(A, At(A, u, v)) = v
      /\ \A k \in 1 .. m : From(A, k) \in A /\ To(A, k) \in A /\ At(A, From(A, k), To(A, k)) = k
      /\ \A u, v \in A : At(A, u, v) <= e <=> u < x \/ (u = x /\ v <= y)
  BY AtFacts
<1>3. e \in 1 .. m /\ g \in 1 .. n
  BY <1>1, <1>2
<1> HIDE DEF n, m, e, g
<1>4. /\ e \in Nat /\ g \in Nat /\ (\A k \in 1 .. e : k \in 1 .. m /\ k <= e)
      /\ (\A h \in 1 .. g : h \in 1 .. n /\ h <= g)
  BY <1>1, <1>2, <1>3
<1>5. \A u, v \in A : u \in S /\ v \in S /\ (At(A, u, v) <= e <=> At(S, u, v) <= g)
  BY <1>1, <1>2
<1>6. \A k \in 1 .. e : At(S, From(A, k), To(A, k)) \in T
  <2> TAKE k \in 1 .. e
  <2> DEFINE u == From(A, k)
             v == To(A, k)
  <2>1. u \in A /\ v \in A /\ At(A, u, v) = k /\ k <= e
    BY <1>2, <1>4
  <2> HIDE DEF u, v
  <2>2. At(S, u, v) <= g /\ At(S, u, v) \in 1 .. n /\ From(S, At(S, u, v)) = u /\ To(S, At(S, u, v)) = v
    BY <1>1, <1>5, <2>1
  <2>3. At(S, u, v) \in 1 .. g
    BY <1>1, <1>4, <2>2
  <2>4. At(S, u, v) \in T
    BY <2>1, <2>2, <2>3 DEF g
  <2> QED
    BY <2>4 DEF u, v
<1>7. f \in [1 .. e -> T]
  <2> HIDE DEF T
  <2> QED
    BY <1>6
<1>8. ASSUME NEW k \in 1 .. e, NEW l \in 1 .. e, f[k] = f[l] PROVE k = l
  <2> DEFINE u == From(A, k)
             v == To(A, k)
             u2 == From(A, l)
             v2 == To(A, l)
  <2>1. At(S, u, v) = At(S, u2, v2)
    BY <1>8
  <2>2. u \in A /\ v \in A /\ At(A, u, v) = k
    BY <1>2, <1>4
  <2>3. u2 \in A /\ v2 \in A /\ At(A, u2, v2) = l
    BY <1>2, <1>4
  <2> HIDE DEF u, v, u2, v2
  <2>4. From(S, At(S, u, v)) = u /\ To(S, At(S, u, v)) = v
    BY <1>1, <2>2
  <2>5. From(S, At(S, u2, v2)) = u2 /\ To(S, At(S, u2, v2)) = v2
    BY <1>1, <2>3
  <2>6. u = u2 /\ v = v2
    BY <2>1, <2>4, <2>5
  <2> QED
    BY <2>2, <2>3, <2>6
<1>9. ASSUME NEW h \in T PROVE \E k \in 1 .. e : f[k] = h
  <2> DEFINE u == From(S, h)
             v == To(S, h)
  <2>1. h \in 1 .. g /\ u \in A /\ v \in A
    BY DEF g
  <2>2. At(S, u, v) = h /\ h <= g
    BY <1>1, <1>4, <2>1
  <2> HIDE DEF u, v
  <2> DEFINE k == At(A, u, v)
  <2>3. k \in 1 .. m /\ From(A, k) = u /\ To(A, k) = v /\ k <= e
    BY <1>2, <1>5, <2>1, <2>2
  <2> HIDE DEF k
  <2>4. k \in 1 .. e
    BY <1>2, <1>4, <2>3
  <2>5. f[k] = h
    BY <2>2, <2>3, <2>4
  <2> QED
    BY <2>4, <2>5
<1> HIDE DEF f, T
<1>10. f \in Bijection(1 .. e, T)
  BY <1>7, <1>8, <1>9 DEF Bijection, Injection, Surjection, IsInjective
<1>11. Cardinality(T) = e
  BY <1>4, <1>10, FS_CountingElements DEF ExistsBijection
<1> QED
  BY <1>11 DEF T, e

-----------------------------------------------------------------------------
(* The work of a task whose hosts are the machines of a set *)

\* A machine of the set computes what its place says.
LEMMA FlopsOf ==
  ASSUME NEW S \in SUBSET Nat, IsFiniteSet(S), NEW t, t.hosts = Ordered(S),
         t.comp \in [1 .. Cardinality(S) -> Int], NEW a
  PROVE  Flops(t, a) = IF a \in S THEN t.comp[Pos(S, a)] ELSE 0
<1> DEFINE I == {i \in 1 .. Len(t.hosts) : t.hosts[i] = a}
           n == Cardinality(S)
<1>1. Flops(t, a) = SumOver(t.comp, I)
  BY FlopsIsSum
<1>2. /\ n \in Nat /\ Len(Ordered(S)) = n
      /\ \A x \in S : Pos(S, x) \in 1 .. n /\ Ordered(S)[Pos(S, x)] = x
      /\ \A i \in 1 .. n : Ordered(S)[i] \in S /\ Pos(S, Ordered(S)[i]) = i
  BY PosFacts
<1>3. I = {i \in 1 .. n : Ordered(S)[i] = a}
  BY <1>2
<1> HIDE DEF I, n
<1>4. CASE a \in S
  <2>1. I = {Pos(S, a)}
    BY <1>2, <1>3, <1>4
  <2>2. t.comp[Pos(S, a)] \in Int
    BY <1>2, <1>4 DEF n
  <2> QED
    BY <1>1, <1>4, <2>1, <2>2, SumOfOne
<1>5. CASE a \notin S
  <2>1. I = {}
    BY <1>2, <1>3, <1>5
  <2> QED
    BY <1>1, <1>5, <2>1, SumOfNone
<1> QED
  BY <1>4, <1>5

\* A machine sends to another what their cell says.
LEMMA BytesOf ==
  ASSUME NEW S \in SUBSET Nat, IsFiniteSet(S), NEW t, t.hosts = Ordered(S),
         t.comm = << >> \/ t.comm \in [1 .. Size(S) -> Int], NEW a, NEW b
  PROVE  Bytes(t, a, b) = IF t.comm # << >> /\ a \in S /\ b \in S THEN t.comm[At(S, a, b)] ELSE 0
<1>1. CASE t.comm = << >>
  BY <1>1 DEF Bytes
<1>2. CASE t.comm # << >>
  <2> DEFINE K == CellsOf(t, a, b)
  <2>1. Bytes(t, a, b) = SumOver(t.comm, K)
    BY <1>2, BytesIsSum
  <2>2. Len(t.hosts) = Cardinality(S)
    BY PosFacts
  <2>3. K = {k \in 1 .. Size(S) : From(S, k) = a /\ To(S, k) = b}
    BY <2>2 DEF Size, From, To, RowOf, ColOf, CellsOf
  <2>4. /\ \A x, y \in S : At(S, x, y) \in 1 .. Size(S) /\ From(S, At(S, x, y)) = x /\ To(S, At(S, x, y)) = y
        /\ \A k \in 1 .. Size(S) : From(S, k) \in S /\ To(S, k) \in S /\ At(S, From(S, k), To(S, k)) = k
    BY AtFacts
  <2> HIDE DEF K
  <2>5. CASE a \in S /\ b \in S
    <3>1. K = {At(S, a, b)}
      BY <2>3, <2>4, <2>5
    <3>2. t.comm[At(S, a, b)] \in Int
      BY <1>2, <2>4, <2>5
    <3> QED
      BY <1>2, <2>1, <2>5, <3>1, <3>2, SumOfOne
  <2>6. CASE ~(a \in S /\ b \in S)
    <3>1. K = {}
      BY <2>3, <2>4, <2>6
    <3> QED
      BY <2>1, <2>6, <3>1, SumOfNone
  <2> QED
    BY <2>5, <2>6
<1> QED
  BY <1>1, <1>2

-----------------------------------------------------------------------------
(* The merge of two tasks *)

\* What the merge reads of a task on the machines A at a place and a cell of S.
Share(v, A, S, i) ==
  IF Ordered(S)[i] \in A THEN v[Cardinality({h \in 1 .. i : Ordered(S)[h] \in A})] ELSE 0

CellShare(v, A, S, k) ==
  IF From(S, k) \in A /\ To(S, k) \in A
  THEN v[Cardinality({h \in 1 .. k : From(S, h) \in A /\ To(S, h) \in A})]
  ELSE 0

\* The merge of two tasks, with its indices as cardinalities.
Merges(t, own, io, A, B, S) ==
  /\ t.hosts = Ordered(S)
  /\ io.comm # << >> \/ B = {}
  /\ t.comp = [i \in 1 .. Cardinality(S) |-> Share(own.comp, A, S, i) + Share(io.comp, B, S, i)]
  /\ t.comm = [k \in 1 .. Size(S) |->
                 (IF own.comm = << >> THEN 0 ELSE CellShare(own.comm, A, S, k))
                 + CellShare(io.comm, B, S, k)]

\* That is what the merge makes.
LEMMA MergedIs ==
  ASSUME NEW own, NEW io, NEW A, NEW B, NEW S, S = A \cup B, Len(Ordered(S)) = Cardinality(S),
         NEW t, t \in Merged(own, io, A, B)
  PROVE  Merges(t, own, io, A, B, S)
<1> DEFINE all == Ordered(S)
           n == Cardinality(S)
           JobCell(k) == own.comm # << >> /\ ReadsBoth(A, all, k)
           IoCell(k) == ReadsBoth(B, all, k)
           Comp(i) == (IF all[i] \in A THEN own.comp[Cardinality({h \in 1 .. i : all[h] \in A})] ELSE 0)
                      + (IF all[i] \in B THEN io.comp[Cardinality({h \in 1 .. i : all[h] \in B})] ELSE 0)
           Comm(k) == (IF JobCell(k) THEN own.comm[Cardinality({h \in 1 .. k : JobCell(h)})] ELSE 0)
                      + (IF IoCell(k) THEN io.comm[Cardinality({h \in 1 .. k : IoCell(h)})] ELSE 0)
<1>1. Len(all) = n
  OBVIOUS
<1>2. /\ io.comm # << >> \/ B = {}
      /\ t = [hosts |-> all, comp |-> [i \in 1 .. n |-> Comp(i)], comm |-> [k \in 1 .. n * n |-> Comm(k)]]
  BY <1>1 DEF Merged, Index
<1>3. \A i : Comp(i) = Share(own.comp, A, S, i) + Share(io.comp, B, S, i)
  BY DEF Share
<1>4. \A k : IoCell(k) = (From(S, k) \in B /\ To(S, k) \in B)
  BY <1>1 DEF ReadsBoth, From, To, RowOf, ColOf
<1>5. \A k : JobCell(k) = (own.comm # << >> /\ From(S, k) \in A /\ To(S, k) \in A)
  BY <1>1 DEF ReadsBoth, From, To, RowOf, ColOf
<1> HIDE DEF IoCell, JobCell, Comp
<1>6. \A k : Comm(k) =
               (IF own.comm = << >> THEN 0 ELSE CellShare(own.comm, A, S, k)) + CellShare(io.comm, B, S, k)
  <2> TAKE k
  <2>1. {h \in 1 .. k : IoCell(h)} = {h \in 1 .. k : From(S, h) \in B /\ To(S, h) \in B}
    BY <1>4
  <2>2. own.comm # << >> => {h \in 1 .. k : JobCell(h)} = {h \in 1 .. k : From(S, h) \in A /\ To(S, h) \in A}
    BY <1>5
  <2>3. CASE own.comm = << >>
    BY <1>4, <1>5, <2>1, <2>3 DEF CellShare
  <2>4. CASE own.comm # << >>
    BY <1>4, <1>5, <2>1, <2>2, <2>4 DEF CellShare
  <2> QED
    BY <2>3, <2>4
<1> HIDE DEF Comm, all
<1>7. t.hosts = all /\ t.comp = [i \in 1 .. n |-> Comp(i)] /\ t.comm = [k \in 1 .. n * n |-> Comm(k)]
  BY <1>2
<1> QED
  BY <1>2, <1>3, <1>6, <1>7 DEF Merges, Size, all

\* At a place, the merge reads what the task has at the place of the same machine.
LEMMA ShareIs ==
  ASSUME NEW S \in SUBSET Nat, IsFiniteSet(S), NEW A \in SUBSET S, IsFiniteSet(A), NEW v, NEW x \in S
  PROVE  Share(v, A, S, Pos(S, x)) = IF x \in A THEN v[Pos(A, x)] ELSE 0
<1>1. Ordered(S)[Pos(S, x)] = x
  BY PosFacts
<1>2. x \in A => Cardinality({h \in 1 .. Pos(S, x) : Ordered(S)[h] \in A}) = Pos(A, x)
  BY CountMachines
<1> QED
  BY <1>1, <1>2 DEF Share

\* In a cell, the merge reads what the task has in the cell of the same machines.
LEMMA CellShareIs ==
  ASSUME NEW S \in SUBSET Nat, IsFiniteSet(S), NEW A \in SUBSET S, IsFiniteSet(A), NEW v,
         NEW x \in S, NEW y \in S
  PROVE  CellShare(v, A, S, At(S, x, y)) = IF x \in A /\ y \in A THEN v[At(A, x, y)] ELSE 0
<1>1. From(S, At(S, x, y)) = x /\ To(S, At(S, x, y)) = y
  BY AtFacts
<1>2. x \in A /\ y \in A =>
        Cardinality({h \in 1 .. At(S, x, y) : From(S, h) \in A /\ To(S, h) \in A}) = At(A, x, y)
  BY CountCells
<1> QED
  BY <1>1, <1>2 DEF CellShare

\* The task of a set of machines: what it computes and sends has the right size.
Fits(t, S) ==
  /\ t.hosts = Ordered(S)
  /\ t.comp \in [1 .. Cardinality(S) -> Int]
  /\ t.comm = << >> \/ t.comm \in [1 .. Size(S) -> Int]

(***************************************************************************)
(* The task of a merge computes and sends, on and between any machines,    *)
(* the sum of what the two tasks do. The merge looks at the amounts of the *)
(* two tasks (own0, io0), and not at their hosts.                          *)
(***************************************************************************)
LEMMA MergedWork ==
  ASSUME NEW A \in SUBSET Nat, IsFiniteSet(A), NEW B \in SUBSET Nat, IsFiniteSet(B),
         NEW own, Fits(own, A), NEW io, Fits(io, B),
         NEW own0, own0.comp = own.comp, own0.comm = own.comm,
         NEW io0, io0.comp = io.comp, io0.comm = io.comm,
         NEW t, t \in Merged(own0, io0, A, B), NEW a, NEW b
  PROVE  /\ Flops(t, a) = Flops(own, a) + Flops(io, a)
         /\ Bytes(t, a, b) = Bytes(own, a, b) + Bytes(io, a, b)
<1> DEFINE S == A \cup B
           n == Cardinality(S)
           Sent(k) == (IF own.comm = << >> THEN 0 ELSE CellShare(own.comm, A, S, k))
                      + CellShare(io.comm, B, S, k)
           Done(i) == Share(own.comp, A, S, i) + Share(io.comp, B, S, i)
<1>1. S \in SUBSET Nat /\ IsFiniteSet(S) /\ A \in SUBSET S /\ B \in SUBSET S
  BY FS_Union
<1>2. Len(Ordered(S)) = Cardinality(S)
  BY <1>1, PosFacts
<1>3. /\ t.hosts = Ordered(S)
      /\ io.comm # << >> \/ B = {}
      /\ t.comp = [i \in 1 .. n |-> Done(i)]
      /\ t.comm = [k \in 1 .. Size(S) |-> Sent(k)]
  <2>1. S = A \cup B
    OBVIOUS
  <2> HIDE DEF S
  <2>2. Merges(t, own0, io0, A, B, S)
    BY <1>2, <2>1, MergedIs
  <2> QED
    BY <2>2 DEF Merges
<1> HIDE DEF S
<1>4. /\ \A x \in A : Pos(A, x) \in 1 .. Cardinality(A) /\ own.comp[Pos(A, x)] \in Int
      /\ \A x \in B : Pos(B, x) \in 1 .. Cardinality(B) /\ io.comp[Pos(B, x)] \in Int
  BY PosFacts DEF Fits
<1>5. /\ \A x, y \in A : own.comm # << >> => own.comm[At(A, x, y)] \in Int
      /\ \A x, y \in B : io.comm # << >> /\ io.comm[At(B, x, y)] \in Int
  <2>1. \A x, y \in A : At(A, x, y) \in 1 .. Size(A)
    BY AtFacts
  <2>2. \A x, y \in B : At(B, x, y) \in 1 .. Size(B)
    BY AtFacts
  <2> QED
    BY <1>3, <2>1, <2>2 DEF Fits
<1>6. \A x \in S : Done(Pos(S, x)) = (IF x \in A THEN own.comp[Pos(A, x)] ELSE 0)
                                      + (IF x \in B THEN io.comp[Pos(B, x)] ELSE 0)
  BY <1>1, ShareIs
<1>7. \A x, y \in S : Sent(At(S, x, y)) =
                        (IF own.comm # << >> /\ x \in A /\ y \in A THEN own.comm[At(A, x, y)] ELSE 0)
                        + (IF x \in B /\ y \in B THEN io.comm[At(B, x, y)] ELSE 0)
  <2> TAKE x, y \in S
  <2>1. /\ CellShare(own.comm, A, S, At(S, x, y)) = IF x \in A /\ y \in A THEN own.comm[At(A, x, y)] ELSE 0
        /\ CellShare(io.comm, B, S, At(S, x, y)) = IF x \in B /\ y \in B THEN io.comm[At(B, x, y)] ELSE 0
    BY <1>1, CellShareIs
  <2> QED
    BY <2>1
<1> HIDE DEF Done, Sent
<1>8. /\ n \in Nat
      /\ \A x \in S : Pos(S, x) \in 1 .. n
      /\ \A i \in 1 .. n : Ordered(S)[i] \in S /\ Pos(S, Ordered(S)[i]) = i
  BY <1>1, PosFacts
<1>9. /\ Size(S) \in Nat
      /\ \A x, y \in S : At(S, x, y) \in 1 .. Size(S)
      /\ \A k \in 1 .. Size(S) : From(S, k) \in S /\ To(S, k) \in S /\ At(S, From(S, k), To(S, k)) = k
  BY <1>1, AtFacts
<1> HIDE DEF n
<1>10. \A x \in S : Done(Pos(S, x)) \in Int
  <2> TAKE x \in S
  <2> DEFINE p == IF x \in A THEN own.comp[Pos(A, x)] ELSE 0
             q == IF x \in B THEN io.comp[Pos(B, x)] ELSE 0
  <2>1. p \in Int /\ q \in Int
    <3>1. 0 \in Int
      OBVIOUS
    <3> QED
      BY <1>4, <3>1, Zenon
  <2>2. Done(Pos(S, x)) = p + q
    BY <1>6
  <2> HIDE DEF p, q
  <2> QED
    BY <2>1, <2>2
<1>11. \A x, y \in S : Sent(At(S, x, y)) \in Int
  <2> TAKE x, y \in S
  <2> DEFINE p == IF own.comm # << >> /\ x \in A /\ y \in A THEN own.comm[At(A, x, y)] ELSE 0
             q == IF x \in B /\ y \in B THEN io.comm[At(B, x, y)] ELSE 0
  <2>1. p \in Int /\ q \in Int
    <3>1. 0 \in Int
      OBVIOUS
    <3> QED
      BY <1>5, <3>1, Zenon
  <2>2. Sent(At(S, x, y)) = p + q
    BY <1>7
  <2> HIDE DEF p, q
  <2> QED
    BY <2>1, <2>2
<1>12. \A i \in 1 .. n : Done(i) \in Int
  <2> TAKE i \in 1 .. n
  <2>1. Ordered(S)[i] \in S /\ Pos(S, Ordered(S)[i]) = i
    BY <1>8
  <2> QED
    BY <1>10, <2>1
<1>13. \A k \in 1 .. Size(S) : Sent(k) \in Int
  <2> TAKE k \in 1 .. Size(S)
  <2>1. From(S, k) \in S /\ To(S, k) \in S /\ At(S, From(S, k), To(S, k)) = k
    BY <1>9
  <2> QED
    BY <1>11, <2>1
<1>14. t.comp \in [1 .. Cardinality(S) -> Int] /\ t.comm \in [1 .. Size(S) -> Int]
  BY <1>3, <1>12, <1>13 DEF n
<1>15. Flops(t, a) = IF a \in S THEN t.comp[Pos(S, a)] ELSE 0
  <2>1. t.hosts = Ordered(S)
    BY <1>3
  <2> QED
    BY <1>1, <1>14, <2>1, FlopsOf, Zenon
<1>16. /\ Flops(own, a) = IF a \in A THEN own.comp[Pos(A, a)] ELSE 0
       /\ Flops(io, a) = IF a \in B THEN io.comp[Pos(B, a)] ELSE 0
  BY FlopsOf DEF Fits
<1>17. a \in S <=> a \in A \/ a \in B
  BY DEF S
<1>18. Flops(t, a) = Flops(own, a) + Flops(io, a)
  <2>1. CASE a \in S
    <3>1. t.comp[Pos(S, a)] = Done(Pos(S, a))
      BY <1>3, <1>8, <2>1
    <3> QED
      BY <1>6, <1>15, <1>16, <2>1, <3>1
  <2>2. CASE a \notin S
    BY <1>15, <1>16, <1>17, <2>2
  <2> QED
    BY <2>1, <2>2
<1>19. Bytes(t, a, b) = IF t.comm # << >> /\ a \in S /\ b \in S THEN t.comm[At(S, a, b)] ELSE 0
  <2>1. t.hosts = Ordered(S)
    BY <1>3
  <2>2. t.comm = << >> \/ t.comm \in [1 .. Size(S) -> Int]
    BY <1>14
  <2> QED
    BY <1>1, <2>1, <2>2, BytesOf, SMT
<1>20. /\ Bytes(own, a, b) = IF own.comm # << >> /\ a \in A /\ b \in A THEN own.comm[At(A, a, b)] ELSE 0
       /\ Bytes(io, a, b) = IF io.comm # << >> /\ a \in B /\ b \in B THEN io.comm[At(B, a, b)] ELSE 0
  BY BytesOf DEF Fits
<1>21. b \in S <=> b \in A \/ b \in B
  BY DEF S
<1>22. Bytes(t, a, b) = Bytes(own, a, b) + Bytes(io, a, b)
  <2>1. CASE a \in S /\ b \in S
    <3>1. At(S, a, b) \in 1 .. Size(S)
      BY <1>9, <2>1
    <3>2. t.comm # << >>
      BY <1>3, <1>9, <3>1
    <3>3. t.comm[At(S, a, b)] = Sent(At(S, a, b))
      BY <1>3, <3>1
    <3> QED
      BY <1>5, <1>7, <1>19, <1>20, <2>1, <3>2, <3>3
  <2>2. CASE ~(a \in S /\ b \in S)
    <3>1. ~(a \in A /\ b \in A) /\ ~(a \in B /\ b \in B)
      BY <1>17, <1>21, <2>2
    <3> QED
      BY <1>19, <1>20, <2>2, <3>1
  <2> QED
    BY <2>1, <2>2
<1> QED
  BY <1>18, <1>22

-----------------------------------------------------------------------------
(* The tasks of a job and of its IO profile *)

\* The amounts of a task for n hosts.
Sized(t, n) ==
  /\ t.comp \in [1 .. n -> Int]
  /\ t.comm = << >> \/ t.comm \in [1 .. n * n -> Int]

\* The same amounts for every host.
LEMMA HomogeneousSized ==
  ASSUME NEW hosts, NEW n \in Nat, Len(hosts) = n, NEW cpu, NEW com, n > 0 => cpu \in Int /\ com \in Int,
         NEW t, t = Homogeneous(cpu, com, hosts)
  PROVE  t.hosts = hosts /\ Sized(t, n)
<1> DEFINE M == [k \in 1 .. n * n |-> IF ((k - 1) \div n) + 1 = ((k - 1) % n) + 1 THEN 0 ELSE com]
           c == [i \in 1 .. n |-> cpu]
<1>1. t = [hosts |-> hosts, comp |-> c, comm |-> IF com > 0 THEN M ELSE << >>]
  BY DEF Homogeneous, Matrix
<1>2. c \in [1 .. n -> Int]
  <2>1. \A i \in 1 .. n : cpu \in Int
    OBVIOUS
  <2> QED
    BY <2>1
<1>3. M \in [1 .. n * n -> Int]
  <2>1. n = 0 => n * n = 0
    OBVIOUS
  <2>2. \A k \in 1 .. n * n : com \in Int
    BY <2>1
  <2>3. \A k \in 1 .. n * n : (IF ((k - 1) \div n) + 1 = ((k - 1) % n) + 1 THEN 0 ELSE com) \in Int
    BY <2>2
  <2> QED
    BY <2>3
<1> HIDE DEF M, c
<1> QED
  BY <1>1, <1>2, <1>3 DEF Sized

\* What generate_matrices_from_profile makes of a profile, and of an IO profile.
JobMade(p, hosts, mapping) == generate_matrices_from_profile(Def[p], hosts, mapping, FALSE)
IoMade(p, hosts, mapping) == generate_matrices_from_profile(Def[p], hosts, mapping, TRUE)

\* What generate_matrices_from_profile makes for hosts that are those it is given: all
\* its results have the same amounts, of the right size.
LEMMA GeneratedSized ==
  ASSUME NEW p \in Profile, NEW hosts \in Seq(Nat), NEW mapping, NEW G,
         G = JobMade(p, hosts, mapping) \/ G = IoMade(p, hosts, mapping),
         NEW t \in G, t.hosts = hosts, NEW u \in G
  PROVE  Sized(t, Len(hosts)) /\ u.comp = t.comp /\ u.comm = t.comm
<1> DEFINE d == Def[p]
           n == Len(hosts)
<1>1. n \in Nat
  OBVIOUS
<1>2. CASE d.type = "PARALLEL"
  <2>1. t = [hosts |-> hosts, comp |-> d.cpu, comm |-> d.com] /\ u = t /\ n = Len(d.cpu)
    BY <1>2 DEF JobMade, IoMade, generate_matrices_from_profile, generate_parallel_task
  <2>2. d.cpu \in Seq(Int) /\ d.com \in Seq(Int)
    BY <1>2, ProfilesAreTyped
  <2>3. Len(d.com) = n * n
    BY <1>2, <2>1, ProfilesAreValid DEF Valid, ValidParallel
  <2>4. d.cpu \in [1 .. n -> Int] /\ d.com \in [1 .. n * n -> Int]
    BY <2>1, <2>2, <2>3
  <2> HIDE DEF d, n
  <2> QED
    BY <2>1, <2>4 DEF Sized, n
<1>3. CASE d.type = "PARALLEL_HOMOGENEOUS"
  <2>1. t = Homogeneous(d.cpu, d.com, hosts) /\ u = t
    BY <1>3 DEF JobMade, IoMade, generate_matrices_from_profile, generate_parallel_homogeneous
  <2>2. d.cpu \in Int /\ d.com \in Int
    BY <1>3, ProfilesAreTyped
  <2> HIDE DEF d
  <2> QED
    BY <1>1, <2>1, <2>2, HomogeneousSized
<1>4. CASE d.type = "PARALLEL_HOMOGENEOUS_TOTAL_AMOUNT"
  <2>1. t = Homogeneous(d.cpu \div n, d.com \div n, hosts) /\ u = t
    BY <1>4 DEF JobMade, IoMade, generate_matrices_from_profile, generate_parallel_homogeneous_total_amount
  <2>2. d.cpu \in Int /\ d.com \in Int
    BY <1>4, ProfilesAreTyped
  <2> HIDE DEF d, n
  <2>3. n > 0 => d.cpu \div n \in Int /\ d.com \div n \in Int
    BY <1>1, <2>2
  <2>4. Len(hosts) = n
    BY DEF n
  <2> DEFINE c == d.cpu \div n
             m == d.com \div n
  <2>5. (n > 0 => c \in Int /\ m \in Int) /\ t = Homogeneous(c, m, hosts)
    BY <2>1, <2>3
  <2> HIDE DEF c, m
  <2>6. Sized(t, n)
    BY <1>1, <2>4, <2>5, HomogeneousSized
  <2> QED
    BY <2>1, <2>4, <2>6
<1>5. CASE d.type = "PARALLEL_HOMOGENEOUS_PFS"
  <2>1. \E pfs : t.hosts = Append(hosts, pfs)
    <3>1. t \in generate_parallel_homogeneous_with_pfs(d, hosts, mapping)
      BY <1>5 DEF JobMade, IoMade, generate_matrices_from_profile
    <3> HIDE DEF d
    <3>2. PICK pfs, comp, comm :
            t = [hosts |-> Append(hosts, pfs), comp |-> comp, comm |-> comm]
      BY <3>1, Zenon DEF generate_parallel_homogeneous_with_pfs
    <3> QED
      BY <3>2
  <2>2. \A pfs : Len(Append(hosts, pfs)) = Len(hosts) + 1
    OBVIOUS
  <2>3. Len(hosts) = Len(hosts) + 1
    BY <2>1, <2>2
  <2> QED
    BY <2>3
<1>6. CASE d.type = "DATA_STAGING"
  <2> DEFINE c == IF d.nb_bytes > 0 THEN <<0, d.nb_bytes, 0, 0>> ELSE << >>
  <2>1. /\ \E from, to : t = [hosts |-> <<from, to>>, comp |-> <<0, 0>>, comm |-> c]
        /\ \E from, to : u = [hosts |-> <<from, to>>, comp |-> <<0, 0>>, comm |-> c]
    BY <1>6 DEF JobMade, IoMade, generate_matrices_from_profile, generate_data_staging_task
  <2>2. d.nb_bytes \in Int
    BY <1>6, ProfilesAreTyped
  <2>3. c = << >> \/ c \in [1 .. 2 * 2 -> Int]
    BY <2>2
  <2> HIDE DEF c
  <2>4. t.comp = <<0, 0>> /\ t.comm = c /\ u.comp = <<0, 0>> /\ u.comm = c /\ \E from, to : hosts = <<from, to>>
    BY <2>1
  <2>5. n = 2
    BY <2>4
  <2>6. <<0, 0>> \in [1 .. 2 -> Int]
    OBVIOUS
  <2> HIDE DEF n
  <2> QED
    BY <2>3, <2>4, <2>5, <2>6 DEF Sized, n
<1>7. CASE d.type \notin ParallelTypes
  BY <1>7 DEF JobMade, IoMade, generate_matrices_from_profile, ParallelTypes
<1> QED
  BY <1>2, <1>3, <1>4, <1>5, <1>6, <1>7 DEF ParallelTypes

\* The IO task has the hosts it was given.
LEMMA IoHostsKept ==
  ASSUME NEW p, NEW hosts, NEW mapping, NEW t \in IoMade(p, hosts, mapping)
  PROVE  t.hosts = hosts /\ \E comp, comm : t = [hosts |-> hosts, comp |-> comp, comm |-> comm]
<1>1. \/ t \in generate_parallel_task(Def[p], hosts)
      \/ t \in generate_parallel_homogeneous(Def[p], hosts)
      \/ t \in generate_parallel_homogeneous_total_amount(Def[p], hosts)
  BY DEF JobMade, IoMade, generate_matrices_from_profile
<1>2. \A cpu, com : \E comp, comm :
        Homogeneous(cpu, com, hosts) = [hosts |-> hosts, comp |-> comp, comm |-> comm]
  BY Zenon DEF Homogeneous
<1>3. \E comp, comm : t = [hosts |-> hosts, comp |-> comp, comm |-> comm]
  <2>1. CASE t \in generate_parallel_task(Def[p], hosts)
    <3>1. t = [hosts |-> hosts, comp |-> Def[p].cpu, comm |-> Def[p].com]
      BY <2>1 DEF generate_parallel_task
    <3> QED
      BY <3>1, Zenon
  <2>2. CASE t \in generate_parallel_homogeneous(Def[p], hosts)
    BY <1>2, <2>2, Zenon DEF generate_parallel_homogeneous
  <2>3. CASE t \in generate_parallel_homogeneous_total_amount(Def[p], hosts)
    BY <1>2, <2>3, Zenon DEF generate_parallel_homogeneous_total_amount
  <2> QED
    BY <1>1, <2>1, <2>2, <2>3
<1>4. t.hosts = hosts
  BY <1>3
<1> QED
  BY <1>3, <1>4, Zenon

\* All the IO tasks of a profile have the same amounts, of the right size.
LEMMA IoSized ==
  ASSUME NEW p \in Profile, NEW hosts \in Seq(Nat), NEW mapping,
         NEW t \in IoMade(p, hosts, mapping), NEW u \in IoMade(p, hosts, mapping)
  PROVE  Sized(t, Len(hosts)) /\ u.comp = t.comp /\ u.comm = t.comm
<1> DEFINE G == IoMade(p, hosts, mapping)
<1>1. (G = JobMade(p, hosts, mapping) \/ G = IoMade(p, hosts, mapping)) /\ t \in G /\ u \in G
  OBVIOUS
<1>2. t.hosts = hosts
  BY IoHostsKept
<1> HIDE DEF G
<1> QED
  BY <1>1, <1>2, GeneratedSized

-----------------------------------------------------------------------------
(* The task given to SimGrid *)

\* The last task with an IO task was merged from a task of its profile and one of its
\* IO profile, on the allocations of the job.
MergeInv ==
  ptask.io # None =>
    /\ ptask.p \in Profile /\ ptask.io \in Profile
    /\ \E own \in JobTask(ptask.p), io \in IoTask(ptask.io) :
         ptask.task \in Merged(own, io, job.alloc, job.io_alloc)

\* Only the start of a parallel task gives one to SimGrid.
LEMMA MergeSteps == ASSUME Inv, MergeInv, [Next]_vars PROVE MergeInv'
<1>1. CASE UNCHANGED <<ptask, job>>
  <2>1. MergeInv' = MergeInv
    BY <1>1 DEF MergeInv, JobTask, IoTask, JobHosts, IoHosts
  <2> QED
    BY <2>1
<1>2. ASSUME StartParallelTask, ~UNCHANGED ptask PROVE MergeInv'
  <2>1. ~Abort
    BY <1>2 DEF Abort
  <2>2. PICK own \in JobTask(Top.p), whole \in TasksToRun(Top) :
          ptask' = [task |-> whole, p |-> Top.p, io |-> Top.io] /\ UNCHANGED outside
    BY <1>2, <2>1 DEF StartParallelTask
  <2>3. Top \in Frame
    <3>1. Calling
      BY <1>2 DEF StartParallelTask
    <3> QED
      BY <3>1, TopFrame DEF Calling, Running, Inv, TimeInv
  <2>4. Top.p \in Profile /\ Top.io \in Profile \cup {None}
    BY <2>3 DEF Frame
  <2>5. ptask'.task = whole /\ ptask'.p = Top.p /\ ptask'.io = Top.io /\ UNCHANGED job
    BY <2>2 DEF outside
  <2>6. \A p : JobTask(p)' = JobTask(p) /\ IoTask(p)' = IoTask(p)
    BY <2>5 DEF JobTask, IoTask, JobHosts, IoHosts
  <2>7. Top.io # None => \E j \in JobTask(Top.p), i \in IoTask(Top.io) :
                           whole \in Merged(j, i, job.alloc, job.io_alloc)
    BY <2>2 DEF TasksToRun
  <2> DEFINE p == Top.p
             io == Top.io
  <2>8. PICK q : q = p
    OBVIOUS
  <2>9. PICK r : r = io
    OBVIOUS
  <2>10. ptask'.p = q /\ ptask'.io = r /\ q \in Profile /\ (r # None => r \in Profile)
    BY <2>4, <2>5, <2>8, <2>9
  <2>11. r # None => \E j \in JobTask(q)', i \in IoTask(r)' :
                       ptask'.task \in Merged(j, i, job'.alloc, job'.io_alloc)
    BY <2>5, <2>6, <2>7, <2>8, <2>9
  <2> QED
    BY <2>10, <2>11 DEF MergeInv
<1>3. Next => UNCHANGED <<ptask, job>> \/ (StartParallelTask /\ ~UNCHANGED ptask)
  <2> SUFFICES ASSUME Next PROVE UNCHANGED <<ptask, job>> \/ (StartParallelTask /\ UNCHANGED job)
    OBVIOUS
  <2>1. StartParallelTask => UNCHANGED job
    BY DEF StartParallelTask, Abort, outside
  <2>2. ASSUME NEW why, ParallelTaskEnds(why) PROVE UNCHANGED <<ptask, job>>
    BY <2>2 DEF ParallelTaskEnds, outside
  <2>3. SequenceStep => UNCHANGED <<ptask, job>>
    BY DEF SequenceStep, Abort, outside
  <2>4. DelayStarts \/ SendStarts \/ ServerReceives \/ SleepEnds => UNCHANGED <<ptask, job>>
    BY DEF DelayStarts, SendStarts, ServerReceives, SleepEnds, outside, Abort
  <2>5. RecvStarts \/ Poll \/ RecvReturns => UNCHANGED <<ptask, job>>
    BY DEF RecvStarts, Poll, RecvReturns, outside, Abort
  <2>6. ReplayStarts \/ ReplayTimesOut \/ JobEnds \/ Tick => UNCHANGED <<ptask, job>>
    BY DEF ReplayStarts, ReplayTimesOut, JobEnds, Tick, outside, Abort
  <2>7. ASSUME NEW r, RankReports(r) PROVE UNCHANGED <<ptask, job>>
    BY <2>7 DEF RankReports, outside, Abort
  <2>8. killer_process => UNCHANGED <<ptask, job>>
    BY DEF killer_process, outside, Abort
  <2>9. ASSUME NEW text, ToJobMsg(text) PROVE UNCHANGED <<ptask, job>>
    BY <2>9 DEF ToJobMsg, outside
  <2> QED
    BY <2>1, <2>2, <2>3, <2>4, <2>5, <2>6, <2>7, <2>8, <2>9 DEF Next, JobStep
<1>4. UNCHANGED vars => UNCHANGED <<ptask, job>>
  BY DEF vars
<1> QED
  BY <1>1, <1>2, <1>3, <1>4

\* A task made by a merge does the work of both.
LEMMA MergeConserves == ASSUME Inv, MergeInv PROVE WorkIsConserved
<1> SUFFICES ASSUME ptask.io # None, job.mapping = << >>,
                    NEW own \in JobTask(ptask.p), NEW unplaced \in IoTask(ptask.io),
                    own.hosts = JobHosts, NEW a \in Machine, NEW b \in Machine
             PROVE  LET io == [unplaced EXCEPT !.hosts = Ordered(job.io_alloc)] IN
                    /\ Flops(ptask.task, a) = Flops(own, a) + Flops(io, a)
                    /\ Bytes(ptask.task, a, b) = Bytes(own, a, b) + Bytes(io, a, b)
  BY DEF WorkIsConserved
<1> DEFINE A == job.alloc
           B == job.io_alloc
           io == [unplaced EXCEPT !.hosts = Ordered(B)]
<1>1. A \in SUBSET Nat /\ IsFiniteSet(A) /\ B \in SUBSET Nat /\ IsFiniteSet(B)
  BY JobsAreValid, MachinesAreNumbered DEF Inv, Types
<1>2. /\ ptask.p \in Profile /\ ptask.io \in Profile
      /\ \E j \in JobTask(ptask.p), i \in IoTask(ptask.io) : ptask.task \in Merged(j, i, A, B)
  BY DEF MergeInv
<1>3. PICK own0 \in JobTask(ptask.p), io0 \in IoTask(ptask.io) : ptask.task \in Merged(own0, io0, A, B)
  BY <1>2
<1>4. JobHosts = Ordered(A)
  BY DEF JobHosts
<1>5. Ordered(A) \in Seq(Nat) /\ Len(Ordered(A)) = Cardinality(A) /\ Cardinality(A) \in Nat
  <2>1. Lists(Ordered(A), A) /\ Len(Ordered(A)) = Cardinality(A) /\ Cardinality(A) \in Nat
    BY <1>1, OrderedFacts
  <2>2. Ordered(A) \in [1 .. Cardinality(A) -> A]
    BY <2>1 DEF Lists
  <2> HIDE DEF A
  <2>3. Ordered(A) \in [1 .. Cardinality(A) -> Nat]
    BY <1>1, <2>2
  <2> QED
    BY <2>1, <2>3
<1>6. IoHosts \in Seq(Nat) /\ Len(IoHosts) = Cardinality(B) /\ Cardinality(B) \in Nat
  <2>1. Cardinality(B) \in Nat
    BY <1>1, FS_CardinalityType
  <2> QED
    BY <2>1 DEF IoHosts
<1> HIDE DEF A, B
<1>7. Sized(own, Cardinality(A)) /\ own0.comp = own.comp /\ own0.comm = own.comm
  <2>1. JobHosts \in Seq(Nat) /\ Len(JobHosts) = Cardinality(A)
    BY <1>4, <1>5
  <2>2. JobTask(ptask.p) = JobMade(ptask.p, JobHosts, job.storage_mapping)
    BY DEF JobTask, JobMade
  <2> QED
    BY <1>2, <1>3, <2>1, <2>2, GeneratedSized
<1>8. IoTask(ptask.io) = IoMade(ptask.io, IoHosts, {})
  BY DEF IoTask, IoMade
<1>9. unplaced.hosts = IoHosts /\ \E comp, comm : unplaced = [hosts |-> IoHosts, comp |-> comp, comm |-> comm]
  BY <1>8, IoHostsKept
<1>10. Sized(unplaced, Cardinality(B)) /\ io0.comp = unplaced.comp /\ io0.comm = unplaced.comm
  <2>1. unplaced \in IoMade(ptask.io, IoHosts, {}) /\ io0 \in IoMade(ptask.io, IoHosts, {})
    BY <1>8
  <2> HIDE DEF io
  <2> QED
    BY <1>2, <1>6, <2>1, IoSized
<1>11. io.hosts = Ordered(B) /\ io.comp = unplaced.comp /\ io.comm = unplaced.comm
  BY <1>9
<1> HIDE DEF io
<1>12. Fits(own, A) /\ Fits(io, B)
  BY <1>4, <1>7, <1>10, <1>11 DEF Fits, Sized, Size
<1>13. /\ Flops(ptask.task, a) = Flops(own, a) + Flops(io, a)
       /\ Bytes(ptask.task, a, b) = Bytes(own, a, b) + Bytes(io, a, b)
  BY <1>1, <1>3, <1>7, <1>10, <1>11, <1>12, MergedWork
<1> QED
  BY <1>13 DEF io, B

(***************************************************************************)
(* Of every job without a mapping of its executors whose profile adds no   *)
(* host, the task given to SimGrid does the work of the job's task and of  *)
(* its IO task, on each machine and between each two machines, whatever    *)
(* the two allocations share: the running indices with which               *)
(* execute_parallel_task walks both matrices always find the right cell.   *)
(***************************************************************************)
THEOREM MergeKeepsWork == Spec => []WorkIsConserved
<1>1. Spec => []Inv
  BY TaskInvHolds
<1>2. Init => MergeInv
  BY DEF Init, MergeInv, NoTask
<1>3. Inv /\ MergeInv /\ [Next]_vars => MergeInv'
  BY MergeSteps
<1>4. Inv /\ MergeInv => WorkIsConserved
  BY MergeConserves
<1> QED
  BY <1>1, <1>2, <1>3, <1>4, PTL DEF Spec
=============================================================================
