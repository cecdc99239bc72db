--------------------------- MODULE ResourceManager ---------------------------
(***************************************************************************)
(* What Batsim is for the scheduler: a resource manager. Jobs appear, run  *)
(* where the scheduler puts them and end, alone or because it killed them; *)
(* the scheduler is told of a job after it appeared and of its end after   *)
(* it ended, some time later. There are no actors, messages or counters    *)
(* here: Batsim implements this specification (ImplementsResourceManager). *)
(***************************************************************************)
EXTENDS FiniteSets

CONSTANTS
  Job,      \* all jobs
  Given,    \* the jobs of the workload files
  Machine,  \* the machines
  Sharing   \* may machines compute several jobs?

VARIABLES
  life,   \* what has happened to each job
  holds,  \* the machines on which it computes
  view,   \* what the scheduler knows of it
  kills,  \* the jobs the scheduler asked to kill
  over    \* the scheduler has been told that the simulation ends

rmVars == <<life, holds, view, kills, over>>

Over == {"ended", "killed", "rejected"}

RMInit ==
  /\ life = [j \in Job |-> "none"]
  /\ holds = [j \in Job |-> {}]
  /\ view = [j \in Job |-> "unknown"]
  /\ kills = {}
  /\ over = FALSE

\* The life of the jobs in S becomes what; their machines become M.
Become(S, what, M) ==
  /\ life' = [j \in Job |-> IF j \in S THEN what ELSE life[j]]
  /\ holds' = [j \in Job |-> IF j \in S THEN M ELSE holds[j]]

\* Jobs of the workload appear.
Appear(S) ==
  /\ \A j \in S : life[j] = "none"
  /\ Become(S, "queued", {})
  /\ UNCHANGED <<view, kills, over>>

\* The scheduler registers a job, of which it may ask to be told.
Register(j, known) ==
  /\ j \notin Given
  /\ life[j] = "none"
  /\ Become({j}, "queued", {})
  /\ view' = [view EXCEPT ![j] = known]
  /\ UNCHANGED <<kills, over>>

\* The scheduler decides on a job it knows of.
Order(j, what) ==
  /\ view[j] = "waiting"
  /\ view' = [view EXCEPT ![j] = what]
  /\ UNCHANGED <<life, holds, kills, over>>

AskKill(S) ==
  /\ \A j \in S : view[j] = "running"
  /\ kills' = kills \cup S
  /\ UNCHANGED <<life, holds, view, over>>

\* Its order is carried out: the job runs, or is rejected. It computes later.
Obey(j) ==
  /\ life[j] = "queued"
  /\ \/ view[j] = "running" /\ Become({j}, "running", {})
     \/ view[j] = "done" /\ Become({j}, "rejected", {})
  /\ UNCHANGED <<view, kills, over>>

Compute(j, M) ==
  /\ life[j] = "running"
  /\ holds[j] = {}
  /\ Sharing \/ \A k \in Job \ {j} : holds[k] \cap M = {}
  /\ Become({j}, "running", M)
  /\ UNCHANGED <<view, kills, over>>

\* Jobs end, alone or because the scheduler asked for it.
End(S, how) ==
  /\ \A j \in S : life[j] = "running" /\ holds[j] # {}
  /\ how = "killed" => S \subseteq kills
  /\ Become(S, how, {})
  /\ UNCHANGED <<view, kills, over>>

\* The scheduler is told that the jobs in S have appeared, and those in D ended.
Tell(S, D) ==
  /\ \A j \in S : view[j] = "unknown" /\ life[j] = "queued"
  /\ \A j \in D : view[j] = "running" /\ life[j] \in {"ended", "killed"}
  /\ view' = [j \in Job |-> IF j \in D THEN "done" ELSE IF j \in S THEN "waiting" ELSE view[j]]
  /\ UNCHANGED <<life, holds, kills, over>>

Finish ==
  /\ \A j \in Job : \/ view[j] = "done" /\ life[j] \in Over
                    \/ j \notin Given /\ life[j] = "none"
  /\ over' = TRUE
  /\ UNCHANGED <<life, holds, view, kills>>

\* Nothing happens once the simulation is over.
RMNext ==
  /\ ~over
  /\ \/ \E S \in SUBSET Given : Appear(S)
     \/ \E j \in Job : Register(j, "unknown") \/ Register(j, "waiting")
     \/ \E j \in Job : Order(j, "running") \/ Order(j, "done")
     \/ \E S \in SUBSET Job : AskKill(S)
     \/ \E j \in Job : Obey(j)
     \/ \E j \in Job, M \in SUBSET Machine : Compute(j, M)
     \/ \E S \in SUBSET Job : End(S, "ended") \/ End(S, "killed")
     \/ \E S, D \in SUBSET Job : Tell(S, D)
     \/ Finish

RMSpec == RMInit /\ [][RMNext]_rmVars
=============================================================================
