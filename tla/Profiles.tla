------------------------------ MODULE Profiles ------------------------------
(***************************************************************************)
(* The profiles of profiles.cpp: what Profile::from_json accepts, the kind *)
(* of each profile and the other profiles it names. A profile is a record  *)
(* with its type, its return code and the data of its type; in a receive   *)
(* profile the name "none" stands for an empty branch. Fields of the wrong *)
(* JSON type are rejected by the parser and do not appear here.            *)
(***************************************************************************)
EXTENDS Integers, Sequences, FiniteSets

CONSTANTS
  Profile,    \* profile names
  Def         \* Def[p], the description of profile p

None == "none"

ParallelTypes ==
  {"PARALLEL", "PARALLEL_HOMOGENEOUS", "PARALLEL_HOMOGENEOUS_TOTAL_AMOUNT",
   "PARALLEL_HOMOGENEOUS_PFS", "DATA_STAGING"}

ReplayTypes == {"SMPI", "USAGE_TRACE"}

IsParallel(p) == Def[p].type \in ParallelTypes

IsReplay(p) == Def[p].type \in ReplayTypes

IsSequence(p) == Def[p].type = "SEQUENCE"

\* The names in the sequence of a composed profile, and in the branches of a
\* receive profile.
Parts(p) == IF IsSequence(p) THEN {Def[p].seq[i] : i \in 1 .. Len(Def[p].seq)} ELSE {}

Branches(p) ==
  IF Def[p].type = "SCHEDULER_RECV"
  THEN {Def[p].on_success, Def[p].on_failure, Def[p].on_timeout} \ {None}
  ELSE {}

-----------------------------------------------------------------------------
(* The checks of Profile::from_json, by type. *)

ValidDelay(d) == d.delay > 0

ValidParallel(d) ==
  /\ d.cpu # << >>
  /\ \A i \in 1 .. Len(d.cpu) : d.cpu[i] >= 0
  /\ Len(d.com) = Len(d.cpu) * Len(d.cpu)
  /\ \A i \in 1 .. Len(d.com) : d.com[i] >= 0

ValidHomogeneous(d) == d.cpu >= 0 /\ d.com >= 0

ValidSequence(d) == d.repeat > 0 /\ d.seq # << >>

ValidStaging(d) == d.nb_bytes >= 0

ValidSend(d) == d.sleeptime > 0

ValidRecv(d) == d.polltime > 0

\* A profile of any other type is read as a replay. Its traces are read from the
\* directory of the workload's file: the scheduler cannot register one.
ValidReplay(d, fromFile) == fromFile

Valid(d, fromFile) ==
  CASE d.type = "DELAY"                    -> ValidDelay(d)
    [] d.type = "PARALLEL"                 -> ValidParallel(d)
    [] d.type \in {"PARALLEL_HOMOGENEOUS",
                   "PARALLEL_HOMOGENEOUS_TOTAL_AMOUNT"} -> ValidHomogeneous(d)
    [] d.type = "PARALLEL_HOMOGENEOUS_PFS" -> TRUE
    [] d.type = "SEQUENCE"                 -> ValidSequence(d)
    [] d.type = "DATA_STAGING"             -> ValidStaging(d)
    [] d.type = "SCHEDULER_SEND"           -> ValidSend(d)
    [] d.type = "SCHEDULER_RECV"           -> ValidRecv(d)
    [] OTHER                               -> ValidReplay(d, fromFile)
=============================================================================
