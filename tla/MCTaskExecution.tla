-------------------------- MODULE MCTaskExecution --------------------------
(* Instances of TaskExecution: machines 0 to 2 compute, machine 3 stores. *)
EXTENDS TaskExecution

MCMachine == 0 .. 3
MCStorage == {3}

Hom(cpu, com) == [type |-> "PARALLEL_HOMOGENEOUS", ret |-> 0, cpu |-> cpu, com |-> com]
Delay(d, code) == [type |-> "DELAY", ret |-> code, delay |-> d]
Replay(type, n) == [type |-> type, ret |-> 0, nb_ranks |-> n]
Recv(success, failure, timeout) ==
  [type |-> "SCHEDULER_RECV", ret |-> 0, polltime |-> 2, on_success |-> success,
   on_failure |-> failure, on_timeout |-> timeout]
Sequence(repeat, seq, code) ==
  [type |-> "SEQUENCE", ret |-> code, repeat |-> repeat, seq |-> seq]

MCDef ==
  [hom   |-> Hom(6, 2),
   quiet |-> Hom(6, 0),
   total |-> [type |-> "PARALLEL_HOMOGENEOUS_TOTAL_AMOUNT", ret |-> 0, cpu |-> 6, com |-> 6],
   par   |-> [type |-> "PARALLEL", ret |-> 1, cpu |-> <<1, 2>>, com |-> <<5, 3, 4, 0>>],
   pfs   |-> [type |-> "PARALLEL_HOMOGENEOUS_PFS", ret |-> 0, bytes_to_read |-> 1,
              bytes_to_write |-> 2, storage |-> "pfs"],
   stage |-> [type |-> "DATA_STAGING", ret |-> 0, nb_bytes |-> 4, from |-> "pfs", to |-> "nfs"],
   nap   |-> Delay(2, 0),
   fail  |-> Delay(1, 1),
   smpi  |-> Replay("SMPI", 2),
   usage |-> Replay("USAGE_TRACE", 1),
   send  |-> [type |-> "SCHEDULER_SEND", ret |-> 0, sleeptime |-> 1],
   poll  |-> Recv("hom", "fail", None),
   peek  |-> Recv(None, "fail", "nap"),
   loop  |-> Recv("mixed", None, None),
   mixed |-> Sequence(2, <<"hom", "nap">>, 0),
   nested |-> Sequence(1, <<"send", "mixed", "fail", "nap">>, 0),
   talk  |-> Sequence(1, <<"send", "poll", "peek">>, 2),
   traces |-> Sequence(2, <<"smpi">>, 0),
   ragged |-> Sequence(1, <<"smpi", "usage">>, 0),
   work  |-> Sequence(1, <<"total", "par">>, 0),
   ios   |-> Sequence(1, <<"hom", "hom">>, 0)]

MCProfile == DOMAIN MCDef

Plain(p, walltime) ==
  [profile |-> p, io_profile |-> None, walltime |-> walltime, alloc |-> {0, 2},
   io_alloc |-> {}, mapping |-> << >>, storage_mapping |-> {}, rank_mapping |-> << >>]

Walltimes == {Unlimited, 3, 4, 6}

TimedJobs == {Plain(p, w) : p \in {"hom", "nap", "mixed", "nested", "talk", "traces", "loop"}, w \in Walltimes}

\* Jobs about the matrices: the walltime does not matter.
Shapes ==
  {Plain(p, Unlimited) : p \in {"quiet", "par", "pfs", "stage", "ragged", "work"}}
    \cup {[Plain("work", Unlimited) EXCEPT !.io_profile = "ios", !.io_alloc = S] :
            S \in {{0}, {1}, {1, 2}, {0, 1, 2, 3}}}
    \cup {[Plain(p, Unlimited) EXCEPT !.io_profile = io, !.io_alloc = {1, 2}] :
            p \in {"quiet", "pfs"}, io \in {"hom", "quiet", "pfs"}}
    \cup {[Plain("work", Unlimited) EXCEPT !.io_profile = "hom"]}
    \cup {[Plain(p, Unlimited) EXCEPT !.mapping = <<0, 0>>] : p \in {"hom", "smpi"}}
    \cup {[Plain("stage", Unlimited) EXCEPT !.storage_mapping = m, !.alloc = S] :
            m \in {{<<"pfs", 3>>, <<"nfs", 3>>}, {<<"pfs", 3>>, <<"nfs", 1>>}},
            S \in {{0}, {0, 1, 2}}}
    \cup {[Plain("hom", Unlimited) EXCEPT !.alloc = {0, 3}],
          [Plain("hom", Unlimited) EXCEPT !.mapping = <<1>>]}
    \cup {[Plain(p, Unlimited) EXCEPT !.rank_mapping = m] :
            p \in {"smpi", "usage", "ragged"}, m \in {<<1, 1>>, <<0, 1, 0>>}}

MCJobs == TimedJobs \cup Shapes

\* The hypotheses of the theorems.
ASSUME CodesOfProfiles == CodesAreNatural /\ DepthIsEnough
=============================================================================
