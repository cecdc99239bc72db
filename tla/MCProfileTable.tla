--------------------------- MODULE MCProfileTable ---------------------------
(* Instances of ProfileTable: nested and shared sequences, branches, and late jobs. *)
EXTENDS ProfileTable

Delay == [type |-> "DELAY", ret |-> 0, delay |-> 1]
Sequence(seq) == [type |-> "SEQUENCE", ret |-> 0, repeat |-> 1, seq |-> seq]

MCDef ==
  [nap   |-> Delay,
   branch |-> Delay,
   inner |-> Sequence(<<"nap", "nap">>),
   outer |-> Sequence(<<"inner", "recv">>),
   spare |-> Sequence(<<"branch">>),
   recv  |-> [type |-> "SCHEDULER_RECV", ret |-> 0, polltime |-> 1, on_success |-> "branch",
              on_failure |-> "inner", on_timeout |-> None],
   late  |-> Sequence(<<"nap">>),
   trace |-> [type |-> "SMPI", ret |-> 0, nb_ranks |-> 1],
   bad   |-> [type |-> "PARALLEL", ret |-> 0, cpu |-> <<1, 1>>, com |-> <<0, 0, 0, 0>>]]

MCProfile == DOMAIN MCDef

Desc(p, res) == [profile |-> p, res |-> res, walltime |-> -1]

MCJobDesc ==
  [o |-> Desc("outer", 1), i |-> Desc("inner", 1), n |-> Desc("nap", 1),
   b |-> Desc("branch", 1), l |-> Desc("late", 1), w |-> Desc("bad", 1)]

MCJob == DOMAIN MCJobDesc

Known == {"nap", "branch", "inner", "outer", "spare", "recv"}

MCFile ==
  [profiles : {Known}, jobs : {{"o"}, {"o", "i"}, {"i", "n"}, {"o", "b"}}, reuse : BOOLEAN]
    \cup [profiles : {Known \cup {"bad"}}, jobs : {{"w"}}, reuse : {FALSE}]
    \cup [profiles : {{"late", "recv"}}, jobs : {{}}, reuse : {FALSE}]
=============================================================================
