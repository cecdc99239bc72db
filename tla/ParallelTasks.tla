---------------------------- MODULE ParallelTasks ----------------------------
(***************************************************************************)
(* The parallel tasks of task_execution.cpp: from a profile and the hosts  *)
(* of a job to the vector of computations and the flat matrix of           *)
(* communications given to SimGrid, and the merge of a job's task with its *)
(* IO task.                                                                *)
(*                                                                         *)
(* A task is a record of its hosts, comp[i] (the flops of the i-th host)   *)
(* and comm, row after row (the bytes from host row to host column), which *)
(* is empty when nothing is communicated. Amounts are integers; the        *)
(* instances choose totals that divide evenly.                             *)
(*                                                                         *)
(* An operator whose C++ function may fail an assertion returns a set: the *)
(* task, or nothing when the assertion fails.                              *)
(***************************************************************************)
EXTENDS Integers, Sequences, FiniteSets, SequencesExt

CONSTANTS
  Machine,    \* machine ids
  Storage     \* the machines whose role is storage

ASSUME MachinesAreNumbered == Machine \subseteq Nat /\ Storage \subseteq Machine

\* The machines of an interval set, in the order of its operator[].
Ordered(S) ==
  CHOOSE s \in SetToSeqs(S) : \A i, j \in 1 .. Cardinality(S) : i < j => s[i] < s[j]

\* A flat n x n matrix, from the amount at each row and column (from 1).
Matrix(n, Amount(_, _)) ==
  [k \in 1 .. n * n |-> Amount(((k - 1) \div n) + 1, ((k - 1) % n) + 1)]

Homogeneous(cpu, com, hosts) ==
  LET n == Len(hosts) IN
  [hosts |-> hosts,
   comp  |-> [i \in 1 .. n |-> cpu],
   comm  |-> IF com > 0
             THEN Matrix(n, LAMBDA row, col : IF row = col THEN 0 ELSE com)
             ELSE << >>]

generate_parallel_task(p, hosts) ==
  IF Len(hosts) = Len(p.cpu)
  THEN {[hosts |-> hosts, comp |-> p.cpu, comm |-> p.com]}
  ELSE {}

generate_parallel_homogeneous(p, hosts) == {Homogeneous(p.cpu, p.com, hosts)}

generate_parallel_homogeneous_total_amount(p, hosts) ==
  {Homogeneous(p.cpu \div Len(hosts), p.com \div Len(hosts), hosts)}

(***************************************************************************)
(* The storage machine a label stands for. mapping is a set of pairs       *)
(* <<label, machine>>; without any pair, the only storage machine there is *)
(* can be used by a PFS profile.                                           *)
(***************************************************************************)
Labelled(label, mapping) ==
  {m \in Storage : <<label, m>> \in mapping}

PfsMachine(label, mapping) ==
  IF mapping # {}
  THEN Labelled(label, mapping)
  ELSE {m \in Storage : Storage = {m}}

generate_parallel_homogeneous_with_pfs(p, hosts, mapping) ==
  LET n == Len(hosts) + 1
      Amount(row, col) == CASE row # n /\ col = n -> p.bytes_to_write
                            [] row = n /\ col # n -> p.bytes_to_read
                            [] OTHER              -> 0
  IN {[hosts |-> Append(hosts, pfs),
       comp  |-> [i \in 1 .. n |-> 0],
       comm  |-> IF p.bytes_to_read > 0 \/ p.bytes_to_write > 0
                 THEN Matrix(n, Amount)
                 ELSE << >>] : pfs \in PfsMachine(p.storage, mapping)}

generate_data_staging_task(p, mapping) ==
  {[hosts |-> <<from, to>>,
    comp  |-> <<0, 0>>,
    comm  |-> IF p.nb_bytes > 0 THEN <<0, p.nb_bytes, 0, 0>> ELSE << >>] :
     from \in Labelled(p.from, mapping), to \in Labelled(p.to, mapping)}

\* The storage mapping of an IO profile is the null pointer, which no label is
\* looked up in.
generate_matrices_from_profile(p, hosts, mapping, isNull) ==
  CASE p.type = "PARALLEL" -> generate_parallel_task(p, hosts)
    [] p.type = "PARALLEL_HOMOGENEOUS" -> generate_parallel_homogeneous(p, hosts)
    [] p.type = "PARALLEL_HOMOGENEOUS_TOTAL_AMOUNT" ->
         generate_parallel_homogeneous_total_amount(p, hosts)
    [] p.type = "PARALLEL_HOMOGENEOUS_PFS" /\ ~isNull ->
         generate_parallel_homogeneous_with_pfs(p, hosts, mapping)
    [] p.type = "DATA_STAGING" /\ ~isNull -> generate_data_staging_task(p, mapping)
    [] OTHER -> {}

(***************************************************************************)
(* check_ptask_execution_permission compares the i-th machine of the       *)
(* allocation with the i-th computation, whatever the hosts are. Where the *)
(* vector is shorter than the allocation it reads beyond its end: the      *)
(* value found there may or may not pass.                                  *)
(***************************************************************************)
check_ptask_execution_permission(alloc, comp) ==
  LET machines == Ordered(alloc)
      Allowed(i) == comp[i] # 0 => machines[i] \notin Storage
  IN IF \E i \in 1 .. Len(machines) : i <= Len(comp) /\ ~Allowed(i)
     THEN {FALSE}
     ELSE {TRUE} \cup (IF Len(comp) < Len(machines) THEN {FALSE} ELSE {})

\* How many of the cells 1 .. k satisfy Reads: the running index of the merge.
Index(Reads(_), k) == Cardinality({h \in 1 .. k : Reads(h)})

\* Mutant of ReadsBoth: the cell of a machine with itself is not consumed.
ReadsOffDiagonal(S, all, k) ==
  LET row == ((k - 1) % Len(all)) + 1
      col == ((k - 1) \div Len(all)) + 1
  IN row # col /\ all[row] \in S /\ all[col] \in S

\* The merge reads a cell of a task whose machines are S when both the row's and
\* the column's machines are in S.
ReadsBoth(S, all, k) ==
  /\ all[((k - 1) % Len(all)) + 1] \in S
  /\ all[((k - 1) \div Len(all)) + 1] \in S

(***************************************************************************)
(* The task of a job on alloc merged with its IO task on io_alloc: one     *)
(* pass over the machines of both, each cell taking the next value of the  *)
(* task or tasks it belongs to. Without communications in the IO task the  *)
(* first cell that reads one dereferences an empty vector.                 *)
(***************************************************************************)
Merged(job, io, alloc, io_alloc) ==
  LET all == Ordered(alloc \cup io_alloc)
      n   == Len(all)
      InJob(i)    == all[i] \in alloc
      InIo(i)     == all[i] \in io_alloc
      JobCell(k)  == job.comm # << >> /\ ReadsBoth(alloc, all, k)
      IoCell(k)   == ReadsBoth(io_alloc, all, k)
      Next(v, Reads(_), k) == IF Reads(k) THEN v[Index(Reads, k)] ELSE 0
  IN IF io.comm = << >> /\ io_alloc # {}
     THEN {}
     ELSE {[hosts |-> all,
            comp  |-> [i \in 1 .. n |-> Next(job.comp, InJob, i)
                                        + Next(io.comp, InIo, i)],
            comm  |-> [k \in 1 .. n * n |-> Next(job.comm, JobCell, k)
                                            + Next(io.comm, IoCell, k)]]}
=============================================================================
