----------------------------- MODULE ProfileTable -----------------------------
(***************************************************************************)
(* The profiles and the jobs of one workload over a simulation: loading    *)
(* the workload's file (Workload::load_from_json), registering profiles    *)
(* and jobs from the scheduler, executing jobs, and forgetting both        *)
(* (Jobs::delete_job, Profiles::remove_profile).                           *)
(*                                                                         *)
(* A profile that is forgotten keeps its name in the table, with a null    *)
(* pointer. Jobs and linked sequences hold pointers to profiles, that stay *)
(* valid; a job description and a branch of a receive profile hold names,  *)
(* that are looked up when they are needed.                                *)
(***************************************************************************)
EXTENDS Profiles

CONSTANTS
  Job,        \* job identifiers
  JobDesc,    \* JobDesc[j]: its profile, res and walltime
  File        \* workload files: their profiles and jobs, and profile reuse

\* The profiles below a sequence, itself included: the least set that has it and the
\* parts of its members.
MembersOf ==
  [p \in Profile |->
     {q \in Profile : \A ps \in SUBSET Profile :
                         p \in ps /\ (\A s \in ps : Parts(s) \subseteq ps) => q \in ps}]
Members(p) == MembersOf[p]

\* No sequence contains itself: Batsim would recurse for ever (remove_profile,
\* initialize_sequential_tasks).
ASSUME NamesAreKnown ==
  /\ IsFiniteSet(Profile) /\ IsFiniteSet(Job)
  /\ DOMAIN Def = Profile
  /\ \A p \in Profile : IsSequence(p) => Def[p].seq \in Seq(Profile)
  /\ \A p \in Profile : \A q \in Parts(p) : p \notin Members(q)
  /\ \A j \in Job : JobDesc[j].profile \in Profile
  /\ \A f \in File : f.profiles \subseteq Profile /\ f.jobs \subseteq Job

VARIABLES
  file,       \* the workload's file, with the option --enable-profile-reuse
  entry,      \* _profiles: "absent", "live" or "null"
  linked,     \* the sequences whose profile_sequence is filled
  unvisited,  \* entries remove_unreferenced_profiles has still to visit
  job,        \* the jobs: "unknown", "known", "running", "ended", "deleted"
  tree,       \* the profiles the tasks of a running job point to
  failure     \* the failed assertion or the crash that ended Batsim

vars == <<file, entry, linked, unvisited, job, tree, failure>>

NoFailure == [op |-> "none", name |-> None]

Fail(op, name) ==
  /\ failure' = [op |-> op, name |-> name]
  /\ UNCHANGED <<file, entry, linked, unvisited, job, tree>>

ProfileOf(j) == JobDesc[j].profile

\* Profiles::operator[] returns a profile.
Accessible(p) == entry[p] = "live"

-----------------------------------------------------------------------------
(* Workload::load_from_json *)

\* check_single_job_validity
FitsProfile(d) ==
  Def[d.profile].type = "PARALLEL" => Len(Def[d.profile].cpu) = d.res

\* The checks of Job::from_json, then the one above.
ValidJob(d) ==
  /\ d.walltime = -1 \/ d.walltime > 0
  /\ d.res >= 0
  /\ FitsProfile(d)

\* Profiles, then jobs are read, then check_validity looks for the profiles in
\* sequences.
ValidFile(f) ==
  /\ \A p \in f.profiles : Valid(Def[p], TRUE) /\ Parts(p) \subseteq f.profiles
  /\ \A j \in f.jobs : ProfileOf(j) \in f.profiles /\ ValidJob(JobDesc[j])

\* check_validity fills the profile_sequence of the sequences.
Linked(ps) == {p \in ps : IsSequence(p)}

Init ==
  /\ file \in File
  /\ LET ok == ValidFile(file) IN
     /\ entry = [p \in Profile |-> IF ok /\ p \in file.profiles THEN "live" ELSE "absent"]
     /\ linked = IF ok THEN Linked(file.profiles) ELSE {}
     /\ unvisited = IF ok THEN file.profiles ELSE {}
     /\ job = [j \in Job |-> IF ok /\ j \in file.jobs THEN "known" ELSE "unknown"]
     /\ failure = IF ok THEN NoFailure ELSE [op |-> "load", name |-> None]
  /\ tree = [j \in Job |-> {}]

\* use_count while the file is loaded: the table's own pointer, jobs, sequences.
UseCount(p) ==
  1 + Cardinality({j \in Job : job[j] # "unknown" /\ ProfileOf(j) = p})
    + Cardinality({si \in UNION {{s} \X DOMAIN Def[s].seq : s \in linked} :
                     Accessible(si[1]) /\ Def[si[1]].seq[si[2]] = p})

\* One step of the loop of remove_unreferenced_profiles, in the order of the hash
\* table. A sequence that is forgotten drops its pointers.
RemoveUnreferenced(p) ==
  /\ p \in unvisited
  /\ unvisited' = unvisited \ {p}
  /\ entry' = [entry EXCEPT ![p] = IF UseCount(p) < 2 THEN "null" ELSE @]
  /\ UNCHANGED <<file, linked, job, tree, failure>>

Ready == unvisited = {} /\ failure = NoFailure

-----------------------------------------------------------------------------
(* Registrations by the scheduler *)

\* handle_register_profile: a sequence is not linked.
RegisterProfile(p) ==
  /\ Ready
  /\ IF entry[p] # "absent" \/ ~Valid(Def[p], FALSE)
     THEN Fail("register_profile", p)
     ELSE /\ entry' = [entry EXCEPT ![p] = "live"]
          /\ UNCHANGED <<file, linked, unvisited, job, tree, failure>>

\* handle_register_job: the identifier of a deleted job stays taken.
RegisterJob(j) ==
  /\ Ready
  /\ IF job[j] # "unknown" \/ ~Accessible(ProfileOf(j)) \/ ~ValidJob(JobDesc[j])
     THEN Fail("register_job", ProfileOf(j))
     ELSE /\ job' = [job EXCEPT ![j] = "known"]
          /\ UNCHANGED <<file, entry, linked, unvisited, tree, failure>>

-----------------------------------------------------------------------------
(* Executions *)

\* execute_job_process: initialize_sequential_tasks goes down profile_sequence, which
\* is empty in a sequence that was not linked.
ExecuteJob(j) ==
  /\ Ready
  /\ job[j] = "known"
  /\ IF IsSequence(ProfileOf(j)) /\ ProfileOf(j) \notin linked
     THEN Fail("execute", ProfileOf(j))
     ELSE /\ job' = [job EXCEPT ![j] = "running"]
          /\ tree' = [tree EXCEPT ![j] = Members(ProfileOf(j))]
          /\ UNCHANGED <<file, entry, linked, unvisited, failure>>

\* A receive task of the job looks up the profile of a branch. A sequence there
\* has no sub task and crashes.
RunBranch(j, p) ==
  /\ Ready
  /\ job[j] = "running"
  /\ p \in UNION {Branches(q) : q \in tree[j]}
  /\ IF ~Accessible(p) \/ IsSequence(p)
     THEN Fail("branch", p)
     ELSE /\ tree' = [tree EXCEPT ![j] = @ \cup {p}]
          /\ UNCHANGED <<file, entry, linked, unvisited, job, failure>>

\* The job is complete, killed, or rejected before it started; it is put into
\* jobs_to_be_deleted.
JobEnds(j) ==
  /\ Ready
  /\ job[j] \in {"known", "running"}
  /\ job' = [job EXCEPT ![j] = "ended"]
  /\ tree' = [tree EXCEPT ![j] = {}]
  /\ UNCHANGED <<file, entry, linked, unvisited, failure>>

-----------------------------------------------------------------------------
(* Workloads::delete_jobs *)

\* Mutant of Removed: only the profile of the job is removed.
RemovedAlone(ps) == ps

\* What remove_profile forgets when it is called for the profiles ps: it goes
\* down linked sequences that are still there.
Removed(ps) ==
  LET live == {p \in Profile : Accessible(p)} IN
  {q \in live : \A rs \in SUBSET live :
                  /\ ps \cap live \subseteq rs
                  /\ \A s \in rs \cap linked : Parts(s) \cap live \subseteq rs
                  => q \in rs}

\* Mutant of Collects: profiles are removed with the option too.
CollectsAlways == TRUE

\* garbage_collect_profiles
Collects == ~file.reuse

\* The server deletes the jobs in jobs_to_be_deleted, after its message to the
\* scheduler.
DeleteJobs ==
  LET dead == {j \in Job : job[j] = "ended"}
      gone == Removed({ProfileOf(j) : j \in dead})
  IN /\ Ready
     /\ dead # {}
     /\ job' = [j \in Job |-> IF j \in dead THEN "deleted" ELSE job[j]]
     /\ entry' = [p \in Profile |-> IF Collects /\ p \in gone THEN "null" ELSE entry[p]]
     /\ UNCHANGED <<file, linked, unvisited, tree, failure>>

Next ==
  \/ \E p \in Profile : RemoveUnreferenced(p) \/ RegisterProfile(p)
  \/ \E j \in Job : RegisterJob(j) \/ ExecuteJob(j) \/ JobEnds(j)
  \/ \E j \in Job, p \in Profile : RunBranch(j, p)
  \/ DeleteJobs

Spec == Init /\ [][Next]_vars

-----------------------------------------------------------------------------
(* Properties *)

\* The profiles job j executes by pointers, if it can be executed.
Used(j) == IF ProfileOf(j) \in linked THEN Members(ProfileOf(j)) ELSE {ProfileOf(j)}

(***************************************************************************)
(* Without profile reuse, the first job to be deleted takes its profile    *)
(* along, and all that its sequences execute, whatever other jobs and      *)
(* sequences share it and in whatever order jobs end; no name comes back.  *)
(* The count of pointers is not asked again: jobs that still need the      *)
(* profile have pointers (the next property says when these are enough).   *)
(***************************************************************************)
CollectedAfterUse ==
  ~file.reuse =>
    \A j \in Job, p \in Profile :
      job[j] = "deleted" /\ p \in Used(j) => ~Accessible(p)

\* A file profile that something points to once the file is loaded.
PointedTo(p) == \E j \in file.jobs : p \in Used(j)

\* Profile p was forgotten because a job that used it was deleted.
WasCollected(p) == ~file.reuse /\ \E j \in Job : job[j] = "deleted" /\ p \in Used(j)

(***************************************************************************)
(* A name can only miss its profile when the profile never existed, when   *)
(* no job of the file points to it (branches of receive profiles do not    *)
(* count: remove_unreferenced_profiles), or when reuse is off and a job    *)
(* that used it was deleted. A job that is known never misses its own      *)
(* profile: executing it can only fail on a sequence that the scheduler    *)
(* registered, and its branches as above or as sequences.                  *)
(***************************************************************************)
NamesMissOnlyForgotten ==
  LET p == failure.name
      Missing == entry[p] = "absent" \/ (p \in file.profiles /\ ~PointedTo(p)) \/ WasCollected(p)
  IN /\ failure.op = "execute" => p \notin file.profiles /\ IsSequence(p)
     /\ failure.op = "branch"  => Missing \/ IsSequence(p)
     /\ failure.op = "register_job" /\ ~Accessible(p) => Missing
=============================================================================
