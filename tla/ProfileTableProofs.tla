------------------------- MODULE ProfileTableProofs -------------------------
(***************************************************************************)
(* Proofs about ProfileTable: profiles are collected after use, and a name *)
(* misses its profile only for the reasons that NamesMissOnlyForgotten     *)
(* lists, for all profiles, jobs and files.                                *)
(*                                                                         *)
(* The argument needs no induction over sequences: Members and Removed are *)
(* least sets, so it is enough to name a set that is closed under Parts.   *)
(***************************************************************************)
EXTENDS ProfileTable, FiniteSetTheorems, TLAPS

\* The profiles in the table, and the ones that deleted jobs used.
Live == {p \in Profile : entry[p] = "live"}
Gone == {p \in Profile : \E j \in Job : job[j] = "deleted" /\ p \in Used(j)}

\* The table after a file that was read without error. While unreferenced profiles
\* are removed, the jobs of the file are known and nothing else has happened.
TableTypes ==
  /\ file \in File
  /\ entry \in [Profile -> {"absent", "live", "null"}]
  /\ job \in [Job -> {"unknown", "known", "running", "ended", "deleted"}]
  /\ linked = Linked(file.profiles)
  /\ unvisited \subseteq file.profiles
  /\ \A p \in file.profiles : Parts(p) \subseteq file.profiles /\ entry[p] # "absent"
  /\ unvisited # {} => /\ failure = NoFailure
                       /\ \A j \in Job : job[j] \in {"unknown", "known"}
                       /\ \A j \in file.jobs : job[j] = "known"

\* Pointers find their profile, unless it was collected.
PointersInv ==
  /\ \A s \in linked : s \in Live => Parts(s) \subseteq Live \cup Gone
  /\ \A j \in Job : job[j] # "unknown" => ProfileOf(j) \in Live \cup Gone
  /\ \A p \in Gone : entry[p] # "absent"

\* What is collected stays so, and a null pointer has one of two reasons.
CollectedInv ==
  /\ ~file.reuse => Gone \cap Live = {}
  /\ \A p \in Profile : entry[p] = "null" =>
       \/ ~file.reuse /\ p \in Gone
       \/ p \in file.profiles /\ ~PointedTo(p)

\* A file that is refused ends Batsim at once.
Refused ==
  /\ failure.op = "load" /\ unvisited = {}
  /\ \A j \in Job : job[j] = "unknown"

TableInv == TableTypes /\ PointersInv /\ CollectedInv /\ NamesMissOnlyForgotten

-----------------------------------------------------------------------------
(* The least sets *)

\* The parts of a profile are profiles.
LEMMA PartsAreProfiles == \A p \in Profile : Parts(p) \subseteq Profile
<1> SUFFICES ASSUME NEW p \in Profile, IsSequence(p) PROVE Parts(p) \subseteq Profile
  BY DEF Parts
<1>1. Def[p].seq \in Seq(Profile)
  BY NamesAreKnown
<1> QED
  BY <1>1 DEF Parts

\* Members(p) has p and is closed under Parts.
LEMMA MembersClosed ==
  ASSUME NEW p \in Profile
  PROVE  /\ p \in Members(p) /\ Members(p) \subseteq Profile
         /\ \A q \in Members(p) : Parts(q) \subseteq Members(p)
BY PartsAreProfiles DEF Members, MembersOf

\* Members(p) is in every such set.
LEMMA MembersLeast ==
  ASSUME NEW p \in Profile, NEW S \in SUBSET Profile, p \in S, \A s \in S : Parts(s) \subseteq S
  PROVE  Members(p) \subseteq S
BY DEF Members, MembersOf

\* What remove_profile forgets contains the profiles it is called for, and is closed
\* under the parts of linked sequences, as far as these are live.
LEMMA RemovedClosed ==
  ASSUME NEW ps \in SUBSET Profile
  PROVE  /\ Removed(ps) \subseteq Live
         /\ ps \cap Live \subseteq Removed(ps)
         /\ \A s \in Removed(ps) : s \in linked => Parts(s) \cap Live \subseteq Removed(ps)
BY DEF Removed, Live, Accessible

\* It is in every such set.
LEMMA RemovedLeast ==
  ASSUME NEW ps \in SUBSET Profile, NEW S \in SUBSET Profile, ps \subseteq S,
         \A s \in S : s \in linked => Parts(s) \subseteq S
  PROVE  Removed(ps) \subseteq S
<1> DEFINE live == {p \in Profile : Accessible(p)}
<1> SUFFICES ASSUME NEW q \in Removed(ps) PROVE q \in S \cap live
  OBVIOUS
<1>1. S \cap live \in SUBSET live /\ ps \cap live \subseteq S \cap live
  OBVIOUS
<1>2. \A s \in (S \cap live) \cap linked : Parts(s) \cap live \subseteq S \cap live
  OBVIOUS
<1> QED
  BY <1>1, <1>2 DEF Removed

-----------------------------------------------------------------------------
(* What jobs use *)

\* A job uses its own profile.
LEMMA UsesItsProfile == \A j \in Job : ProfileOf(j) \in Used(j) /\ Used(j) \subseteq Profile
BY MembersClosed, NamesAreKnown DEF Used, ProfileOf

\* The parts of a linked sequence that a job uses are used too.
LEMMA UsedClosed ==
  ASSUME NEW j \in Job, NEW s \in Used(j), s \in linked
  PROVE  Parts(s) \subseteq Used(j)
BY MembersClosed, NamesAreKnown DEF Used, ProfileOf

\* In particular, the set of collected profiles is closed.
LEMMA GoneClosed ==
  ASSUME NEW s \in Gone, s \in linked
  PROVE  Parts(s) \subseteq Gone
BY UsedClosed, PartsAreProfiles DEF Gone

\* All profiles below the profile of a job are in a set S that has its profile and,
\* with a sequence of the file, its parts.
LEMMA UsedWithin ==
  ASSUME TableTypes, NEW j \in Job, NEW S \in SUBSET Profile, ProfileOf(j) \in S,
         \A s \in S : s \in linked => Parts(s) \subseteq S
  PROVE  Used(j) \subseteq S
<1>1. CASE ProfileOf(j) \notin linked
  BY <1>1 DEF Used
<1>2. CASE ProfileOf(j) \in linked
  <2> DEFINE T == S \cap file.profiles
  <2>1. ProfileOf(j) \in T /\ T \in SUBSET Profile
    BY <1>2 DEF TableTypes, Linked
  <2>2. ASSUME NEW s \in T PROVE Parts(s) \subseteq T
    BY <2>2 DEF TableTypes, Linked, Parts
  <2>3. Members(ProfileOf(j)) \subseteq T
    BY <2>1, <2>2, MembersLeast
  <2> QED
    BY <1>2, <2>3 DEF Used
<1> QED
  BY <1>1, <1>2

\* The profiles that a known job uses are there, unless they were collected.
LEMMA UsedIsThere ==
  ASSUME TableTypes, PointersInv, NEW j \in Job, job[j] # "unknown"
  PROVE  Used(j) \subseteq Live \cup Gone
<1> DEFINE S == Live \cup Gone
<1>1. S \in SUBSET Profile /\ ProfileOf(j) \in S
  BY DEF Live, Gone, PointersInv
<1>2. \A s \in S : s \in linked => Parts(s) \subseteq S
  BY GoneClosed DEF PointersInv
<1> QED
  BY <1>1, <1>2, UsedWithin

-----------------------------------------------------------------------------
(* The steps *)

\* Reading a file establishes the invariant or fails.
LEMMA TableInit == Init => TableInv \/ Refused
<1> SUFFICES ASSUME Init PROVE TableInv \/ Refused
  OBVIOUS
<1>1. CASE ~ValidFile(file)
  BY <1>1 DEF Init, Refused
<1>2. CASE ValidFile(file)
  <2>1. /\ file \in File /\ file.profiles \subseteq Profile /\ file.jobs \subseteq Job
        /\ linked = Linked(file.profiles) /\ unvisited = file.profiles
        /\ failure = NoFailure
    BY <1>2, NamesAreKnown DEF Init
  <2>2. /\ entry \in [Profile -> {"absent", "live", "null"}]
        /\ \A p \in Profile : entry[p] = IF p \in file.profiles THEN "live" ELSE "absent"
    BY <1>2 DEF Init
  <2>3. /\ job \in [Job -> {"unknown", "known", "running", "ended", "deleted"}]
        /\ \A j \in Job : job[j] = IF j \in file.jobs THEN "known" ELSE "unknown"
    BY <1>2 DEF Init
  <2>4. \A p \in file.profiles : Parts(p) \subseteq file.profiles
    BY <1>2 DEF ValidFile
  <2>5. \A j \in file.jobs : ProfileOf(j) \in file.profiles
    BY <1>2 DEF ValidFile
  <2>6. TableTypes
    BY <2>1, <2>2, <2>3, <2>4 DEF TableTypes
  <2>7. Gone = {} /\ Live = file.profiles
    BY <2>1, <2>2, <2>3 DEF Gone, Live
  <2>8. PointersInv
    BY <2>1, <2>3, <2>4, <2>5, <2>7 DEF PointersInv, Linked
  <2>9. CollectedInv
    BY <2>2, <2>7 DEF CollectedInv
  <2>10. NamesMissOnlyForgotten
    BY <2>1 DEF NamesMissOnlyForgotten, NoFailure
  <2> QED
    BY <2>6, <2>8, <2>9, <2>10 DEF TableInv
<1> QED
  BY <1>1, <1>2

\* A profile that is unreferenced has no known job and no live sequence.
LEMMA UnreferencedIsUnused ==
  ASSUME TableTypes, NEW p \in Profile, UseCount(p) < 2
  PROVE  /\ \A j \in Job : job[j] # "unknown" => ProfileOf(j) # p
         /\ \A s \in linked : s \in Live => p \notin Parts(s)
<1> DEFINE J == {j \in Job : job[j] # "unknown" /\ ProfileOf(j) = p}
           P == UNION {{s} \X DOMAIN Def[s].seq : s \in linked}
           Q == {si \in P : Accessible(si[1]) /\ Def[si[1]].seq[si[2]] = p}
<1>1. IsFiniteSet(J) /\ Cardinality(J) \in Nat
  BY NamesAreKnown, FS_Subset, FS_CardinalityType
<1>2. linked \subseteq Profile /\ \A s \in linked : IsSequence(s) /\ Def[s].seq \in Seq(Profile)
  BY NamesAreKnown DEF TableTypes, Linked
<1>3. IsFiniteSet(P)
  <2>1. \A s \in linked : IsFiniteSet({s} \X DOMAIN Def[s].seq)
    <3> TAKE s \in linked
    <3>1. DOMAIN Def[s].seq = 1 .. Len(Def[s].seq) /\ Len(Def[s].seq) \in Nat
      BY <1>2
    <3>2. IsFiniteSet(1 .. Len(Def[s].seq))
      BY <3>1, FS_Interval
    <3>3. IsFiniteSet({s})
      BY FS_Singleton
    <3> QED
      BY <3>1, <3>2, <3>3, FS_Product
  <2>2. IsFiniteSet(linked)
    BY <1>2, NamesAreKnown, FS_Subset
  <2> DEFINE f == [s \in linked |-> {s} \X DOMAIN Def[s].seq]
             X == {f[s] : s \in linked}
  <2>3. IsFiniteSet(X)
    <3>1. f \in Surjection(linked, X)
      BY DEF Surjection
    <3> QED
      BY <2>2, <3>1, FS_Surjection
  <2>4. \A x \in X : IsFiniteSet(x)
    BY <2>1
  <2>5. IsFiniteSet(UNION X)
    BY <2>3, <2>4, FS_UNION
  <2>6. P = UNION X
    OBVIOUS
  <2> QED
    BY <2>5, <2>6
<1>4. IsFiniteSet(Q) /\ Cardinality(Q) \in Nat
  BY <1>3, FS_Subset, FS_CardinalityType
<1>5. 1 + Cardinality(J) + Cardinality(Q) < 2
  BY DEF UseCount
<1> HIDE DEF J, Q, P
<1>6. J = {} /\ Q = {}
  BY <1>1, <1>4, <1>5, FS_EmptySet
<1>7. ASSUME NEW s \in linked, s \in Live, p \in Parts(s) PROVE FALSE
  <2>1. PICK i \in 1 .. Len(Def[s].seq) : Def[s].seq[i] = p
    BY <1>2, <1>7 DEF Parts
  <2>2. <<s, i>> \in P
    BY <1>2, <2>1 DEF P
  <2>3. <<s, i>> \in Q
    BY <1>7, <2>1, <2>2 DEF Q, Live, Accessible
  <2> QED
    BY <1>6, <2>3
<1> QED
  BY <1>6, <1>7 DEF J

\* Removing unreferenced profiles keeps what is pointed to.
LEMMA RemoveUnreferencedKeeps ==
  ASSUME TableInv, NEW p \in Profile, RemoveUnreferenced(p)
  PROVE  TableInv'
<1> USE DEF TableInv
<1>1. p \in file.profiles /\ failure = NoFailure /\ failure' = NoFailure
  BY DEF TableTypes, RemoveUnreferenced
<1>2. TableTypes'
  <2>1. UNCHANGED <<file, linked, job, failure>> /\ unvisited' \subseteq unvisited /\ unvisited # {}
    BY DEF RemoveUnreferenced
  <2>2. entry' \in [Profile -> {"absent", "live", "null"}]
    BY DEF TableTypes, RemoveUnreferenced
  <2>3. \A q \in file.profiles : entry'[q] # "absent"
    BY DEF TableTypes, RemoveUnreferenced
  <2> QED
    BY <2>1, <2>2, <2>3 DEF TableTypes, Linked
<1>3. NamesMissOnlyForgotten'
  BY <1>1 DEF NamesMissOnlyForgotten, NoFailure
<1>4. Gone = {} /\ Gone' = {}
  BY DEF TableTypes, RemoveUnreferenced, Gone
<1>5. CASE ~(UseCount(p) < 2)
  <2>1. UNCHANGED <<file, linked, job, entry>>
    <3>1. entry' = [entry EXCEPT ![p] = entry[p]]
      BY <1>5 DEF RemoveUnreferenced
    <3> QED
      BY <3>1 DEF RemoveUnreferenced, TableTypes
  <2>2. PointersInv' /\ CollectedInv'
    BY <2>1 DEF PointersInv, CollectedInv, Live, Gone, PointedTo, Used
  <2> QED
    BY <1>2, <1>3, <2>2
<1>6. CASE UseCount(p) < 2
  <2>1. UNCHANGED <<file, linked, job>> /\ entry' = [entry EXCEPT ![p] = "null"]
    BY <1>6 DEF RemoveUnreferenced
  <2>2. Live' = Live \ {p}
    BY <2>1 DEF Live, TableTypes
  <2>3. PointersInv'
    BY <1>4, <1>6, <2>1, <2>2, UnreferencedIsUnused DEF PointersInv
  <2>4. ASSUME NEW j \in file.jobs PROVE p \notin Used(j)
    <3>1. j \in Job /\ job[j] # "unknown"
      BY NamesAreKnown DEF TableTypes, RemoveUnreferenced
    <3> DEFINE S == Live \ {p}
    <3>2. ProfileOf(j) \in S /\ S \in SUBSET Profile
      BY <1>4, <1>6, <3>1, UnreferencedIsUnused DEF PointersInv, Live
    <3>3. \A s \in S : s \in linked => Parts(s) \subseteq S
      BY <1>4, <1>6, UnreferencedIsUnused DEF PointersInv
    <3>4. Used(j) \subseteq S
      BY <3>1, <3>2, <3>3, UsedWithin
    <3> QED
      BY <3>4
  <2>5. CollectedInv'
    <3>1. \A q \in Profile : PointedTo(q)' = PointedTo(q)
      BY <2>1 DEF PointedTo, Used
    <3>2. ~PointedTo(p)
      BY <2>1, <2>4 DEF PointedTo, Used
    <3>3. \A q \in Profile : entry'[q] = "null" => q = p \/ entry[q] = "null"
      BY <2>1 DEF TableTypes
    <3> QED
      BY <1>1, <1>4, <2>1, <3>1, <3>2, <3>3 DEF CollectedInv
  <2> QED
    BY <1>2, <1>3, <2>3, <2>5
<1> QED
  BY <1>5, <1>6

\* A step that changes neither the table nor which jobs are deleted.
LEMMA TableFrame ==
  ASSUME TableInv, UNCHANGED <<file, entry, linked, unvisited>>,
         job' \in [Job -> {"unknown", "known", "running", "ended", "deleted"}],
         Ready,
         \A j \in Job : job'[j] = "deleted" <=> job[j] = "deleted",
         \A j \in Job : job'[j] # "unknown" /\ job[j] = "unknown" => Accessible(ProfileOf(j)),
         NamesMissOnlyForgotten'
  PROVE  TableInv'
<1> USE DEF TableInv
<1>1. Live' = Live
  BY DEF Live
<1>2. \A j \in Job : Used(j)' = Used(j)
  BY DEF Used
<1>3. Gone' = Gone
  BY <1>2 DEF Gone
<1>4. \A p \in Profile : PointedTo(p)' = PointedTo(p)
  BY DEF PointedTo, Used
<1>5. TableTypes'
  BY DEF TableTypes, Ready, Linked
<1>6. \A j \in Job : Accessible(ProfileOf(j)) => ProfileOf(j) \in Live
  BY NamesAreKnown DEF Accessible, Live, ProfileOf
<1>7. PointersInv'
  BY <1>1, <1>3, <1>6 DEF PointersInv
<1>8. CollectedInv'
  BY <1>1, <1>3, <1>4 DEF CollectedInv
<1> QED
  BY <1>5, <1>7, <1>8

\* A name that misses its profile misses it for one of three reasons.
LEMMA WhyMissing ==
  ASSUME TableInv, NEW p \in Profile, ~Accessible(p)
  PROVE  \/ entry[p] = "absent"
         \/ p \in file.profiles /\ ~PointedTo(p)
         \/ WasCollected(p)
<1>1. entry[p] \in {"absent", "null"}
  BY DEF TableInv, TableTypes, Accessible
<1> QED
  BY <1>1 DEF TableInv, CollectedInv, Gone, WasCollected

\* A step that fails changes nothing else, and it fails for a reason.
LEMMA FailKeeps ==
  ASSUME TableInv, Ready, NEW op, NEW p \in Profile, Fail(op, p),
         op = "execute" => p \notin file.profiles /\ IsSequence(p),
         op = "branch" => ~Accessible(p) \/ IsSequence(p)
  PROVE  TableInv'
<1>1. /\ failure'.op = op /\ failure'.name = p
      /\ UNCHANGED <<file, entry, linked, unvisited, job, tree>>
  BY DEF Fail
<1>2. NamesMissOnlyForgotten'
  <2>1. (PointedTo(p)' <=> PointedTo(p)) /\ (WasCollected(p)' <=> WasCollected(p))
    BY <1>1 DEF PointedTo, WasCollected, Used
  <2>2. Accessible(p)' <=> Accessible(p)
    BY <1>1 DEF Accessible
  <2>3. ~Accessible(p) => \/ entry[p] = "absent"
                          \/ p \in file.profiles /\ ~PointedTo(p)
                          \/ WasCollected(p)
    BY WhyMissing
  <2> QED
    BY <1>1, <2>1, <2>2, <2>3 DEF NamesMissOnlyForgotten, PointedTo, WasCollected, Accessible, Used
<1> QED
  BY <1>1, <1>2, TableFrame DEF TableInv, TableTypes

\* Nothing has failed in a state that can go on.
LEMMA NothingMissesYet ==
  ASSUME Ready, failure' = failure PROVE NamesMissOnlyForgotten'
BY DEF Ready, NoFailure, NamesMissOnlyForgotten

\* A profile that is registered is new: nobody used it before.
LEMMA RegisterProfileKeeps ==
  ASSUME TableInv, NEW p \in Profile, RegisterProfile(p) PROVE TableInv'
<1>1. CASE Fail("register_profile", p)
  BY <1>1, FailKeeps DEF RegisterProfile
<1>2. CASE ~Fail("register_profile", p)
  <2>1. /\ Ready /\ entry[p] = "absent" /\ entry' = [entry EXCEPT ![p] = "live"]
        /\ UNCHANGED <<file, linked, unvisited, job, tree, failure>>
    BY <1>2 DEF RegisterProfile
  <2> USE DEF TableInv
  <2>2. TableTypes'
    BY <2>1 DEF TableTypes, Ready, Linked
  <2>3. Live' = Live \cup {p}
    BY <2>1 DEF Live, TableTypes
  <2>4. \A j \in Job : Used(j)' = Used(j)
    BY <2>1 DEF Used
  <2>5. Gone' = Gone
    BY <2>1, <2>4 DEF Gone
  <2>6. p \notin Gone /\ p \notin linked
    BY <2>1 DEF PointersInv, TableTypes, Linked
  <2>7. PointersInv'
    <3>1. \A q \in Gone : entry'[q] = entry[q]
      BY <2>1, <2>6 DEF TableTypes, Gone
    <3> QED
      BY <2>1, <2>3, <2>5, <2>6, <3>1 DEF PointersInv
  <2>8. CollectedInv'
    <3>1. \A q \in Profile : PointedTo(q)' = PointedTo(q)
      BY <2>1 DEF PointedTo, Used
    <3>2. \A q \in Profile : entry'[q] = "null" => entry[q] = "null"
      BY <2>1 DEF TableTypes
    <3> QED
      BY <2>1, <2>3, <2>5, <2>6, <3>1, <3>2 DEF CollectedInv
  <2> QED
    BY <2>1, <2>2, <2>7, <2>8, NothingMissesYet
<1> QED
  BY <1>1, <1>2

\* The steps of a job other than its deletion.
LEMMA JobStepsKeep ==
  ASSUME TableInv, NEW j \in Job,
         RegisterJob(j) \/ ExecuteJob(j) \/ JobEnds(j) \/ \E p \in Profile : RunBranch(j, p)
  PROVE  TableInv'
<1>0. job \in [Job -> {"unknown", "known", "running", "ended", "deleted"}] /\ ProfileOf(j) \in Profile
  BY NamesAreKnown DEF TableInv, TableTypes, ProfileOf
<1>1. CASE RegisterJob(j)
  <2>1. CASE Fail("register_job", ProfileOf(j))
    BY <1>0, <1>1, <2>1, FailKeeps DEF RegisterJob
  <2>2. CASE ~Fail("register_job", ProfileOf(j))
    <3>1. /\ Ready /\ job[j] = "unknown" /\ Accessible(ProfileOf(j))
          /\ job' = [job EXCEPT ![j] = "known"]
          /\ UNCHANGED <<file, entry, linked, unvisited, failure>>
      BY <1>1, <2>2 DEF RegisterJob
    <3> QED
      BY <1>0, <3>1, NothingMissesYet, TableFrame
  <2> QED
    BY <2>1, <2>2
<1>2. CASE ExecuteJob(j)
  <2>1. CASE Fail("execute", ProfileOf(j)) /\ IsSequence(ProfileOf(j)) /\ ProfileOf(j) \notin linked
    <3>1. ProfileOf(j) \notin file.profiles
      BY <2>1 DEF TableInv, TableTypes, Linked
    <3> QED
      BY <1>0, <1>2, <2>1, <3>1, FailKeeps DEF ExecuteJob
  <2>2. CASE ~(IsSequence(ProfileOf(j)) /\ ProfileOf(j) \notin linked)
    <3>1. /\ Ready /\ job[j] = "known" /\ job' = [job EXCEPT ![j] = "running"]
          /\ UNCHANGED <<file, entry, linked, unvisited, failure>>
      BY <1>2, <2>2 DEF ExecuteJob
    <3> QED
      BY <1>0, <3>1, NothingMissesYet, TableFrame
  <2> QED
    BY <1>2, <2>1, <2>2 DEF ExecuteJob
<1>3. CASE JobEnds(j)
  <2>1. /\ Ready /\ job[j] \in {"known", "running"} /\ job' = [job EXCEPT ![j] = "ended"]
        /\ UNCHANGED <<file, entry, linked, unvisited, failure>>
    BY <1>3 DEF JobEnds
  <2> QED
    BY <1>0, <2>1, NothingMissesYet, TableFrame
<1>4. CASE \E p \in Profile : RunBranch(j, p)
  <2>1. PICK p \in Profile : RunBranch(j, p)
    BY <1>4
  <2>2. CASE ~Accessible(p) \/ IsSequence(p)
    <3>1. Ready /\ Fail("branch", p)
      BY <2>1, <2>2 DEF RunBranch
    <3> QED
      BY <2>2, <3>1, FailKeeps
  <2>3. CASE ~(~Accessible(p) \/ IsSequence(p))
    <3>1. Ready /\ UNCHANGED <<file, entry, linked, unvisited, job, failure>>
      BY <2>1, <2>3 DEF RunBranch
    <3> QED
      BY <1>0, <3>1, NothingMissesYet, TableFrame
  <2> QED
    BY <2>2, <2>3
<1> QED
  BY <1>1, <1>2, <1>3, <1>4

\* Deleting jobs collects what they used and nothing else.
LEMMA DeleteJobsKeeps ==
  ASSUME TableInv, DeleteJobs PROVE TableInv'
<1> USE DEF TableInv
<1> DEFINE dead == {j \in Job : job[j] = "ended"}
           own  == {ProfileOf(j) : j \in dead}
           gone == Removed(own)
           used == {p \in Profile : \E j \in dead : p \in Used(j)}
<1>1. /\ Ready
      /\ job' = [j \in Job |-> IF j \in dead THEN "deleted" ELSE job[j]]
      /\ entry' = [p \in Profile |-> IF Collects /\ p \in gone THEN "null" ELSE entry[p]]
      /\ UNCHANGED <<file, linked, unvisited, tree, failure>>
  BY DEF DeleteJobs
<1>2. own \in SUBSET Profile
  BY NamesAreKnown DEF ProfileOf
<1>3. /\ gone \subseteq Live /\ own \cap Live \subseteq gone
      /\ \A s \in gone : s \in linked => Parts(s) \cap Live \subseteq gone
  <2> HIDE DEF own
  <2> QED
    BY <1>2, RemovedClosed
<1>4. own \subseteq used /\ \A s \in used : s \in linked => Parts(s) \subseteq used
  BY UsesItsProfile, UsedClosed, PartsAreProfiles
<1>5. gone \subseteq used
  <2> HIDE DEF own, used
  <2>1. used \in SUBSET Profile
    BY DEF used
  <2> QED
    BY <1>2, <1>4, <2>1, RemovedLeast
<1> HIDE DEF gone
<1>6. \A j \in Job : Used(j)' = Used(j)
  BY <1>1 DEF Used
<1>7. Gone' = Gone \cup used
  BY <1>1, <1>6 DEF Gone
<1>8. Live' = IF file.reuse THEN Live ELSE Live \ gone
  BY <1>1 DEF Live, Collects
<1>9. used \subseteq Live \cup Gone
  BY UsedIsThere
<1>10. TableTypes'
  <2>1. entry' \in [Profile -> {"absent", "live", "null"}]
    BY <1>1 DEF TableTypes
  <2>2. job' \in [Job -> {"unknown", "known", "running", "ended", "deleted"}]
    BY <1>1 DEF TableTypes
  <2>3. \A p \in Profile : entry[p] # "absent" => entry'[p] # "absent"
    BY <1>1
  <2>4. unvisited' = {} /\ file.profiles \subseteq Profile
    BY <1>1, NamesAreKnown DEF Ready, TableTypes
  <2> QED
    BY <1>1, <2>1, <2>2, <2>3, <2>4 DEF TableTypes, Linked
<1>11. PointersInv'
  <2>1. \A s \in linked : s \in Live' => Parts(s) \subseteq Live' \cup Gone'
    BY <1>5, <1>7, <1>8 DEF PointersInv
  <2>2. ASSUME NEW j \in Job, job'[j] # "unknown" PROVE ProfileOf(j) \in Live' \cup Gone'
    <3>1. job[j] # "unknown"
      BY <1>1, <2>2
    <3> QED
      BY <1>5, <1>7, <1>8, <3>1 DEF PointersInv
  <2>3. \A p \in Gone' : entry'[p] # "absent"
    <3>1. \A p \in Gone' : p \in Profile /\ entry[p] # "absent"
      BY <1>7, <1>9 DEF PointersInv, Live, Gone
    <3> QED
      BY <1>1, <3>1
  <2> QED
    BY <1>1, <2>1, <2>2, <2>3 DEF PointersInv
<1>12. ASSUME ~file.reuse, NEW j \in dead PROVE Used(j) \cap Live' = {}
  <2> DEFINE S == (Live \cup Gone) \ Live'
  <2>1. ProfileOf(j) \in S /\ S \in SUBSET Profile
    BY <1>3, <1>8, <1>12 DEF PointersInv, CollectedInv, Live, Gone
  <2>2. ASSUME NEW s \in S, s \in linked PROVE Parts(s) \subseteq S
    <3>1. CASE s \in gone
      <4>1. Parts(s) \subseteq Live \cup Gone
        BY <1>3, <2>2, <3>1 DEF PointersInv
      <4>2. Parts(s) \cap Live \subseteq gone
        BY <1>3, <2>2, <3>1
      <4> QED
        BY <1>8, <1>12, <4>1, <4>2
    <3>2. CASE s \notin gone
      <4>1. s \in Gone
        BY <1>8, <1>12, <2>2, <3>2
      <4>2. Parts(s) \subseteq Gone
        BY <2>2, <4>1, GoneClosed
      <4> QED
        BY <1>8, <1>12, <4>2 DEF CollectedInv
    <3> QED
      BY <3>1, <3>2
  <2>3. j \in Job
    OBVIOUS
  <2> HIDE DEF S
  <2>4. Used(j) \subseteq S
    BY <2>1, <2>2, <2>3, UsedWithin
  <2> QED
    BY <2>4 DEF S
<1>13. CollectedInv'
  <2>1. ~file.reuse => Gone' \cap Live' = {}
    BY <1>7, <1>8, <1>12 DEF CollectedInv
  <2>2. \A p \in Profile : PointedTo(p)' = PointedTo(p)
    BY <1>1 DEF PointedTo, Used
  <2>3. ASSUME NEW p \in Profile, entry'[p] = "null"
        PROVE  \/ ~file.reuse /\ p \in Gone'
               \/ p \in file.profiles /\ ~PointedTo(p)
    BY <1>1, <1>5, <1>7, <2>3 DEF CollectedInv, Collects
  <2> QED
    BY <1>1, <2>1, <2>2, <2>3 DEF CollectedInv
<1> QED
  BY <1>1, <1>10, <1>11, <1>13, NothingMissesYet

\* The invariant is kept.
LEMMA TableNext == (TableInv \/ Refused) /\ [Next]_vars => (TableInv \/ Refused)'
<1>1. ASSUME Refused, [Next]_vars PROVE Refused'
  <2>1. ~Ready
    BY <1>1 DEF Refused, Ready, NoFailure
  <2>2. UNCHANGED vars
    BY <1>1, <2>1 DEF Next, Refused, RemoveUnreferenced, RegisterProfile, RegisterJob,
                      ExecuteJob, JobEnds, RunBranch, DeleteJobs
  <2> QED
    BY <1>1, <2>2 DEF Refused, vars
<1>2. ASSUME TableInv, [Next]_vars PROVE TableInv'
  <2>1. CASE UNCHANGED vars
    <3>1. UNCHANGED <<file, entry, linked, unvisited, job, failure>>
      BY <2>1 DEF vars
    <3>2. \A j \in Job : Used(j)' = Used(j)
      BY <3>1 DEF Used
    <3>3. Live' = Live /\ Gone' = Gone
      BY <3>1, <3>2 DEF Live, Gone
    <3>4. TableTypes' /\ PointersInv'
      BY <1>2, <3>1, <3>3 DEF TableInv, TableTypes, PointersInv, Linked
    <3>5. CollectedInv'
      BY <1>2, <3>1, <3>3 DEF TableInv, CollectedInv, PointedTo, Used
    <3>6. NamesMissOnlyForgotten'
      BY <1>2, <3>1 DEF TableInv, NamesMissOnlyForgotten, Accessible, PointedTo, WasCollected, Used
    <3> QED
      BY <3>4, <3>5, <3>6 DEF TableInv
  <2>2. CASE Next
    BY <1>2, <2>2, RemoveUnreferencedKeeps, RegisterProfileKeeps, JobStepsKeep, DeleteJobsKeeps DEF Next
  <2> QED
    BY <1>2, <2>1, <2>2
<1> QED
  BY <1>1, <1>2

\* Without --enable-profile-reuse, the end of a job forgets its profile and everything
\* its sequences execute, whoever shares them and whatever was forgotten before, for all
\* profiles, jobs and workload files (Profiles::remove_profile).
THEOREM ProfilesAreCollected == Spec => []CollectedAfterUse
<1>1. TableInv \/ Refused => CollectedAfterUse
  <2>1. TableInv => CollectedAfterUse
    BY DEF TableInv, CollectedInv, Gone, Live, CollectedAfterUse, Accessible
  <2>2. Refused => CollectedAfterUse
    BY DEF Refused, CollectedAfterUse
  <2> QED
    BY <2>1, <2>2
<1> QED
  BY <1>1, TableInit, TableNext, PTL DEF Spec

\* A name misses its profile only when the profile never existed, was unreferenced in
\* the file, or was collected, and a known job never misses its own, for all profiles,
\* jobs and workload files (Profiles::operator[], remove_unreferenced_profiles).
THEOREM NamesMissForAReason == Spec => []NamesMissOnlyForgotten
<1>1. TableInv \/ Refused => NamesMissOnlyForgotten
  BY DEF TableInv, Refused, NamesMissOnlyForgotten
<1> QED
  BY <1>1, TableInit, TableNext, PTL DEF Spec
=============================================================================
