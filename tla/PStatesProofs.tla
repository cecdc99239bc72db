--------------------------- MODULE PStatesProofs ----------------------------
(***************************************************************************)
(* Power states (PStates): the requests of the scheduler, the switchers    *)
(* and the answers. Base holds for all constants: types, one decision on   *)
(* its way, one switcher per machine, each request answered once. A        *)
(* patient scheduler adds where the machines of a request are (SwitchInv)  *)
(* and what it knows of them (WantedInv).                                  *)
(***************************************************************************)
EXTENDS PStates, FiniteSetTheorems, SequenceTheorems, TLAPS
----------------------------------------------------------------------------
\* The invariants

\* What is put to the server, and what is buffered for the scheduler.
Mail ==
  [type : {"SWITCHED"}, about : {{m} : m \in Machine}, target : PState]
    \cup [type : {"PSTATE_MODIFICATION"}, about : SUBSET Switchable, target : PState]
    \cup [type : {"SCHED_EXECUTE_JOB", "JOB_COMPLETED"}, about : {{j} : j \in Job}, target : {Virtual}]
    \cup [type : {"available", "unavailable"}, about : SUBSET Machine, target : {Virtual}]
    \cup [type : {"SCHED_READY"}, about : {{}}, target : {Virtual}]
Event ==
  [type : {"RESOURCE_STATE_CHANGED"}, about : SUBSET Machine, target : PState]
    \cup [type : {"event_machine_available", "event_machine_unavailable"},
          about : SUBSET Machine, target : {Virtual}]
    \cup [type : {"JOB_COMPLETED"}, about : {{j} : j \in Job}, target : {Virtual}]

\* How many entries of a sequence are in K.
CountIn(s, K) == Cardinality({i \in 1..Len(s) : s[i] \in K})

\* How many requests name a machine.
InRequests(R, m) == Cardinality({r \in R : m \in r.all})

Mailed   == {mailbox[i] : i \in 1..Len(mailbox)}
Buffered == {outbox[i] : i \in 1..Len(outbox)}

OfTypes(types) == {x \in Mail : x.type \in types}
Decisions == OfTypes({"SCHED_EXECUTE_JOB", "PSTATE_MODIFICATION", "SCHED_READY"})
Ends      == OfTypes({"SWITCHED"})
EndsOf(m) == {x \in Ends : x.about = {m}}
Requests(m) == {x \in OfTypes({"PSTATE_MODIFICATION"}) : m \in x.about}
Answers(m)  == {x \in Event : x.type = "RESOURCE_STATE_CHANGED" /\ m \in x.about}
Changes     == OfTypes({"available", "unavailable"})

Request == [number : Nat, all : SUBSET Switchable, left : SUBSET Machine, target : PState]
Switcher == [machine : Switchable, target : PState, phase : {"created", "computing"}]

\* Every variable has its type. The counters may be negative here: that they are
\* not is part of what follows.
Types ==
  /\ pstate \in [Machine -> PState \cup {Virtual}]
  /\ mstate \in [Machine -> MState]
  /\ computing \in [Machine -> SUBSET Job]
  /\ alloc \in [Job -> SUBSET Machine]
  /\ actor \in [Job -> {"none", "created", "running", "ended"}]
  /\ switches \subseteq Request /\ IsFiniteSet(switches)
  /\ switcher \subseteq Switcher /\ IsFiniteSet(switcher)
  /\ nb_switching \in Int
  /\ mailbox \in Seq(Mail) /\ outbox \in Seq(Event)
  /\ occurred \in 0..Len(AvailabilityEvents)
  /\ sched \in {"ready", "run", "blocked"}
  /\ view \in [Job -> {"waiting", "running", "done"}]
  /\ pending \in [Machine -> Int]
  /\ wanted \in [Machine -> PState]
  /\ told_down \subseteq Machine
  /\ asked \in Nat
  /\ aborted \in BOOLEAN

\* The scheduler has one decision on its way while it is blocked, and none
\* otherwise.
OneDecision == CountIn(mailbox, Decisions) = IF sched = "blocked" THEN 1 ELSE 0

\* A machine has one switcher at most, which computes exactly while the power state
\* is virtual; nb_switching_machines counts switchers and reports.
SwitchersInv ==
  /\ \A s, t \in switcher : s.machine = t.machine => s = t
  /\ \A s \in switcher : s.phase = "computing" <=> pstate[s.machine] = Virtual
  /\ \A m \in Machine : pstate[m] = Virtual => \E s \in switcher : s.machine = m
  /\ nb_switching = Cardinality(switcher) + CountIn(mailbox, Ends)

\* Requests are numbered, none is finished, each is answered once.
RequestsInv ==
  /\ \A r \in switches : /\ r.left \subseteq r.all /\ r.left # {}
                         /\ r.number <= asked
                         /\ \A x \in Mailed : x.type = "PSTATE_MODIFICATION" => r.number < asked
  /\ \A q, r \in switches : q.number = r.number => q = r
  /\ \A m \in Machine :
       pending[m] = CountIn(mailbox, Requests(m)) + InRequests(switches, m)
                    + CountIn(outbox, Answers(m))

\* With a patient scheduler, a machine is in one request at most.
PatientInv == \A m \in Machine : pending[m] <= 1

\* Where the machines of a request are: a switcher, or the report of its end, serves
\* a request in which its machine is left; a machine that is left has one of them;
\* the others are in the power state of the request, as are those of the answers.
SwitchersAwaited ==
  \A s \in switcher : \E r \in switches : r.target = s.target /\ s.machine \in r.left
OneEndEach == \A m \in Machine : CountIn(mailbox, EndsOf(m)) <= 1
EndsAwaited ==
  \A x \in Mailed, m \in Machine : x.type = "SWITCHED" /\ x.about = {m} =>
    /\ pstate[m] = x.target
    /\ \E r \in switches : r.target = x.target /\ m \in r.left
    /\ \A s \in switcher : s.machine # m
LeftInFlight == \A r \in switches : \A m \in r.left : SwitchInFlight(m, r.target)
RestIsSet    == \A r \in switches : \A m \in r.all \ r.left : pstate[m] = r.target
AnsweredSet  == \A x \in Buffered : x.type = "RESOURCE_STATE_CHANGED" =>
                  \A m \in x.about : pstate[m] = x.target
SwitchInv == /\ SwitchersAwaited /\ OneEndEach /\ EndsAwaited
             /\ LeftInFlight /\ RestIsSet /\ AnsweredSet

\* The scheduler knows the power state of the machines it has not asked to change.
WantedInv ==
  /\ \A x \in Mailed : x.type = "PSTATE_MODIFICATION" =>
       \A m \in x.about : /\ wanted[m] = x.target
                          /\ x.target \in SleepPState => pstate[m] \in CompPState
  /\ \A r \in switches : \A m \in r.all : wanted[m] = r.target
  /\ \A x \in Buffered : x.type = "RESOURCE_STATE_CHANGED" =>
       \A m \in x.about : wanted[m] = x.target
  /\ \A m \in Machine : pending[m] = 0 => pstate[m] = wanted[m]

----------------------------------------------------------------------------
\* Counting lemmas

\* Indices are finite, so counts are natural numbers.
LEMMA CountType ==
  ASSUME NEW T, NEW s \in Seq(T), NEW K
  PROVE  /\ IsFiniteSet({i \in 1..Len(s) : s[i] \in K})
         /\ CountIn(s, K) \in Nat
<1>1. IsFiniteSet(1..Len(s)) /\ {i \in 1..Len(s) : s[i] \in K} \in SUBSET (1..Len(s))
  BY FS_Interval
<1> QED
  BY <1>1, FS_Subset, FS_CardinalityType DEF CountIn

\* A count is zero when no entry is in the set.
LEMMA CountZero ==
  ASSUME NEW T, NEW s \in Seq(T), NEW K
  PROVE  CountIn(s, K) = 0 <=> \A i \in 1..Len(s) : s[i] \notin K
<1> DEFINE I == {i \in 1..Len(s) : s[i] \in K}
<1>1. IsFiniteSet(I)
  BY CountType
<1>2. I = {} <=> \A i \in 1..Len(s) : s[i] \notin K
  OBVIOUS
<1> HIDE DEF I
<1>3. Cardinality(I) = 0 <=> I = {}
  BY <1>1, FS_EmptySet
<1> QED
  BY <1>2, <1>3 DEF CountIn, I

\* An entry that is appended counts when it is in the set.
LEMMA CountAppend ==
  ASSUME NEW T, NEW s \in Seq(T), NEW e \in T, NEW K
  PROVE  CountIn(Append(s, e), K) = CountIn(s, K) + (IF e \in K THEN 1 ELSE 0)
<1> DEFINE I == {i \in 1..Len(s) : s[i] \in K}
           J == {i \in 1..Len(Append(s, e)) : Append(s, e)[i] \in K}
<1>1. IsFiniteSet(I) /\ Len(s) + 1 \notin I
  <2>1. IsFiniteSet(I)
    BY CountType
  <2>2. Len(s) + 1 \notin 1..Len(s)
    BY LenProperties
  <2> QED
    BY <2>1, <2>2
<1>2. J = IF e \in K THEN I \cup {Len(s) + 1} ELSE I
  <2>1. /\ Len(s) \in Nat /\ Len(Append(s, e)) = Len(s) + 1
        /\ \A i \in 1..Len(s) : Append(s, e)[i] = s[i]
        /\ Append(s, e)[Len(s) + 1] = e
    OBVIOUS
  <2>2. \A i : i \in 1..(Len(s) + 1) <=> i \in 1..Len(s) \/ i = Len(s) + 1
    BY <2>1
  <2> QED
    BY <2>1, <2>2
<1> HIDE DEF I, J
<1>3. Cardinality(J) = Cardinality(I) + (IF e \in K THEN 1 ELSE 0)
  <2>1. Cardinality(I \cup {Len(s) + 1}) = Cardinality(I) + 1
    BY <1>1, FS_AddElement
  <2>2. Cardinality(I) \in Nat
    BY <1>1, FS_CardinalityType
  <2> QED
    BY <1>2, <2>1, <2>2
<1> QED
  BY <1>3 DEF CountIn, I, J

\* The set of the entries of a sequence, counted along it.
LEMMA CountConcat ==
  ASSUME NEW T, NEW s \in Seq(T), NEW t \in Seq(T), NEW K
  PROVE  CountIn(s \o t, K) = CountIn(s, K) + CountIn(t, K)
<1> DEFINE I == {i \in 1..Len(s) : s[i] \in K}
           J == {i \in 1..Len(t) : t[i] \in K}
           H == {i \in 1..Len(s \o t) : (s \o t)[i] \in K}
           f == [i \in J |-> i + Len(s)]
           G == {i + Len(s) : i \in J}
<1>1. /\ Len(s) \in Nat /\ Len(t) \in Nat /\ Len(s \o t) = Len(s) + Len(t)
      /\ \A i \in 1..Len(s) : (s \o t)[i] = s[i]
      /\ \A i \in 1..Len(t) : (s \o t)[i + Len(s)] = t[i]
  BY ConcatProperties
<1>2. H = I \cup G /\ I \cap G = {}
  <2>1. \A i : i \in 1..(Len(s) + Len(t)) <=> i \in 1..Len(s) \/ \E k \in 1..Len(t) : i = k + Len(s)
    <3>1. ASSUME NEW i \in 1..(Len(s) + Len(t)), i \notin 1..Len(s)
          PROVE  \E k \in 1..Len(t) : i = k + Len(s)
      <4>1. i - Len(s) \in 1..Len(t) /\ i = (i - Len(s)) + Len(s)
        BY <1>1, <3>1
      <4> QED
        BY <4>1
    <3> QED
      BY <1>1, <3>1
  <2> QED
    BY <1>1, <2>1
<1>3. IsFiniteSet(I) /\ IsFiniteSet(J) /\ Cardinality(I) \in Nat /\ Cardinality(J) \in Nat
  BY CountType, FS_CardinalityType
<1>4. f \in Bijection(J, G)
  <2>1. \A i, k \in J : i + Len(s) = k + Len(s) => i = k
    BY <1>1
  <2> QED
    BY <2>1 DEF Bijection, Injection, Surjection, IsInjective
<1>5. IsFiniteSet(G) /\ Cardinality(G) = Cardinality(J)
  BY <1>3, <1>4, FS_Bijection DEF ExistsBijection
<1> HIDE DEF I, J, H, G
<1>6. Cardinality(I \cup G) = Cardinality(I) + Cardinality(G)
  <2>1. Cardinality(I \cup G) = Cardinality(I) + Cardinality(G) - Cardinality(I \cap G)
    BY <1>3, <1>5, FS_Union
  <2>2. Cardinality(I \cap G) = 0
    BY <1>2, FS_EmptySet
  <2> QED
    BY <1>3, <1>5, <2>1, <2>2
<1> QED
  BY <1>2, <1>5, <1>6 DEF CountIn, I, J, H

\* The first entry counts when it is in the set.
LEMMA CountTail ==
  ASSUME NEW T, NEW s \in Seq(T), s # <<>>, NEW K
  PROVE  CountIn(s, K) = CountIn(Tail(s), K) + (IF s[1] \in K THEN 1 ELSE 0)
<1> DEFINE h == <<Head(s)>>
<1>1. s = h \o Tail(s) /\ h \in Seq(T) /\ Tail(s) \in Seq(T) /\ Head(s) = s[1]
  BY HeadTailProperties
<1>2. CountIn(s, K) = CountIn(h, K) + CountIn(Tail(s), K)
  BY <1>1, CountConcat
<1>3. CountIn(h, K) = IF s[1] \in K THEN 1 ELSE 0
  <2>1. {i \in 1..Len(h) : h[i] \in K} = IF s[1] \in K THEN {1} ELSE {}
    BY <1>1
  <2>2. Cardinality({1}) = 1 /\ Cardinality({}) = 0
    BY FS_EmptySet, FS_Singleton
  <2> QED
    BY <2>1, <2>2 DEF CountIn
<1>4. CountIn(h, K) \in Nat /\ CountIn(Tail(s), K) \in Nat
  BY <1>1, CountType
<1> QED
  BY <1>2, <1>3, <1>4

\* Nothing is counted in an empty sequence.
LEMMA CountEmpty == ASSUME NEW K PROVE CountIn(<<>>, K) = 0
<1>1. {i \in 1..Len(<<>>) : <<>>[i] \in K} = {}
  OBVIOUS
<1> QED
  BY <1>1, FS_EmptySet DEF CountIn

\* A finite set in any order: entries of the order and elements of the set.
LEMMA CountOrder ==
  ASSUME NEW S, IsFiniteSet(S), NEW f \in SetToSeqs(S), NEW K
  PROVE  /\ f \in Seq(S) /\ Len(f) = Cardinality(S) /\ DOMAIN f = 1..Len(f)
         /\ \A x \in S : \E i \in 1..Len(f) : f[i] = x
         /\ CountIn(f, K) = Cardinality(S \cap K)
<1>1. Cardinality(S) \in Nat
  BY FS_CardinalityType
<1>2. f \in Seq(S) /\ Len(f) = Cardinality(S) /\ f \in [1..Len(f) -> S] /\ DOMAIN f = 1..Len(f)
  BY <1>1 DEF SetToSeqs
<1>3. \A i, k \in 1..Len(f) : i # k => f[i] # f[k]
  BY <1>2 DEF SetToSeqs
<1>4. f \in Injection(1..Len(f), S)
  BY <1>2, <1>3 DEF Injection, IsInjective
<1>5. Cardinality(1..Len(f)) = Cardinality(S) /\ IsFiniteSet(1..Len(f))
  BY <1>1, <1>2, FS_Interval
<1>6. f \in Surjection(1..Len(f), S)
  BY <1>4, <1>5, FS_Injection
<1>7. \A x \in S : \E i \in 1..Len(f) : f[i] = x
  BY <1>6 DEF Surjection
<1> DEFINE I == {i \in 1..Len(f) : f[i] \in K}
           g == [i \in I |-> f[i]]
<1>8. g \in Bijection(I, S \cap K)
  <2>1. g \in [I -> S \cap K]
    BY <1>2
  <2>2. \A i, k \in I : g[i] = g[k] => i = k
    BY <1>3
  <2>3. \A x \in S \cap K : \E i \in I : g[i] = x
    BY <1>7
  <2> HIDE DEF g, I
  <2> QED
    BY <2>1, <2>2, <2>3 DEF Bijection, Injection, Surjection, IsInjective
<1>9. IsFiniteSet(I)
  BY <1>2, CountType
<1>10. Cardinality(S \cap K) = Cardinality(I)
  BY <1>8, <1>9, FS_Bijection DEF ExistsBijection
<1> QED
  BY <1>2, <1>7, <1>10 DEF CountIn

----------------------------------------------------------------------------
\* Messages and events

\* What the type of a message says of it.
LEMMA MailKinds ==
  ASSUME NEW x \in Mail
  PROVE  /\ x.type = "SWITCHED" => (\E m \in Machine : x.about = {m}) /\ x.target \in PState
         /\ x.type = "PSTATE_MODIFICATION" => x.about \in SUBSET Switchable /\ x.target \in PState
         /\ x.type \in {"SCHED_EXECUTE_JOB", "JOB_COMPLETED"} => \E j \in Job : x.about = {j}
         /\ x.type \in {"available", "unavailable"} => x.about \in SUBSET Machine
  BY DEF Mail

\* The messages that are put, and the events that are appended.
LEMMA MailOf ==
  /\ \A m \in Machine, target \in PState : Msg("SWITCHED", {m}, target) \in Mail
  /\ \A S \in SUBSET Switchable, target \in PState : Msg("PSTATE_MODIFICATION", S, target) \in Mail
  /\ \A j \in Job : /\ Msg("SCHED_EXECUTE_JOB", {j}, Virtual) \in Mail
                    /\ Msg("JOB_COMPLETED", {j}, Virtual) \in Mail
                    /\ Msg("JOB_COMPLETED", {j}, Virtual) \in Event
  /\ Msg("SCHED_READY", {}, Virtual) \in Mail
  /\ \A S \in SUBSET Machine :
       /\ Msg("available", S, Virtual) \in Mail /\ Msg("unavailable", S, Virtual) \in Mail
       /\ Msg("event_machine_available", S, Virtual) \in Event
       /\ Msg("event_machine_unavailable", S, Virtual) \in Event
       /\ \A target \in PState : Msg("RESOURCE_STATE_CHANGED", S, target) \in Event
  BY DEF Mail, Event, Msg

\* Counting in the mailbox and in the buffer.
LEMMA MailCount ==
  ASSUME Types
  PROVE  /\ \A K : /\ CountIn(mailbox, K) \in Nat
                   /\ CountIn(mailbox, K) = 0 <=> Mailed \cap K = {}
         /\ \A K : /\ CountIn(outbox, K) \in Nat
                   /\ CountIn(outbox, K) = 0 <=> Buffered \cap K = {}
         /\ Mailed \subseteq Mail /\ Buffered \subseteq Event
<1>1. mailbox \in Seq(Mail) /\ outbox \in Seq(Event)
  BY DEF Types
<1>2. \A K : /\ CountIn(mailbox, K) \in Nat
             /\ CountIn(mailbox, K) = 0 <=> Mailed \cap K = {}
  <2> TAKE K
  <2>1. CountIn(mailbox, K) \in Nat
    BY <1>1, CountType
  <2>2. CountIn(mailbox, K) = 0 <=> \A i \in 1..Len(mailbox) : mailbox[i] \notin K
    BY <1>1, CountZero
  <2> QED
    BY <2>1, <2>2 DEF Mailed
<1>3. \A K : /\ CountIn(outbox, K) \in Nat
             /\ CountIn(outbox, K) = 0 <=> Buffered \cap K = {}
  <2> TAKE K
  <2>1. CountIn(outbox, K) \in Nat
    BY <1>1, CountType
  <2>2. CountIn(outbox, K) = 0 <=> \A i \in 1..Len(outbox) : outbox[i] \notin K
    BY <1>1, CountZero
  <2> QED
    BY <2>1, <2>2 DEF Buffered
<1> QED
  BY <1>1, <1>2, <1>3 DEF Mailed, Buffered

\* A message is put.
LEMMA PutMail ==
  ASSUME Types, NEW x \in Mail, Put(x)
  PROVE  /\ mailbox' \in Seq(Mail)
         /\ Mailed' = Mailed \cup {x}
         /\ \A K : CountIn(mailbox', K) = CountIn(mailbox, K) + (IF x \in K THEN 1 ELSE 0)
<1>1. mailbox \in Seq(Mail) /\ mailbox' = Append(mailbox, x)
  BY DEF Types, Put
<1>2. mailbox' \in Seq(Mail)
  BY <1>1
<1>3. Mailed' = Mailed \cup {x}
  <2>1. /\ Len(mailbox) \in Nat /\ Len(mailbox') = Len(mailbox) + 1
        /\ \A i \in 1..Len(mailbox) : mailbox'[i] = mailbox[i]
        /\ mailbox'[Len(mailbox) + 1] = x
    BY <1>1
  <2>2. \A i : i \in 1..(Len(mailbox) + 1) <=> i \in 1..Len(mailbox) \/ i = Len(mailbox) + 1
    BY <2>1
  <2> QED
    BY <2>1, <2>2 DEF Mailed
<1>4. \A K : CountIn(mailbox', K) = CountIn(mailbox, K) + (IF x \in K THEN 1 ELSE 0)
  BY <1>1, CountAppend
<1> QED
  BY <1>2, <1>3, <1>4

\* The server takes the first message.
LEMMA TakeMail ==
  ASSUME Types, mailbox # <<>>, mailbox' = Tail(mailbox)
  PROVE  /\ mailbox' \in Seq(Mail)
         /\ Received \in Mail /\ Received \in Mailed
         /\ Mailed' \subseteq Mailed /\ Mailed = Mailed' \cup {Received}
         /\ \A K : CountIn(mailbox, K) = CountIn(mailbox', K) + (IF Received \in K THEN 1 ELSE 0)
<1>1. mailbox \in Seq(Mail)
  BY DEF Types
<1>2. /\ Tail(mailbox) \in Seq(Mail) /\ Len(mailbox) \in Nat /\ Len(mailbox) >= 1
      /\ Len(Tail(mailbox)) = Len(mailbox) - 1
      /\ \A i \in 1..Len(Tail(mailbox)) : Tail(mailbox)[i] = mailbox[i+1]
  BY <1>1, HeadTailProperties, EmptySeq, LenProperties
<1>3. Received \in Mailed /\ Received \in Mail
  BY <1>1, <1>2 DEF Received, Mailed
<1>4. Mailed = Mailed' \cup {Received}
  <2>1. \A i \in 1..Len(mailbox) : mailbox[i] \in Mailed' \cup {Received}
    <3> TAKE i \in 1..Len(mailbox)
    <3>1. CASE i = 1
      BY <3>1 DEF Received
    <3>2. CASE i # 1
      <4>1. i - 1 \in 1..Len(mailbox') /\ mailbox'[i - 1] = mailbox[i]
        BY <1>2, <3>2
      <4> QED
        BY <4>1 DEF Mailed
    <3> QED
      BY <3>1, <3>2
  <2>2. \A i \in 1..Len(mailbox') : mailbox'[i] \in Mailed
    <3> TAKE i \in 1..Len(mailbox')
    <3>1. i + 1 \in 1..Len(mailbox) /\ mailbox'[i] = mailbox[i + 1]
      BY <1>2
    <3> QED
      BY <3>1 DEF Mailed
  <2> QED
    BY <1>3, <2>1, <2>2 DEF Mailed
<1>5. \A K : CountIn(mailbox, K) = CountIn(mailbox', K) + (IF Received \in K THEN 1 ELSE 0)
  BY <1>1, CountTail DEF Received
<1> QED
  BY <1>2, <1>3, <1>4, <1>5

\* Events are appended.
LEMMA AppendEvents ==
  ASSUME Types, NEW t \in Seq(Event), outbox' = outbox \o t
  PROVE  /\ outbox' \in Seq(Event)
         /\ Buffered' = Buffered \cup {t[i] : i \in 1..Len(t)}
         /\ \A K : CountIn(outbox', K) = CountIn(outbox, K) + CountIn(t, K)
<1>1. outbox \in Seq(Event)
  BY DEF Types
<1>2. /\ outbox' \in Seq(Event) /\ Len(outbox) \in Nat /\ Len(t) \in Nat
      /\ Len(outbox') = Len(outbox) + Len(t)
      /\ \A i \in 1..Len(outbox) : outbox'[i] = outbox[i]
      /\ \A i \in 1..Len(t) : outbox'[i + Len(outbox)] = t[i]
  BY <1>1, ConcatProperties
<1>3. \A K : CountIn(outbox', K) = CountIn(outbox, K) + CountIn(t, K)
  BY <1>1, CountConcat
<1>4. \A x : x \in Buffered' => x \in Buffered \cup {t[i] : i \in 1..Len(t)}
  <2> SUFFICES ASSUME NEW i \in 1..Len(outbox')
               PROVE  outbox'[i] \in Buffered \cup {t[k] : k \in 1..Len(t)}
    BY DEF Buffered
  <2>1. CASE i \in 1..Len(outbox)
    BY <1>2, <2>1 DEF Buffered
  <2>2. CASE i \notin 1..Len(outbox)
    <3>1. i - Len(outbox) \in 1..Len(t) /\ outbox'[i] = t[i - Len(outbox)]
      BY <1>2, <2>2
    <3> QED
      BY <3>1
  <2> QED
    BY <2>1, <2>2
<1>5. Buffered \subseteq Buffered'
  BY <1>2 DEF Buffered
<1>6. ASSUME NEW i \in 1..Len(t) PROVE t[i] \in Buffered'
  <2>1. i + Len(outbox) \in 1..Len(outbox') /\ outbox'[i + Len(outbox)] = t[i]
    BY <1>2
  <2> QED
    BY <2>1 DEF Buffered
<1> QED
  BY <1>2, <1>3, <1>4, <1>5, <1>6

\* One event is appended.
LEMMA AppendEvent ==
  ASSUME Types, NEW x \in Event, outbox' = Append(outbox, x)
  PROVE  /\ outbox' \in Seq(Event)
         /\ Buffered' = Buffered \cup {x}
         /\ \A K : CountIn(outbox', K) = CountIn(outbox, K) + (IF x \in K THEN 1 ELSE 0)
<1>1. outbox \in Seq(Event)
  BY DEF Types
<1>2. outbox' \in Seq(Event)
  BY <1>1
<1>3. Buffered' = Buffered \cup {x}
  <2>1. /\ Len(outbox) \in Nat /\ Len(outbox') = Len(outbox) + 1
        /\ \A i \in 1..Len(outbox) : outbox'[i] = outbox[i]
        /\ outbox'[Len(outbox) + 1] = x
    BY <1>1
  <2>2. \A i : i \in 1..(Len(outbox) + 1) <=> i \in 1..Len(outbox) \/ i = Len(outbox) + 1
    BY <2>1
  <2> QED
    BY <2>1, <2>2 DEF Buffered
<1> QED
  BY <1>1, <1>2, <1>3, CountAppend

----------------------------------------------------------------------------
\* Requests that are marked, erased and answered

\* The requests after mark_switch_as_done are those before it, with fewer machines
\* left.
LEMMA MarkedRequests ==
  ASSUME NEW R \in SUBSET Request, IsFiniteSet(R),
         \A q, r \in R : q.number = r.number => q = r,
         NEW S, NEW target
  PROVE  LET marked == mark_switch_as_done(R, S, target)
         IN  /\ marked \subseteq Request /\ IsFiniteSet(marked)
             /\ \A q, r \in marked : q.number = r.number => q = r
             /\ \A q \in marked : \E r \in R :
                  /\ q.number = r.number /\ q.all = r.all /\ q.target = r.target
                  /\ q.left = {m \in r.left : ~ (m \in S /\ r \in Credited(R, m, target))}
             /\ \A r \in R : \E q \in marked :
                  /\ q.number = r.number /\ q.all = r.all /\ q.target = r.target
                  /\ q.left = {m \in r.left : ~ (m \in S /\ r \in Credited(R, m, target))}
             /\ \A m : InRequests(marked, m) = InRequests(R, m)
<1> DEFINE done(r) == {m \in r.left : ~ (m \in S /\ r \in Credited(R, m, target))}
           marked  == mark_switch_as_done(R, S, target)
           f == [r \in R |-> [r EXCEPT !.left = done(r)]]
<1>1. marked = {f[r] : r \in R}
  BY DEF mark_switch_as_done
<1>2. \A r \in R : /\ f[r] \in Request
                   /\ f[r].number = r.number /\ f[r].all = r.all /\ f[r].target = r.target
                   /\ f[r].left = done(r)
  BY DEF Request
<1>3. f \in [R -> marked] /\ \A q \in marked : \E r \in R : q = f[r]
  BY <1>1
<1> HIDE DEF done, marked, f
<1>4. \A q, r \in R : f[q] = f[r] => q = r
  BY <1>2
<1>5. f \in Surjection(R, marked)
  BY <1>3 DEF Surjection
<1>6. IsFiniteSet(marked)
  BY <1>5, FS_Surjection
<1>7. ASSUME NEW m
      PROVE  InRequests(marked, m) = InRequests(R, m)
  <2> DEFINE A == {r \in R : m \in r.all}
             B == {r \in marked : m \in r.all}
             g == [r \in A |-> f[r]]
  <2>1. g \in Bijection(A, B)
    <3>1. g \in [A -> B]
      BY <1>2, <1>3
    <3>2. \A q, r \in A : g[q] = g[r] => q = r
      BY <1>4
    <3>3. \A q \in B : \E r \in A : g[r] = q
      BY <1>2, <1>3
    <3> HIDE DEF g, A, B
    <3> QED
      BY <3>1, <3>2, <3>3 DEF Bijection, Injection, Surjection, IsInjective
  <2>2. IsFiniteSet(A)
    <3>1. A \in SUBSET R
      OBVIOUS
    <3> QED
      BY <3>1, FS_Subset
  <2> QED
    BY <2>1, <2>2, FS_Bijection DEF ExistsBijection, InRequests
<1>8. marked \subseteq Request /\ \A q, r \in marked : q.number = r.number => q = r
  BY <1>2, <1>3
<1>9. \A q \in marked : \E r \in R :
        /\ q.number = r.number /\ q.all = r.all /\ q.target = r.target
        /\ q.left = {m \in r.left : ~ (m \in S /\ r \in Credited(R, m, target))}
  BY <1>2, <1>3 DEF done
<1>10. \A r \in R : \E q \in marked :
        /\ q.number = r.number /\ q.all = r.all /\ q.target = r.target
        /\ q.left = {m \in r.left : ~ (m \in S /\ r \in Credited(R, m, target))}
  BY <1>2, <1>3 DEF done
<1>11. \A m : InRequests(marked, m) = InRequests(R, m)
  BY <1>7
<1> QED
  BY <1>6, <1>8, <1>9, <1>10, <1>11, Zenon DEF marked

\* A finished request leaves the set and its answer enters the buffer.
LEMMA AnsweredRequests ==
  ASSUME NEW R \in SUBSET Request, IsFiniteSet(R), NEW t \in StateChanged(R)
  PROVE  /\ t \in Seq(Event)
         /\ \A i \in 1..Len(t) : \E r \in Finished(R) : t[i] = Msg("RESOURCE_STATE_CHANGED", r.all, r.target)
         /\ Unfinished(R) \subseteq Request /\ IsFiniteSet(Unfinished(R))
         /\ \A m : InRequests(R, m)
                     = InRequests(Unfinished(R), m) + CountIn(t, Answers(m))
<1>1. /\ Finished(R) \in SUBSET R /\ Unfinished(R) \in SUBSET R
      /\ IsFiniteSet(Finished(R)) /\ IsFiniteSet(Unfinished(R))
  <2>1. Finished(R) \in SUBSET R /\ Unfinished(R) \in SUBSET R
    BY DEF Finished, Unfinished
  <2> QED
    BY <2>1, FS_Subset
<1>2. PICK done \in SetToSeqs(Finished(R)) :
        t = [i \in DOMAIN done |-> Msg("RESOURCE_STATE_CHANGED", answered(done[i]), done[i].target)]
  BY DEF StateChanged
<1>3. done \in Seq(Finished(R)) /\ DOMAIN done = 1..Len(done) /\ Len(done) \in Nat
  BY <1>1, <1>2, CountOrder, LenProperties
<1>4. ASSUME NEW i \in 1..Len(done)
      PROVE  /\ done[i] \in Finished(R) /\ done[i] \in Request
             /\ t[i] = Msg("RESOURCE_STATE_CHANGED", done[i].all, done[i].target)
             /\ t[i] \in Event
             /\ t[i].type = "RESOURCE_STATE_CHANGED" /\ t[i].about = done[i].all
  <2>1. done[i] \in Finished(R) /\ done[i] \in Request
    BY <1>1, <1>3
  <2>2. t[i] = Msg("RESOURCE_STATE_CHANGED", done[i].all, done[i].target)
    BY <1>2, <1>3 DEF answered
  <2>3. done[i].all \in SUBSET Machine /\ done[i].target \in PState
    BY <2>1, PStatesAssumption DEF Request
  <2>4. t[i].type = "RESOURCE_STATE_CHANGED" /\ t[i].about = done[i].all
    BY <2>2 DEF Msg
  <2> QED
    BY <2>1, <2>2, <2>3, <2>4, MailOf
<1>5. t \in Seq(Event) /\ Len(t) = Len(done)
  <2>1. t \in [1..Len(done) -> Event]
    BY <1>2, <1>3, <1>4
  <2> QED
    BY <1>3, <2>1
<1>6. ASSUME NEW m
      PROVE  InRequests(R, m)
               = InRequests(Unfinished(R), m) + CountIn(t, Answers(m))
  <2> DEFINE A == {r \in R : m \in r.all}
             U == {r \in Unfinished(R) : m \in r.all}
             F == Finished(R) \cap {r \in Request : m \in r.all}
  <2>1. A = U \cup F /\ U \cap F = {}
    BY DEF Finished, Unfinished
  <2>2. IsFiniteSet(U) /\ IsFiniteSet(F)
    <3>1. U \in SUBSET Unfinished(R) /\ F \in SUBSET Finished(R)
      OBVIOUS
    <3> QED
      BY <1>1, <3>1, FS_Subset
  <2>3. CountIn(done, {r \in Request : m \in r.all}) = Cardinality(F)
    BY <1>1, CountOrder
  <2>4. CountIn(t, Answers(m)) = CountIn(done, {r \in Request : m \in r.all})
    <3>1. \A i \in 1..Len(done) : t[i] \in Answers(m) <=> done[i] \in {r \in Request : m \in r.all}
      <4> TAKE i \in 1..Len(done)
      <4>1. t[i] \in Event /\ t[i].type = "RESOURCE_STATE_CHANGED" /\ t[i].about = done[i].all
        BY <1>4
      <4> QED
        BY <1>4, <4>1 DEF Answers
    <3>2. {i \in 1..Len(t) : t[i] \in Answers(m)}
            = {i \in 1..Len(done) : done[i] \in {r \in Request : m \in r.all}}
      BY <1>5, <3>1
    <3> QED
      BY <3>2 DEF CountIn
  <2> HIDE DEF A, U, F
  <2>5. Cardinality(U \cup F) = Cardinality(U) + Cardinality(F) - Cardinality(U \cap F)
    BY <2>2, FS_Union
  <2>6. Cardinality(U \cap F) = 0 /\ Cardinality(U) \in Nat /\ Cardinality(F) \in Nat
    BY <2>1, <2>2, FS_EmptySet, FS_CardinalityType
  <2>7. Cardinality(A) = Cardinality(U) + CountIn(t, Answers(m))
    BY <2>1, <2>3, <2>4, <2>5, <2>6
  <2> QED
    BY <2>7 DEF A, U, InRequests
<1>7. Unfinished(R) \subseteq Request
  BY <1>1
<1> QED
  BY <1>1, <1>4, <1>5, <1>6, <1>7

----------------------------------------------------------------------------
\* Requests are marked, the finished ones erased and answered.
Answering(R, S, target) ==
  LET marked == mark_switch_as_done(R, S, target)
  IN  /\ switches' = Unfinished(marked)
      /\ \E answers \in StateChanged(marked) : outbox' = outbox \o answers

\* What is left of request r when the machines S are in the power state.
LeftOf(R, r, S, target) == {m \in r.left : ~ (m \in S /\ r \in Credited(R, m, target))}

\* All that the invariants need to know of this: which requests stay, which are
\* answered, and that there are as many as before.
LEMMA AnsweringLemma ==
  ASSUME Types, NEW R \in SUBSET Request, IsFiniteSet(R),
         \A q, r \in R : q.number = r.number => q = r,
         NEW S, NEW target, Answering(R, S, target)
  PROVE  /\ switches' \subseteq Request /\ IsFiniteSet(switches') /\ outbox' \in Seq(Event)
         /\ \A q, r \in switches' : q.number = r.number => q = r
         /\ \A m : InRequests(switches', m) + CountIn(outbox', Answers(m))
                     = InRequests(R, m) + CountIn(outbox, Answers(m))
         /\ \A q \in switches' : \E r \in R :
              /\ q.number = r.number /\ q.all = r.all /\ q.target = r.target
              /\ q.left = LeftOf(R, r, S, target) /\ q.left # {}
         /\ \A r \in R : LeftOf(R, r, S, target) # {} => \E q \in switches' :
              /\ q.number = r.number /\ q.all = r.all /\ q.target = r.target
              /\ q.left = LeftOf(R, r, S, target)
         /\ Buffered \subseteq Buffered'
         /\ \A x \in Buffered' : \/ x \in Buffered
                                 \/ \E r \in R : /\ LeftOf(R, r, S, target) = {}
                                                 /\ x = Msg("RESOURCE_STATE_CHANGED", r.all, r.target)
<1> DEFINE marked == mark_switch_as_done(R, S, target)
<1>1. /\ marked \subseteq Request /\ IsFiniteSet(marked)
      /\ \A q, r \in marked : q.number = r.number => q = r
      /\ \A q \in marked : \E r \in R :
           /\ q.number = r.number /\ q.all = r.all /\ q.target = r.target
           /\ q.left = LeftOf(R, r, S, target)
      /\ \A r \in R : \E q \in marked :
           /\ q.number = r.number /\ q.all = r.all /\ q.target = r.target
           /\ q.left = LeftOf(R, r, S, target)
      /\ \A m : InRequests(marked, m) = InRequests(R, m)
  BY MarkedRequests, Zenon DEF LeftOf
<1>2. switches' = Unfinished(marked)
  BY DEF Answering
<1>3. PICK answers \in StateChanged(marked) : outbox' = outbox \o answers
  BY DEF Answering
<1> HIDE DEF marked
<1>4. /\ answers \in Seq(Event)
      /\ \A i \in 1..Len(answers) : \E r \in Finished(marked) :
           answers[i] = Msg("RESOURCE_STATE_CHANGED", r.all, r.target)
      /\ Unfinished(marked) \subseteq Request /\ IsFiniteSet(Unfinished(marked))
      /\ \A m : InRequests(marked, m)
                  = InRequests(Unfinished(marked), m) + CountIn(answers, Answers(m))
  BY <1>1, <1>3, AnsweredRequests
<1>5. /\ outbox' \in Seq(Event)
      /\ Buffered' = Buffered \cup {answers[i] : i \in 1..Len(answers)}
      /\ \A K : CountIn(outbox', K) = CountIn(outbox, K) + CountIn(answers, K)
  BY <1>3, <1>4, AppendEvents
<1>6. ASSUME NEW m
      PROVE  InRequests(switches', m) + CountIn(outbox', Answers(m))
               = InRequests(R, m) + CountIn(outbox, Answers(m))
  <2> DEFINE a == InRequests(Unfinished(marked), m)
             b == CountIn(answers, Answers(m))
             c == CountIn(outbox, Answers(m))
  <2>1. a \in Nat
    <3>1. {r \in Unfinished(marked) : m \in r.all} \in SUBSET Unfinished(marked)
      OBVIOUS
    <3> QED
      BY <1>4, <3>1, FS_Subset, FS_CardinalityType DEF InRequests
  <2>2. b \in Nat /\ c \in Nat
    BY <1>4, CountType DEF Types
  <2>3. InRequests(R, m) = a + b
    BY <1>1, <1>4
  <2>4. CountIn(outbox', Answers(m)) = c + b
    BY <1>5
  <2> HIDE DEF a, b, c
  <2>5. a + (c + b) = (a + b) + c
    BY <2>1, <2>2
  <2> QED
    BY <1>2, <2>3, <2>4, <2>5 DEF a, c
<1>7. \A q, r \in switches' : q.number = r.number => q = r
  BY <1>1, <1>2 DEF Unfinished
<1>8. \A q \in switches' : \E r \in R :
        /\ q.number = r.number /\ q.all = r.all /\ q.target = r.target
        /\ q.left = LeftOf(R, r, S, target) /\ q.left # {}
  BY <1>1, <1>2 DEF Unfinished
<1>9. \A r \in R : LeftOf(R, r, S, target) # {} => \E q \in switches' :
        /\ q.number = r.number /\ q.all = r.all /\ q.target = r.target
        /\ q.left = LeftOf(R, r, S, target)
  BY <1>1, <1>2 DEF Unfinished
<1>10. ASSUME NEW x \in Buffered', x \notin Buffered
       PROVE  \E r \in R : /\ LeftOf(R, r, S, target) = {}
                           /\ x = Msg("RESOURCE_STATE_CHANGED", r.all, r.target)
  <2>1. PICK q \in Finished(marked) : x = Msg("RESOURCE_STATE_CHANGED", q.all, q.target)
    BY <1>4, <1>5, <1>10
  <2>2. q \in marked /\ q.left = {}
    BY <2>1 DEF Finished
  <2>3. PICK r \in R : q.all = r.all /\ q.target = r.target /\ q.left = LeftOf(R, r, S, target)
    BY <1>1, <2>2
  <2> QED
    BY <2>1, <2>2, <2>3
<1> QED
  BY <1>2, <1>4, <1>5, <1>6, <1>7, <1>8, <1>9, <1>10

----------------------------------------------------------------------------
\* The two handlers that answer, in these terms.

\* The request that is being recorded, and the machines of the handler's branches.
NewRequest == [number |-> asked, all |-> Received.about, left |-> Received.about,
               target |-> Received.target]
Awake  == {m \in Received.about : pstate[m] \in CompPState}
Asleep == {m \in Received.about : pstate[m] \in SleepPState}
AtOnce == IF Received.target \in CompPState THEN Awake ELSE {}
Slow   == (Awake \ AtOnce) \cup Asleep
NewSwitchers == {[machine |-> m, target |-> Received.target, phase |-> "created"] : m \in Slow}

\* server_on_pstate_modification: the request is recorded, the machines of AtOnce are
\* marked, those of Slow get a switcher.
LEMMA Recording ==
  ASSUME server_on_pstate_modification
  PROVE  /\ Receive("PSTATE_MODIFICATION")
         /\ aborted' = (Asleep # {} /\ Received.target \notin CompPState)
         /\ pstate' = [m \in Machine |-> IF m \in AtOnce THEN Received.target ELSE pstate[m]]
         /\ mstate' = [m \in Machine |->
              CASE m \in Slow /\ Received.target \in CompPState -> "TRANSITING_FROM_SLEEPING_TO_COMPUTING"
                [] m \in Slow /\ Received.target \in SleepPState -> "TRANSITING_FROM_COMPUTING_TO_SLEEPING"
                [] OTHER -> mstate[m]]
         /\ switcher' = switcher \cup NewSwitchers
         /\ nb_switching' = nb_switching + Cardinality(Slow)
         /\ Answering(switches \cup {NewRequest}, AtOnce, Received.target)
         /\ sched' = "run"
         /\ UNCHANGED <<computing, jobVars>>
<1>1. /\ Receive("PSTATE_MODIFICATION")
      /\ pstate' = [m \in Machine |-> IF m \in AtOnce THEN Received.target ELSE pstate[m]]
      /\ mstate' = [m \in Machine |->
           CASE m \in Slow /\ Received.target \in CompPState -> "TRANSITING_FROM_SLEEPING_TO_COMPUTING"
             [] m \in Slow /\ Received.target \in SleepPState -> "TRANSITING_FROM_COMPUTING_TO_SLEEPING"
             [] OTHER -> mstate[m]]
      /\ switcher' = switcher \cup NewSwitchers
      /\ nb_switching' = nb_switching + Cardinality(Slow)
      /\ sched' = "run"
      /\ UNCHANGED <<computing, jobVars>>
  BY Zenon DEF server_on_pstate_modification, Awake, Asleep, AtOnce, Slow, NewSwitchers
<1>2. Answering(switches \cup {NewRequest}, AtOnce, Received.target)
  BY Zenon DEF server_on_pstate_modification, Answering, add_switch, NewRequest, Awake, AtOnce
<1>3. aborted' = ~ (Asleep # {} => Received.target \in CompPState)
  BY DEF server_on_pstate_modification, Asleep, xbt_assert
<1> QED
  BY <1>1, <1>2, <1>3

\* server_on_switched: the machine is marked in the request that waits for it.
LEMMA Reporting ==
  ASSUME server_on_switched
  PROVE  /\ Receive("SWITCHED")
         /\ aborted' = ~ \A m \in Received.about : /\ pstate[m] = Received.target
                                                   /\ Credited(switches, m, Received.target) # {}
         /\ Answering(switches, Received.about, Received.target)
         /\ nb_switching' = nb_switching - 1
         /\ UNCHANGED <<machineVars, jobVars, switcher, sched>>
  BY DEF server_on_switched, Answering, xbt_assert, StillSwitching

----------------------------------------------------------------------------
\* Types

\* The list of availability events.
LEMMA EventsOfList ==
  /\ Len(AvailabilityEvents) \in Nat
  /\ \A k \in 1..Len(AvailabilityEvents) : /\ AvailabilityEvents[k].type \in {"available", "unavailable"}
                                          /\ AvailabilityEvents[k].about \in SUBSET Machine
<1> DEFINE T == [type : {"available", "unavailable"}, about : SUBSET Machine]
<1>1. AvailabilityEvents \in Seq(T)
  BY PStatesAssumption
<1> HIDE DEF T
<1>2. \A k \in 1..Len(AvailabilityEvents) : AvailabilityEvents[k] \in T
  BY <1>1, ElementOfSeq
<1>3. Len(AvailabilityEvents) \in Nat
  BY <1>1, LenProperties
<1> QED
  BY <1>2, <1>3 DEF T

\* Types hold initially, and nothing is on its way.
LEMMA Initially ==
  ASSUME Init
  PROVE  Types /\ Mailed = {} /\ Buffered = {}
<1>1. /\ <<>> \in Seq(Mail) /\ <<>> \in Seq(Event) /\ Len(AvailabilityEvents) \in Nat
  BY PStatesAssumption
<1>2. IsFiniteSet({})
  BY FS_EmptySet
<1>3. pstate \in [Machine -> CompPState] /\ wanted = pstate
  BY DEF Init
<1>4. /\ pstate \in [Machine -> PState \cup {Virtual}]
      /\ wanted \in [Machine -> PState]
  BY <1>3 DEF PState
<1>5. Types
  <2>1. /\ mstate \in [Machine -> MState] /\ computing \in [Machine -> SUBSET Job]
        /\ alloc \in [Job -> SUBSET Machine]
        /\ actor \in [Job -> {"none", "created", "running", "ended"}]
        /\ view \in [Job -> {"waiting", "running", "done"}]
        /\ pending \in [Machine -> Int]
    BY DEF Init, MState
  <2>2. /\ switches = {} /\ switcher = {} /\ nb_switching = 0 /\ mailbox = <<>> /\ outbox = <<>>
        /\ occurred = 0 /\ sched = "run" /\ told_down = {} /\ asked = 0 /\ aborted = FALSE
    BY DEF Init
  <2>3. /\ mailbox \in Seq(Mail) /\ outbox \in Seq(Event)
        /\ switches \subseteq Request /\ switcher \subseteq Switcher
    BY <1>1, <2>2
  <2>4. IsFiniteSet(switches) /\ IsFiniteSet(switcher)
    BY <1>2, <2>2
  <2>5. /\ nb_switching \in Int /\ occurred \in 0..Len(AvailabilityEvents)
        /\ sched \in {"ready", "run", "blocked"} /\ told_down \subseteq Machine
        /\ asked \in Nat
    BY <1>1, <2>2
  <2>6. aborted \in BOOLEAN
    BY Zenon DEF Init
  <2> QED
    BY <1>4, <2>1, <2>3, <2>4, <2>5, <2>6 DEF Types
<1>6. Mailed = {} /\ Buffered = {}
  BY DEF Init, Mailed, Buffered
<1> QED
  BY <1>5, <1>6

\* A message is received: the lemma on the mailbox applies.
LEMMA ReceiveMail ==
  ASSUME Types, NEW type, Receive(type)
  PROVE  /\ mailbox' \in Seq(Mail)
         /\ Received \in Mail /\ Received \in Mailed /\ Received.type = type
         /\ Mailed' \subseteq Mailed /\ Mailed = Mailed' \cup {Received}
         /\ \A K : CountIn(mailbox, K) = CountIn(mailbox', K) + (IF Received \in K THEN 1 ELSE 0)
         /\ ~aborted /\ ~Runnable
         /\ UNCHANGED <<occurred, view, pending, wanted, told_down, asked>>
<1>1. mailbox # <<>> /\ mailbox' = Tail(mailbox)
  BY DEF Receive
<1>2. /\ mailbox' \in Seq(Mail)
      /\ Received \in Mail /\ Received \in Mailed
      /\ Mailed' \subseteq Mailed /\ Mailed = Mailed' \cup {Received}
      /\ \A K : CountIn(mailbox, K) = CountIn(mailbox', K) + (IF Received \in K THEN 1 ELSE 0)
  BY <1>1, TakeMail
<1> QED
  BY <1>2 DEF Receive

\* The new request of a request that is handled: it is the only one with its number.
LEMMA NewRequestLemma ==
  ASSUME Types, RequestsInv, server_on_pstate_modification
  PROVE  /\ NewRequest \in Request /\ NewRequest.left = NewRequest.all
         /\ NewRequest.all = Received.about /\ NewRequest.target = Received.target
         /\ NewRequest.number = asked
         /\ switches \cup {NewRequest} \in SUBSET Request
         /\ IsFiniteSet(switches \cup {NewRequest})
         /\ NewRequest \notin switches
         /\ \A q, r \in switches \cup {NewRequest} : q.number = r.number => q = r
         /\ Received.about \in SUBSET Switchable /\ Received.target \in PState
         /\ IsFiniteSet(Received.about)
<1>1. /\ Received \in Mail /\ Received \in Mailed /\ Received.type = "PSTATE_MODIFICATION"
  BY Recording, ReceiveMail
<1>2. Received.about \in SUBSET Switchable /\ Received.target \in PState
  BY <1>1, MailKinds
<1>3. Received.about \in SUBSET Machine /\ asked \in Nat
  BY <1>2, PStatesAssumption DEF Types
<1>4. /\ NewRequest \in Request /\ NewRequest.number = asked
      /\ NewRequest.left = NewRequest.all
      /\ NewRequest.all = Received.about /\ NewRequest.target = Received.target
  BY <1>2, <1>3 DEF NewRequest, Request
<1>5. \A r \in switches : r.number < asked /\ r.number \in Nat
  BY <1>1 DEF RequestsInv, Types, Request
<1>6. \A r \in switches : r.number # asked
  BY <1>3, <1>5
<1>7. IsFiniteSet(switches \cup {NewRequest})
  BY FS_AddElement DEF Types
<1>8. IsFiniteSet(Received.about)
  BY <1>3, PStatesAssumption, FS_Subset
<1> QED
  BY <1>2, <1>4, <1>6, <1>7, <1>8 DEF RequestsInv, Types

\* Answering keeps the types of what it changes.
LEMMA TypesKept ==
  ASSUME Types, RequestsInv, [Next]_vars
  PROVE  Types'
<1> USE DEF Types
<1>1. CASE server_on_execute_job
  <2>1. mailbox' \in Seq(Mail) /\ UNCHANGED <<occurred, view, pending, wanted, told_down, asked>>
    BY <1>1, ReceiveMail DEF server_on_execute_job
  <2>2. actor' \in [Job -> {"none", "created", "running", "ended"}]
    BY <1>1 DEF server_on_execute_job
  <2> QED
    BY <1>1, <2>1, <2>2 DEF server_on_execute_job, machineVars, switchVars, xbt_assert
<1>2. CASE server_on_pstate_modification
  <2>1. mailbox' \in Seq(Mail) /\ UNCHANGED <<occurred, view, pending, wanted, told_down, asked>>
    BY <1>2, Recording, ReceiveMail
  <2>2. switches' \subseteq Request /\ IsFiniteSet(switches') /\ outbox' \in Seq(Event)
    BY <1>2, Recording, NewRequestLemma, AnsweringLemma
  <2>3. Slow \in SUBSET Switchable /\ IsFiniteSet(Slow) /\ AtOnce \in SUBSET Switchable
    <3>1. Slow \in SUBSET Received.about /\ AtOnce \in SUBSET Received.about
      BY DEF Slow, Awake, AtOnce, Asleep
    <3> QED
      BY <1>2, <3>1, NewRequestLemma, FS_Subset
  <2>4. NewSwitchers \subseteq Switcher /\ IsFiniteSet(NewSwitchers)
    <3>1. NewSwitchers \subseteq Switcher
      BY <1>2, <2>3, NewRequestLemma DEF NewSwitchers, Switcher
    <3> DEFINE f == [m \in Slow |-> [machine |-> m, target |-> Received.target, phase |-> "created"]]
    <3>2. f \in Surjection(Slow, NewSwitchers)
      BY DEF Surjection, NewSwitchers
    <3> QED
      BY <2>3, <3>1, <3>2, FS_Surjection
  <2>5. switcher' \subseteq Switcher /\ IsFiniteSet(switcher')
    <3>1. switcher' = switcher \cup NewSwitchers
      BY <1>2, Recording
    <3>2. IsFiniteSet(switcher \cup NewSwitchers)
      BY <2>4, FS_Union
    <3> QED
      BY <2>4, <3>1, <3>2
  <2>6. nb_switching' \in Int
    BY <1>2, <2>3, Recording, FS_CardinalityType
  <2>7. pstate' \in [Machine -> PState \cup {Virtual}] /\ mstate' \in [Machine -> MState]
    BY <1>2, Recording, NewRequestLemma DEF MState
  <2> QED
    BY <1>2, <2>1, <2>2, <2>5, <2>6, <2>7, Recording DEF jobVars
<1>3. CASE server_on_switched
  <2>1. mailbox' \in Seq(Mail) /\ UNCHANGED <<occurred, view, pending, wanted, told_down, asked>>
    BY <1>3, Reporting, ReceiveMail
  <2>2. switches' \subseteq Request /\ IsFiniteSet(switches') /\ outbox' \in Seq(Event)
    BY <1>3, Reporting, AnsweringLemma DEF RequestsInv
  <2> QED
    BY <1>3, <2>1, <2>2, Reporting DEF jobVars, machineVars
<1>4. CASE server_on_event_machine_unavailable
  <2>1. /\ mailbox' \in Seq(Mail) /\ UNCHANGED <<occurred, view, pending, wanted, told_down, asked>>
        /\ Received.about \in SUBSET Machine
    BY <1>4, ReceiveMail, MailKinds DEF server_on_event_machine_unavailable
  <2>2. outbox' \in Seq(Event)
    BY <1>4, <2>1, MailOf, AppendEvent DEF server_on_event_machine_unavailable
  <2>3. mstate' \in [Machine -> MState]
    BY <1>4 DEF server_on_event_machine_unavailable, MState
  <2> QED
    BY <1>4, <2>1, <2>2, <2>3
       DEF server_on_event_machine_unavailable, jobVars, switchVars, xbt_assert
<1>5. CASE server_on_event_machine_available
  <2>1. /\ mailbox' \in Seq(Mail) /\ UNCHANGED <<occurred, view, pending, wanted, told_down, asked>>
        /\ Received.about \in SUBSET Machine
    BY <1>5, ReceiveMail, MailKinds DEF server_on_event_machine_available
  <2>2. outbox' \in Seq(Event)
    BY <1>5, <2>1, MailOf, AppendEvent DEF server_on_event_machine_available
  <2>3. mstate' \in [Machine -> MState]
    BY <1>5 DEF server_on_event_machine_available, MState, BackTo
  <2> QED
    BY <1>5, <2>1, <2>2, <2>3
       DEF server_on_event_machine_available, jobVars, switchVars, xbt_assert
<1>6. CASE server_on_job_completed
  <2>1. /\ mailbox' \in Seq(Mail) /\ UNCHANGED <<occurred, view, pending, wanted, told_down, asked>>
        /\ \E j \in Job : Received.about = {j}
    BY <1>6, ReceiveMail, MailKinds DEF server_on_job_completed
  <2>2. outbox' \in Seq(Event)
    BY <1>6, <2>1, MailOf, AppendEvent DEF server_on_job_completed
  <2> QED
    BY <1>6, <2>1, <2>2 DEF server_on_job_completed, jobVars, switchVars, machineVars
<1>7. CASE server_on_sched_ready
  <2>1. mailbox' \in Seq(Mail) /\ UNCHANGED <<occurred, view, pending, wanted, told_down, asked>>
    BY <1>7, ReceiveMail DEF server_on_sched_ready
  <2> QED
    BY <1>7, <2>1 DEF server_on_sched_ready, jobVars, switchVars, machineVars
<1>8. CASE ServerSendsEvents
  <2>1. pending' \in [Machine -> Int]
    <3>1. ASSUME NEW m \in Machine
          PROVE  Cardinality({k \in 1..Len(outbox) : /\ outbox[k].type = "RESOURCE_STATE_CHANGED"
                                                     /\ m \in outbox[k].about}) \in Nat
      <4>1. {k \in 1..Len(outbox) : /\ outbox[k].type = "RESOURCE_STATE_CHANGED"
                                     /\ m \in outbox[k].about} \in SUBSET (1..Len(outbox))
        OBVIOUS
      <4>2. IsFiniteSet(1..Len(outbox))
        BY FS_Interval
      <4> QED
        BY <4>1, <4>2, FS_Subset, FS_CardinalityType
    <3> QED
      BY <1>8, <3>1 DEF ServerSendsEvents
  <2>2. view' \in [Job -> {"waiting", "running", "done"}] /\ told_down' \subseteq Machine
    BY <1>8 DEF ServerSendsEvents
  <2>3. outbox' \in Seq(Event)
    BY <1>8 DEF ServerSendsEvents
  <2> QED
    BY <1>8, <2>1, <2>2, <2>3 DEF ServerSendsEvents, jobVars, switchVars, machineVars
<1>9. ASSUME NEW s \in switcher, SwitcherStarts(s)
      PROVE  Types'
  <2>1. s \in Switcher /\ s.machine \in Machine /\ [s EXCEPT !.phase = "computing"] \in Switcher
    BY PStatesAssumption DEF Switcher
  <2>2. IsFiniteSet(switcher') /\ switcher' \subseteq Switcher
    BY <1>9, <2>1, FS_RemoveElement, FS_AddElement DEF SwitcherStarts
  <2>3. pstate' \in [Machine -> PState \cup {Virtual}]
    BY <1>9, <2>1 DEF SwitcherStarts
  <2> QED
    BY <1>9, <2>2, <2>3 DEF SwitcherStarts, xbt_assert, jobVars, schedVars
<1>10. ASSUME NEW s \in switcher, SwitcherEnds(s)
       PROVE  Types'
  <2>1. s.machine \in Machine /\ s.target \in PState
    BY PStatesAssumption DEF Switcher
  <2>2. IsFiniteSet(switcher') /\ switcher' \subseteq Switcher
    BY <1>10, FS_RemoveElement DEF SwitcherEnds
  <2>3. pstate' \in [Machine -> PState \cup {Virtual}] /\ mstate' \in [Machine -> MState]
    BY <1>10, <2>1 DEF SwitcherEnds, SwitchedState, MState
  <2>4. mailbox' \in Seq(Mail)
    BY <1>10, <2>1, MailOf, PutMail DEF SwitcherEnds
  <2> QED
    BY <1>10, <2>2, <2>3, <2>4 DEF SwitcherEnds, jobVars, schedVars
<1>11. ASSUME NEW j \in Job, JobStarts(j)
       PROVE  Types'
  <2>1. /\ actor' \in [Job -> {"none", "created", "running", "ended"}]
        /\ mstate' \in [Machine -> MState] /\ computing' \in [Machine -> SUBSET Job]
    BY <1>11 DEF JobStarts, MState
  <2> QED
    BY <1>11, <2>1 DEF JobStarts, switchVars, schedVars
<1>12. ASSUME NEW j \in Job, JobEnds(j)
       PROVE  Types'
  <2>1. /\ actor' \in [Job -> {"none", "created", "running", "ended"}]
        /\ mstate' \in [Machine -> MState] /\ computing' \in [Machine -> SUBSET Job]
    BY <1>12 DEF JobEnds, MState
  <2>2. mailbox' \in Seq(Mail)
    BY <1>12, MailOf, PutMail DEF JobEnds
  <2> QED
    BY <1>12, <2>1, <2>2 DEF JobEnds, xbt_assert, switchVars, schedVars
<1>13. CASE EventOccurs
  <2>1. Len(AvailabilityEvents) \in Nat /\ occurred' \in 1..Len(AvailabilityEvents)
    BY <1>13, PStatesAssumption DEF EventOccurs
  <2>2. /\ AvailabilityEvents[occurred'].type \in {"available", "unavailable"}
        /\ AvailabilityEvents[occurred'].about \in SUBSET Machine
    BY <2>1, EventsOfList
  <2>3. Msg(AvailabilityEvents[occurred'].type, AvailabilityEvents[occurred'].about, Virtual) \in Mail
    BY <2>2, MailOf
  <2>4. mailbox' \in Seq(Mail)
    BY <1>13, <2>3, PutMail DEF EventOccurs
  <2> QED
    BY <1>13, <2>1, <2>4 DEF EventOccurs, machineVars, jobVars, switchVars, schedVars
<1>14. ASSUME NEW j \in Job, NEW S \in SUBSET Machine, Execute(j, S)
       PROVE  Types'
  <2>1. mailbox' \in Seq(Mail)
    BY <1>14, MailOf, PutMail DEF Execute
  <2> QED
    BY <1>14, <2>1 DEF Execute, machineVars, switchVars
<1>15. ASSUME NEW S \in SUBSET Switchable, NEW target \in PState, SetResourceState(S, target)
       PROVE  Types'
  <2>1. mailbox' \in Seq(Mail)
    BY <1>15, MailOf, PutMail DEF SetResourceState
  <2>2. wanted' \in [Machine -> PState] /\ pending' \in [Machine -> Int] /\ asked' \in Nat
    BY <1>15 DEF SetResourceState
  <2> QED
    BY <1>15, <2>1, <2>2 DEF SetResourceState, machineVars, jobVars, switchVars
<1>16. CASE EndReply
  <2>1. mailbox' \in Seq(Mail)
    BY <1>16, MailOf, PutMail DEF EndReply
  <2> QED
    BY <1>16, <2>1 DEF EndReply, machineVars, jobVars, switchVars
<1>17. CASE UNCHANGED vars
  BY <1>17 DEF vars, machineVars, jobVars, switchVars, schedVars
<1> QED
  BY <1>1, <1>2, <1>3, <1>4, <1>5, <1>6, <1>7, <1>8, <1>9, <1>10, <1>11, <1>12, <1>13, <1>14,
     <1>15, <1>16, <1>17 DEF Next, ServerStep

----------------------------------------------------------------------------
\* Decisions, switchers and requests, for all constants

\* Counting in the next state.
LEMMA MailCountNext ==
  ASSUME Types'
  PROVE  /\ \A K : /\ CountIn(mailbox', K) \in Nat
                   /\ CountIn(mailbox', K) = 0 <=> Mailed' \cap K = {}
         /\ \A K : CountIn(outbox', K) \in Nat
         /\ Mailed' \subseteq Mail /\ Buffered' \subseteq Event
<1>1. mailbox' \in Seq(Mail) /\ outbox' \in Seq(Event)
  BY DEF Types
<1>2. \A K : /\ CountIn(mailbox', K) \in Nat
             /\ CountIn(mailbox', K) = 0 <=> Mailed' \cap K = {}
  <2> TAKE K
  <2>1. CountIn(mailbox', K) \in Nat
    BY <1>1, CountType
  <2>2. CountIn(mailbox', K) = 0 <=> \A i \in 1..Len(mailbox') : mailbox'[i] \notin K
    BY <1>1, CountZero
  <2> QED
    BY <2>1, <2>2 DEF Mailed
<1>3. \A K : CountIn(outbox', K) \in Nat
  BY <1>1, CountType
<1> QED
  BY <1>1, <1>2, <1>3 DEF Mailed, Buffered

\* Each step puts one message, takes one, or leaves the mailbox alone; this lemma
\* says which kind of message it is.
LEMMA MailSteps ==
  ASSUME Types, [Next]_vars
  PROVE  \/ /\ mailbox # <<>> /\ mailbox' = Tail(mailbox) /\ Received \in Mail
            /\ \/ server_on_execute_job /\ Received.type = "SCHED_EXECUTE_JOB" /\ sched' = "run"
               \/ server_on_pstate_modification /\ Received.type = "PSTATE_MODIFICATION" /\ sched' = "run"
               \/ server_on_switched /\ Received.type = "SWITCHED" /\ sched' = sched
               \/ /\ server_on_event_machine_unavailable
                  /\ Received.type = "unavailable" /\ sched' = sched
               \/ /\ server_on_event_machine_available
                  /\ Received.type = "available" /\ sched' = sched
               \/ server_on_job_completed /\ Received.type = "JOB_COMPLETED" /\ sched' = sched
               \/ server_on_sched_ready /\ Received.type = "SCHED_READY" /\ sched' = "ready"
         \/ \E x \in Mail :
              /\ Put(x)
              /\ \/ \E s \in switcher : /\ SwitcherEnds(s) /\ x = Msg("SWITCHED", {s.machine}, s.target)
                                        /\ sched' = sched
                 \/ \E j \in Job : /\ JobEnds(j) /\ x = Msg("JOB_COMPLETED", {j}, Virtual)
                                   /\ sched' = sched
                 \/ /\ EventOccurs /\ x.type \in {"available", "unavailable"}
                    /\ x = Msg(AvailabilityEvents[occurred'].type,
                               AvailabilityEvents[occurred'].about, Virtual)
                    /\ sched' = sched
                 \/ \E j \in Job, S \in SUBSET Machine :
                      /\ Execute(j, S) /\ x = Msg("SCHED_EXECUTE_JOB", {j}, Virtual)
                      /\ sched = "run" /\ sched' = "blocked"
                 \/ \E S \in SUBSET Switchable, target \in PState :
                      /\ SetResourceState(S, target) /\ x = Msg("PSTATE_MODIFICATION", S, target)
                      /\ sched = "run" /\ sched' = "blocked"
                 \/ EndReply /\ x = Msg("SCHED_READY", {}, Virtual) /\ sched = "run" /\ sched' = "blocked"
         \/ /\ UNCHANGED mailbox
            /\ \/ ServerSendsEvents /\ sched = "ready" /\ sched' = "run"
               \/ (\E s \in switcher : SwitcherStarts(s)) /\ sched' = sched
               \/ (\E j \in Job : JobStarts(j)) /\ sched' = sched
               \/ UNCHANGED vars /\ sched' = sched
<1> DEFINE Takes == mailbox # <<>> /\ mailbox' = Tail(mailbox) /\ Received \in Mail
<1>0. ASSUME NEW type, Receive(type)
      PROVE  Takes /\ Received.type = type
  BY <1>0, ReceiveMail DEF Receive
<1>1. CASE server_on_execute_job
  BY <1>0, <1>1 DEF server_on_execute_job
<1>2. CASE server_on_pstate_modification
  BY <1>0, <1>2 DEF server_on_pstate_modification
<1>3. CASE server_on_switched
  BY <1>0, <1>3 DEF server_on_switched
<1>4. CASE server_on_event_machine_unavailable
  BY <1>0, <1>4 DEF server_on_event_machine_unavailable
<1>5. CASE server_on_event_machine_available
  BY <1>0, <1>5 DEF server_on_event_machine_available
<1>6. CASE server_on_job_completed
  BY <1>0, <1>6 DEF server_on_job_completed
<1>7. CASE server_on_sched_ready
  BY <1>0, <1>7 DEF server_on_sched_ready
<1>8. CASE ServerSendsEvents
  BY <1>8 DEF ServerSendsEvents
<1>9. CASE \E s \in switcher : SwitcherStarts(s)
  BY <1>9 DEF SwitcherStarts, schedVars
<1>10. ASSUME NEW s \in switcher, SwitcherEnds(s)
       PROVE  /\ Msg("SWITCHED", {s.machine}, s.target) \in Mail
              /\ Put(Msg("SWITCHED", {s.machine}, s.target)) /\ sched' = sched
  <2>1. s.machine \in Machine /\ s.target \in PState
    BY PStatesAssumption DEF Types, Switcher
  <2> QED
    BY <1>10, <2>1, MailOf DEF SwitcherEnds, schedVars
<1>11. CASE \E j \in Job : JobStarts(j)
  BY <1>11 DEF JobStarts, schedVars
<1>12. ASSUME NEW j \in Job, JobEnds(j)
       PROVE  /\ Msg("JOB_COMPLETED", {j}, Virtual) \in Mail
              /\ Put(Msg("JOB_COMPLETED", {j}, Virtual)) /\ sched' = sched
  BY <1>12, MailOf DEF JobEnds, schedVars
<1>13. CASE EventOccurs
  <2>1. occurred' \in 1..Len(AvailabilityEvents)
    BY <1>13, EventsOfList DEF EventOccurs, Types
  <2>2. /\ AvailabilityEvents[occurred'].type \in {"available", "unavailable"}
        /\ AvailabilityEvents[occurred'].about \in SUBSET Machine
    BY <2>1, EventsOfList
  <2>3. PICK x : x = Msg(AvailabilityEvents[occurred'].type, AvailabilityEvents[occurred'].about, Virtual)
    OBVIOUS
  <2>4. x \in Mail /\ x.type \in {"available", "unavailable"}
    BY <2>2, <2>3, MailOf DEF Msg
  <2>5. Put(x) /\ sched' = sched
    BY <1>13, <2>3 DEF EventOccurs, schedVars
  <2> QED
    BY <1>13, <2>3, <2>4, <2>5
<1>14. ASSUME NEW j \in Job, NEW S \in SUBSET Machine, Execute(j, S)
       PROVE  /\ Msg("SCHED_EXECUTE_JOB", {j}, Virtual) \in Mail
              /\ Put(Msg("SCHED_EXECUTE_JOB", {j}, Virtual)) /\ sched = "run" /\ sched' = "blocked"
  BY <1>14, MailOf DEF Execute
<1>15. ASSUME NEW S \in SUBSET Switchable, NEW target \in PState, SetResourceState(S, target)
       PROVE  /\ Msg("PSTATE_MODIFICATION", S, target) \in Mail
              /\ Put(Msg("PSTATE_MODIFICATION", S, target)) /\ sched = "run" /\ sched' = "blocked"
  BY <1>15, MailOf DEF SetResourceState
<1>16. CASE EndReply
  BY <1>16, MailOf DEF EndReply
<1>17. CASE UNCHANGED vars
  BY <1>17 DEF vars, schedVars
<1> HIDE DEF Takes
<1>18. CASE \E s \in switcher : SwitcherEnds(s)
  BY <1>10, <1>18
<1>19. CASE \E j \in Job : JobEnds(j)
  BY <1>12, <1>19
<1>20. CASE \E j \in Job, S \in SUBSET Machine : Execute(j, S)
  BY <1>14, <1>20
<1>21. CASE \E S \in SUBSET Switchable, target \in PState : SetResourceState(S, target)
  BY <1>15, <1>21
<1>22. \/ ServerStep \/ (\E s \in switcher : SwitcherStarts(s)) \/ (\E s \in switcher : SwitcherEnds(s))
       \/ (\E j \in Job : JobStarts(j)) \/ (\E j \in Job : JobEnds(j)) \/ EventOccurs
       \/ (\E j \in Job, S \in SUBSET Machine : Execute(j, S))
       \/ (\E S \in SUBSET Switchable, target \in PState : SetResourceState(S, target))
       \/ EndReply \/ UNCHANGED vars
  BY Zenon DEF Next
<1> QED
  BY <1>1, <1>2, <1>3, <1>4, <1>5, <1>6, <1>7, <1>8, <1>9, <1>11, <1>13,
     <1>16, <1>17, <1>18, <1>19, <1>20, <1>21, <1>22 DEF ServerStep

\* One decision at a time.
LEMMA OneDecisionKept ==
  ASSUME Types, Types', OneDecision, [Next]_vars
  PROVE  OneDecision'
<1>1. /\ \A x \in Mail : x \in Decisions <=> x.type \in {"SCHED_EXECUTE_JOB", "PSTATE_MODIFICATION", "SCHED_READY"}
      /\ CountIn(mailbox', Decisions) \in Nat /\ CountIn(mailbox, Decisions) \in Nat
  BY MailCount, MailCountNext DEF Decisions, OfTypes
<1>2. CASE mailbox # <<>> /\ mailbox' = Tail(mailbox)
  <2>1. CountIn(mailbox, Decisions) = CountIn(mailbox', Decisions) + (IF Received \in Decisions THEN 1 ELSE 0)
    BY <1>2, TakeMail
  <2>2. \/ Received \in Decisions /\ sched' # "blocked"
        \/ Received \notin Decisions /\ sched' = sched
    <3>1. mailbox' # mailbox
      <4>1. Len(mailbox') # Len(mailbox)
        BY <1>2 DEF Types
      <4> QED
        BY <4>1
    <3>2. \A x \in Mail : Put(x) => Len(mailbox') = Len(mailbox) + 1
      BY DEF Put, Types
    <3>3. \A x \in Mail : ~Put(x)
      BY <1>2, <3>2 DEF Types
    <3> QED
      BY <1>1, <3>1, <3>3, MailSteps
  <2> QED
    BY <1>1, <2>1, <2>2 DEF OneDecision
<1>3. ASSUME NEW x \in Mail, Put(x), x \in Decisions, sched = "run", sched' = "blocked"
      PROVE  OneDecision'
  BY <1>3, PutMail DEF OneDecision
<1>4. ASSUME NEW x \in Mail, Put(x), x \notin Decisions, sched' = sched
      PROVE  OneDecision'
  BY <1>1, <1>4, PutMail DEF OneDecision
<1>5. CASE UNCHANGED mailbox /\ sched # "blocked" /\ sched' # "blocked"
  BY <1>5 DEF OneDecision
<1>6. CASE UNCHANGED mailbox /\ sched' = sched
  BY <1>6 DEF OneDecision
<1> QED
  BY <1>1, <1>2, <1>3, <1>4, <1>5, <1>6, MailSteps DEF Msg

----------------------------------------------------------------------------
\* A message of another kind does not change a count.
LEMMA OtherKinds ==
  ASSUME NEW x \in Mail
  PROVE  /\ x \in Ends <=> x.type = "SWITCHED"
         /\ \A m : x \in Requests(m) <=> x.type = "PSTATE_MODIFICATION" /\ m \in x.about
         /\ \A m : x \in EndsOf(m) <=> x.type = "SWITCHED" /\ x.about = {m}
         /\ x \in Changes <=> x.type \in {"available", "unavailable"}
         /\ x \in Decisions <=> x.type \in {"SCHED_EXECUTE_JOB", "PSTATE_MODIFICATION", "SCHED_READY"}
  BY DEF Ends, Requests, EndsOf, Changes, Decisions, OfTypes

\* When a handler runs, no switcher is about to start.
LEMMA SwitchersCompute ==
  ASSUME Types, SwitchersInv, ~Runnable
  PROVE  \A s \in switcher : s.phase = "computing" /\ pstate[s.machine] = Virtual
  BY DEF Types, SwitchersInv, Runnable, Switcher

\* The count of the messages of one kind is unchanged.
SameCount(K) == CountIn(mailbox', K) = CountIn(mailbox, K)

\* A message that is put and is not in the set.
LEMMA PutOther ==
  ASSUME Types, NEW x \in Mail, Put(x), NEW K, x \notin K
  PROVE  SameCount(K)
<1>1. CountIn(mailbox', K) = CountIn(mailbox, K) + 0 /\ CountIn(mailbox, K) \in Nat
  BY PutMail, MailCount
<1> QED
  BY <1>1 DEF SameCount

\* A message that is taken and is not in the set.
LEMMA TakeOther ==
  ASSUME Types, Types', mailbox # <<>>, mailbox' = Tail(mailbox), NEW K, Received \notin K
  PROVE  SameCount(K)
<1>1. CountIn(mailbox, K) = CountIn(mailbox', K) + 0 /\ CountIn(mailbox', K) \in Nat
  BY TakeMail, MailCountNext
<1> QED
  BY <1>1 DEF SameCount

\* What each step puts.
LEMMA Puts ==
  ASSUME Types
  PROVE  /\ \A s \in switcher : SwitcherEnds(s) =>
              \E x \in Mail : Put(x) /\ x.type = "SWITCHED" /\ x.about = {s.machine} /\ x.target = s.target
         /\ \A j \in Job : JobEnds(j) =>
              \E x \in Mail : Put(x) /\ x.type = "JOB_COMPLETED" /\ x.about = {j}
         /\ EventOccurs =>
              \E x \in Mail : /\ Put(x) /\ x.type \in {"available", "unavailable"}
                             /\ occurred' \in 1..Len(AvailabilityEvents)
                             /\ x.type = AvailabilityEvents[occurred'].type
                             /\ x.about = AvailabilityEvents[occurred'].about
         /\ \A j \in Job, S \in SUBSET Machine : Execute(j, S) =>
              \E x \in Mail : Put(x) /\ x.type = "SCHED_EXECUTE_JOB" /\ x.about = {j}
         /\ \A S \in SUBSET Switchable, target \in PState : SetResourceState(S, target) =>
              \E x \in Mail : Put(x) /\ x.type = "PSTATE_MODIFICATION" /\ x.about = S /\ x.target = target
         /\ EndReply => \E x \in Mail : Put(x) /\ x.type = "SCHED_READY" /\ x.about = {}
<1>0. \A type, about, target : LET x == Msg(type, about, target)
                              IN  x.type = type /\ x.about = about /\ x.target = target
  BY DEF Msg
<1>1. ASSUME NEW s \in switcher, SwitcherEnds(s)
      PROVE  \E x \in Mail : Put(x) /\ x.type = "SWITCHED" /\ x.about = {s.machine} /\ x.target = s.target
  <2>1. s.machine \in Machine /\ s.target \in PState
    BY PStatesAssumption DEF Types, Switcher
  <2>2. Put(Msg("SWITCHED", {s.machine}, s.target))
    BY <1>1 DEF SwitcherEnds
  <2> QED
    BY <1>0, <2>1, <2>2, MailOf
<1>2. ASSUME NEW j \in Job, JobEnds(j)
      PROVE  \E x \in Mail : Put(x) /\ x.type = "JOB_COMPLETED" /\ x.about = {j}
  <2>1. Put(Msg("JOB_COMPLETED", {j}, Virtual))
    BY <1>2 DEF JobEnds
  <2> QED
    BY <1>0, <2>1, MailOf
<1>3. ASSUME EventOccurs
      PROVE  \E x \in Mail : /\ Put(x) /\ x.type \in {"available", "unavailable"}
                             /\ occurred' \in 1..Len(AvailabilityEvents)
                             /\ x.type = AvailabilityEvents[occurred'].type
                             /\ x.about = AvailabilityEvents[occurred'].about
  <2>1. occurred' \in 1..Len(AvailabilityEvents)
    BY <1>3, EventsOfList DEF EventOccurs, Types
  <2>2. /\ AvailabilityEvents[occurred'].type \in {"available", "unavailable"}
        /\ AvailabilityEvents[occurred'].about \in SUBSET Machine
    BY <2>1, EventsOfList
  <2>3. PICK x : x = Msg(AvailabilityEvents[occurred'].type, AvailabilityEvents[occurred'].about, Virtual)
    OBVIOUS
  <2>4. x \in Mail
    BY <2>2, <2>3, MailOf
  <2>5. Put(x)
    BY <1>3, <2>3 DEF EventOccurs
  <2> QED
    BY <1>0, <2>1, <2>2, <2>3, <2>4, <2>5
<1>4. ASSUME NEW j \in Job, NEW S \in SUBSET Machine, Execute(j, S)
      PROVE  \E x \in Mail : Put(x) /\ x.type = "SCHED_EXECUTE_JOB" /\ x.about = {j}
  <2>1. Put(Msg("SCHED_EXECUTE_JOB", {j}, Virtual))
    BY <1>4 DEF Execute
  <2> QED
    BY <1>0, <2>1, MailOf
<1>5. ASSUME NEW S \in SUBSET Switchable, NEW target \in PState, SetResourceState(S, target)
      PROVE  \E x \in Mail : Put(x) /\ x.type = "PSTATE_MODIFICATION" /\ x.about = S /\ x.target = target
  <2>1. Put(Msg("PSTATE_MODIFICATION", S, target))
    BY <1>5 DEF SetResourceState
  <2> QED
    BY <1>0, <2>1, MailOf
<1>6. ASSUME EndReply
      PROVE  \E x \in Mail : Put(x) /\ x.type = "SCHED_READY" /\ x.about = {}
  <2>1. Put(Msg("SCHED_READY", {}, Virtual))
    BY <1>6 DEF EndReply
  <2> QED
    BY <1>0, <2>1, MailOf
<1> QED
  BY <1>1, <1>2, <1>3, <1>4, <1>5, <1>6

\* Switchers.
LEMMA SwitchersKept ==
  ASSUME Types, Types', RequestsInv, SwitchersInv, [Next]_vars
  PROVE  SwitchersInv'
<1>0. /\ CountIn(mailbox, Ends) \in Nat /\ CountIn(mailbox', Ends) \in Nat
      /\ Cardinality(switcher) \in Nat /\ IsFiniteSet(switcher) /\ switcher \subseteq Switcher
      /\ \A s \in Switcher : s.machine \in Machine /\ s.target \in PState
      /\ Virtual \notin PState /\ Virtual \notin CompPState
  BY MailCount, MailCountNext, FS_CardinalityType, PStatesAssumption DEF Types, Switcher, PState
<1>1. ASSUME SameCount(Ends), UNCHANGED <<pstate, switcher, nb_switching>>
      PROVE  SwitchersInv'
  BY <1>1 DEF SwitchersInv, SameCount
<1>2. CASE server_on_pstate_modification
  <2>1. /\ \A s \in switcher : s.phase = "computing" /\ pstate[s.machine] = Virtual
        /\ Received.about \in SUBSET Machine /\ Received.target \in PState
        /\ Received \in Mail /\ Received.type = "PSTATE_MODIFICATION"
        /\ mailbox # <<>> /\ mailbox' = Tail(mailbox)
        /\ IsFiniteSet(Received.about)
    BY <1>2, Recording, ReceiveMail, NewRequestLemma, SwitchersCompute, PStatesAssumption DEF Receive
  <2>2. /\ switcher' = switcher \cup NewSwitchers
        /\ nb_switching' = nb_switching + Cardinality(Slow)
        /\ pstate' = [m \in Machine |-> IF m \in AtOnce THEN Received.target ELSE pstate[m]]
    BY <1>2, Recording
  <2>3. /\ \A m \in Slow : m \in Machine /\ pstate[m] # Virtual /\ m \notin AtOnce
        /\ \A m \in AtOnce : m \in Machine /\ pstate[m] # Virtual /\ Received.target # Virtual
        /\ IsFiniteSet(Slow)
    <3>1. Slow \in SUBSET Received.about
      BY DEF Slow, Awake, AtOnce, Asleep
    <3>2. \A m \in Slow : m \in Machine /\ pstate[m] # Virtual /\ m \notin AtOnce
      BY <2>1, <1>0, PStatesAssumption DEF Slow, Awake, AtOnce, Asleep, PState
    <3>3. \A m \in AtOnce : m \in Machine /\ pstate[m] # Virtual /\ Received.target # Virtual
      BY <1>0, <2>1 DEF Awake, AtOnce
    <3> QED
      BY <2>1, <3>1, <3>2, <3>3, FS_Subset
  <2>4. /\ \A t \in NewSwitchers : t.machine \in Slow /\ t.phase = "created" /\ t.target = Received.target
        /\ \A t, u \in NewSwitchers : t.machine = u.machine => t = u
    BY DEF NewSwitchers
  <2>5. \A s \in switcher, t \in NewSwitchers : s.machine # t.machine
    BY <2>1, <2>3, <2>4
  <2>6. \A s \in switcher : pstate'[s.machine] = pstate[s.machine]
    BY <1>0, <2>1, <2>2, <2>3
  <2>7. \A t \in NewSwitchers : pstate'[t.machine] # Virtual
    BY <2>2, <2>3, <2>4
  <2>8. \A m \in Machine : pstate'[m] = Virtual => pstate[m] = Virtual
    BY <2>2, <2>3
  <2>9. Cardinality(switcher') = Cardinality(switcher) + Cardinality(Slow) /\ Cardinality(Slow) \in Nat
    <3> DEFINE f == [m \in Slow |-> [machine |-> m, target |-> Received.target, phase |-> "created"]]
    <3>1. f \in Bijection(Slow, NewSwitchers)
      BY DEF Bijection, Injection, Surjection, IsInjective, NewSwitchers
    <3>2. IsFiniteSet(NewSwitchers) /\ Cardinality(NewSwitchers) = Cardinality(Slow)
      BY <2>3, <3>1, FS_Bijection DEF ExistsBijection
    <3>3. switcher \cap NewSwitchers = {}
      BY <2>5
    <3>4. Cardinality(switcher \cap NewSwitchers) = 0 /\ Cardinality(Slow) \in Nat
      BY <2>3, <3>3, FS_EmptySet, FS_CardinalityType
    <3>5. Cardinality(switcher \cup NewSwitchers)
            = Cardinality(switcher) + Cardinality(NewSwitchers) - Cardinality(switcher \cap NewSwitchers)
      BY <1>0, <3>2, FS_Union
    <3> QED
      BY <1>0, <2>2, <3>2, <3>4, <3>5
  <2>10. SameCount(Ends)
    BY <2>1, TakeOther, OtherKinds
  <2>11. nb_switching' = Cardinality(switcher') + CountIn(mailbox', Ends)
    BY <1>0, <2>2, <2>9, <2>10 DEF SwitchersInv, SameCount
  <2>12. \A s, t \in switcher' : s.machine = t.machine => s = t
    BY <2>2, <2>4, <2>5 DEF SwitchersInv
  <2>13. \A s \in switcher' : s.phase = "computing" <=> pstate'[s.machine] = Virtual
    BY <2>1, <2>2, <2>4, <2>6, <2>7
  <2>14. \A m \in Machine : pstate'[m] = Virtual => \E s \in switcher' : s.machine = m
    BY <2>2, <2>8 DEF SwitchersInv
  <2> QED
    BY <2>11, <2>12, <2>13, <2>14 DEF SwitchersInv
<1>3. CASE server_on_switched
  <2>1. /\ Received \in Mail /\ Received.type = "SWITCHED" /\ mailbox # <<>> /\ mailbox' = Tail(mailbox)
        /\ nb_switching' = nb_switching - 1 /\ UNCHANGED <<pstate, switcher>>
    BY <1>3, Reporting, ReceiveMail DEF Receive, machineVars
  <2>2. CountIn(mailbox, Ends) = CountIn(mailbox', Ends) + 1
    BY <2>1, TakeMail, OtherKinds
  <2>3. nb_switching' = Cardinality(switcher') + CountIn(mailbox', Ends)
    BY <1>0, <2>1, <2>2 DEF SwitchersInv
  <2> QED
    BY <2>1, <2>3 DEF SwitchersInv
<1>4. ASSUME NEW s \in switcher, SwitcherStarts(s)
      PROVE  SwitchersInv'
  <2> DEFINE t == [s EXCEPT !.phase = "computing"]
  <2>1. /\ s \in Switcher /\ s.machine \in Machine /\ s.phase = "created"
        /\ t \in Switcher /\ t.machine = s.machine /\ t.phase = "computing"
    BY <1>0, <1>4 DEF SwitcherStarts, Switcher
  <2>2. /\ pstate' = [pstate EXCEPT ![s.machine] = Virtual]
        /\ switcher' = (switcher \ {s}) \cup {t}
        /\ UNCHANGED <<mailbox, nb_switching>>
    BY <1>4 DEF SwitcherStarts
  <2> HIDE DEF t
  <2>3. \A u \in switcher \ {s} : u.machine # s.machine
    BY DEF SwitchersInv
  <2>4. t \notin switcher \ {s}
    BY <2>1, <2>3
  <2>5. Cardinality(switcher') = Cardinality(switcher)
    <3>1. IsFiniteSet(switcher \ {s}) /\ Cardinality(switcher \ {s}) = Cardinality(switcher) - 1
      BY <1>0, FS_RemoveElement
    <3>2. Cardinality((switcher \ {s}) \cup {t}) = Cardinality(switcher \ {s}) + 1
      BY <2>4, <3>1, FS_AddElement
    <3> QED
      BY <1>0, <2>2, <3>1, <3>2
  <2>6. \A m \in Machine : pstate'[m] = IF m = s.machine THEN Virtual ELSE pstate[m]
    BY <2>1, <2>2 DEF Types
  <2>7. nb_switching' = Cardinality(switcher') + CountIn(mailbox', Ends)
    BY <2>2, <2>5 DEF SwitchersInv
  <2>8. \A u, w \in switcher' : u.machine = w.machine => u = w
    BY <2>1, <2>2, <2>3 DEF SwitchersInv
  <2>9. \A u \in switcher' : u.phase = "computing" <=> pstate'[u.machine] = Virtual
    BY <1>0, <2>1, <2>2, <2>3, <2>6 DEF SwitchersInv
  <2>10. \A m \in Machine : pstate'[m] = Virtual => \E u \in switcher' : u.machine = m
    <3> SUFFICES ASSUME NEW m \in Machine, pstate'[m] = Virtual
                 PROVE  \E u \in switcher' : u.machine = m
      OBVIOUS
    <3>1. CASE m = s.machine
      BY <2>1, <2>2, <3>1
    <3>2. CASE m # s.machine
      <4>1. PICK u \in switcher : u.machine = m
        BY <2>6, <3>2 DEF SwitchersInv
      <4> QED
        BY <2>2, <3>2, <4>1
    <3> QED
      BY <3>1, <3>2
  <2> QED
    BY <2>7, <2>8, <2>9, <2>10 DEF SwitchersInv
<1>5. ASSUME NEW s \in switcher, SwitcherEnds(s)
      PROVE  SwitchersInv'
  <2>1. s \in Switcher /\ s.machine \in Machine /\ s.target \in PState
    BY <1>0
  <2>2. /\ pstate' = [pstate EXCEPT ![s.machine] = s.target]
        /\ switcher' = switcher \ {s} /\ UNCHANGED nb_switching
        /\ Put(Msg("SWITCHED", {s.machine}, s.target))
    BY <1>5 DEF SwitcherEnds
  <2>3. CountIn(mailbox', Ends) = CountIn(mailbox, Ends) + 1
    <3>1. /\ Msg("SWITCHED", {s.machine}, s.target) \in Mail
          /\ Msg("SWITCHED", {s.machine}, s.target).type = "SWITCHED"
      BY <2>1, MailOf DEF Msg
    <3>2. Msg("SWITCHED", {s.machine}, s.target) \in Ends
      BY <3>1, OtherKinds
    <3> QED
      BY <2>2, <3>1, <3>2, PutMail
  <2>4. Cardinality(switcher') = Cardinality(switcher) - 1
    BY <1>0, <2>2, FS_RemoveElement
  <2>5. \A u \in switcher' : u.machine # s.machine
    BY <2>2 DEF SwitchersInv
  <2>6. \A m \in Machine : pstate'[m] = IF m = s.machine THEN s.target ELSE pstate[m]
    BY <2>1, <2>2 DEF Types
  <2>7. nb_switching' = Cardinality(switcher') + CountIn(mailbox', Ends)
    BY <1>0, <2>2, <2>3, <2>4 DEF SwitchersInv
  <2>8. \A u \in switcher' : u.phase = "computing" <=> pstate'[u.machine] = Virtual
    BY <1>0, <2>2, <2>5, <2>6 DEF SwitchersInv
  <2>9. \A m \in Machine : pstate'[m] = Virtual => \E u \in switcher' : u.machine = m
    <3> SUFFICES ASSUME NEW m \in Machine, pstate'[m] = Virtual
                 PROVE  \E u \in switcher' : u.machine = m
      OBVIOUS
    <3>1. m # s.machine /\ pstate[m] = Virtual
      BY <1>0, <2>1, <2>6
    <3>2. PICK u \in switcher : u.machine = m
      BY <3>1 DEF SwitchersInv
    <3> QED
      BY <2>2, <3>1, <3>2
  <2> QED
    BY <2>2, <2>7, <2>8, <2>9 DEF SwitchersInv
<1>6. CASE server_on_execute_job \/ server_on_event_machine_unavailable
           \/ server_on_event_machine_available \/ server_on_job_completed \/ server_on_sched_ready
  <2>1. /\ UNCHANGED <<pstate, switcher, nb_switching>>
        /\ \/ Receive("SCHED_EXECUTE_JOB") \/ Receive("unavailable") \/ Receive("available")
           \/ Receive("JOB_COMPLETED") \/ Receive("SCHED_READY")
    BY <1>6 DEF server_on_execute_job, server_on_event_machine_unavailable,
                server_on_event_machine_available, server_on_job_completed, server_on_sched_ready,
                machineVars, switchVars
  <2>2. mailbox # <<>> /\ mailbox' = Tail(mailbox) /\ Received \in Mail /\ Received.type # "SWITCHED"
    BY <2>1, ReceiveMail DEF Receive
  <2>3. SameCount(Ends)
    BY <2>2, OtherKinds, TakeOther
  <2> QED
    BY <1>1, <2>1, <2>3
<1>7. ASSUME NEW x \in Mail, Put(x), x.type # "SWITCHED", UNCHANGED <<pstate, switcher, nb_switching>>
      PROVE  SwitchersInv'
  BY <1>1, <1>7, PutOther, OtherKinds
<1>8. CASE (\E j \in Job : JobEnds(j)) \/ EventOccurs
           \/ (\E j \in Job, S \in SUBSET Machine : Execute(j, S))
           \/ (\E S \in SUBSET Switchable, target \in PState : SetResourceState(S, target))
           \/ EndReply
  <2>1. UNCHANGED <<pstate, switcher, nb_switching>>
    BY <1>8 DEF JobEnds, EventOccurs, Execute, SetResourceState, EndReply, machineVars, switchVars
  <2>2. \E x \in Mail : Put(x) /\ x.type # "SWITCHED"
    BY <1>8, Puts
  <2> QED
    BY <1>7, <2>1, <2>2
<1>9. CASE ServerSendsEvents \/ (\E j \in Job : JobStarts(j)) \/ UNCHANGED vars
  <2>1. UNCHANGED <<pstate, switcher, nb_switching, mailbox>>
    BY <1>9 DEF ServerSendsEvents, JobStarts, vars, machineVars, switchVars
  <2> QED
    BY <1>1, <2>1 DEF SameCount
<1> QED
  BY <1>2, <1>3, <1>4, <1>5, <1>6, <1>8, <1>9 DEF Next, ServerStep

----------------------------------------------------------------------------
\* A finite set of requests has finitely many for a machine.
LEMMA RequestCount ==
  ASSUME NEW R, IsFiniteSet(R), NEW m
  PROVE  InRequests(R, m) \in Nat
<1>1. {r \in R : m \in r.all} \in SUBSET R
  OBVIOUS
<1> QED
  BY <1>1, FS_Subset, FS_CardinalityType DEF InRequests

\* Events of another kind are no answers.
LEMMA OtherEvents ==
  ASSUME NEW x \in Event, x.type # "RESOURCE_STATE_CHANGED", NEW m
  PROVE  x \notin Answers(m)
  BY DEF Answers

\* Each request stays in one place: the mailbox, CurrentSwitches or the buffer.
LEMMA RequestsKept ==
  ASSUME Types, Types', OneDecision, OneDecision', RequestsInv, [Next]_vars
  PROVE  RequestsInv'
<1>0. /\ \A K : CountIn(mailbox, K) \in Nat /\ CountIn(mailbox', K) \in Nat
      /\ \A K : CountIn(outbox, K) \in Nat /\ CountIn(outbox', K) \in Nat
      /\ \A m : InRequests(switches, m) \in Nat
      /\ \A m : InRequests(switches', m) \in Nat
      /\ Mailed' \subseteq Mail /\ Mailed \subseteq Mail
      /\ asked \in Nat /\ \A r \in switches : r.number \in Nat
  BY MailCount, MailCountNext, RequestCount DEF Types, Request
\* The switches do not change.
<1>1. ASSUME UNCHANGED <<switches, asked>>,
             \A x \in Mailed' : x.type = "PSTATE_MODIFICATION" => x \in Mailed
      PROVE  /\ \A r \in switches' :
                  /\ r.left \subseteq r.all /\ r.left # {} /\ r.number <= asked'
                  /\ \A x \in Mailed' : x.type = "PSTATE_MODIFICATION" => r.number < asked'
             /\ \A q, r \in switches' : q.number = r.number => q = r
  BY <1>1 DEF RequestsInv
<1>2. ASSUME UNCHANGED <<switches, asked, pending>>,
             \A x \in Mailed' : x.type = "PSTATE_MODIFICATION" => x \in Mailed,
             \A m \in Machine : SameCount(Requests(m)),
             \A m \in Machine : CountIn(outbox', Answers(m)) = CountIn(outbox, Answers(m))
      PROVE  RequestsInv'
  <2>1. \A m \in Machine :
          pending'[m] = CountIn(mailbox', Requests(m)) + InRequests(switches', m)
                        + CountIn(outbox', Answers(m))
    BY <1>2 DEF RequestsInv, SameCount
  <2> QED
    BY <1>1, <1>2, <2>1 DEF RequestsInv
<1>3. CASE server_on_pstate_modification
  <2> DEFINE R == switches \cup {NewRequest}
  <2>1. /\ mailbox # <<>> /\ mailbox' = Tail(mailbox)
        /\ Received \in Mail /\ Received.type = "PSTATE_MODIFICATION"
        /\ Mailed' \subseteq Mailed
        /\ \A K : CountIn(mailbox, K) = CountIn(mailbox', K) + (IF Received \in K THEN 1 ELSE 0)
        /\ UNCHANGED <<asked, pending>>
        /\ sched' = "run"
    BY <1>3, Recording, ReceiveMail DEF Receive
  <2>2. /\ R \in SUBSET Request /\ IsFiniteSet(R)
        /\ \A q, r \in R : q.number = r.number => q = r
        /\ NewRequest \notin switches
        /\ NewRequest.left = NewRequest.all /\ NewRequest.all = Received.about
        /\ NewRequest.number = asked
    BY <1>3, NewRequestLemma
  <2>3. Answering(R, AtOnce, Received.target)
    BY <1>3, Recording
  <2> HIDE DEF R
  <2>4. /\ \A q, r \in switches' : q.number = r.number => q = r
        /\ \A m : InRequests(switches', m) + CountIn(outbox', Answers(m))
                    = InRequests(R, m) + CountIn(outbox, Answers(m))
        /\ \A q \in switches' : \E r \in R :
             /\ q.number = r.number /\ q.all = r.all
             /\ q.left = LeftOf(R, r, AtOnce, Received.target) /\ q.left # {}
    BY <2>2, <2>3, AnsweringLemma
  <2>5. \A x \in Mailed' : x.type # "PSTATE_MODIFICATION"
    <3>1. CountIn(mailbox', Decisions) = 0
      BY <2>1 DEF OneDecision
    <3> QED
      BY <1>0, <3>1, MailCountNext, OtherKinds
  <2>6. \A r \in R : r.left \subseteq r.all /\ r.number <= asked
    BY <1>0, <2>2 DEF R, RequestsInv
  <2>7. \A q \in switches' : q.left \subseteq q.all /\ q.left # {} /\ q.number <= asked
    BY <2>4, <2>6 DEF LeftOf
  <2>8. ASSUME NEW m \in Machine
        PROVE  pending'[m] = CountIn(mailbox', Requests(m))
                 + InRequests(switches', m) + CountIn(outbox', Answers(m))
    <3> DEFINE d == IF m \in Received.about THEN 1 ELSE 0
    <3>1. CountIn(mailbox, Requests(m)) = CountIn(mailbox', Requests(m)) + d
      BY <2>1, OtherKinds
    <3>2. InRequests(R, m) = InRequests(switches, m) + d
      <4>1. CASE m \in Received.about
        <5>1. /\ {r \in R : m \in r.all} = {r \in switches : m \in r.all} \cup {NewRequest}
              /\ NewRequest \notin {r \in switches : m \in r.all}
          BY <2>2, <4>1 DEF R
        <5>2. IsFiniteSet({r \in switches : m \in r.all})
          <6>1. {r \in switches : m \in r.all} \in SUBSET switches
            OBVIOUS
          <6> QED
            BY <6>1, FS_Subset DEF Types
        <5> QED
          BY <4>1, <5>1, <5>2, FS_AddElement DEF InRequests
      <4>2. CASE m \notin Received.about
        <5>1. {r \in R : m \in r.all} = {r \in switches : m \in r.all}
          BY <2>2, <4>2 DEF R
        <5>2. InRequests(R, m) = InRequests(switches, m)
          BY <5>1 DEF InRequests
        <5> QED
          BY <1>0, <4>2, <5>2
      <4> QED
        BY <4>1, <4>2
    <3>3. pending[m] = CountIn(mailbox, Requests(m)) + InRequests(switches, m)
                         + CountIn(outbox, Answers(m))
      BY DEF RequestsInv
    <3>4. d \in Nat
      OBVIOUS
    <3> HIDE DEF d
    <3>5. InRequests(switches', m) + CountIn(outbox', Answers(m))
            = InRequests(R, m) + CountIn(outbox, Answers(m))
      BY <2>4
    <3>6. /\ CountIn(mailbox', Requests(m)) \in Nat /\ CountIn(outbox, Answers(m)) \in Nat
          /\ CountIn(outbox', Answers(m)) \in Nat
          /\ InRequests(switches, m) \in Nat /\ InRequests(switches', m) \in Nat
      BY <1>0
    <3>7. pending'[m] = pending[m]
      BY <2>1
    <3> QED
      BY <3>1, <3>2, <3>3, <3>4, <3>5, <3>6, <3>7
  <2> QED
    BY <2>1, <2>4, <2>5, <2>7, <2>8 DEF RequestsInv
<1>4. CASE server_on_switched
  <2>1. /\ mailbox # <<>> /\ mailbox' = Tail(mailbox)
        /\ Received \in Mail /\ Received.type = "SWITCHED"
        /\ Mailed' \subseteq Mailed
        /\ UNCHANGED <<asked, pending>>
    BY <1>4, Reporting, ReceiveMail DEF Receive
  <2>2. /\ \A q, r \in switches' : q.number = r.number => q = r
        /\ \A m : InRequests(switches', m) + CountIn(outbox', Answers(m))
                    = InRequests(switches, m) + CountIn(outbox, Answers(m))
        /\ \A q \in switches' : \E r \in switches :
             /\ q.number = r.number /\ q.all = r.all
             /\ q.left = LeftOf(switches, r, Received.about, Received.target) /\ q.left # {}
    <3>1. /\ switches \in SUBSET Request /\ IsFiniteSet(switches)
          /\ \A q, r \in switches : q.number = r.number => q = r
          /\ Answering(switches, Received.about, Received.target)
      BY <1>4, Reporting DEF Types, RequestsInv
    <3> QED
      BY <3>1, AnsweringLemma
  <2>3. \A q \in switches' : /\ q.left \subseteq q.all /\ q.left # {} /\ q.number <= asked
                             /\ \A x \in Mailed' : x.type = "PSTATE_MODIFICATION" => q.number < asked
    BY <2>1, <2>2 DEF RequestsInv, LeftOf
  <2>4. ASSUME NEW m \in Machine
        PROVE  pending'[m] = CountIn(mailbox', Requests(m))
                 + InRequests(switches', m) + CountIn(outbox', Answers(m))
    <3>1. SameCount(Requests(m))
      BY <2>1, TakeOther, OtherKinds
    <3>2. pending[m] = CountIn(mailbox, Requests(m)) + InRequests(switches, m)
                         + CountIn(outbox, Answers(m))
      BY DEF RequestsInv
    <3>3. InRequests(switches', m) + CountIn(outbox', Answers(m))
            = InRequests(switches, m) + CountIn(outbox, Answers(m))
      BY <2>2
    <3>4. /\ CountIn(mailbox', Requests(m)) \in Nat /\ CountIn(outbox, Answers(m)) \in Nat
          /\ CountIn(outbox', Answers(m)) \in Nat
          /\ InRequests(switches, m) \in Nat /\ InRequests(switches', m) \in Nat
      BY <1>0
    <3> QED
      BY <2>1, <3>1, <3>2, <3>3, <3>4 DEF SameCount
  <2> QED
    BY <2>1, <2>2, <2>3, <2>4 DEF RequestsInv
<1>5. ASSUME NEW type, Receive(type), type # "PSTATE_MODIFICATION", UNCHANGED switches,
             \A m \in Machine : CountIn(outbox', Answers(m)) = CountIn(outbox, Answers(m))
      PROVE  RequestsInv'
  <2>1. /\ mailbox # <<>> /\ mailbox' = Tail(mailbox) /\ Received \in Mail /\ Received.type = type
        /\ Mailed' \subseteq Mailed /\ UNCHANGED <<asked, pending>>
    BY <1>5, ReceiveMail DEF Receive
  <2>2. \A m \in Machine : SameCount(Requests(m))
    BY <1>5, <2>1, OtherKinds, TakeOther
  <2> QED
    BY <1>2, <1>5, <2>1, <2>2
<1>6. CASE server_on_execute_job \/ server_on_sched_ready
  <2>1. UNCHANGED <<outbox, switches>> /\ (Receive("SCHED_EXECUTE_JOB") \/ Receive("SCHED_READY"))
    BY <1>6 DEF server_on_execute_job, server_on_sched_ready, switchVars
  <2> QED
    BY <1>5, <2>1
<1>7. ASSUME NEW x \in Event, x.type # "RESOURCE_STATE_CHANGED", outbox' = Append(outbox, x)
      PROVE  \A m \in Machine : CountIn(outbox', Answers(m)) = CountIn(outbox, Answers(m))
  <2> TAKE m \in Machine
  <2>1. x \notin Answers(m)
    BY <1>7, OtherEvents
  <2> QED
    BY <1>0, <1>7, <2>1, AppendEvent
<1>8. CASE server_on_job_completed
  <2>1. Receive("JOB_COMPLETED") /\ UNCHANGED switches
    BY <1>8 DEF server_on_job_completed, switchVars
  <2>2. PICK j \in Job : Received.about = {j}
    BY <2>1, ReceiveMail, MailKinds
  <2>3. PICK x : x = Msg("JOB_COMPLETED", Received.about, Virtual)
    OBVIOUS
  <2>4. x \in Event /\ x.type # "RESOURCE_STATE_CHANGED" /\ outbox' = Append(outbox, x)
    BY <1>8, <2>2, <2>3, MailOf DEF server_on_job_completed, Msg
  <2> QED
    BY <1>5, <1>7, <2>1, <2>4
<1>9. CASE server_on_event_machine_unavailable
  <2>1. Receive("unavailable") /\ UNCHANGED switches
    BY <1>9 DEF server_on_event_machine_unavailable, switchVars
  <2>2. Received.about \in SUBSET Machine
    BY <2>1, ReceiveMail, MailKinds
  <2>3. PICK x : x = Msg("event_machine_unavailable", Received.about, Virtual)
    OBVIOUS
  <2>4. x \in Event /\ x.type # "RESOURCE_STATE_CHANGED" /\ (outbox' = outbox \/ outbox' = Append(outbox, x))
    BY <1>9, <2>2, <2>3, MailOf DEF server_on_event_machine_unavailable, Msg
  <2> QED
    BY <1>5, <1>7, <2>1, <2>4
<1>10. CASE server_on_event_machine_available
  <2>1. Receive("available") /\ UNCHANGED switches
    BY <1>10 DEF server_on_event_machine_available, switchVars
  <2>2. Received.about \in SUBSET Machine
    BY <2>1, ReceiveMail, MailKinds
  <2>3. PICK x : x = Msg("event_machine_available", Received.about, Virtual)
    OBVIOUS
  <2>4. x \in Event /\ x.type # "RESOURCE_STATE_CHANGED" /\ (outbox' = outbox \/ outbox' = Append(outbox, x))
    BY <1>10, <2>2, <2>3, MailOf DEF server_on_event_machine_available, Msg
  <2> QED
    BY <1>5, <1>7, <2>1, <2>4
<1>11. CASE ServerSendsEvents
  <2>1. UNCHANGED <<mailbox, switches, asked>> /\ outbox' = <<>>
    BY <1>11 DEF ServerSendsEvents, switchVars
  <2>2. ASSUME NEW m \in Machine
        PROVE  pending'[m] = CountIn(mailbox', Requests(m))
                 + InRequests(switches', m) + CountIn(outbox', Answers(m))
    <3>1. {k \in 1..Len(outbox) : outbox[k].type = "RESOURCE_STATE_CHANGED" /\ m \in outbox[k].about}
            = {k \in 1..Len(outbox) : outbox[k] \in Answers(m)}
      BY DEF Answers, Types
    <3>2. pending'[m] = pending[m] - CountIn(outbox, Answers(m))
      BY <1>11, <3>1 DEF ServerSendsEvents, CountIn
    <3>3. pending[m] = CountIn(mailbox, Requests(m)) + InRequests(switches, m)
                         + CountIn(outbox, Answers(m))
      BY DEF RequestsInv
    <3>4. CountIn(outbox', Answers(m)) = 0
      BY <2>1, CountEmpty
    <3> QED
      BY <1>0, <2>1, <3>2, <3>3, <3>4
  <2> QED
    BY <2>1, <2>2 DEF RequestsInv, Mailed
<1>12. ASSUME NEW x \in Mail, Put(x), x.type # "PSTATE_MODIFICATION",
              UNCHANGED <<switches, asked, pending, outbox>>
       PROVE  RequestsInv'
  <2>1. Mailed' = Mailed \cup {x}
    BY <1>12, PutMail
  <2>2. \A m \in Machine : SameCount(Requests(m))
    BY <1>12, PutOther, OtherKinds
  <2> QED
    BY <1>2, <1>12, <2>1, <2>2
<1>13. ASSUME NEW S \in SUBSET Switchable, NEW target \in PState, SetResourceState(S, target)
       PROVE  RequestsInv'
  <2>1. PICK x \in Mail : Put(x) /\ x.type = "PSTATE_MODIFICATION" /\ x.about = S
    BY <1>13, Puts
  <2>2. /\ UNCHANGED <<switches, outbox>> /\ asked' = asked + 1
        /\ pending' = [m \in Machine |-> IF m \in S THEN pending[m] + 1 ELSE pending[m]]
    BY <1>13 DEF SetResourceState, switchVars
  <2>3. ASSUME NEW m \in Machine
        PROVE  pending'[m] = CountIn(mailbox', Requests(m))
                 + InRequests(switches', m) + CountIn(outbox', Answers(m))
    <3>1. CountIn(mailbox', Requests(m)) = CountIn(mailbox, Requests(m)) + (IF m \in S THEN 1 ELSE 0)
      BY <2>1, PutMail, OtherKinds
    <3>2. pending[m] = CountIn(mailbox, Requests(m)) + InRequests(switches, m)
                         + CountIn(outbox, Answers(m))
      BY DEF RequestsInv
    <3>3. pending'[m] = pending[m] + (IF m \in S THEN 1 ELSE 0)
      BY <1>0, <2>2, <3>2
    <3> QED
      BY <1>0, <2>2, <3>1, <3>2, <3>3
  <2>4. \A r \in switches' : r.number < asked' /\ r.number <= asked'
    BY <1>0, <2>2 DEF RequestsInv
  <2> QED
    BY <2>2, <2>3, <2>4 DEF RequestsInv
<1>14. CASE (\E s \in switcher : SwitcherEnds(s)) \/ (\E j \in Job : JobEnds(j)) \/ EventOccurs
            \/ (\E j \in Job, S \in SUBSET Machine : Execute(j, S)) \/ EndReply
  <2>1. UNCHANGED <<switches, asked, pending, outbox>>
    BY <1>14 DEF SwitcherEnds, JobEnds, EventOccurs, Execute, EndReply, switchVars, schedVars
  <2>2. \E x \in Mail : Put(x) /\ x.type # "PSTATE_MODIFICATION"
    BY <1>14, Puts
  <2> QED
    BY <1>12, <2>1, <2>2
<1>15. CASE (\E s \in switcher : SwitcherStarts(s)) \/ (\E j \in Job : JobStarts(j)) \/ UNCHANGED vars
  <2>1. UNCHANGED <<switches, asked, pending, outbox, mailbox>>
    BY <1>15 DEF SwitcherStarts, JobStarts, vars, switchVars, schedVars
  <2> QED
    BY <1>2, <2>1 DEF SameCount, Mailed
<1> QED
  BY <1>3, <1>4, <1>6, <1>8, <1>9, <1>10, <1>11, <1>13, <1>14, <1>15 DEF Next, ServerStep

\* The invariant for all constants.
Base == Types /\ OneDecision /\ SwitchersInv /\ RequestsInv

\* Base holds initially.
LEMMA BaseInit == ASSUME Init PROVE Base
<1>1. Types /\ Mailed = {} /\ Buffered = {}
  BY Initially
<1>2. /\ switches = {} /\ switcher = {} /\ nb_switching = 0 /\ sched = "run"
      /\ pstate \in [Machine -> CompPState]
      /\ pending = [m \in Machine |-> 0]
      /\ mailbox = <<>> /\ outbox = <<>>
  BY DEF Init
<1>3. \A K : CountIn(mailbox, K) = 0 /\ CountIn(outbox, K) = 0
  BY <1>2, CountEmpty
<1>4. Cardinality({}) = 0
  BY FS_EmptySet
<1>5. \A m \in Machine : pstate[m] # Virtual
  BY <1>2, PStatesAssumption DEF PState
<1>6. \A m : {r \in switches : m \in r.all} = {}
  BY <1>2
<1>7. OneDecision
  BY <1>2, <1>3 DEF OneDecision
<1>8. SwitchersInv
  BY <1>2, <1>3, <1>4, <1>5 DEF SwitchersInv
<1>9. RequestsInv
  BY <1>1, <1>2, <1>3, <1>4, <1>6 DEF RequestsInv, InRequests
<1> QED
  BY <1>1, <1>7, <1>8, <1>9 DEF Base

\* Every step preserves Base.
LEMMA BaseKept == ASSUME Base, [Next]_vars PROVE Base'
<1>1. Types'
  BY TypesKept DEF Base
<1>2. OneDecision'
  BY <1>1, OneDecisionKept DEF Base
<1>3. SwitchersInv'
  BY <1>1, SwitchersKept DEF Base
<1>4. RequestsInv'
  BY <1>1, <1>2, RequestsKept DEF Base
<1> QED
  BY <1>1, <1>2, <1>3, <1>4 DEF Base

\* Base is an invariant.
LEMMA BaseHolds == Spec => []Base
<1>1. Init => Base
  BY BaseInit
<1>2. Base /\ [Next]_vars => Base'
  BY BaseKept
<1> QED
  BY <1>1, <1>2, PTL DEF Spec

(***************************************************************************)
(* protocol.rst, SET_RESOURCE_STATE: each request is answered once, by one *)
(* event with all its machines. For any machines, power states, jobs and   *)
(* events, and also for a scheduler that asks again before the answer.     *)
(***************************************************************************)
THEOREM RequestsAnsweredOnce == Spec => []OneAnswerPerRequest
<1>1. Base => OneAnswerPerRequest
  <2> SUFFICES ASSUME Base, NEW m \in Machine
               PROVE  pending[m]
                        = Cardinality({i \in 1..Len(mailbox) :
                                         /\ mailbox[i].type = "PSTATE_MODIFICATION"
                                         /\ m \in mailbox[i].about})
                        + Cardinality({r \in switches : m \in r.all})
                        + Cardinality({i \in 1..Len(outbox) :
                                         /\ outbox[i].type = "RESOURCE_STATE_CHANGED"
                                         /\ m \in outbox[i].about})
    BY DEF OneAnswerPerRequest
  <2>1. mailbox \in Seq(Mail) /\ outbox \in Seq(Event)
    BY DEF Base, Types
  <2>2. {i \in 1..Len(mailbox) : mailbox[i].type = "PSTATE_MODIFICATION" /\ m \in mailbox[i].about}
          = {i \in 1..Len(mailbox) : mailbox[i] \in Requests(m)}
    BY <2>1, OtherKinds
  <2>3. {i \in 1..Len(outbox) : outbox[i].type = "RESOURCE_STATE_CHANGED" /\ m \in outbox[i].about}
          = {i \in 1..Len(outbox) : outbox[i] \in Answers(m)}
    BY <2>1 DEF Answers
  <2> QED
    BY <2>2, <2>3 DEF Base, RequestsInv, CountIn, InRequests
<1> QED
  BY <1>1, BaseHolds, PTL

(***************************************************************************)
(* Every reachable state is well typed; in particular                      *)
(* nb_switching_machines and the number of unanswered requests never get   *)
(* negative, which needs the two counting invariants.                      *)
(***************************************************************************)
THEOREM PowerTypesHold == Spec => []PowerTypeOK
<1>1. Base => PowerTypeOK
  <2> SUFFICES ASSUME Base PROVE PowerTypeOK
    OBVIOUS
  <2>1. nb_switching \in Nat
    BY MailCount, FS_CardinalityType DEF Base, Types, SwitchersInv
  <2>2. pending \in [Machine -> Nat]
    <3>1. \A m \in Machine : pending[m] \in Nat
      BY MailCount, RequestCount DEF Base, Types, RequestsInv
    <3> QED
      BY <3>1 DEF Base, Types
  <2>3. switches \subseteq [number : Nat, all : SUBSET Machine, left : SUBSET Machine, target : PState]
    BY PStatesAssumption DEF Base, Types, Request
  <2>4. switcher \subseteq [machine : Machine, target : PState, phase : {"created", "computing"}]
    BY PStatesAssumption DEF Base, Types, Switcher
  <2> QED
    BY <2>1, <2>2, <2>3, <2>4 DEF Base, Types, PowerTypeOK
<1> QED
  BY <1>1, BaseHolds, PTL

----------------------------------------------------------------------------
\* A patient scheduler: what its requests have become

\* A machine is in one message, request or answer.
LEMMA OneRequestEach ==
  ASSUME Base, PatientInv, NEW m \in Machine
  PROVE  /\ \A q, r \in switches : m \in q.all /\ m \in r.all => q = r
         /\ \A x \in Mailed : x.type = "PSTATE_MODIFICATION" /\ m \in x.about =>
              /\ pending[m] # 0
              /\ \A r \in switches : m \notin r.all
              /\ \A y \in Buffered : y.type = "RESOURCE_STATE_CHANGED" => m \notin y.about
         /\ \A r \in switches : m \in r.all =>
              /\ pending[m] # 0
              /\ \A y \in Buffered : y.type = "RESOURCE_STATE_CHANGED" => m \notin y.about
         /\ \A y \in Buffered : y.type = "RESOURCE_STATE_CHANGED" /\ m \in y.about => pending[m] # 0
<1> DEFINE a == CountIn(mailbox, Requests(m))
           b == InRequests(switches, m)
           c == CountIn(outbox, Answers(m))
           S == {r \in switches : m \in r.all}
<1>1. a \in Nat /\ b \in Nat /\ c \in Nat /\ a + b + c = pending[m] /\ pending[m] <= 1
  BY MailCount, RequestCount DEF Base, Types, RequestsInv, PatientInv
<1>2. \A x \in Mailed : x.type = "PSTATE_MODIFICATION" /\ m \in x.about => a # 0
  <2>1. Mailed \subseteq Mail /\ (a = 0 <=> Mailed \cap Requests(m) = {})
    BY MailCount DEF Base
  <2> QED
    BY <2>1, OtherKinds
<1>3. \A y \in Buffered : y.type = "RESOURCE_STATE_CHANGED" /\ m \in y.about => c # 0
  <2>1. Buffered \subseteq Event /\ (c = 0 <=> Buffered \cap Answers(m) = {})
    BY MailCount DEF Base
  <2> QED
    BY <2>1 DEF Answers
<1>4. IsFiniteSet(S) /\ b = Cardinality(S)
  <2>1. S \in SUBSET switches
    OBVIOUS
  <2>2. IsFiniteSet(S)
    BY <2>1, FS_Subset DEF Base, Types
  <2> QED
    BY <2>2 DEF InRequests
<1>5. \A r \in switches : m \in r.all => b # 0
  <2> SUFFICES ASSUME NEW r \in switches, m \in r.all, b = 0 PROVE FALSE
    OBVIOUS
  <2>1. S = {}
    BY <1>4, FS_EmptySet
  <2> QED
    BY <2>1
<1>6. \A q, r \in switches : m \in q.all /\ m \in r.all => q = r
  <2> SUFFICES ASSUME NEW q \in switches, NEW r \in switches, m \in q.all, m \in r.all PROVE q = r
    OBVIOUS
  <2>1. b = 1
    BY <1>1, <1>5
  <2>2. PICK x : S = {x}
    BY <1>4, <2>1, FS_Singleton
  <2>3. q \in S /\ r \in S
    OBVIOUS
  <2> QED
    BY <2>2, <2>3
<1> HIDE DEF a, b, c, S
<1> QED
  BY <1>1, <1>2, <1>3, <1>5, <1>6

\* A patient scheduler waits for one answer per machine.
LEMMA PatientKept ==
  ASSUME Patient, Types, PatientInv, [Next]_vars
  PROVE  PatientInv'
<1>1. CASE UNCHANGED pending
  BY <1>1 DEF PatientInv
<1>2. CASE ServerSendsEvents
  <2> SUFFICES ASSUME NEW m \in Machine PROVE pending'[m] <= 1
    BY DEF PatientInv
  <2> DEFINE A == {k \in 1..Len(outbox) : /\ outbox[k].type = "RESOURCE_STATE_CHANGED"
                                          /\ m \in outbox[k].about}
  <2>1. Cardinality(A) \in Nat
    <3>1. A \in SUBSET (1..Len(outbox)) /\ Len(outbox) \in Int
      BY DEF Types
    <3>2. IsFiniteSet(1..Len(outbox))
      BY <3>1, FS_Interval
    <3> HIDE DEF A
    <3> QED
      BY <3>1, <3>2, FS_Subset, FS_CardinalityType
  <2>2. pending'[m] = pending[m] - Cardinality(A)
    BY <1>2 DEF ServerSendsEvents
  <2> HIDE DEF A
  <2> QED
    BY <2>1, <2>2 DEF PatientInv, Types
<1>3. ASSUME NEW S \in SUBSET Switchable, NEW target \in PState, SetResourceState(S, target)
      PROVE  PatientInv'
  BY <1>3 DEF SetResourceState, PatientInv, Types
<1>4. CASE ServerStep /\ ~ServerSendsEvents
  BY <1>1, <1>4 DEF ServerStep, Receive, server_on_execute_job, server_on_pstate_modification, server_on_switched,
            server_on_event_machine_unavailable, server_on_event_machine_available,
            server_on_job_completed, server_on_sched_ready
<1>5. CASE \/ \E s \in switcher : SwitcherStarts(s) \/ SwitcherEnds(s)
           \/ \E j \in Job : JobStarts(j) \/ JobEnds(j)
           \/ EventOccurs
           \/ \E j \in Job, S \in SUBSET Machine : Execute(j, S)
           \/ EndReply \/ UNCHANGED vars
  BY <1>1, <1>5 DEF SwitcherStarts, SwitcherEnds, JobStarts, JobEnds, EventOccurs, Execute, EndReply,
            schedVars, vars
<1> QED
  BY <1>2, <1>3, <1>4, <1>5 DEF Next

----------------------------------------------------------------------------
\* SwitchInv

\* No step of this kind touches the machines of a request.
LEMMA SwitchFrame ==
  ASSUME SwitchInv, UNCHANGED <<pstate, switcher, switches>>,
         \A x \in Mail : x.type = "SWITCHED" => (x \in Mailed' <=> x \in Mailed),
         \A m \in Machine : SameCount(EndsOf(m)),
         \A x \in Buffered' : x.type = "RESOURCE_STATE_CHANGED" => x \in Buffered,
         Mailed' \subseteq Mail, Types
  PROVE  SwitchInv'
<1>1. SwitchersAwaited' /\ RestIsSet'
  BY DEF SwitchInv, SwitchersAwaited, RestIsSet
<1>2. OneEndEach'
  BY DEF SwitchInv, OneEndEach, SameCount
<1>3. EndsAwaited'
  BY DEF SwitchInv, EndsAwaited
<1>4. LeftInFlight'
  <2> SUFFICES ASSUME NEW r \in switches, NEW m \in r.left
               PROVE  SwitchInFlight(m, r.target)'
    BY DEF LeftInFlight
  <2>1. SwitchInFlight(m, r.target)
    BY DEF SwitchInv, LeftInFlight
  <2>2. CASE \E s \in switcher : s.machine = m /\ s.target = r.target
    BY <2>2 DEF SwitchInFlight
  <2>3. CASE \E i \in 1..Len(mailbox) : mailbox[i] = Msg("SWITCHED", {m}, r.target)
    <3>1. PICK x : x = Msg("SWITCHED", {m}, r.target)
      OBVIOUS
    <3>2. m \in Machine /\ r.target \in PState
      BY DEF Types, Request
    <3>3. x \in Mail /\ x.type = "SWITCHED" /\ x \in Mailed
      BY <2>3, <3>1, <3>2, MailOf DEF Msg, Mailed
    <3>4. x \in Mailed'
      BY <3>3
    <3> QED
      BY <3>1, <3>4 DEF Mailed, SwitchInFlight
  <2> QED
    BY <2>1, <2>2, <2>3 DEF SwitchInFlight
<1>5. AnsweredSet'
  BY DEF SwitchInv, AnsweredSet
<1> QED
  BY <1>1, <1>2, <1>3, <1>4, <1>5 DEF SwitchInv

----------------------------------------------------------------------------
\* Handlers and steps of the others that are not about the end of a switch.
LEMMA SwitchTake ==
  ASSUME Types, Types', SwitchInv, NEW type, Receive(type), type # "SWITCHED",
         UNCHANGED <<pstate, switcher, switches>>,
         \A x \in Buffered' : x.type = "RESOURCE_STATE_CHANGED" => x \in Buffered
  PROVE  SwitchInv'
<1>1. /\ Received \in Mail /\ Received.type = type /\ Mailed' \subseteq Mailed
      /\ Mailed = Mailed' \cup {Received} /\ mailbox # <<>> /\ mailbox' = Tail(mailbox)
  BY ReceiveMail DEF Receive
<1>2. \A m \in Machine : SameCount(EndsOf(m))
  <2> SUFFICES ASSUME NEW m \in Machine PROVE SameCount(EndsOf(m))
    OBVIOUS
  <2>1. Received \notin EndsOf(m)
    BY <1>1, OtherKinds
  <2> QED
    BY <1>1, <2>1, TakeOther
<1>3. \A x \in Mail : x.type = "SWITCHED" => (x \in Mailed' <=> x \in Mailed)
  BY <1>1
<1>4. Mailed' \subseteq Mail
  BY MailCountNext
<1> QED
  BY <1>2, <1>3, <1>4, SwitchFrame

\* Steps that put another message.
LEMMA SwitchPut ==
  ASSUME Types, SwitchInv, NEW x \in Mail, Put(x), x.type # "SWITCHED",
         UNCHANGED <<pstate, switcher, switches, outbox>>
  PROVE  SwitchInv'
<1>1. Mailed' = Mailed \cup {x} /\ Mailed \subseteq Mail
  BY PutMail, MailCount
<1>2. \A m \in Machine : SameCount(EndsOf(m))
  <2> SUFFICES ASSUME NEW m \in Machine PROVE SameCount(EndsOf(m))
    OBVIOUS
  <2>1. x \notin EndsOf(m)
    BY OtherKinds
  <2> QED
    BY <2>1, PutOther
<1>3. \A y \in Mail : y.type = "SWITCHED" => (y \in Mailed' <=> y \in Mailed)
  BY <1>1
<1>4. Mailed' \subseteq Mail /\ Buffered' = Buffered
  BY <1>1 DEF Buffered
<1> QED
  BY <1>2, <1>3, <1>4, SwitchFrame

\* The machine of a switcher is left in its request, and nowhere else.
LEMMA SwitcherServes ==
  ASSUME Base, PatientInv, SwitchInv, NEW s \in switcher
  PROVE  /\ s.machine \in Machine /\ s.target \in PState
         /\ \E r \in switches : r.target = s.target /\ s.machine \in r.left
         /\ \A r \in switches : s.machine \in r.all => r.target = s.target /\ s.machine \in r.left
         /\ \A y \in Buffered : y.type = "RESOURCE_STATE_CHANGED" => s.machine \notin y.about
         /\ \A x \in Mailed : x.type = "SWITCHED" => x.about # {s.machine}
         /\ \A t \in switcher : t.machine = s.machine => t = s
<1>1. s.machine \in Machine /\ s.target \in PState
  BY PStatesAssumption DEF Base, Types, Switcher
<1>2. PICK r \in switches : r.target = s.target /\ s.machine \in r.left
  BY DEF SwitchInv, SwitchersAwaited
<1>3. s.machine \in r.all
  BY <1>2 DEF Base, RequestsInv
<1>4. \A q \in switches : s.machine \in q.all => q = r
  BY <1>1, <1>3, OneRequestEach
<1>5. \A y \in Buffered : y.type = "RESOURCE_STATE_CHANGED" => s.machine \notin y.about
  BY <1>1, <1>3, OneRequestEach
<1>6. \A x \in Mailed : x.type = "SWITCHED" => x.about # {s.machine}
  BY <1>1 DEF SwitchInv, EndsAwaited
<1>7. \A t \in switcher : t.machine = s.machine => t = s
  BY DEF Base, SwitchersInv
<1> QED
  BY <1>1, <1>2, <1>4, <1>5, <1>6, <1>7

\* A switcher that starts leaves its machine in a virtual power state.
LEMMA SwitchStarts ==
  ASSUME Base, Types', PatientInv, SwitchInv, NEW s \in switcher, SwitcherStarts(s)
  PROVE  SwitchInv'
<1> DEFINE t == [s EXCEPT !.phase = "computing"]
<1>1. /\ switcher' = (switcher \ {s}) \cup {t} /\ UNCHANGED <<mailbox, outbox, switches>>
      /\ pstate' = [pstate EXCEPT ![s.machine] = Virtual]
  BY DEF SwitcherStarts
<1>2. t.machine = s.machine /\ t.target = s.target
  BY DEF Base, Types, Switcher
<1> HIDE DEF t
<1>3. /\ s.machine \in Machine /\ pstate \in [Machine -> PState \cup {Virtual}]
      /\ \A r \in switches : r.all \subseteq Machine /\ r.left \subseteq r.all
  BY PStatesAssumption DEF Base, Types, Switcher, Request, RequestsInv
<1>4. \A m \in Machine : m # s.machine => pstate'[m] = pstate[m]
  BY <1>1, <1>3
<1>5. Mailed' = Mailed /\ Buffered' = Buffered
  BY <1>1 DEF Mailed, Buffered
<1>6. SwitchersAwaited'
  BY <1>1, <1>2 DEF SwitchInv, SwitchersAwaited
<1>7. OneEndEach'
  BY <1>1 DEF SwitchInv, OneEndEach
<1>8. EndsAwaited'
  BY <1>1, <1>2, <1>4, <1>5, SwitcherServes DEF SwitchInv, EndsAwaited
<1>9. LeftInFlight'
  BY <1>1, <1>2 DEF SwitchInv, LeftInFlight, SwitchInFlight
<1>10. RestIsSet'
  BY <1>1, <1>3, <1>4, SwitcherServes DEF SwitchInv, RestIsSet
<1>11. AnsweredSet'
  <2>1. \A x \in Buffered : x.type = "RESOURCE_STATE_CHANGED" => x.about \subseteq Machine
    BY MailCount DEF Base, Event
  <2> QED
    BY <1>4, <1>5, <2>1, SwitcherServes DEF SwitchInv, AnsweredSet
<1> QED
  BY <1>6, <1>7, <1>8, <1>9, <1>10, <1>11 DEF SwitchInv

\* A switcher that ends is replaced by its report.
LEMMA SwitchEnds ==
  ASSUME Base, Types', PatientInv, SwitchInv, NEW s \in switcher, SwitcherEnds(s)
  PROVE  SwitchInv'
<1> DEFINE e == Msg("SWITCHED", {s.machine}, s.target)
<1>1. /\ switcher' = switcher \ {s} /\ UNCHANGED <<outbox, switches>> /\ Put(e)
      /\ pstate' = [pstate EXCEPT ![s.machine] = s.target]
  BY DEF SwitcherEnds
<1>2. e \in Mail /\ e.type = "SWITCHED" /\ e.about = {s.machine} /\ e.target = s.target
  BY SwitcherServes, MailOf DEF Msg
<1>3. /\ s.machine \in Machine /\ pstate \in [Machine -> PState \cup {Virtual}]
      /\ \A r \in switches : r.all \subseteq Machine /\ r.left \subseteq r.all
  BY PStatesAssumption DEF Base, Types, Switcher, Request, RequestsInv
<1>4. pstate'[s.machine] = s.target /\ \A m \in Machine : m # s.machine => pstate'[m] = pstate[m]
  BY <1>1, <1>3
<1>5. Mailed' = Mailed \cup {e} /\ Buffered' = Buffered /\ Mailed \subseteq Mail
  BY <1>1, <1>2, PutMail, MailCount DEF Buffered, Base
<1>6. SwitchersAwaited'
  BY <1>1 DEF SwitchInv, SwitchersAwaited
<1>7. OneEndEach'
  <2> SUFFICES ASSUME NEW m \in Machine PROVE CountIn(mailbox', EndsOf(m)) <= 1
    BY DEF OneEndEach
  <2>1. /\ CountIn(mailbox', EndsOf(m)) = CountIn(mailbox, EndsOf(m)) + (IF e \in EndsOf(m) THEN 1 ELSE 0)
        /\ CountIn(mailbox, EndsOf(m)) \in Nat
        /\ CountIn(mailbox, EndsOf(m)) <= 1
        /\ CountIn(mailbox, EndsOf(m)) = 0 <=> Mailed \cap EndsOf(m) = {}
    BY <1>1, <1>2, PutMail, MailCount DEF SwitchInv, OneEndEach, Base
  <2>2. e \in EndsOf(m) => m = s.machine
    BY <1>2, OtherKinds
  <2>3. Mailed \cap EndsOf(s.machine) = {}
    BY <1>5, SwitcherServes, OtherKinds
  <2> HIDE DEF e
  <2> QED
    BY <2>1, <2>2, <2>3
<1> HIDE DEF e
<1>8. EndsAwaited'
  <2> SUFFICES ASSUME NEW x \in Mailed', NEW m \in Machine, x.type = "SWITCHED", x.about = {m}
               PROVE  /\ pstate'[m] = x.target
                      /\ \E r \in switches' : r.target = x.target /\ m \in r.left
                      /\ \A t \in switcher' : t.machine # m
    BY DEF EndsAwaited
  <2>1. CASE x = e
    <3>1. m = s.machine /\ x.target = s.target
      BY <1>2, <2>1
    <3> QED
      BY <1>1, <1>4, <3>1, SwitcherServes
  <2>2. CASE x \in Mailed
    <3>1. m # s.machine
      BY <2>2, SwitcherServes
    <3> QED
      BY <1>1, <1>4, <2>2, <3>1 DEF SwitchInv, EndsAwaited
  <2> QED
    BY <1>5, <2>1, <2>2
<1>9. LeftInFlight'
  <2> SUFFICES ASSUME NEW r \in switches, NEW m \in r.left PROVE SwitchInFlight(m, r.target)'
    BY <1>1 DEF LeftInFlight
  <2>1. CASE m = s.machine
    <3>1. r.target = s.target
      BY <1>3, <2>1, SwitcherServes
    <3>2. e \in Mailed' /\ e = Msg("SWITCHED", {m}, r.target)
      BY <1>5, <2>1, <3>1 DEF e
    <3> QED
      BY <3>2 DEF Mailed, SwitchInFlight
  <2>2. CASE m # s.machine
    <3>1. SwitchInFlight(m, r.target)
      BY DEF SwitchInv, LeftInFlight
    <3>2. CASE \E t \in switcher : t.machine = m /\ t.target = r.target
      BY <1>1, <2>2, <3>2 DEF SwitchInFlight
    <3>3. CASE \E i \in 1..Len(mailbox) : mailbox[i] = Msg("SWITCHED", {m}, r.target)
      <4>1. Msg("SWITCHED", {m}, r.target) \in Mailed'
        BY <1>5, <3>3 DEF Mailed
      <4> QED
        BY <4>1 DEF Mailed, SwitchInFlight
    <3> QED
      BY <3>1, <3>2, <3>3 DEF SwitchInFlight
  <2> QED
    BY <2>1, <2>2
<1>10. RestIsSet'
  BY <1>1, <1>3, <1>4, SwitcherServes DEF SwitchInv, RestIsSet
<1>11. AnsweredSet'
  <2>1. \A x \in Buffered : x.type = "RESOURCE_STATE_CHANGED" => x.about \subseteq Machine
    BY MailCount DEF Base, Event
  <2> QED
    BY <1>4, <1>5, <2>1, SwitcherServes DEF SwitchInv, AnsweredSet
<1> QED
  BY <1>6, <1>7, <1>8, <1>9, <1>10, <1>11 DEF SwitchInv

----------------------------------------------------------------------------
\* Two requests with the same fields.
LEMMA SameRequest ==
  ASSUME NEW q \in Request, NEW r \in Request, q.number = r.number, q.all = r.all,
         q.target = r.target, q.left = r.left
  PROVE  q = r
  BY DEF Request

\* A machine about to be recorded is in no request, answer, switcher or report.
LEMMA RecordedAreFree ==
  ASSUME Base, PatientInv, SwitchInv, server_on_pstate_modification, NEW m \in Received.about
  PROVE  /\ m \in Machine /\ pending[m] # 0 /\ pstate[m] \in PState
         /\ \A r \in switches : m \notin r.all
         /\ \A s \in switcher : s.machine # m
         /\ \A x \in Mailed : x.type = "SWITCHED" => x.about # {m}
         /\ \A y \in Buffered : y.type = "RESOURCE_STATE_CHANGED" => m \notin y.about
<1>1. Received \in Mailed /\ Received.type = "PSTATE_MODIFICATION" /\ m \in Machine
  <2>1. Receive("PSTATE_MODIFICATION") /\ Types /\ RequestsInv
    BY Recording DEF Base
  <2> QED
    BY <2>1, ReceiveMail, NewRequestLemma, PStatesAssumption
<1>2. /\ pending[m] # 0 /\ \A r \in switches : m \notin r.all
      /\ \A y \in Buffered : y.type = "RESOURCE_STATE_CHANGED" => m \notin y.about
  BY <1>1, OneRequestEach
<1>3. \A s \in switcher : s.machine # m
  BY <1>2 DEF SwitchInv, SwitchersAwaited, Base, RequestsInv
<1>4. \A x \in Mailed : x.type = "SWITCHED" => x.about # {m}
  BY <1>1, <1>2 DEF SwitchInv, EndsAwaited, Base, RequestsInv
<1>5. pstate[m] \in PState
  BY <1>1, <1>3 DEF Base, Types, SwitchersInv
<1> QED
  BY <1>1, <1>2, <1>3, <1>4, <1>5

\* The request that is recorded has the slow machines left, and the others are as
\* they were.
LEMMA RecordedRequest ==
  ASSUME Base, PatientInv, SwitchInv, server_on_pstate_modification
  PROVE  /\ Received.about = AtOnce \cup Slow /\ AtOnce \cap Slow = {}
         /\ \A q \in switches' :
              \/ q \in switches
              \/ /\ q.all = Received.about /\ q.target = Received.target
                 /\ q.left = Slow /\ Slow # {}
         /\ switches \subseteq switches'
         /\ Slow # {} => \E q \in switches' :
              q.all = Received.about /\ q.target = Received.target /\ q.left = Slow
         /\ \A x \in Buffered' :
              \/ x \in Buffered
              \/ /\ x = Msg("RESOURCE_STATE_CHANGED", Received.about, Received.target)
                 /\ Slow = {}
<1> DEFINE R == switches \cup {NewRequest}
           T == Received.target
<1>1. /\ Types /\ RequestsInv /\ Answering(R, AtOnce, T)
  BY Recording DEF Base
<1>2. /\ NewRequest \in Request /\ NewRequest.left = NewRequest.all
      /\ NewRequest.all = Received.about /\ NewRequest.target = T
      /\ R \in SUBSET Request /\ IsFiniteSet(R)
      /\ \A q, r \in R : q.number = r.number => q = r
  BY <1>1, NewRequestLemma
<1>3. Received.about = AtOnce \cup Slow /\ AtOnce \cap Slow = {}
  <2>1. \A m \in Received.about : pstate[m] \in CompPState \/ pstate[m] \in SleepPState
    BY RecordedAreFree DEF PState
  <2>2. CompPState \cap SleepPState = {}
    BY PStatesAssumption
  <2> QED
    BY <2>1, <2>2 DEF AtOnce, Slow, Awake, Asleep
<1>4. \A r \in switches : LeftOf(R, r, AtOnce, T) = r.left /\ r.left # {}
  <2> SUFFICES ASSUME NEW r \in switches PROVE LeftOf(R, r, AtOnce, T) = r.left /\ r.left # {}
    OBVIOUS
  <2>1. r.left \subseteq r.all /\ r.left # {}
    BY <1>1 DEF RequestsInv
  <2>2. \A m \in r.left : m \notin AtOnce
    BY <1>3, <2>1, RecordedAreFree
  <2> QED
    BY <2>1, <2>2 DEF LeftOf
<1>5. LeftOf(R, NewRequest, AtOnce, T) = Slow
  <2>1. \A m \in AtOnce : NewRequest \in Credited(R, m, T)
    <3> SUFFICES ASSUME NEW m \in AtOnce PROVE NewRequest \in Credited(R, m, T)
      OBVIOUS
    <3>1. m \in Received.about
      BY <1>3
    <3>2. \A q \in R : m \in q.left => q = NewRequest
      BY <1>1, <3>1, RecordedAreFree DEF RequestsInv
    <3>3. NewRequest.number <= NewRequest.number
      BY <1>2 DEF Request
    <3> QED
      BY <1>2, <3>1, <3>2, <3>3 DEF Credited
  <2> QED
    BY <1>2, <1>3, <2>1 DEF LeftOf
<1> HIDE DEF R, T
<1>6. /\ switches' \subseteq Request
      /\ \A q \in switches' : \E r \in R :
              /\ q.number = r.number /\ q.all = r.all /\ q.target = r.target
              /\ q.left = LeftOf(R, r, AtOnce, T) /\ q.left # {}
      /\ \A r \in R : LeftOf(R, r, AtOnce, T) # {} => \E q \in switches' :
              /\ q.number = r.number /\ q.all = r.all /\ q.target = r.target
              /\ q.left = LeftOf(R, r, AtOnce, T)
      /\ \A x \in Buffered' : \/ x \in Buffered
                              \/ \E r \in R : /\ LeftOf(R, r, AtOnce, T) = {}
                                              /\ x = Msg("RESOURCE_STATE_CHANGED", r.all, r.target)
  BY <1>1, <1>2, AnsweringLemma
<1>7. R = switches \cup {NewRequest} /\ T = Received.target
  BY DEF R, T
<1>8. ASSUME NEW q \in switches'
      PROVE  \/ q \in switches
             \/ q.all = Received.about /\ q.target = Received.target /\ q.left = Slow /\ Slow # {}
  <2>1. PICK r \in R : /\ q.number = r.number /\ q.all = r.all /\ q.target = r.target
                       /\ q.left = LeftOf(R, r, AtOnce, T) /\ q.left # {}
    BY <1>6
  <2>2. CASE r \in switches
    <3>1. q.left = r.left /\ q \in Request /\ r \in Request
      BY <1>2, <1>4, <1>6, <2>1, <2>2
    <3> QED
      BY <2>1, <2>2, <3>1, SameRequest
  <2>3. CASE r = NewRequest
    BY <1>2, <1>5, <1>7, <2>1, <2>3
  <2> QED
    BY <1>7, <2>2, <2>3
<1>9. ASSUME NEW r \in switches PROVE r \in switches'
  <2>0. r \in R /\ LeftOf(R, r, AtOnce, T) = r.left /\ LeftOf(R, r, AtOnce, T) # {}
    BY <1>4, <1>7
  <2>1. PICK q \in switches' : /\ q.number = r.number /\ q.all = r.all /\ q.target = r.target
                               /\ q.left = r.left
    <3>1. \E q \in switches' : /\ q.number = r.number /\ q.all = r.all /\ q.target = r.target
                               /\ q.left = LeftOf(R, r, AtOnce, T)
      BY <1>6, <2>0, Zenon
    <3> QED
      BY <2>0, <3>1
  <2>2. q \in Request /\ r \in Request
    BY <1>2, <1>6, <1>7
  <2> QED
    BY <2>1, <2>2, SameRequest
<1>10. ASSUME Slow # {}
       PROVE  \E q \in switches' : q.all = Received.about /\ q.target = Received.target /\ q.left = Slow
  <2>1. NewRequest \in R /\ LeftOf(R, NewRequest, AtOnce, T) # {}
    BY <1>5, <1>7, <1>10
  <2>2. \E q \in switches' : /\ q.number = NewRequest.number /\ q.all = NewRequest.all
                             /\ q.target = NewRequest.target
                             /\ q.left = LeftOf(R, NewRequest, AtOnce, T)
    BY <1>6, <2>1, Zenon
  <2> QED
    BY <1>2, <1>5, <1>7, <2>2
<1>11. ASSUME NEW x \in Buffered', x \notin Buffered
       PROVE  x = Msg("RESOURCE_STATE_CHANGED", Received.about, Received.target) /\ Slow = {}
  <2>1. PICK r \in R : /\ LeftOf(R, r, AtOnce, T) = {}
                       /\ x = Msg("RESOURCE_STATE_CHANGED", r.all, r.target)
    BY <1>6, <1>11, Zenon
  <2>2. r = NewRequest
    BY <1>4, <1>7, <2>1
  <2> QED
    BY <1>2, <1>5, <1>7, <2>1, <2>2
<1> QED
  BY <1>3, <1>8, <1>9, <1>10, <1>11

\* A request that is recorded is for machines that nothing else is about.
LEMMA SwitchRecorded ==
  ASSUME Base, Types', PatientInv, SwitchInv, server_on_pstate_modification
  PROVE  SwitchInv'
<1>0. /\ Types /\ Receive("PSTATE_MODIFICATION")
      /\ pstate' = [m \in Machine |-> IF m \in AtOnce THEN Received.target ELSE pstate[m]]
      /\ switcher' = switcher \cup NewSwitchers
  BY Recording DEF Base
<1>1. /\ Received \in Mail /\ Received.type = "PSTATE_MODIFICATION" /\ Mailed \subseteq Mail
      /\ Mailed' \subseteq Mailed /\ Mailed = Mailed' \cup {Received}
      /\ mailbox # <<>> /\ mailbox' = Tail(mailbox)
  BY <1>0, ReceiveMail, MailCount DEF Receive
<1>2. \A m \in Machine : m \notin Received.about => pstate'[m] = pstate[m]
  BY <1>0, RecordedRequest
<1>3. \A m \in AtOnce : pstate'[m] = Received.target
  BY <1>0, RecordedRequest, RecordedAreFree
<1>4. /\ \A m \in Slow : \E s \in switcher' : s.machine = m /\ s.target = Received.target
      /\ \A s \in switcher' : s \in switcher \/ (s.machine \in Slow /\ s.target = Received.target)
      /\ switcher \subseteq switcher'
  <2>1. ASSUME NEW m \in Slow
        PROVE  \E s \in switcher' : s.machine = m /\ s.target = Received.target
    <3> DEFINE s == [machine |-> m, target |-> Received.target, phase |-> "created"]
    <3>1. s \in switcher' /\ s.machine = m /\ s.target = Received.target
      BY <1>0 DEF NewSwitchers
    <3> QED
      BY <3>1
  <2> QED
    BY <1>0, <2>1 DEF NewSwitchers
<1>5. \A r \in switches : r.all \subseteq Machine /\ r.left \subseteq r.all
  BY PStatesAssumption DEF Base, Types, Request, RequestsInv
<1>6. SwitchersAwaited'
  <2> SUFFICES ASSUME NEW s \in switcher'
               PROVE  \E r \in switches' : r.target = s.target /\ s.machine \in r.left
    BY DEF SwitchersAwaited
  <2>1. CASE s \in switcher
    BY <2>1, RecordedRequest DEF SwitchInv, SwitchersAwaited
  <2>2. CASE s.machine \in Slow /\ s.target = Received.target
    BY <2>2, RecordedRequest
  <2> QED
    BY <1>4, <2>1, <2>2
<1>7. OneEndEach'
  <2> SUFFICES ASSUME NEW m \in Machine PROVE CountIn(mailbox', EndsOf(m)) <= 1
    BY DEF OneEndEach
  <2>1. Received \notin EndsOf(m)
    BY <1>1, OtherKinds
  <2> QED
    BY <1>0, <1>1, <2>1, TakeOther DEF SameCount, SwitchInv, OneEndEach
<1>8. EndsAwaited'
  <2> SUFFICES ASSUME NEW x \in Mailed', NEW m \in Machine, x.type = "SWITCHED", x.about = {m}
               PROVE  /\ pstate'[m] = x.target
                      /\ \E r \in switches' : r.target = x.target /\ m \in r.left
                      /\ \A t \in switcher' : t.machine # m
    BY DEF EndsAwaited
  <2>1. x \in Mailed /\ m \notin Received.about
    BY <1>1, RecordedAreFree
  <2>2. m \notin Slow /\ pstate'[m] = pstate[m]
    BY <1>2, <2>1, RecordedRequest
  <2>3. /\ pstate[m] = x.target
        /\ \E r \in switches : r.target = x.target /\ m \in r.left
        /\ \A t \in switcher : t.machine # m
    BY <2>1 DEF SwitchInv, EndsAwaited
  <2> QED
    BY <1>4, <2>2, <2>3, RecordedRequest
<1>9. LeftInFlight'
  <2> SUFFICES ASSUME NEW r \in switches', NEW m \in r.left PROVE SwitchInFlight(m, r.target)'
    BY DEF LeftInFlight
  <2>1. CASE r \in switches
    <3>1. SwitchInFlight(m, r.target)
      BY <2>1 DEF SwitchInv, LeftInFlight
    <3>2. CASE \E t \in switcher : t.machine = m /\ t.target = r.target
      BY <1>4, <3>2 DEF SwitchInFlight
    <3>3. CASE \E i \in 1..Len(mailbox) : mailbox[i] = Msg("SWITCHED", {m}, r.target)
      <4>1. Msg("SWITCHED", {m}, r.target) \in Mailed
        BY <3>3 DEF Mailed
      <4>2. Msg("SWITCHED", {m}, r.target).type = "SWITCHED"
        BY DEF Msg
      <4>3. Msg("SWITCHED", {m}, r.target) \in Mailed'
        BY <1>1, <4>1, <4>2
      <4> QED
        BY <4>3 DEF Mailed, SwitchInFlight
    <3> QED
      BY <3>1, <3>2, <3>3 DEF SwitchInFlight
  <2>2. CASE r.target = Received.target /\ r.left = Slow
    BY <1>4, <2>2 DEF SwitchInFlight
  <2> QED
    BY <2>1, <2>2, RecordedRequest
<1>10. RestIsSet'
  <2> SUFFICES ASSUME NEW r \in switches', NEW m \in r.all \ r.left PROVE pstate'[m] = r.target
    BY DEF RestIsSet
  <2>1. CASE r \in switches
    <3>1. m \notin Received.about /\ m \in Machine
      BY <1>5, <2>1, RecordedAreFree
    <3> QED
      BY <1>2, <2>1, <3>1 DEF SwitchInv, RestIsSet
  <2>2. CASE r.all = Received.about /\ r.target = Received.target /\ r.left = Slow
    BY <1>3, <2>2, RecordedRequest
  <2> QED
    BY <2>1, <2>2, RecordedRequest
<1>11. AnsweredSet'
  <2> SUFFICES ASSUME NEW x \in Buffered', x.type = "RESOURCE_STATE_CHANGED", NEW m \in x.about
               PROVE  pstate'[m] = x.target
    BY DEF AnsweredSet
  <2>1. CASE x \in Buffered
    <3>1. m \in Machine
      BY <1>0, <2>1, MailCount DEF Event
    <3>2. m \notin Received.about
      BY <2>1, RecordedAreFree
    <3> QED
      BY <1>2, <2>1, <3>1, <3>2 DEF SwitchInv, AnsweredSet
  <2>2. CASE x = Msg("RESOURCE_STATE_CHANGED", Received.about, Received.target) /\ Slow = {}
    <3>1. x.about = Received.about /\ x.target = Received.target
      BY <2>2 DEF Msg
    <3> QED
      BY <1>3, <2>2, <3>1, RecordedRequest
  <2> QED
    BY <2>1, <2>2, RecordedRequest
<1> QED
  BY <1>6, <1>7, <1>8, <1>9, <1>10, <1>11 DEF SwitchInv

----------------------------------------------------------------------------
\* The end of the switch of m is reported: the request r that waits for m loses it,
\* and is answered when that was the last one.
ReportsTo(m, r) ==
  /\ Received.about = {m} /\ Received.type = "SWITCHED"
  /\ r.target = Received.target /\ m \in r.left

\* That request is the only one for its machine, and the report the only one.
LEMMA ReportedRequest ==
  ASSUME Base, Types', PatientInv, SwitchInv, server_on_switched
  PROVE  \E m \in Machine, r \in switches :
           /\ ReportsTo(m, r)
           /\ pstate[m] = r.target
           /\ \A s \in switcher : s.machine # m
           /\ \A x \in Mailed' : x.type = "SWITCHED" => x.about # {m}
           /\ \A q \in switches : m \in q.all => q = r
           /\ \A q \in switches' :
                \/ q \in switches /\ q # r
                \/ /\ q.all = r.all /\ q.target = r.target /\ q.number = r.number
                   /\ q.left = r.left \ {m} /\ r.left \ {m} # {}
           /\ \A q \in switches : q # r => q \in switches'
           /\ r.left \ {m} # {} => \E q \in switches' :
                q.all = r.all /\ q.target = r.target /\ q.left = r.left \ {m}
           /\ \A x \in Buffered' :
                \/ x \in Buffered
                \/ /\ x = Msg("RESOURCE_STATE_CHANGED", r.all, r.target)
                   /\ r.left \ {m} = {}
<1> DEFINE T == Received.target
<1>0. Types /\ RequestsInv /\ Receive("SWITCHED") /\ Answering(switches, Received.about, T)
  BY Reporting DEF Base
<1>1. /\ Received \in Mail /\ Received \in Mailed /\ Received.type = "SWITCHED"
      /\ Mailed \subseteq Mail /\ Mailed = Mailed' \cup {Received}
      /\ \A K : CountIn(mailbox, K) = CountIn(mailbox', K) + (IF Received \in K THEN 1 ELSE 0)
  BY <1>0, ReceiveMail, MailCount
<1>2. PICK m \in Machine : Received.about = {m}
  BY <1>1, MailKinds
<1>3. PICK r \in switches : r.target = T /\ m \in r.left
  BY <1>1, <1>2 DEF SwitchInv, EndsAwaited
<1>4. pstate[m] = r.target /\ \A s \in switcher : s.machine # m
  BY <1>1, <1>2, <1>3 DEF SwitchInv, EndsAwaited
<1>5. \A q \in switches : q.left \subseteq q.all /\ q.left # {} /\ q \in Request
  BY <1>0 DEF RequestsInv, Types
<1>6. \A q \in switches : m \in q.all => q = r
  BY <1>3, <1>5, OneRequestEach
<1>7. \A x \in Mailed' : x.type = "SWITCHED" => x.about # {m}
  <2>1. Received \in EndsOf(m)
    BY <1>1, <1>2, OtherKinds
  <2>2. CountIn(mailbox, EndsOf(m)) = CountIn(mailbox', EndsOf(m)) + 1
    BY <1>1, <2>1
  <2>3. /\ CountIn(mailbox, EndsOf(m)) <= 1 /\ CountIn(mailbox', EndsOf(m)) \in Nat
        /\ CountIn(mailbox, EndsOf(m)) \in Nat
        /\ CountIn(mailbox', EndsOf(m)) = 0 <=> Mailed' \cap EndsOf(m) = {}
    BY <1>0, MailCount, MailCountNext DEF SwitchInv, OneEndEach
  <2>4. Mailed' \cap EndsOf(m) = {}
    BY <2>2, <2>3
  <2> QED
    BY <1>1, <2>4, OtherKinds
<1>8. \A q \in switches : q # r => LeftOf(switches, q, {m}, T) = q.left
  BY <1>5, <1>6 DEF LeftOf
<1>9. LeftOf(switches, r, {m}, T) = r.left \ {m}
  <2>1. r \in Credited(switches, m, T)
    <3>1. r.number <= r.number
      BY <1>5 DEF Request
    <3> QED
      BY <1>3, <1>5, <1>6, <3>1 DEF Credited
  <2> QED
    BY <2>1 DEF LeftOf
<1> HIDE DEF T
<1>10. /\ switches' \subseteq Request
       /\ \A q \in switches' : \E p \in switches :
               /\ q.number = p.number /\ q.all = p.all /\ q.target = p.target
               /\ q.left = LeftOf(switches, p, {m}, T) /\ q.left # {}
       /\ \A p \in switches : LeftOf(switches, p, {m}, T) # {} => \E q \in switches' :
               /\ q.number = p.number /\ q.all = p.all /\ q.target = p.target
               /\ q.left = LeftOf(switches, p, {m}, T)
       /\ \A x \in Buffered' : \/ x \in Buffered
                               \/ \E p \in switches :
                                    /\ LeftOf(switches, p, {m}, T) = {}
                                    /\ x = Msg("RESOURCE_STATE_CHANGED", p.all, p.target)
  <2> DEFINE S == Received.about
  <2>1. /\ Types /\ switches \in SUBSET Request /\ IsFiniteSet(switches)
        /\ \A p, q \in switches : p.number = q.number => p = q
        /\ Answering(switches, S, T)
    BY <1>0 DEF Types, RequestsInv, T
  <2>3. S = {m}
    BY <1>2
  <2> HIDE DEF S
  <2>2. /\ switches' \subseteq Request
        /\ \A q \in switches' : \E p \in switches :
                /\ q.number = p.number /\ q.all = p.all /\ q.target = p.target
                /\ q.left = LeftOf(switches, p, S, T) /\ q.left # {}
        /\ \A p \in switches : LeftOf(switches, p, S, T) # {} => \E q \in switches' :
                /\ q.number = p.number /\ q.all = p.all /\ q.target = p.target
                /\ q.left = LeftOf(switches, p, S, T)
        /\ \A x \in Buffered' : \/ x \in Buffered
                                \/ \E p \in switches :
                                     /\ LeftOf(switches, p, S, T) = {}
                                     /\ x = Msg("RESOURCE_STATE_CHANGED", p.all, p.target)
    BY <2>1, AnsweringLemma
  <2> QED
    BY <2>2, <2>3
<1>11. ASSUME NEW q \in switches'
       PROVE  \/ q \in switches /\ q # r
              \/ /\ q.all = r.all /\ q.target = r.target /\ q.number = r.number
                 /\ q.left = r.left \ {m} /\ r.left \ {m} # {}
  <2>1. PICK p \in switches : /\ q.number = p.number /\ q.all = p.all /\ q.target = p.target
                              /\ q.left = LeftOf(switches, p, {m}, T) /\ q.left # {}
    BY <1>10
  <2>2. CASE p # r
    <3>1. q.left = p.left /\ q \in Request /\ p \in Request
      BY <1>5, <1>8, <1>10, <2>1, <2>2
    <3> QED
      BY <2>1, <2>2, <3>1, SameRequest
  <2>3. CASE p = r
    BY <1>9, <2>1, <2>3
  <2> QED
    BY <2>2, <2>3
<1>12. ASSUME NEW p \in switches, p # r PROVE p \in switches'
  <2>1. LeftOf(switches, p, {m}, T) = p.left /\ LeftOf(switches, p, {m}, T) # {}
    BY <1>5, <1>8, <1>12
  <2>2. PICK q \in switches' : /\ q.number = p.number /\ q.all = p.all /\ q.target = p.target
                               /\ q.left = LeftOf(switches, p, {m}, T)
    BY <1>10, <2>1, Zenon
  <2>3. q \in Request /\ p \in Request
    BY <1>5, <1>10
  <2> QED
    BY <2>1, <2>2, <2>3, SameRequest
<1>13. ASSUME r.left \ {m} # {}
       PROVE  \E q \in switches' : q.all = r.all /\ q.target = r.target /\ q.left = r.left \ {m}
  BY <1>9, <1>10, <1>13
<1>14. ASSUME NEW x \in Buffered', x \notin Buffered
       PROVE  x = Msg("RESOURCE_STATE_CHANGED", r.all, r.target) /\ r.left \ {m} = {}
  <2>1. PICK p \in switches : /\ LeftOf(switches, p, {m}, T) = {}
                              /\ x = Msg("RESOURCE_STATE_CHANGED", p.all, p.target)
    BY <1>10, <1>14, Zenon
  <2>2. p = r
    BY <1>5, <1>8, <2>1
  <2> QED
    BY <1>9, <2>1, <2>2
<1>15. ReportsTo(m, r)
  BY <1>1, <1>2, <1>3 DEF ReportsTo, T
<1> QED
  BY <1>4, <1>6, <1>7, <1>11, <1>12, <1>13, <1>14, <1>15

\* A report that is handled leaves the other machines as they were.
LEMMA SwitchReported ==
  ASSUME Base, Types', PatientInv, SwitchInv, server_on_switched
  PROVE  SwitchInv'
<1>0. /\ Types /\ Receive("SWITCHED") /\ UNCHANGED <<pstate, switcher>>
  BY Reporting DEF Base, machineVars
<1>1. /\ Received \in Mail /\ Mailed \subseteq Mail /\ Mailed' \subseteq Mail
      /\ Mailed' \subseteq Mailed /\ Mailed = Mailed' \cup {Received}
      /\ \A K : CountIn(mailbox, K) = CountIn(mailbox', K) + (IF Received \in K THEN 1 ELSE 0)
  BY <1>0, ReceiveMail, MailCount, MailCountNext
<1>2. PICK m0 \in Machine, r0 \in switches :
           /\ ReportsTo(m0, r0)
           /\ pstate[m0] = r0.target
           /\ \A s \in switcher : s.machine # m0
           /\ \A x \in Mailed' : x.type = "SWITCHED" => x.about # {m0}
           /\ \A q \in switches : m0 \in q.all => q = r0
           /\ \A q \in switches' :
                \/ q \in switches /\ q # r0
                \/ /\ q.all = r0.all /\ q.target = r0.target /\ q.number = r0.number
                   /\ q.left = r0.left \ {m0} /\ r0.left \ {m0} # {}
           /\ \A q \in switches : q # r0 => q \in switches'
           /\ r0.left \ {m0} # {} => \E q \in switches' :
                q.all = r0.all /\ q.target = r0.target /\ q.left = r0.left \ {m0}
           /\ \A x \in Buffered' :
                \/ x \in Buffered
                \/ /\ x = Msg("RESOURCE_STATE_CHANGED", r0.all, r0.target)
                   /\ r0.left \ {m0} = {}
  BY ReportedRequest
<1>3. /\ Received.about = {m0} /\ Received.type = "SWITCHED"
      /\ \A q \in switches : q.left \subseteq q.all
  BY <1>2 DEF ReportsTo, Base, RequestsInv
\* Whatever waits for another machine still does.
<1>4. ASSUME NEW m, m # m0, NEW r \in switches, m \in r.left
      PROVE  \E q \in switches' : q.target = r.target /\ m \in q.left
  BY <1>2, <1>4
<1>5. SwitchersAwaited'
  BY <1>0, <1>2, <1>4 DEF SwitchInv, SwitchersAwaited
<1>6. OneEndEach'
  <2> SUFFICES ASSUME NEW m \in Machine PROVE CountIn(mailbox', EndsOf(m)) <= 1
    BY DEF OneEndEach
  <2>1. CountIn(mailbox, EndsOf(m)) = CountIn(mailbox', EndsOf(m)) + (IF Received \in EndsOf(m) THEN 1 ELSE 0)
    BY <1>1
  <2>2. /\ CountIn(mailbox, EndsOf(m)) <= 1
        /\ CountIn(mailbox, EndsOf(m)) \in Nat /\ CountIn(mailbox', EndsOf(m)) \in Nat
    BY <1>0, MailCount, MailCountNext DEF SwitchInv, OneEndEach
  <2> QED
    BY <2>1, <2>2
<1>7. EndsAwaited'
  <2> SUFFICES ASSUME NEW x \in Mailed', NEW m \in Machine, x.type = "SWITCHED", x.about = {m}
               PROVE  /\ pstate[m] = x.target
                      /\ \E r \in switches' : r.target = x.target /\ m \in r.left
                      /\ \A t \in switcher : t.machine # m
    BY <1>0 DEF EndsAwaited
  <2>1. x \in Mailed /\ m # m0
    BY <1>1, <1>2
  <2>2. /\ pstate[m] = x.target
        /\ \E r \in switches : r.target = x.target /\ m \in r.left
        /\ \A t \in switcher : t.machine # m
    BY <2>1 DEF SwitchInv, EndsAwaited
  <2> QED
    BY <1>4, <2>1, <2>2
<1>8. LeftInFlight'
  <2> SUFFICES ASSUME NEW q \in switches', NEW m \in q.left PROVE SwitchInFlight(m, q.target)'
    BY DEF LeftInFlight
  <2>1. m # m0 /\ \E r \in switches : r.target = q.target /\ m \in r.left
    BY <1>2, <1>3
  <2>2. SwitchInFlight(m, q.target)
    BY <2>1 DEF SwitchInv, LeftInFlight
  <2>3. CASE \E t \in switcher : t.machine = m /\ t.target = q.target
    BY <1>0, <2>3 DEF SwitchInFlight
  <2>4. CASE \E i \in 1..Len(mailbox) : mailbox[i] = Msg("SWITCHED", {m}, q.target)
    <3>1. Msg("SWITCHED", {m}, q.target) \in Mailed
      BY <2>4 DEF Mailed
    <3>2. Msg("SWITCHED", {m}, q.target).about = {m}
      BY DEF Msg
    <3>3. Msg("SWITCHED", {m}, q.target) \in Mailed'
      BY <1>1, <1>3, <2>1, <3>1, <3>2
    <3> QED
      BY <3>3 DEF Mailed, SwitchInFlight
  <2> QED
    BY <2>2, <2>3, <2>4 DEF SwitchInFlight
<1>9. RestIsSet'
  <2> SUFFICES ASSUME NEW q \in switches', NEW m \in q.all \ q.left PROVE pstate[m] = q.target
    BY <1>0 DEF RestIsSet
  <2>1. CASE q \in switches
    BY <2>1 DEF SwitchInv, RestIsSet
  <2>2. CASE q.all = r0.all /\ q.target = r0.target /\ q.left = r0.left \ {m0}
    BY <1>2, <2>2 DEF SwitchInv, RestIsSet
  <2> QED
    BY <1>2, <2>1, <2>2
<1>10. AnsweredSet'
  <2> SUFFICES ASSUME NEW x \in Buffered', x.type = "RESOURCE_STATE_CHANGED", NEW m \in x.about
               PROVE  pstate[m] = x.target
    BY <1>0 DEF AnsweredSet
  <2>1. CASE x \in Buffered
    BY <2>1 DEF SwitchInv, AnsweredSet
  <2>2. CASE x = Msg("RESOURCE_STATE_CHANGED", r0.all, r0.target) /\ r0.left \ {m0} = {}
    <3>1. x.about = r0.all /\ x.target = r0.target
      BY <2>2 DEF Msg
    <3>2. m = m0 \/ m \in r0.all \ r0.left
      BY <2>2, <3>1
    <3> QED
      BY <1>2, <3>1, <3>2 DEF SwitchInv, RestIsSet
  <2> QED
    BY <1>2, <2>1, <2>2
<1> QED
  BY <1>5, <1>6, <1>7, <1>8, <1>9, <1>10 DEF SwitchInv

----------------------------------------------------------------------------
\* What the steps that have nothing to do with power states leave alone.
Elsewhere ==
  /\ UNCHANGED <<pstate, switcher, switches, pending, wanted>>
  /\ \A x \in Mailed' : x.type = "PSTATE_MODIFICATION" => x \in Mailed
  /\ \A x \in Buffered' : x.type = "RESOURCE_STATE_CHANGED" => x \in Buffered

\* A step is one of these, or one of five others.
LEMMA PowerSteps ==
  ASSUME Types, Types', [Next]_vars
  PROVE  \/ Elsewhere /\ (SwitchInv => SwitchInv')
         \/ server_on_pstate_modification \/ server_on_switched \/ ServerSendsEvents
         \/ \E s \in switcher : SwitcherStarts(s) \/ SwitcherEnds(s)
         \/ \E S \in SUBSET Switchable, target \in PState : SetResourceState(S, target)
<1> DEFINE Fine == Elsewhere /\ (SwitchInv => SwitchInv')
<1>1. ASSUME NEW type, Receive(type), type \notin {"SWITCHED", "PSTATE_MODIFICATION"},
             UNCHANGED <<pstate, switcher, switches>>,
             \A x \in Buffered' : x.type = "RESOURCE_STATE_CHANGED" => x \in Buffered
      PROVE  Fine
  <2>1. UNCHANGED <<pending, wanted>> /\ Mailed' \subseteq Mailed
    BY <1>1, ReceiveMail
  <2>2. Elsewhere
    BY <1>1, <2>1 DEF Elsewhere
  <2>3. SwitchInv => SwitchInv'
    BY <1>1, SwitchTake
  <2> QED
    BY <2>2, <2>3
<1>2. ASSUME NEW x \in Mail, Put(x), x.type \notin {"SWITCHED", "PSTATE_MODIFICATION"},
             UNCHANGED <<pstate, switcher, switches, pending, wanted, outbox>>
      PROVE  Fine
  <2>1. Mailed' = Mailed \cup {x} /\ Buffered' = Buffered
    BY <1>2, PutMail DEF Buffered
  <2>2. Elsewhere
    BY <1>2, <2>1 DEF Elsewhere
  <2>3. SwitchInv => SwitchInv'
    BY <1>2, SwitchPut
  <2> QED
    BY <2>2, <2>3
<1>3. ASSUME UNCHANGED <<pstate, switcher, switches, pending, wanted, outbox, mailbox>>
      PROVE  Fine
  <2>1. Mailed' = Mailed /\ Buffered' = Buffered
    BY <1>3 DEF Buffered, Mailed
  <2>2. Elsewhere
    BY <1>3, <2>1 DEF Elsewhere
  <2>3. \A m \in Machine : SameCount(EndsOf(m))
    BY <1>3 DEF SameCount
  <2>4. Mailed \subseteq Mail
    BY MailCount
  <2>5. SwitchInv => SwitchInv'
    BY <1>3, <2>1, <2>3, <2>4, SwitchFrame
  <2> QED
    BY <2>2, <2>5
<1>4. CASE server_on_execute_job
  <2>1. Receive("SCHED_EXECUTE_JOB") /\ UNCHANGED <<pstate, switcher, switches>> /\ Buffered' = Buffered
    BY <1>4 DEF server_on_execute_job, machineVars, switchVars, Buffered
  <2> QED
    BY <1>1, <2>1
<1>5. CASE server_on_event_machine_unavailable \/ server_on_event_machine_available
  <2> DEFINE S == Received.about
  <2>1. PICK type \in {"available", "unavailable"} : Receive(type)
    BY <1>5 DEF server_on_event_machine_unavailable, server_on_event_machine_available
  <2>2. UNCHANGED <<pstate, switcher, switches>>
    BY <1>5 DEF server_on_event_machine_unavailable, server_on_event_machine_available, switchVars
  <2>3. S \in SUBSET Machine
    BY <2>1, ReceiveMail, MailKinds
  <2>4. \/ outbox' = outbox
        \/ outbox' = Append(outbox, Msg("event_machine_unavailable", S, Virtual))
        \/ outbox' = Append(outbox, Msg("event_machine_available", S, Virtual))
    BY <1>5 DEF server_on_event_machine_unavailable, server_on_event_machine_available
  <2>5. \/ Buffered' = Buffered
        \/ \E x \in Event : x.type # "RESOURCE_STATE_CHANGED" /\ Buffered' = Buffered \cup {x}
    <3>1. ASSUME NEW x \in Event, x.type # "RESOURCE_STATE_CHANGED", outbox' = Append(outbox, x)
          PROVE  Buffered' = Buffered \cup {x}
      BY <3>1, AppendEvent
    <3>2. \A ty \in {"event_machine_unavailable", "event_machine_available"} :
            Msg(ty, S, Virtual) \in Event /\ Msg(ty, S, Virtual).type = ty
      BY <2>3, MailOf DEF Msg
    <3>3. outbox' = outbox => Buffered' = Buffered
      BY DEF Buffered
    <3> QED
      BY <2>4, <3>1, <3>2, <3>3
  <2> QED
    BY <1>1, <2>1, <2>2, <2>5
<1>6. CASE server_on_job_completed
  <2> DEFINE x == Msg("JOB_COMPLETED", Received.about, Virtual)
  <2>1. Receive("JOB_COMPLETED") /\ UNCHANGED <<pstate, switcher, switches>> /\ outbox' = Append(outbox, x)
    BY <1>6 DEF server_on_job_completed, machineVars, switchVars
  <2>2. x \in Event /\ x.type = "JOB_COMPLETED"
    BY <2>1, ReceiveMail, MailKinds, MailOf DEF Msg
  <2> HIDE DEF x
  <2>3. Buffered' = Buffered \cup {x}
    BY <2>1, <2>2, AppendEvent
  <2> QED
    BY <1>1, <2>1, <2>2, <2>3
<1>7. CASE server_on_sched_ready
  <2>1. Receive("SCHED_READY") /\ UNCHANGED <<pstate, switcher, switches>> /\ Buffered' = Buffered
    BY <1>7 DEF server_on_sched_ready, machineVars, switchVars, Buffered
  <2> QED
    BY <1>1, <2>1
<1>8. CASE (\E j \in Job : JobStarts(j)) \/ UNCHANGED vars
  <2>1. UNCHANGED <<pstate, switcher, switches, pending, wanted, outbox, mailbox>>
    BY <1>8 DEF JobStarts, switchVars, schedVars, machineVars, vars
  <2> QED
    BY <1>3, <2>1
<1>9. CASE \E j \in Job : JobEnds(j)
  <2>1. UNCHANGED <<pstate, switcher, switches, pending, wanted, outbox>>
    BY <1>9 DEF JobEnds, switchVars, schedVars
  <2>2. \E x \in Mail : Put(x) /\ x.type = "JOB_COMPLETED"
    BY <1>9, Puts
  <2> QED
    BY <1>2, <2>1, <2>2
<1>10. CASE EventOccurs
  <2>1. UNCHANGED <<pstate, switcher, switches, pending, wanted, outbox>>
    BY <1>10 DEF EventOccurs, switchVars, schedVars, machineVars
  <2>2. \E x \in Mail : Put(x) /\ x.type \in {"available", "unavailable"}
    BY <1>10, Puts
  <2> QED
    BY <1>2, <2>1, <2>2
<1>11. CASE \E j \in Job, S \in SUBSET Machine : Execute(j, S)
  <2>1. UNCHANGED <<pstate, switcher, switches, pending, wanted, outbox>>
    BY <1>11 DEF Execute, switchVars, machineVars
  <2>2. \E x \in Mail : Put(x) /\ x.type = "SCHED_EXECUTE_JOB"
    BY <1>11, Puts
  <2> QED
    BY <1>2, <2>1, <2>2
<1>12. CASE EndReply
  <2>1. UNCHANGED <<pstate, switcher, switches, pending, wanted, outbox>>
    BY <1>12 DEF EndReply, switchVars, machineVars
  <2>2. \E x \in Mail : Put(x) /\ x.type = "SCHED_READY"
    BY <1>12, Puts
  <2> QED
    BY <1>2, <2>1, <2>2
<1> QED
  BY <1>4, <1>5, <1>6, <1>7, <1>8, <1>9, <1>10, <1>11, <1>12 DEF Next, ServerStep

\* Every step preserves SwitchInv.
LEMMA SwitchKept ==
  ASSUME Base, Types', PatientInv, SwitchInv, [Next]_vars
  PROVE  SwitchInv'
<1>0. Types
  BY DEF Base
<1>1. CASE ServerSendsEvents
  <2>1. UNCHANGED <<pstate, switcher, switches, mailbox>> /\ outbox' = <<>>
    BY <1>1 DEF ServerSendsEvents, machineVars, switchVars
  <2>2. Mailed' = Mailed /\ Buffered' = {} /\ Mailed \subseteq Mail
    BY <1>0, <2>1, MailCount DEF Mailed, Buffered
  <2>3. \A m \in Machine : SameCount(EndsOf(m))
    BY <2>1 DEF SameCount
  <2> QED
    BY <1>0, <2>1, <2>2, <2>3, SwitchFrame
<1>2. CASE \E S \in SUBSET Switchable, target \in PState : SetResourceState(S, target)
  <2>1. UNCHANGED <<pstate, switcher, switches, outbox>>
    BY <1>2 DEF SetResourceState, machineVars, switchVars
  <2>2. \E x \in Mail : Put(x) /\ x.type = "PSTATE_MODIFICATION"
    BY <1>0, <1>2, Puts
  <2> QED
    BY <1>0, <2>1, <2>2, SwitchPut
<1> QED
  BY <1>0, <1>1, <1>2, PowerSteps, SwitchRecorded, SwitchReported, SwitchStarts, SwitchEnds

----------------------------------------------------------------------------
\* WantedInv

\* Steps that have nothing to do with power states.
LEMMA WantedElsewhere ==
  ASSUME WantedInv, Elsewhere
  PROVE  WantedInv'
  BY DEF WantedInv, Elsewhere

\* Every step of a patient scheduler and of the others preserves WantedInv.
LEMMA WantedKept ==
  ASSUME Patient, Base, Base', PatientInv, SwitchInv, WantedInv, [Next]_vars
  PROVE  WantedInv'
<1>0. /\ Types /\ Types' /\ Mailed \subseteq Mail /\ Mailed' \subseteq Mail
      /\ pstate \in [Machine -> PState \cup {Virtual}] /\ pending \in [Machine -> Int]
      /\ wanted \in [Machine -> PState] /\ Switchable \subseteq Machine
      /\ \A r \in switches : r.all \subseteq Machine /\ r.left \subseteq r.all
      /\ \A x \in Mailed : x.type = "PSTATE_MODIFICATION" => x.about \subseteq Machine
      /\ \A x \in Buffered : x.type = "RESOURCE_STATE_CHANGED" => x.about \subseteq Machine
  <2>1. Types /\ Types' /\ Switchable \subseteq Machine
    BY PStatesAssumption DEF Base
  <2>2. Mailed \subseteq Mail /\ Mailed' \subseteq Mail /\ Buffered \subseteq Event
    BY <2>1, MailCount, MailCountNext
  <2>3. \A x \in Mailed : x.type = "PSTATE_MODIFICATION" => x.about \subseteq Machine
    BY <2>1, <2>2, MailKinds
  <2>4. \A x \in Buffered : x.type = "RESOURCE_STATE_CHANGED" => x.about \subseteq Machine
    BY <2>2 DEF Event
  <2> QED
    BY <2>1, <2>2, <2>3, <2>4 DEF Types, Request, Base, RequestsInv
<1>1. CASE server_on_pstate_modification
  <2>1. /\ Receive("PSTATE_MODIFICATION") /\ sched' = "run"
        /\ pstate' = [m \in Machine |-> IF m \in AtOnce THEN Received.target ELSE pstate[m]]
    BY <1>1, Recording
  <2>2. Received \in Mailed /\ Received.type = "PSTATE_MODIFICATION" /\ UNCHANGED <<wanted, pending>>
    BY <1>0, <2>1, ReceiveMail
  <2>3. \A x \in Mailed' : x.type # "PSTATE_MODIFICATION"
    <3>1. CountIn(mailbox', Decisions) = 0
      BY <2>1 DEF Base, OneDecision
    <3> QED
      BY <1>0, <3>1, MailCountNext, OtherKinds
  <2>4. \A m \in Received.about : wanted[m] = Received.target
    BY <2>2 DEF WantedInv
  <2>5. \A m \in Machine : pending[m] = 0 => pstate'[m] = pstate[m]
    BY <1>1, <2>1, RecordedRequest, RecordedAreFree
  <2>6. ASSUME NEW r \in switches', NEW m \in r.all PROVE wanted[m] = r.target
    BY <1>1, <2>4, RecordedRequest DEF WantedInv
  <2>7. ASSUME NEW x \in Buffered', x.type = "RESOURCE_STATE_CHANGED", NEW m \in x.about
        PROVE  wanted[m] = x.target
    <3>1. CASE x \in Buffered
      BY <2>7, <3>1 DEF WantedInv
    <3>2. CASE x = Msg("RESOURCE_STATE_CHANGED", Received.about, Received.target)
      BY <2>4, <2>7, <3>2 DEF Msg
    <3> QED
      BY <1>1, <3>1, <3>2, RecordedRequest
  <2> QED
    BY <2>2, <2>3, <2>5, <2>6, <2>7 DEF WantedInv
<1>2. CASE server_on_switched
  <2>1. Receive("SWITCHED") /\ UNCHANGED pstate
    BY <1>2, Reporting DEF machineVars
  <2>2. Mailed' \subseteq Mailed /\ UNCHANGED <<wanted, pending>>
    BY <1>0, <2>1, ReceiveMail
  <2>3. PICK r0 \in switches :
          /\ \A q \in switches' : q \in switches \/ (q.all = r0.all /\ q.target = r0.target)
          /\ \A x \in Buffered' :
               x \in Buffered \/ x = Msg("RESOURCE_STATE_CHANGED", r0.all, r0.target)
    BY <1>0, <1>2, ReportedRequest
  <2>4. ASSUME NEW r \in switches', NEW m \in r.all PROVE wanted[m] = r.target
    BY <2>3 DEF WantedInv
  <2>5. ASSUME NEW x \in Buffered', x.type = "RESOURCE_STATE_CHANGED", NEW m \in x.about
        PROVE  wanted[m] = x.target
    <3>1. CASE x \in Buffered
      BY <2>5, <3>1 DEF WantedInv
    <3>2. CASE x = Msg("RESOURCE_STATE_CHANGED", r0.all, r0.target)
      BY <2>5, <3>2 DEF Msg, WantedInv
    <3> QED
      BY <2>3, <3>1, <3>2
  <2> QED
    BY <2>1, <2>2, <2>4, <2>5 DEF WantedInv
<1>3. ASSUME NEW s \in switcher, SwitcherStarts(s) \/ SwitcherEnds(s) PROVE WantedInv'
  <2>1. /\ UNCHANGED <<wanted, pending, switches, outbox>>
        /\ \A m \in Machine : m # s.machine => pstate'[m] = pstate[m]
    BY <1>0, <1>3 DEF SwitcherStarts, SwitcherEnds, schedVars
  <2>2. \A x \in Mailed' : x.type = "PSTATE_MODIFICATION" => x \in Mailed
    <3>1. CASE SwitcherStarts(s)
      BY <3>1 DEF SwitcherStarts, Mailed
    <3>2. CASE SwitcherEnds(s)
      <4>1. PICK x \in Mail : Put(x) /\ x.type = "SWITCHED"
        BY <1>0, <3>2, Puts
      <4> QED
        BY <1>0, <4>1, PutMail
    <3> QED
      BY <1>3, <3>1, <3>2
  <2>3. PICK r \in switches : s.machine \in r.all /\ s.machine \in Machine
    BY <1>0, SwitcherServes
  <2>4. /\ pending[s.machine] # 0
        /\ \A x \in Mailed : x.type = "PSTATE_MODIFICATION" => s.machine \notin x.about
    BY <2>3, OneRequestEach
  <2>5. Buffered' = Buffered
    BY <2>1 DEF Buffered
  <2>6. \A x \in Mailed' : x.type = "PSTATE_MODIFICATION" =>
          \A m \in x.about : /\ wanted'[m] = x.target
                             /\ x.target \in SleepPState => pstate'[m] \in CompPState
    BY <1>0, <2>1, <2>2, <2>4 DEF WantedInv
  <2>7. \A m \in Machine : pending'[m] = 0 => pstate'[m] = wanted'[m]
    BY <2>1, <2>4 DEF WantedInv
  <2> QED
    BY <2>1, <2>5, <2>6, <2>7 DEF WantedInv
<1>4. ASSUME NEW S \in SUBSET Switchable, NEW target \in PState, SetResourceState(S, target)
      PROVE  WantedInv'
  <2>1. /\ UNCHANGED <<pstate, switches, outbox>>
        /\ \A m \in S : /\ pending[m] = 0
                        /\ target \in SleepPState => wanted[m] \in CompPState
        /\ wanted' = [m \in Machine |-> IF m \in S THEN target ELSE wanted[m]]
        /\ pending' = [m \in Machine |-> IF m \in S THEN pending[m] + 1 ELSE pending[m]]
    BY <1>4 DEF SetResourceState, machineVars, switchVars
  <2>2. PICK n \in Mail : Put(n) /\ n.type = "PSTATE_MODIFICATION" /\ n.about = S /\ n.target = target
    BY <1>0, <1>4, Puts
  <2>3. Mailed' = Mailed \cup {n} /\ Buffered' = Buffered
    BY <1>0, <2>1, <2>2, PutMail DEF Buffered
  <2>4. \A m \in S : m \in Machine /\ pending'[m] = 1 /\ wanted'[m] = target /\ pstate[m] = wanted[m]
    BY <1>0, <2>1 DEF WantedInv
  <2>5. \A m \in Machine : m \notin S => wanted'[m] = wanted[m] /\ pending'[m] = pending[m]
    BY <1>0, <2>1
  <2>6. \A m \in S : /\ \A x \in Mailed : x.type = "PSTATE_MODIFICATION" => m \notin x.about
                     /\ \A r \in switches : m \notin r.all
                     /\ \A x \in Buffered : x.type = "RESOURCE_STATE_CHANGED" => m \notin x.about
    BY <2>1, <2>4, OneRequestEach
  <2>7. ASSUME NEW x \in Mailed', x.type = "PSTATE_MODIFICATION", NEW m \in x.about
        PROVE  /\ wanted'[m] = x.target
               /\ x.target \in SleepPState => pstate'[m] \in CompPState
    <3>1. CASE x \in Mailed
      <4>1. m \in Machine /\ m \notin S
        BY <1>0, <2>6, <2>7, <3>1
      <4> QED
        BY <2>1, <2>5, <2>7, <3>1, <4>1 DEF WantedInv
    <3>2. CASE x = n
      BY <2>1, <2>2, <2>4, <2>7, <3>2
    <3> QED
      BY <2>3, <3>1, <3>2
  <2>8. \A r \in switches' : \A m \in r.all : wanted'[m] = r.target
    BY <1>0, <2>1, <2>5, <2>6 DEF WantedInv
  <2>9. \A x \in Buffered' : x.type = "RESOURCE_STATE_CHANGED" => \A m \in x.about : wanted'[m] = x.target
    BY <1>0, <2>3, <2>5, <2>6 DEF WantedInv
  <2>10. \A m \in Machine : pending'[m] = 0 => pstate'[m] = wanted'[m]
    BY <2>1, <2>4, <2>5 DEF WantedInv
  <2> QED
    BY <2>7, <2>8, <2>9, <2>10 DEF WantedInv
<1>5. CASE ServerSendsEvents
  <2>1. UNCHANGED <<pstate, switches, mailbox, wanted>> /\ outbox' = <<>>
    BY <1>5 DEF ServerSendsEvents, machineVars, switchVars
  <2>2. Mailed' = Mailed /\ Buffered' = {}
    BY <2>1 DEF Mailed, Buffered
  <2>3. ASSUME NEW m \in Machine, pending'[m] = 0 PROVE pstate[m] = wanted[m]
    <3>1. CASE pending[m] = 0
      BY <3>1 DEF WantedInv
    <3>2. CASE pending[m] # 0
      <4> DEFINE A == {k \in 1..Len(outbox) : /\ outbox[k].type = "RESOURCE_STATE_CHANGED"
                                              /\ m \in outbox[k].about}
      <4>1. pending'[m] = pending[m] - Cardinality(A)
        BY <1>5 DEF ServerSendsEvents
      <4>2. A # {}
        <5> SUFFICES ASSUME A = {} PROVE FALSE
          OBVIOUS
        <5>1. Cardinality(A) = 0
          BY FS_EmptySet
        <5> HIDE DEF A
        <5> QED
          BY <1>0, <2>3, <3>2, <4>1, <5>1
      <4>3. PICK x \in Buffered : x.type = "RESOURCE_STATE_CHANGED" /\ m \in x.about
        BY <4>2 DEF Buffered
      <4> QED
        BY <4>3 DEF WantedInv, SwitchInv, AnsweredSet
    <3> QED
      BY <3>1, <3>2
  <2> QED
    BY <2>1, <2>2, <2>3 DEF WantedInv
<1> QED
  BY <1>0, <1>1, <1>2, <1>3, <1>4, <1>5, PowerSteps, WantedElsewhere

----------------------------------------------------------------------------
\* The invariant of a patient scheduler.
PatientBase == Base /\ PatientInv /\ SwitchInv /\ WantedInv

\* PatientBase holds initially.
LEMMA PatientInit == ASSUME Init PROVE PatientBase
<1>0. Base
  BY BaseInit
<1>1. Types /\ Mailed = {} /\ Buffered = {}
  BY Initially
<1>2. /\ switches = {} /\ switcher = {} /\ mailbox = <<>> /\ wanted = pstate
      /\ pending = [m \in Machine |-> 0]
  BY DEF Init
<1>3. OneEndEach
  BY <1>2, CountEmpty DEF OneEndEach
<1> QED
  BY <1>0, <1>1, <1>2, <1>3 DEF PatientBase, PatientInv, WantedInv, SwitchInv, SwitchersAwaited, EndsAwaited, LeftInFlight,
                          RestIsSet, AnsweredSet

\* Every step preserves PatientBase.
LEMMA PatientBaseKept ==
  ASSUME Patient, PatientBase, [Next]_vars
  PROVE  PatientBase'
<1>1. Base /\ PatientInv /\ SwitchInv /\ WantedInv /\ Types
  BY DEF PatientBase, Base
<1>2. Base' /\ Types'
  BY <1>1, BaseKept DEF Base
<1>3. PatientInv' /\ SwitchInv'
  BY <1>1, <1>2, PatientKept, SwitchKept
<1>4. WantedInv'
  BY <1>1, <1>2, WantedKept
<1> QED
  BY <1>2, <1>3, <1>4 DEF PatientBase

\* PatientBase is an invariant.
LEMMA PatientHolds ==
  ASSUME Patient
  PROVE  Spec => []PatientBase
<1>1. Init => PatientBase
  BY PatientInit
<1>2. PatientBase /\ [Next]_vars => PatientBase'
  BY PatientBaseKept
<1> QED
  BY <1>1, <1>2, PTL DEF Spec

(***************************************************************************)
(* CurrentSwitches and nb_switching_machines (pstate.cpp, server.cpp): for *)
(* a scheduler that waits for the answer before it asks for a machine      *)
(* again, every machine that a request waits for is being switched, to the *)
(* power state of the request, and the counter that holds back the end of  *)
(* the simulation counts those switches.                                   *)
(***************************************************************************)
THEOREM SwitchesStayCounted ==
  ASSUME Patient
  PROVE  Spec => []SwitchesAreCounted
<1>1. PatientBase => SwitchesAreCounted
  <2> SUFFICES ASSUME PatientBase PROVE SwitchesAreCounted
    OBVIOUS
  <2>1. Types /\ SwitchersInv /\ LeftInFlight
    BY DEF PatientBase, Base, SwitchInv
  <2>2. {i \in 1..Len(mailbox) : mailbox[i].type = "SWITCHED"} = {i \in 1..Len(mailbox) : mailbox[i] \in Ends}
    <3>1. \A i \in 1..Len(mailbox) : mailbox[i] \in Mail
      BY <2>1 DEF Types
    <3> QED
      BY <3>1, OtherKinds
  <2> QED
    BY <2>1, <2>2 DEF SwitchesAreCounted, SwitchersInv, LeftInFlight, CountIn
<1> QED
  BY <1>1, PatientHolds, PTL

(***************************************************************************)
(* protocol.rst, SET_RESOURCE_STATE: an answer of the server is true when  *)
(* it is sent, for a scheduler that waits for it.                          *)
(***************************************************************************)
THEOREM AnswersStayTrue ==
  ASSUME Patient
  PROVE  Spec => []AnswersAreTrue
<1>1. PatientBase => AnswersAreTrue
  BY DEF PatientBase, SwitchInv, AnsweredSet, AnswersAreTrue, Buffered
<1> QED
  BY <1>1, PatientHolds, PTL

(***************************************************************************)
(* The same sentence: a request whose machines are all in the power state  *)
(* it asked for, their switches reported, has been answered.               *)
(***************************************************************************)
THEOREM SetIsAnswered ==
  ASSUME Patient
  PROVE  Spec => []SetMeansAnswered
<1>1. PatientBase => SetMeansAnswered
  <2> SUFFICES ASSUME PatientBase, NEW r \in switches
               PROVE  \E m \in r.all : SwitchInFlight(m, r.target)
    BY DEF SetMeansAnswered
  <2>1. r.left \subseteq r.all /\ r.left # {} /\ \A m \in r.left : SwitchInFlight(m, r.target)
    BY DEF PatientBase, Base, RequestsInv, SwitchInv, LeftInFlight
  <2> QED
    BY <2>1
<1> QED
  BY <1>1, PatientHolds, PTL
=============================================================================
