--------------------------- MODULE WorkflowsProofs ---------------------------
(***************************************************************************)
(* Proofs about Workflows, for every simple graph, limit and fate of the   *)
(* jobs: a task is submitted once and after its parents, the lookups of    *)
(* the callbacks find their target, and, when the graph has no cycle, a    *)
(* submitter leaves only when all its tasks are completed, and the depth   *)
(* it logs is the longest path.                                            *)
(***************************************************************************)
EXTENDS Workflows, FiniteSetTheorems, SequenceTheorems, TLAPS

-----------------------------------------------------------------------------
(* The invariant *)

JobMsgType == {"JOB_SUBMITTED", "SCHED_EXECUTE_JOB", "SCHED_REJECT_JOB", "JOB_COMPLETED", "KILLING_DONE"}
MsgType    == {"SUBMITTER_HELLO", "SUBMITTER_BYE"} \cup JobMsgType
Message    == [type : MsgType, from : Submitter \cup {"sched", "job", "killer"}, about : Submitter \cup Job]

Places == {"hello", "asleep", "run", "sent", "waiting", "called", "blocked", "gone"}
States == {"none", "created", "ignored", "submitted", "decided", "running", "completed", "killed", "rejected"}

Types ==
  /\ pc \in [Submitter -> Places]
  /\ ready \in [Workflow -> Seq(Task)]
  /\ submitted \in [Workflow -> SUBSET Task]
  /\ key \in [Workflow -> Task \cup {""}]
  /\ nb_parent_completed \in [Task -> Nat] /\ depth \in [Task -> Nat]
  /\ job \in [Job -> States]
  /\ times \in [Job -> Nat]
  /\ mailbox \in Seq(Message)
  /\ server \in {"receive", "handle", "callback", "finish", "done"}
  /\ submitters \subseteq Submitter
  /\ origin_of_jobs \subseteq Task
  /\ nb_submitted \in Nat /\ nb_completed \in Nat
  /\ ignore_beyond \in BOOLEAN

\* The message at the head is delivered while the server works on it.
Working == server \in {"handle", "callback", "finish"}
Off     == IF Working THEN 1 ELSE 0
Box     == 1 .. Len(mailbox)
Waits(k) == k \in Box /\ k > Off

\* The job of a message is in the state the message is about.
StateOf(type) ==
  CASE type = "JOB_SUBMITTED" -> "created"
    [] type \in {"SCHED_EXECUTE_JOB", "SCHED_REJECT_JOB"} -> "decided"
    [] type = "JOB_COMPLETED" -> "completed"
    [] type = "KILLING_DONE"  -> "killed"

GoodMsg(m) ==
  /\ m.type \in {"SUBMITTER_HELLO", "SUBMITTER_BYE"} => m.from \in Submitter
  /\ m.type = "JOB_SUBMITTED" => \/ m.about \in Task /\ m.from = In[m.about]
                                 \/ m.about \in Plain /\ m.from = "ordinary"
  /\ m.type \in JobMsgType \ {"JOB_SUBMITTED"} => m.from \notin Submitter /\ m.about \in Job

\* What the server has received, and what it works on.
MailInv ==
  /\ Working => mailbox # <<>>
  /\ server \in {"callback", "finish"} => Received.type = "JOB_COMPLETED" /\ Received.about \in origin_of_jobs
  /\ \A k \in Box : GoodMsg(mailbox[k])

\* A submitter has one put under way at most, and says goodbye last.
SenderInv ==
  /\ \A k \in Box : Waits(k) /\ mailbox[k].from \in Submitter => pc[mailbox[k].from] = "blocked"
  /\ \A k, l \in Box : k < l /\ Waits(k) /\ mailbox[k].from \in Submitter => mailbox[l].from # mailbox[k].from
  /\ \A k \in Box : mailbox[k].type = "SUBMITTER_BYE" =>
       /\ ~Waits(k) => pc[mailbox[k].from] = "gone"
       /\ \A l \in Box : k < l => mailbox[l].from # mailbox[k].from
  /\ \A k \in Box : Waits(k) /\ mailbox[k].type = "JOB_SUBMITTED" /\ mailbox[k].from \in Workflow =>
       key[mailbox[k].from] = mailbox[k].about

\* There is one message about a job at most.
JobMailInv ==
  /\ \A k \in Box : mailbox[k].type \in JobMsgType => job[mailbox[k].about] = StateOf(mailbox[k].type)
  /\ \A k, l \in Box : k < l /\ mailbox[k].type \in JobMsgType /\ mailbox[l].type \in JobMsgType =>
       mailbox[k].about # mailbox[l].about
  /\ \A j \in Plain : times[j] = 0 =>
       /\ job[j] = "created"
       /\ \A k \in Box : mailbox[k].type \in JobMsgType => mailbox[k].about # j

\* The submitter w is putting the job of a task that it has not recorded yet.
Sending(w) ==
  \/ pc[w] = "sent"
  \/ \E k \in Box : Waits(k) /\ mailbox[k].type = "JOB_SUBMITTED" /\ mailbox[k].from = w

\* The life of a task: ready, submitted.
TaskInv ==
  /\ \A t \in Task : times[t] \in {0, 1} /\ (times[t] = 0 <=> job[t] = "none")
  /\ \A w \in Workflow :
       /\ IsInjective(ready[w])
       /\ \A t \in Range(ready[w]) : In[t] = w /\ times[t] = 0
       /\ \A t \in submitted[w] : In[t] = w /\ times[t] = 1
       /\ Sending(w) => /\ key[w] \in Task /\ In[key[w]] = w
                        /\ times[key[w]] = 1 /\ key[w] \notin submitted[w]

\* The tasks whose completion their submitter has seen.
Open(t) == t \in submitted[In[t]] \/ (Sending(In[t]) /\ key[In[t]] = t)
Done    == {t \in Task : times[t] = 1 /\ ~Open(t)}

\* Counting the completed parents is right.
DoneInv ==
  /\ \A t \in Task : nb_parent_completed[t] = Cardinality(Parents(t) \cap Done)
  /\ \A t \in Task : (times[t] = 1 \/ t \in Range(ready[In[t]])) => Parents(t) \subseteq Done
  /\ \A t \in Task : times[t] = 0 /\ Parents(t) \subseteq Done => t \in Range(ready[In[t]])
  /\ \A t \in Done : job[t] = "completed"

\* The job whose completion the submitter w is told of.
CallInv ==
  /\ \A t \in origin_of_jobs : times[t] = 1 /\ (t \in Done => server = "finish" /\ Received.about = t)
  /\ \A w \in Workflow : pc[w] = "called" =>
       /\ key[w] \in submitted[w] /\ job[key[w]] = "completed"
       /\ key[w] \in origin_of_jobs => server = "finish" /\ Received.about = key[w]

\* The submitters the server knows.
HelloBefore(w, n) == \E k \in Box : k < n /\ mailbox[k].type = "SUBMITTER_HELLO" /\ mailbox[k].from = w
HelloFrom(w) == \E k \in Box : mailbox[k].type = "SUBMITTER_HELLO" /\ mailbox[k].from = w
ByeFrom(w) == \E k \in Box : mailbox[k].type = "SUBMITTER_BYE" /\ mailbox[k].from = w
Active == {"asleep", "run", "sent", "waiting", "called"}
RegInv ==
  /\ \A t \in origin_of_jobs : In[t] \in submitters
  /\ \A k \in Box : mailbox[k].type = "JOB_SUBMITTED" =>
       mailbox[k].from \in submitters \/ HelloBefore(mailbox[k].from, k)
  /\ \A w \in Submitter : pc[w] \in Active =>
       w \in submitters \/ HelloFrom(w)
  /\ \A w \in Workflow : (pc[w] = "gone" \/ ByeFrom(w)) =>
       ready[w] = <<>> /\ submitted[w] = {}

\* The counters.
EndOf(m, j) == m.type \in {"JOB_COMPLETED", "KILLING_DONE"} /\ m.about = j
InProgress == {j \in Job : job[j] = "running" \/ \E k \in Box : EndOf(mailbox[k], j)}
Finished == {s \in Submitter : pc[s] = "gone" /\ ~ByeFrom(s)}
CountInv ==
  /\ \A w \in Workflow : current_nb[w] = Cardinality(submitted[w])
  /\ nb_running = Cardinality(InProgress)
  /\ nb_submitters_finished = Cardinality(Finished)
  /\ nb_workflow_submitters_finished = Cardinality(Finished \cap Workflow)

Inv == /\ Types /\ MailInv /\ SenderInv /\ JobMailInv /\ TaskInv /\ DoneInv /\ CallInv /\ RegInv
       /\ current_nb \in [Workflow -> Nat] /\ CountInv
-----------------------------------------------------------------------------
(* Sequences and the graph *)

\* A set of natural numbers has a least element.
LEMMA LeastNat == ASSUME NEW T \in SUBSET Nat, T # {} PROVE \E n \in T : \A m \in T : n <= m
<1>1. PICK n \in T : \A m \in T : ~(<<m, n>> \in OpToRel(<, Nat))
  BY NatLessThanWellFounded, WFMin
<1>2. \A m \in T : m \in Nat /\ n \in Nat
  OBVIOUS
<1>3. \A m \in T : ~(m < n)
  <2> TAKE m \in T
  <2>1. m < n => <<m, n>> \in OpToRel(<, Nat)
    BY <1>2, Zenon DEF OpToRel
  <2> QED
    BY <1>1, <2>1
<1> QED
  BY <1>2, <1>3

\* One step of Only.
Keep(before, e, S) == IF e \in S THEN Append(before, e) ELSE before

\* The recursion that defines Only, up to n.
Solves(f, seq, S, n) ==
  f = [k \in 0..n |-> IF k = 0 THEN <<>>
                      ELSE IF seq[k] \in S THEN Append(f[k - 1], seq[k]) ELSE f[k - 1]]

\* It has a solution.
LEMMA KeptExists ==
  ASSUME NEW seq, NEW S, NEW n \in Nat
  PROVE  \E f : Solves(f, seq, S, n)
<1> DEFINE B == {m \in Nat : ~\E f : Solves(f, seq, S, m)}
<1>1. SUFFICES ASSUME B # {} PROVE FALSE
  BY <1>1
<1>2. PICK m \in B : \A o \in B : m <= o
  BY <1>1, LeastNat
<1>3. m # 0
  <2> DEFINE g == [k \in 0..0 |-> <<>>]
  <2>1. Solves(g, seq, S, 0)
    BY DEF Solves
  <2> QED
    BY <2>1, <1>2
<1>4. PICK g : Solves(g, seq, S, m - 1)
  <2>1. m - 1 \in Nat /\ ~(m <= m - 1)
    BY <1>2, <1>3
  <2> QED
    BY <1>2, <2>1
<1> DEFINE f == [k \in 0..m |-> IF k < m THEN g[k] ELSE Keep(g[m - 1], seq[m], S)]
<1>5. \A k \in 0..m-1 : f[k] = g[k]
  BY <1>2
<1>6. \A k \in 0..m : f[k] = IF k = 0 THEN <<>>
                             ELSE IF seq[k] \in S THEN Append(f[k - 1], seq[k]) ELSE f[k - 1]
  <2> TAKE k \in 0..m
  <2>1. CASE k = 0
    BY <1>2, <1>3, <1>4, <2>1 DEF Solves
  <2>2. CASE k # 0 /\ k < m
    <3>1. k \in 0..m-1 /\ k - 1 \in 0..m-1
      BY <1>2, <2>2
    <3>2. f[k] = g[k] /\ f[k - 1] = g[k - 1]
      BY <1>5, <3>1
    <3>3. g[k] = IF seq[k] \in S THEN Append(g[k - 1], seq[k]) ELSE g[k - 1]
      BY <1>4, <2>2, <3>1 DEF Solves
    <3> HIDE DEF f
    <3> QED
      BY <2>2, <3>2, <3>3
  <2>3. CASE k = m
    <3>1. m - 1 \in 0..m-1 /\ m \in 0..m
      BY <1>2, <1>3
    <3>2. f[m - 1] = g[m - 1]
      BY <1>5, <3>1
    <3>3. f[m] = Keep(g[m - 1], seq[m], S)
      BY <1>2, <3>1
    <3> HIDE DEF f
    <3> QED
      BY <1>3, <2>3, <3>2, <3>3 DEF Keep
  <2> QED
    BY <1>2, <2>1, <2>2, <2>3
<1>7. Solves(f, seq, S, m)
  <2>1. DOMAIN f = 0..m /\ f = [k \in 0..m |-> f[k]]
    OBVIOUS
  <2> HIDE DEF f
  <2> QED
    BY <1>6, <2>1 DEF Solves
<1> HIDE DEF f
<1> QED
  BY <1>2, <1>7

\* What Only keeps.
LEMMA OnlyFacts ==
  ASSUME NEW T, NEW seq \in Seq(T), NEW S
  PROVE  /\ Only(seq, S) \in Seq(T)
         /\ Range(Only(seq, S)) = Range(seq) \cap S
         /\ IsInjective(seq) => IsInjective(Only(seq, S))
<1> DEFINE f == CHOOSE f : Solves(f, seq, S, Len(seq))
<1>1. Solves(f, seq, S, Len(seq))
  <2>1. Len(seq) \in Nat
    OBVIOUS
  <2> QED
    BY <2>1, KeptExists
<1>2. Only(seq, S) = f[Len(seq)]
  BY DEF Only, Solves
<1> HIDE DEF f
<1>3. \A k \in 0..Len(seq) : f[k] = IF k = 0 THEN <<>> ELSE Keep(f[k - 1], seq[k], S)
  BY <1>1 DEF Keep, Solves
<1> DEFINE Good(k) == /\ f[k] \in Seq(T)
                      /\ \A x : x \in Range(f[k]) <=> \E i \in 1..k : seq[i] = x /\ x \in S
                      /\ IsInjective(seq) => IsInjective(f[k])
           B == {k \in 0..Len(seq) : ~Good(k)}
<1>4. B = {}
  <2> SUFFICES ASSUME B # {} PROVE FALSE
    OBVIOUS
  <2>0. B \in SUBSET Nat
    OBVIOUS
  <2>1. PICK m \in B : \A o \in B : m <= o
    <3> HIDE DEF B
    <3> QED
      BY <2>0, LeastNat
  <2>2. m \in 0..Len(seq) /\ Len(seq) \in Nat
    OBVIOUS
  <2>3. m # 0
    <3>1. SUFFICES Good(0)
      BY <2>1, <3>1
    <3>2. f[0] = <<>>
      BY <1>3, <2>2
    <3> QED
      BY <3>2 DEF Range, IsInjective
  <2>4. m - 1 \in 0..Len(seq) /\ Good(m - 1)
    <3>1. m - 1 \in 0..Len(seq) /\ ~(m <= m - 1)
      BY <2>2, <2>3
    <3>2. m - 1 \notin B
      BY <2>1, <3>1
    <3> QED
      BY <3>1, <3>2
  <2>5. f[m] = Keep(f[m - 1], seq[m], S) /\ seq[m] \in T
    BY <1>3, <2>2, <2>3
  <2>6. CASE seq[m] \notin S
    <3>1. f[m] = f[m - 1]
      BY <2>5, <2>6 DEF Keep
    <3>2. \A x : (\E i \in 1..m : seq[i] = x /\ x \in S) <=> (\E i \in 1..m-1 : seq[i] = x /\ x \in S)
      BY <2>2, <2>6
    <3>3. Good(m)
      BY <2>4, <3>1, <3>2
    <3> QED
      BY <2>1, <3>3
  <2>7. CASE seq[m] \in S
    <3> DEFINE g == f[m - 1]
               n == Len(g)
    <3>1. g \in Seq(T) /\ n \in Nat /\ f[m] = Append(g, seq[m])
      BY <2>4, <2>5, <2>7 DEF Keep
    <3>2. f[m] \in Seq(T) /\ DOMAIN f[m] = 1..n+1 /\ DOMAIN g = 1..n
      BY <2>5, <3>1
    <3>3. f[m][n + 1] = seq[m] /\ \A i \in 1..n : f[m][i] = g[i]
      BY <2>5, <3>1
    <3> HIDE DEF g, n
    <3>4. \A x : x \in Range(f[m]) <=> x \in Range(g) \/ x = seq[m]
      <4>1. Range(f[m]) = {f[m][i] : i \in 1..n+1} /\ Range(g) = {g[i] : i \in 1..n}
        BY <3>2 DEF Range
      <4>2. 1..n+1 = 1..n \cup {n + 1}
        BY <3>1
      <4> QED
        BY <3>3, <4>1, <4>2
    <3>5. \A x : (\E i \in 1..m : seq[i] = x /\ x \in S) <=> (\E i \in 1..m-1 : seq[i] = x /\ x \in S) \/ x = seq[m]
      BY <2>2, <2>3, <2>7
    <3>6. \A x : x \in Range(f[m]) <=> \E i \in 1..m : seq[i] = x /\ x \in S
      BY <2>4, <3>4, <3>5 DEF g
    <3>7. ASSUME IsInjective(seq) PROVE IsInjective(f[m])
      <4> USE DEF g
      <4>1. seq[m] \notin Range(g)
        <5> SUFFICES ASSUME seq[m] \in Range(g) PROVE FALSE
          OBVIOUS
        <5>1. PICK i \in 1..m-1 : seq[i] = seq[m]
          BY <2>4
        <5> QED
          BY <2>2, <3>7, <5>1 DEF IsInjective
      <4>2. \A i \in 1..n : g[i] \in Range(g)
        BY <3>2 DEF Range
      <4>3. \A i, j \in 1..n : g[i] = g[j] => i = j
        BY <2>4, <3>2, <3>7 DEF IsInjective
      <4>4. \A i, j \in 1..n+1 : f[m][i] = f[m][j] => i = j
        <5> TAKE i, j \in 1..n+1
        <5>1. CASE i \in 1..n /\ j \in 1..n
          BY <3>3, <4>3, <5>1
        <5>2. CASE i = n + 1 /\ j \in 1..n
          BY <3>3, <4>1, <4>2, <5>2
        <5>3. CASE j = n + 1 /\ i \in 1..n
          BY <3>3, <4>1, <4>2, <5>3
        <5>4. CASE i = n + 1 /\ j = n + 1
          BY <5>4
        <5> QED
          BY <3>1, <5>1, <5>2, <5>3, <5>4
      <4> QED
        BY <3>2, <4>4 DEF IsInjective
    <3>8. Good(m)
      BY <3>2, <3>6, <3>7
    <3> QED
      BY <2>1, <3>8
  <2> QED
    BY <2>6, <2>7
<1>5. Good(Len(seq))
  <2>1. Len(seq) \in 0..Len(seq)
    OBVIOUS
  <2> QED
    BY <1>4, <2>1
<1>6. \A x : x \in Range(seq) <=> \E i \in 1..Len(seq) : seq[i] = x
  BY DEF Range
<1> QED
  BY <1>2, <1>5, <1>6

\* The recursion of load_from_xml, up to the n-th edge.
Loads(f, n) ==
  f = [k \in 0..n |-> IF k = 0
                      THEN [parents |-> [t \in Task |-> {}], children |-> [t \in Task |-> <<>>]]
                      ELSE add_edge(f[k - 1], Edge[k])]

\* It has a solution.
LEMMA GraphExists == ASSUME NEW n \in Nat PROVE \E f : Loads(f, n)
<1> DEFINE B == {m \in Nat : ~\E f : Loads(f, m)}
           none == [parents |-> [t \in Task |-> {}], children |-> [t \in Task |-> <<>>]]
<1>1. SUFFICES ASSUME B # {} PROVE FALSE
  BY <1>1
<1>2. PICK m \in B : \A o \in B : m <= o
  BY <1>1, LeastNat
<1>3. m # 0
  <2> DEFINE g == [k \in 0..0 |-> none]
  <2>1. Loads(g, 0)
    BY DEF Loads
  <2> QED
    BY <2>1, <1>2
<1>4. PICK g : Loads(g, m - 1)
  <2>1. m - 1 \in Nat /\ ~(m <= m - 1)
    BY <1>2, <1>3
  <2> QED
    BY <1>2, <2>1
<1> DEFINE f == [k \in 0..m |-> IF k < m THEN g[k] ELSE add_edge(g[m - 1], Edge[m])]
<1>5. \A k \in 0..m-1 : f[k] = g[k]
  BY <1>2
<1>6. \A k \in 0..m : f[k] = IF k = 0 THEN none ELSE add_edge(f[k - 1], Edge[k])
  <2> TAKE k \in 0..m
  <2>1. CASE k = 0
    <3>1. 0 \in 0..m-1
      BY <1>2, <1>3
    <3>2. f[0] = g[0] /\ g[0] = none
      BY <1>4, <1>5, <3>1 DEF Loads
    <3> QED
      BY <2>1, <3>2
  <2>2. CASE k # 0 /\ k < m
    <3>1. k \in 0..m-1 /\ k - 1 \in 0..m-1
      BY <1>2, <2>2
    <3>2. f[k] = g[k] /\ f[k - 1] = g[k - 1]
      BY <1>5, <3>1
    <3>3. g[k] = add_edge(g[k - 1], Edge[k])
      BY <1>4, <2>2, <3>1 DEF Loads
    <3> HIDE DEF f
    <3> QED
      BY <2>2, <3>2, <3>3
  <2>3. CASE k = m
    <3>1. m - 1 \in 0..m-1 /\ m \in 0..m
      BY <1>2, <1>3
    <3>2. f[m - 1] = g[m - 1]
      BY <1>5, <3>1
    <3>3. f[m] = add_edge(g[m - 1], Edge[m])
      BY <1>2, <3>1
    <3> HIDE DEF f
    <3> QED
      BY <1>3, <2>3, <3>2, <3>3
  <2> QED
    BY <1>2, <2>1, <2>2, <2>3
<1>7. Loads(f, m)
  <2>1. DOMAIN f = 0..m /\ f = [k \in 0..m |-> f[k]]
    OBVIOUS
  <2> HIDE DEF f
  <2> QED
    BY <1>6, <2>1 DEF Loads
<1> HIDE DEF f
<1> QED
  BY <1>2, <1>7

\* The graph, edge after edge.
LEMMA GraphSteps ==
  /\ Len(Edge) \in Nat
  /\ graph[0] = [parents |-> [t \in Task |-> {}], children |-> [t \in Task |-> <<>>]]
  /\ \A k \in 1..Len(Edge) : graph[k] = add_edge(graph[k - 1], Edge[k])
<1>1. Len(Edge) \in Nat
  BY WorkflowAssumption
<1>2. Loads(graph, Len(Edge))
  <2>1. graph = CHOOSE f : Loads(f, Len(Edge))
    BY DEF graph, Loads
  <2> QED
    BY <1>1, <2>1, GraphExists
<1>3. 0 \in 0..Len(Edge) /\ \A k \in 1..Len(Edge) : k \in 0..Len(Edge) /\ k # 0
  BY <1>1
<1> QED
  BY <1>1, <1>2, <1>3 DEF Loads

\* There is an edge from p to t among the first k.
EdgeUpTo(k, p, t) == \E i \in 1..k : Edge[i] = <<p, t>>

\* What the graph holds after k edges.
GraphUpTo(k) ==
  /\ graph[k].parents \in [Task -> SUBSET Task] /\ graph[k].children \in [Task -> Seq(Task)]
  /\ \A p, t \in Task : p \in graph[k].parents[t] <=> EdgeUpTo(k, p, t)
  /\ SimpleGraph => \A p \in Task : /\ IsInjective(graph[k].children[p])
                                    /\ \A t : t \in Range(graph[k].children[p]) <=> EdgeUpTo(k, p, t)

\* Adding at the end of a sequence.
LEMMA AppendFacts ==
  ASSUME NEW T, NEW s \in Seq(T), NEW e \in T
  PROVE  /\ Append(s, e) \in Seq(T)
         /\ \A x : x \in Range(Append(s, e)) <=> x \in Range(s) \/ x = e
         /\ IsInjective(s) /\ e \notin Range(s) => IsInjective(Append(s, e))
<1> DEFINE n == Len(s)
           a == Append(s, e)
<1>1. n \in Nat /\ a \in Seq(T) /\ DOMAIN a = 1..n+1 /\ DOMAIN s = 1..n
  OBVIOUS
<1>2. a[n + 1] = e /\ \A i \in 1..n : a[i] = s[i]
  OBVIOUS
<1> HIDE DEF a, n
<1>3. \A x : x \in Range(a) <=> x \in Range(s) \/ x = e
  <2>1. Range(a) = {a[i] : i \in 1..n+1} /\ Range(s) = {s[i] : i \in 1..n}
    BY <1>1 DEF Range
  <2>2. 1..n+1 = 1..n \cup {n + 1}
    BY <1>1
  <2> QED
    BY <1>2, <2>1, <2>2
<1>4. ASSUME IsInjective(s), e \notin Range(s) PROVE IsInjective(a)
  <2>1. \A i \in 1..n : s[i] \in Range(s)
    BY <1>1 DEF Range
  <2>2. \A i, j \in 1..n : s[i] = s[j] => i = j
    BY <1>1, <1>4 DEF IsInjective
  <2>3. \A i, j \in 1..n+1 : a[i] = a[j] => i = j
    <3> TAKE i, j \in 1..n+1
    <3>1. CASE i \in 1..n /\ j \in 1..n
      BY <1>2, <2>2, <3>1
    <3>2. CASE i = n + 1 /\ j \in 1..n
      BY <1>2, <1>4, <2>1, <3>2
    <3>3. CASE j = n + 1 /\ i \in 1..n
      BY <1>2, <1>4, <2>1, <3>3
    <3>4. CASE i = n + 1 /\ j = n + 1
      BY <3>4
    <3> QED
      BY <1>1, <3>1, <3>2, <3>3, <3>4
  <2> QED
    BY <1>1, <2>3 DEF IsInjective
<1> QED
  BY <1>1, <1>3, <1>4 DEF a

\* Another edge.
LEMMA GraphOneMore ==
  ASSUME NEW k \in 1..Len(Edge), GraphUpTo(k - 1) PROVE GraphUpTo(k)
<1> DEFINE p == Edge[k][1]
           c == Edge[k][2]
           g == graph[k - 1]
           h == graph[k]
<1>1. p \in Task /\ c \in Task /\ Edge[k] = <<p, c>> /\ k \in Nat /\ Len(Edge) \in Nat
  BY WorkflowAssumption
<1>2. h = add_edge(g, Edge[k])
  BY GraphSteps
<1>3. g.parents \in [Task -> SUBSET Task] /\ g.children \in [Task -> Seq(Task)]
  BY DEF GraphUpTo
<1>4. h.parents = [g.parents EXCEPT ![c] = @ \cup {p}]
  BY <1>2 DEF add_edge
<1>5. h.children = [g.children EXCEPT ![p] = IF p \in Range(@) THEN @ ELSE Append(@, c)]
  BY <1>2 DEF add_edge
<1>6. \A q, t : EdgeUpTo(k, q, t) <=> EdgeUpTo(k - 1, q, t) \/ (q = p /\ t = c)
  <2>1. 1..k = 1..k-1 \cup {k}
    BY <1>1
  <2> QED
    BY <1>1, <2>1 DEF EdgeUpTo
<1>7. \A q, t \in Task : q \in g.parents[t] <=> EdgeUpTo(k - 1, q, t)
  BY DEF GraphUpTo
<1>8. SimpleGraph => \A q \in Task : /\ IsInjective(g.children[q])
                                     /\ \A t : t \in Range(g.children[q]) <=> EdgeUpTo(k - 1, q, t)
  BY DEF GraphUpTo
<1> HIDE DEF p, c, g, h
<1>9. h.parents \in [Task -> SUBSET Task]
  BY <1>1, <1>3, <1>4
<1>10. Append(g.children[p], c) \in Seq(Task)
  BY <1>1, <1>3
<1>11. h.children \in [Task -> Seq(Task)]
  BY <1>1, <1>3, <1>5, <1>10
<1>12. \A q, t \in Task : q \in h.parents[t] <=> EdgeUpTo(k, q, t)
  BY <1>1, <1>3, <1>4, <1>6, <1>7
<1>13. ASSUME SimpleGraph, NEW q \in Task
       PROVE  /\ IsInjective(h.children[q])
              /\ \A t : t \in Range(h.children[q]) <=> EdgeUpTo(k, q, t)
  <2>1. CASE q # p
    <3>1. h.children[q] = g.children[q]
      BY <1>1, <1>3, <1>5, <2>1
    <3> QED
      BY <1>6, <1>8, <1>13, <2>1, <3>1
  <2>2. CASE q = p
    <3>1. ~EdgeUpTo(k - 1, p, p)
      <4> SUFFICES ASSUME NEW i \in 1..k-1, Edge[i] = <<p, p>> PROVE FALSE
        BY DEF EdgeUpTo
      <4>1. i \in 1..Len(Edge) /\ Edge[i][1] = Edge[i][2]
        BY <1>1
      <4> QED
        BY <1>13, <4>1 DEF SimpleGraph
    <3>2. ~EdgeUpTo(k - 1, p, c)
      <4> SUFFICES ASSUME NEW i \in 1..k-1, Edge[i] = <<p, c>> PROVE FALSE
        BY DEF EdgeUpTo
      <4>1. i \in 1..Len(Edge) /\ i # k /\ Edge[i] = Edge[k]
        BY <1>1
      <4> QED
        BY <1>13, <4>1 DEF SimpleGraph
    <3>3. p \notin Range(g.children[p]) /\ c \notin Range(g.children[p]) /\ IsInjective(g.children[p])
      BY <1>1, <1>8, <1>13, <3>1, <3>2
    <3>4. h.children[p] = Append(g.children[p], c)
      BY <1>1, <1>3, <1>5, <3>3
    <3>5. g.children[p] \in Seq(Task)
      BY <1>1, <1>3
    <3>6. /\ IsInjective(h.children[p])
          /\ \A x : x \in Range(h.children[p]) <=> x \in Range(g.children[p]) \/ x = c
      BY <1>1, <3>3, <3>4, <3>5, AppendFacts
    <3> QED
      BY <1>1, <1>6, <1>8, <1>13, <2>2, <3>6
  <2> QED
    BY <2>1, <2>2
<1> QED
  BY <1>9, <1>11, <1>12, <1>13 DEF GraphUpTo, h

\* The whole graph.
LEMMA GraphIsLoaded == GraphUpTo(Len(Edge))
<1>1. GraphUpTo(0)
  <2>1. graph[0] = [parents |-> [t \in Task |-> {}], children |-> [t \in Task |-> <<>>]]
    BY GraphSteps
  <2>2. \A p, t : ~EdgeUpTo(0, p, t)
    BY DEF EdgeUpTo
  <2>3. \A t \in Task : graph[0].parents[t] = {} /\ graph[0].children[t] = <<>>
    BY <2>1
  <2>4. IsInjective(<<>>) /\ Range(<<>>) = {}
    BY DEF IsInjective, Range
  <2>5. graph[0].parents \in [Task -> SUBSET Task] /\ graph[0].children \in [Task -> Seq(Task)]
    BY <2>1
  <2> QED
    BY <2>2, <2>3, <2>4, <2>5 DEF GraphUpTo
<1> DEFINE B == {k \in 0..Len(Edge) : ~GraphUpTo(k)}
<1>2. Len(Edge) \in Nat
  BY GraphSteps
<1>3. B = {}
  <2> SUFFICES ASSUME B # {} PROVE FALSE
    OBVIOUS
  <2>1. B \in SUBSET Nat
    OBVIOUS
  <2>2. PICK m \in B : \A o \in B : m <= o
    <3> HIDE DEF B
    <3> QED
      BY <2>1, LeastNat
  <2>3. m # 0
    BY <1>1, <2>2
  <2>4. m \in 1..Len(Edge) /\ m - 1 \in 0..Len(Edge) /\ ~(m <= m - 1)
    BY <1>2, <2>2, <2>3
  <2>5. GraphUpTo(m - 1)
    BY <2>2, <2>4
  <2> QED
    BY <2>2, <2>4, <2>5, GraphOneMore
<1> QED
  BY <1>2, <1>3

\* Parents and children, in a simple graph.
LEMMA GraphFacts ==
  ASSUME NEW t \in Task
  PROVE  /\ Parents(t) \subseteq Task /\ Children(t) \in Seq(Task)
         /\ IsFiniteSet(Parents(t))
         /\ \A p \in Parents(t) : In[p] = In[t]
         /\ SimpleGraph => /\ IsInjective(Children(t))
                           /\ \A u : u \in Range(Children(t)) <=> (u \in Task /\ t \in Parents(u))
<1>1. GraphUpTo(Len(Edge)) /\ Len(Edge) \in Nat
  BY GraphIsLoaded, GraphSteps
<1>2. Parents(t) \subseteq Task /\ Children(t) \in Seq(Task)
  BY <1>1 DEF GraphUpTo, Parents, Children, load_from_xml
<1>3. IsFiniteSet(Parents(t))
  BY <1>2, FS_Subset, WorkflowAssumption
<1>4. \A p, u \in Task : p \in Parents(u) <=> EdgeUpTo(Len(Edge), p, u)
  BY <1>1 DEF GraphUpTo, Parents, load_from_xml
<1>5. ASSUME NEW p \in Parents(t) PROVE In[p] = In[t]
  <2>1. PICK i \in 1..Len(Edge) : Edge[i] = <<p, t>>
    BY <1>2, <1>4 DEF EdgeUpTo
  <2> QED
    BY <2>1, WorkflowAssumption
<1>6. ASSUME SimpleGraph
      PROVE  /\ IsInjective(Children(t))
             /\ \A u : u \in Range(Children(t)) <=> (u \in Task /\ t \in Parents(u))
  <2>1. IsInjective(Children(t)) /\ \A u : u \in Range(Children(t)) <=> EdgeUpTo(Len(Edge), t, u)
    BY <1>1, <1>6 DEF GraphUpTo, Children, load_from_xml
  <2>2. \A u : EdgeUpTo(Len(Edge), t, u) => u \in Task
    <3> SUFFICES ASSUME NEW u, NEW i \in 1..Len(Edge), Edge[i] = <<t, u>> PROVE u \in Task
      BY DEF EdgeUpTo
    <3>1. Edge[i] \in Task \X Task
      BY WorkflowAssumption
    <3> QED
      BY <3>1
  <2> QED
    BY <1>4, <2>1, <2>2
<1> QED
  BY <1>2, <1>3, <1>5, <1>6

\* Two sequences without a common element.
LEMMA ConcatFacts ==
  ASSUME NEW T, NEW s \in Seq(T), NEW r \in Seq(T)
  PROVE  /\ s \o r \in Seq(T)
         /\ \A x : x \in Range(s \o r) <=> x \in Range(s) \/ x \in Range(r)
         /\ IsInjective(s) /\ IsInjective(r) /\ Range(s) \cap Range(r) = {} => IsInjective(s \o r)
<1> DEFINE n == Len(s)
           m == Len(r)
           a == s \o r
<1>1. n \in Nat /\ m \in Nat /\ a \in Seq(T) /\ DOMAIN a = 1..n+m /\ DOMAIN s = 1..n /\ DOMAIN r = 1..m
  OBVIOUS
<1>2. (\A i \in 1..n : a[i] = s[i]) /\ (\A i \in n+1..n+m : a[i] = r[i - n])
  OBVIOUS
<1> HIDE DEF a, n, m
<1>3. \A i \in 1..n : s[i] \in Range(s)
  BY <1>1 DEF Range
<1>4. \A i \in n+1..n+m : i - n \in 1..m /\ r[i - n] \in Range(r)
  BY <1>1 DEF Range
<1>5. \A x : x \in Range(a) <=> x \in Range(s) \/ x \in Range(r)
  <2>1. \A x : x \in Range(a) <=> \E i \in 1..n+m : a[i] = x
    BY <1>1 DEF Range
  <2>2. \A x : x \in Range(s) <=> \E i \in 1..n : s[i] = x
    BY <1>1 DEF Range
  <2>3. \A x : x \in Range(r) <=> \E i \in 1..m : r[i] = x
    BY <1>1 DEF Range
  <2> TAKE x
  <2>4. ASSUME x \in Range(a) PROVE x \in Range(s) \/ x \in Range(r)
    <3>1. PICK i \in 1..n+m : a[i] = x
      BY <2>1, <2>4
    <3>2. i \in 1..n \/ i \in n+1..n+m
      BY <1>1
    <3> QED
      BY <1>2, <1>3, <1>4, <3>1, <3>2
  <2>5. ASSUME x \in Range(s) PROVE x \in Range(a)
    BY <1>1, <1>2, <2>1, <2>2, <2>5
  <2>6. ASSUME x \in Range(r) PROVE x \in Range(a)
    <3>1. PICK i \in 1..m : r[i] = x
      BY <2>3, <2>6
    <3>2. i + n \in n+1..n+m /\ (i + n) - n = i /\ i + n \in 1..n+m
      BY <1>1
    <3> QED
      BY <1>2, <2>1, <3>1, <3>2
  <2> QED
    BY <2>4, <2>5, <2>6
<1>6. ASSUME IsInjective(s), IsInjective(r), Range(s) \cap Range(r) = {} PROVE IsInjective(a)
  <2>1. \A i, j \in 1..n : s[i] = s[j] => i = j
    BY <1>1, <1>6 DEF IsInjective
  <2>2. \A i, j \in 1..m : r[i] = r[j] => i = j
    BY <1>1, <1>6 DEF IsInjective
  <2>3. \A i, j \in 1..n+m : a[i] = a[j] => i = j
    <3> TAKE i, j \in 1..n+m
    <3>1. CASE i \in 1..n /\ j \in 1..n
      BY <1>2, <2>1, <3>1
    <3>2. CASE i \in 1..n /\ j \in n+1..n+m
      BY <1>2, <1>3, <1>4, <1>6, <3>2
    <3>3. CASE j \in 1..n /\ i \in n+1..n+m
      BY <1>2, <1>3, <1>4, <1>6, <3>3
    <3>4. CASE i \in n+1..n+m /\ j \in n+1..n+m
      <4>1. a[i] = a[j] => i - n = j - n
        BY <1>2, <1>4, <2>2, <3>4
      <4> QED
        BY <1>1, <4>1
    <3> QED
      BY <1>1, <3>1, <3>2, <3>3, <3>4
  <2> QED
    BY <1>1, <2>3 DEF IsInjective
<1> QED
  BY <1>1, <1>5, <1>6 DEF a

\* Taking the first element.
LEMMA TailFacts ==
  ASSUME NEW T, NEW s \in Seq(T), s # <<>>, IsInjective(s)
  PROVE  /\ Head(s) \in T /\ Head(s) \in Range(s) /\ Tail(s) \in Seq(T)
         /\ \A x : x \in Range(Tail(s)) <=> x \in Range(s) /\ x # Head(s)
         /\ IsInjective(Tail(s))
<1> DEFINE n == Len(s)
           r == Tail(s)
<1>1. n \in Nat /\ n > 0 /\ r \in Seq(T) /\ DOMAIN r = 1..n-1 /\ DOMAIN s = 1..n /\ Head(s) = s[1] /\ s[1] \in T
  OBVIOUS
<1>2. \A i \in 1..n-1 : r[i] = s[i + 1] /\ i + 1 \in 1..n
  OBVIOUS
<1>3. \A i, j \in 1..n : s[i] = s[j] => i = j
  BY <1>1 DEF IsInjective
<1> HIDE DEF r, n
<1>4. IsInjective(r)
  <2>1. \A i, j \in 1..n-1 : r[i] = r[j] => i = j
    <3> TAKE i, j \in 1..n-1
    <3>1. r[i] = r[j] => i + 1 = j + 1
      BY <1>2, <1>3
    <3> QED
      BY <1>1, <3>1
  <2> QED
    BY <1>1, <2>1 DEF IsInjective
<1>5. \A x : x \in Range(r) <=> x \in Range(s) /\ x # s[1]
  <2>1. \A x : x \in Range(r) <=> \E i \in 1..n-1 : r[i] = x
    BY <1>1 DEF Range
  <2>2. \A x : x \in Range(s) <=> \E i \in 1..n : s[i] = x
    BY <1>1 DEF Range
  <2> TAKE x
  <2>3. ASSUME x \in Range(r) PROVE x \in Range(s) /\ x # s[1]
    <3>1. PICK i \in 1..n-1 : r[i] = x
      BY <2>1, <2>3
    <3>2. i + 1 \in 1..n /\ s[i + 1] = x /\ 1 \in 1..n /\ i + 1 # 1
      BY <1>1, <1>2, <3>1
    <3> QED
      BY <1>3, <2>2, <3>2
  <2>4. ASSUME x \in Range(s), x # s[1] PROVE x \in Range(r)
    <3>1. PICK i \in 1..n : s[i] = x
      BY <2>2, <2>4
    <3>2. i - 1 \in 1..n-1 /\ (i - 1) + 1 = i
      BY <1>1, <2>4, <3>1
    <3> QED
      BY <1>2, <2>1, <3>1, <3>2
  <2> QED
    BY <2>3, <2>4
<1>6. s[1] \in Range(s)
  BY <1>1 DEF Range
<1> QED
  BY <1>1, <1>4, <1>5, <1>6 DEF r

\* A child of a simple graph counts once.
LEMMA OccurrencesFacts ==
  ASSUME NEW kids \in Seq(Task), IsInjective(kids), NEW t
  PROVE  Occurrences(t, kids) = IF t \in Range(kids) THEN 1 ELSE 0
<1> DEFINE K == {k \in 1..Len(kids) : kids[k] = t}
<1>1. DOMAIN kids = 1..Len(kids)
  OBVIOUS
<1>2. CASE t \in Range(kids)
  <2>1. PICK k \in 1..Len(kids) : kids[k] = t
    BY <1>1, <1>2 DEF Range
  <2>2. K = {k}
    BY <1>1, <2>1 DEF IsInjective
  <2> QED
    BY <1>2, <2>2, FS_Singleton DEF Occurrences
<1>3. CASE t \notin Range(kids)
  <2>1. K = {}
    BY <1>1, <1>3 DEF Range
  <2> QED
    BY <1>3, <2>1, FS_EmptySet DEF Occurrences
<1> QED
  BY <1>2, <1>3

-----------------------------------------------------------------------------
(* The mailbox: a step puts a message, ends the handling of one, or neither *)

PutStep(m)  == m \in Message /\ GoodMsg(m) /\ mailbox' = Append(mailbox, m) /\ server' = server
HandleStep  == Working /\ mailbox' = Tail(mailbox) /\ server' = "receive"
StayStep    == mailbox' = mailbox /\ (Working' <=> Working)

\* The mailbox before and after a put.
LEMMA PutFacts ==
  ASSUME Types, MailInv, NEW m, PutStep(m)
  PROVE  LET n == Len(mailbox) IN
         /\ n \in Nat /\ Box = 1..n /\ Box' = 1..n+1 /\ mailbox' \in Seq(Message)
         /\ \A k \in 1..n : mailbox'[k] = mailbox[k] /\ k \in 1..n+1 /\ (Waits(k)' <=> Waits(k))
         /\ mailbox'[n + 1] = m /\ n + 1 \in 1..n+1 /\ (\A k : k = n + 1 => Waits(k)')
         /\ (Working' <=> Working) /\ (Working => Received' = Received)
         /\ \A k \in 1..n+1 : k \in 1..n \/ k = n + 1
<1> DEFINE n == Len(mailbox)
<1>0. mailbox \in Seq(Message) /\ m \in Message /\ mailbox' = Append(mailbox, m)
  BY DEF Types, PutStep
<1>1. mailbox \in Seq(Message) /\ m \in Message /\ mailbox' = Append(mailbox, m) /\ n \in Nat
  BY <1>0
<1>2. mailbox' \in Seq(Message) /\ Len(mailbox') = n + 1
  BY <1>1
<1>3. (\A k \in 1..n : mailbox'[k] = mailbox[k]) /\ mailbox'[n + 1] = m
  BY <1>1
<1>4. (Working' <=> Working) /\ Off' = Off
  BY DEF PutStep, Working, Off
<1>5. Working => n > 0
  BY <1>1 DEF MailInv
<1>6. Off \in {0, 1} /\ n + 1 > Off
  BY <1>1, <1>5 DEF Off
<1>7. \A k \in 1..n : Waits(k)' <=> Waits(k)
  BY <1>1, <1>2, <1>4 DEF Waits, Box
<1>8. \A k : k = n + 1 => Waits(k)'
  BY <1>1, <1>2, <1>4, <1>6 DEF Waits, Box
<1>9. Working => Received' = Received
  BY <1>1, <1>2, <1>3, <1>5 DEF Received
<1>10. \A k \in 1..n+1 : k \in 1..n \/ k = n + 1
  BY <1>1
<1> QED
  BY <1>1, <1>2, <1>3, <1>4, <1>7, <1>8, <1>9, <1>10 DEF Box

\* The mailbox before and after the handling of its first message.
LEMMA HandleFacts ==
  ASSUME Types, MailInv, HandleStep
  PROVE  LET n == Len(mailbox) IN
         /\ n \in Nat /\ n > 0 /\ Box = 1..n /\ Box' = 1..n-1 /\ mailbox' \in Seq(Message)
         /\ \A k \in 1..n-1 : mailbox'[k] = mailbox[k + 1] /\ k + 1 \in 1..n /\ Waits(k + 1) /\ Waits(k)' /\ 1 < k + 1
         /\ \A k \in 1..n : k = 1 \/ (k - 1 \in 1..n-1 /\ mailbox'[k - 1] = mailbox[k] /\ Waits(k - 1)' /\ Waits(k))
         /\ Received = mailbox[1] /\ ~Waits(1) /\ ~Working' /\ 1 \in 1..n
         /\ \A k, l \in 1..n-1 : k < l <=> k + 1 < l + 1
<1> DEFINE n == Len(mailbox)
<1>0. mailbox \in Seq(Message) /\ mailbox # <<>> /\ Working /\ mailbox' = Tail(mailbox)
  BY DEF Types, MailInv, HandleStep
<1>1. mailbox \in Seq(Message) /\ n \in Nat /\ n > 0 /\ Working /\ mailbox' = Tail(mailbox)
  BY <1>0
<1>2. mailbox' \in Seq(Message) /\ Len(mailbox') = n - 1 /\ \A k \in 1..n-1 : mailbox'[k] = mailbox[k + 1]
  BY <1>1
<1>3. ~Working'
  BY DEF HandleStep, Working
<1>4. Off = 1 /\ Off' = 0
  BY <1>1, <1>3 DEF Off
<1>5. Received = mailbox[1]
  BY <1>1 DEF Received
<1>6. \A k \in 1..n-1 : k + 1 \in 1..n /\ Waits(k + 1) /\ Waits(k)' /\ 1 < k + 1
  BY <1>1, <1>2, <1>4 DEF Waits, Box
<1>7. \A k \in 1..n : k = 1 \/ (k - 1 \in 1..n-1 /\ (k - 1) + 1 = k)
  BY <1>1
<1>8. \A k \in 1..n : k = 1 \/ (k - 1 \in 1..n-1 /\ mailbox'[k - 1] = mailbox[k] /\ Waits(k - 1)' /\ Waits(k))
  BY <1>2, <1>6, <1>7
<1>9. ~Waits(1)
  BY <1>4 DEF Waits
<1>10. \A k, l \in 1..n-1 : k < l <=> k + 1 < l + 1
  BY <1>1
<1> QED
  BY <1>1, <1>2, <1>3, <1>5, <1>6, <1>8, <1>9, <1>10 DEF Box

\* The mailbox that a step leaves alone.
LEMMA StayFacts ==
  ASSUME StayStep
  PROVE  Box' = Box /\ mailbox' = mailbox /\ (\A k : Waits(k)' <=> Waits(k)) /\ Received' = Received
BY DEF StayStep, Box, Waits, Off, Received

\* What the server works on, after each kind of step.
LEMMA MailPut ==
  ASSUME Types, MailInv, NEW m, PutStep(m), origin_of_jobs' = origin_of_jobs
  PROVE  MailInv'
<1>1. \A k \in Box' : GoodMsg(mailbox'[k])
  BY PutFacts DEF MailInv, PutStep
<1>2. \A k \in Box' : GoodMsg(mailbox[k])'
  BY <1>1 DEF GoodMsg
<1>3. Working' => mailbox' # <<>>
  BY PutFacts DEF Box
<1>4. server' \in {"callback", "finish"} => (Received.type = "JOB_COMPLETED" /\ Received.about \in origin_of_jobs)'
  BY PutFacts DEF MailInv, PutStep, Working
<1> QED
  BY <1>2, <1>3, <1>4 DEF MailInv

\* Taking the message that was handled leaves the others in order, each from its sender.
LEMMA MailHandle == ASSUME Types, MailInv, HandleStep PROVE MailInv'
<1>1. \A k \in Box' : GoodMsg(mailbox'[k])
  BY HandleFacts DEF MailInv
<1>2. \A k \in Box' : GoodMsg(mailbox[k])'
  BY <1>1 DEF GoodMsg
<1> QED
  BY <1>2, HandleFacts DEF MailInv, HandleStep

\* A step that leaves the mailbox alone may move the server on inside a handler.
LEMMA MailStay ==
  ASSUME Types, MailInv, StayStep,
         server' \in {"callback", "finish"} => Received.type = "JOB_COMPLETED" /\ Received.about \in origin_of_jobs'
  PROVE  MailInv'
<1>1. \A k \in Box' : GoodMsg(mailbox[k])'
  BY StayFacts DEF MailInv, GoodMsg
<1> QED
  BY <1>1, StayFacts DEF MailInv, StayStep

\* The puts under way, after each kind of step.
LEMMA SenderPut ==
  ASSUME Types, MailInv, SenderInv, NEW m, PutStep(m),
         \/ m.from \notin Submitter /\ pc' = pc
         \/ m.from \in Submitter /\ pc[m.from] \in {"hello", "run"} /\ pc' = [pc EXCEPT ![m.from] = "blocked"],
         \A w \in Workflow : key'[w] = key[w] \/ w = m.from,
         m.type = "JOB_SUBMITTED" /\ m.from \in Workflow => key'[m.from] = m.about
  PROVE  SenderInv'
<1> DEFINE n == Len(mailbox)
<1>1. /\ n \in Nat /\ Box = 1..n /\ Box' = 1..n+1
      /\ \A k \in 1..n : mailbox'[k] = mailbox[k] /\ (Waits(k)' <=> Waits(k))
      /\ mailbox'[n + 1] = m /\ \A k : k = n + 1 => Waits(k)'
      /\ \A k \in 1..n+1 : k \in 1..n \/ k = n + 1
  BY PutFacts
<1>2. m.from \in Submitter => \A k \in 1..n : mailbox[k].from = m.from => ~Waits(k) /\ mailbox[k].type # "SUBMITTER_BYE"
  BY <1>1 DEF SenderInv
<1>3. /\ \A s \in Submitter : s # m.from => pc'[s] = pc[s]
      /\ m.from \in Submitter => pc'[m.from] = "blocked"
  BY DEF Types
<1>4. \A k \in 1..n : mailbox[k].type = "SUBMITTER_BYE" => mailbox[k].from \in Submitter
  BY <1>1 DEF MailInv, GoodMsg
<1>5. \A k \in 1..n : Waits(k) => k \in Box
  BY DEF Waits
<1> HIDE DEF n
<1>6. \A k \in Box' : Waits(k)' /\ mailbox'[k].from \in Submitter => pc'[mailbox'[k].from] = "blocked"
  BY <1>1, <1>2, <1>3 DEF SenderInv
<1>7. \A k, l \in Box' : k < l /\ Waits(k)' /\ mailbox'[k].from \in Submitter => mailbox'[l].from # mailbox'[k].from
  <2> TAKE k, l \in Box'
  <2> SUFFICES ASSUME k < l, Waits(k)', mailbox'[k].from \in Submitter PROVE mailbox'[l].from # mailbox'[k].from
    OBVIOUS
  <2>1. k \in 1..n
    BY <1>1
  <2>2. CASE l \in 1..n
    BY <1>1, <2>1, <2>2 DEF SenderInv
  <2>3. CASE l = n + 1
    BY <1>1, <1>2, <2>1, <2>3
  <2> QED
    BY <1>1, <2>2, <2>3
<1>8. ASSUME NEW k \in Box', mailbox'[k].type = "SUBMITTER_BYE"
      PROVE  /\ ~Waits(k)' => pc'[mailbox'[k].from] = "gone"
             /\ \A l \in Box' : k < l => mailbox'[l].from # mailbox'[k].from
  <2>1. CASE k = n + 1
    BY <1>1, <2>1
  <2>2. CASE k \in 1..n
    <3>1. mailbox'[k] = mailbox[k] /\ (Waits(k)' <=> Waits(k)) /\ mailbox[k].from \in Submitter /\ k \in Box
      BY <1>1, <1>4, <1>8, <2>2
    <3>2. mailbox[k].from # m.from
      BY <1>2, <1>8, <2>2, <3>1
    <3>3. ~Waits(k)' => pc'[mailbox'[k].from] = "gone"
      BY <1>3, <1>8, <3>1, <3>2 DEF SenderInv
    <3>4. ASSUME NEW l \in Box', k < l PROVE mailbox'[l].from # mailbox'[k].from
      <4>1. CASE l = n + 1
        BY <1>1, <3>1, <3>2, <4>1
      <4>2. CASE l \in 1..n
        BY <1>1, <1>8, <3>1, <3>4, <4>2 DEF SenderInv
      <4> QED
        BY <1>1, <4>1, <4>2
    <3> QED
      BY <3>3, <3>4
  <2> QED
    BY <1>1, <2>1, <2>2
<1>9. \A k \in Box' : Waits(k)' /\ mailbox'[k].type = "JOB_SUBMITTED" /\ mailbox'[k].from \in Workflow =>
        key'[mailbox'[k].from] = mailbox'[k].about
  <2> TAKE k \in Box'
  <2>1. CASE k = n + 1
    BY <1>1, <2>1
  <2>2. CASE k \in 1..n
    BY <1>1, <1>2, <2>2 DEF SenderInv, Submitter
  <2> QED
    BY <1>1, <2>1, <2>2
<1> QED
  BY <1>6, <1>7, <1>8, <1>9 DEF SenderInv

\* When a message is taken, who still has one in the mailbox stays blocked.
LEMMA SenderHandle ==
  ASSUME Types, MailInv, SenderInv, HandleStep, UNCHANGED <<pc, key>>
  PROVE  SenderInv'
<1> DEFINE n == Len(mailbox)
<1>1. /\ n \in Nat /\ Box = 1..n /\ Box' = 1..n-1
      /\ \A k \in 1..n-1 : mailbox'[k] = mailbox[k + 1] /\ k + 1 \in 1..n /\ Waits(k + 1) /\ Waits(k)'
      /\ \A k, l \in 1..n-1 : k < l <=> k + 1 < l + 1
  BY HandleFacts
<1> HIDE DEF n
<1>2. \A k \in Box' : Waits(k)' /\ mailbox'[k].from \in Submitter => pc'[mailbox'[k].from] = "blocked"
  BY <1>1 DEF SenderInv
<1>3. \A k, l \in Box' : k < l /\ Waits(k)' /\ mailbox'[k].from \in Submitter => mailbox'[l].from # mailbox'[k].from
  BY <1>1 DEF SenderInv
<1>4. \A k \in Box' : mailbox'[k].type = "SUBMITTER_BYE" =>
        /\ ~Waits(k)' => pc'[mailbox'[k].from] = "gone"
        /\ \A l \in Box' : k < l => mailbox'[l].from # mailbox'[k].from
  BY <1>1 DEF SenderInv
<1>5. \A k \in Box' : Waits(k)' /\ mailbox'[k].type = "JOB_SUBMITTED" /\ mailbox'[k].from \in Workflow =>
        key'[mailbox'[k].from] = mailbox'[k].about
  BY <1>1 DEF SenderInv
<1> QED
  BY <1>2, <1>3, <1>4, <1>5 DEF SenderInv

\* A submitter moves from a place where it is not blocked.
LEMMA SenderStay ==
  ASSUME Types, MailInv, SenderInv, StayStep,
         \A s \in Submitter : pc'[s] = pc[s] \/ pc[s] \notin {"blocked", "gone"},
         \A w \in Workflow : key'[w] = key[w] \/ pc[w] # "blocked"
  PROVE  SenderInv'
<1>1. Box' = Box /\ mailbox' = mailbox /\ (\A k : Waits(k)' <=> Waits(k))
  BY StayFacts
<1>2. \A k \in Box : mailbox[k].type = "SUBMITTER_BYE" => mailbox[k].from \in Submitter
  BY DEF MailInv, GoodMsg
<1>3. \A k \in Box : Waits(k) /\ mailbox[k].from \in Submitter => pc'[mailbox[k].from] = "blocked"
  BY DEF SenderInv
<1>4. \A k \in Box : mailbox[k].type = "SUBMITTER_BYE" => (~Waits(k) => pc'[mailbox[k].from] = "gone")
  BY <1>2 DEF SenderInv
<1>5. \A k \in Box : Waits(k) /\ mailbox[k].type = "JOB_SUBMITTED" /\ mailbox[k].from \in Workflow =>
        key'[mailbox[k].from] = mailbox[k].about
  BY DEF SenderInv, Submitter
<1> QED
  BY <1>1, <1>3, <1>4, <1>5 DEF SenderInv

\* The messages about jobs, after each kind of step.
LEMMA JobMailPut ==
  ASSUME Types, MailInv, JobMailInv, NEW m, PutStep(m),
         m.type \in JobMsgType, NEW j \in Job, m.about = j,
         \A k \in Box : mailbox[k].type \in JobMsgType => mailbox[k].about # j,
         job' = [job EXCEPT ![j] = StateOf(m.type)],
         \A i \in Plain : times'[i] = times[i] \/ i = j, times'[j] # 0
  PROVE  JobMailInv'
<1> DEFINE n == Len(mailbox)
<1>1. /\ n \in Nat /\ Box = 1..n /\ Box' = 1..n+1
      /\ \A k \in 1..n : mailbox'[k] = mailbox[k]
      /\ mailbox'[n + 1] = m
      /\ \A k \in 1..n+1 : k \in 1..n \/ k = n + 1
  BY PutFacts
<1>2. job'[j] = StateOf(m.type) /\ \A i : i # j /\ i \in Job => job'[i] = job[i]
  BY DEF Types
<1>3. \A k \in 1..n : mailbox[k].type \in JobMsgType => mailbox[k].about \in Job
  BY <1>1 DEF MailInv, GoodMsg, Job, JobMsgType
<1> HIDE DEF n
<1>4. \A k \in Box' : mailbox'[k].type \in JobMsgType => job'[mailbox'[k].about] = StateOf(mailbox'[k].type)
  <2> TAKE k \in Box'
  <2>1. CASE k = n + 1
    BY <1>1, <1>2, <2>1
  <2>2. CASE k \in 1..n
    BY <1>1, <1>2, <1>3, <2>2 DEF JobMailInv
  <2> QED
    BY <1>1, <2>1, <2>2
<1>5. \A k \in Box' : mailbox'[k].type \in JobMsgType => job'[mailbox'[k].about] = StateOf(mailbox[k].type)'
  BY <1>4 DEF StateOf
<1>6. \A k, l \in Box' : k < l /\ mailbox'[k].type \in JobMsgType /\ mailbox'[l].type \in JobMsgType =>
        mailbox'[k].about # mailbox'[l].about
  <2> TAKE k, l \in Box'
  <2> SUFFICES ASSUME k < l, mailbox'[k].type \in JobMsgType, mailbox'[l].type \in JobMsgType
               PROVE  mailbox'[k].about # mailbox'[l].about
    OBVIOUS
  <2>1. k \in 1..n
    BY <1>1
  <2>2. CASE l \in 1..n
    BY <1>1, <2>1, <2>2 DEF JobMailInv
  <2>3. CASE l = n + 1
    BY <1>1, <2>1, <2>3
  <2> QED
    BY <1>1, <2>2, <2>3
<1>7. \A i \in Plain : times'[i] = 0 =>
        /\ job'[i] = "created"
        /\ \A k \in Box' : mailbox'[k].type \in JobMsgType => mailbox'[k].about # i
  BY <1>1, <1>2 DEF JobMailInv, Job
<1> QED
  BY <1>5, <1>6, <1>7 DEF JobMailInv

\* A submitter says hello or goodbye.
LEMMA JobMailOther ==
  ASSUME Types, MailInv, JobMailInv, NEW m, PutStep(m), m.type \notin JobMsgType, UNCHANGED <<job, times>>
  PROVE  JobMailInv'
<1> DEFINE n == Len(mailbox)
<1>1. /\ n \in Nat /\ Box = 1..n /\ Box' = 1..n+1
      /\ \A k \in 1..n : mailbox'[k] = mailbox[k]
      /\ mailbox'[n + 1] = m
      /\ \A k \in 1..n+1 : k \in 1..n \/ k = n + 1
  BY PutFacts
<1> HIDE DEF n
<1>2. \A k \in Box' : mailbox'[k].type \in JobMsgType => k \in Box /\ mailbox'[k] = mailbox[k]
  BY <1>1
<1>3. \A k \in Box' : mailbox'[k].type \in JobMsgType => job'[mailbox'[k].about] = StateOf(mailbox'[k].type)
  BY <1>2 DEF JobMailInv
<1>4. \A k \in Box' : mailbox'[k].type \in JobMsgType => job'[mailbox'[k].about] = StateOf(mailbox[k].type)'
  BY <1>3 DEF StateOf
<1> QED
  BY <1>2, <1>4 DEF JobMailInv

\* When a message is taken, only the job it was about may change its state.
LEMMA JobMailHandle ==
  ASSUME Types, MailInv, JobMailInv, HandleStep, times' = times,
         \A i \in Job : job'[i] = job[i] \/ (Received.type \in JobMsgType /\ i = Received.about)
  PROVE  JobMailInv'
<1> DEFINE n == Len(mailbox)
<1>1. /\ n \in Nat /\ Box = 1..n /\ Box' = 1..n-1
      /\ \A k \in 1..n-1 : mailbox'[k] = mailbox[k + 1] /\ k + 1 \in 1..n /\ 1 < k + 1
      /\ \A k, l \in 1..n-1 : k < l <=> k + 1 < l + 1
      /\ Received = mailbox[1] /\ 1 \in 1..n
  BY HandleFacts
<1>2. \A k \in 1..n : mailbox[k].type \in JobMsgType => mailbox[k].about \in Job
  BY <1>1 DEF MailInv, GoodMsg, Job, JobMsgType
<1> HIDE DEF n
<1>3. \A k \in Box' : mailbox'[k].type \in JobMsgType => job'[mailbox'[k].about] = StateOf(mailbox'[k].type)
  <2> SUFFICES ASSUME NEW k \in Box', mailbox'[k].type \in JobMsgType
               PROVE  job'[mailbox'[k].about] = StateOf(mailbox'[k].type)
    OBVIOUS
  <2>1. k + 1 \in Box /\ mailbox'[k] = mailbox[k + 1] /\ 1 \in Box /\ 1 < k + 1
    BY <1>1
  <2>2. Received.type \in JobMsgType => mailbox[k + 1].about # Received.about
    BY <1>1, <2>1 DEF JobMailInv
  <2>3. job'[mailbox[k + 1].about] = job[mailbox[k + 1].about]
    BY <1>1, <1>2, <2>1, <2>2
  <2> QED
    BY <2>1, <2>3 DEF JobMailInv
<1>4. \A k \in Box' : mailbox'[k].type \in JobMsgType => job'[mailbox'[k].about] = StateOf(mailbox[k].type)'
  BY <1>3 DEF StateOf
<1>5. \A k, l \in Box' : k < l /\ mailbox'[k].type \in JobMsgType /\ mailbox'[l].type \in JobMsgType =>
        mailbox'[k].about # mailbox'[l].about
  BY <1>1 DEF JobMailInv
<1>6. ASSUME NEW j \in Plain, times'[j] = 0
      PROVE  /\ job'[j] = "created"
             /\ \A k \in Box' : mailbox'[k].type \in JobMsgType => mailbox'[k].about # j
  <2>1. job[j] = "created" /\ \A k \in Box : mailbox[k].type \in JobMsgType => mailbox[k].about # j
    BY <1>6 DEF JobMailInv
  <2>2. job'[j] = job[j]
    BY <1>1, <2>1 DEF Job
  <2> QED
    BY <1>1, <2>1, <2>2
<1> QED
  BY <1>4, <1>5, <1>6 DEF JobMailInv

\* A step that leaves the jobs and the mailbox alone keeps what the messages say of them.
LEMMA JobMailStay ==
  ASSUME JobMailInv, mailbox' = mailbox, UNCHANGED <<job, times>>
  PROVE  JobMailInv'
<1>1. Box' = Box
  BY DEF Box
<1>2. \A k \in Box : StateOf(mailbox[k].type)' = StateOf(mailbox[k].type)
  BY DEF StateOf
<1> QED
  BY <1>1, <1>2 DEF JobMailInv

-----------------------------------------------------------------------------
(* The tasks, when no task is submitted or completed *)

\* A put that is not that of a task.
LEMMA SendingPut ==
  ASSUME Types, MailInv, NEW m, PutStep(m), NEW w,
         ~(m.type = "JOB_SUBMITTED" /\ m.from = w), pc'[w] = "sent" <=> pc[w] = "sent"
  PROVE  Sending(w)' <=> Sending(w)
<1> DEFINE n == Len(mailbox)
<1>1. /\ n \in Nat /\ Box = 1..n /\ Box' = 1..n+1
      /\ \A k \in 1..n : mailbox'[k] = mailbox[k] /\ k \in 1..n+1 /\ (Waits(k)' <=> Waits(k))
      /\ mailbox'[n + 1] = m
      /\ \A k \in 1..n+1 : k \in 1..n \/ k = n + 1
  BY PutFacts
<1> HIDE DEF n
<1> QED
  BY <1>1 DEF Sending

\* Taking a delivered message ends no put.
LEMMA SendingHandle ==
  ASSUME Types, MailInv, HandleStep, NEW w, pc'[w] = pc[w]
  PROVE  Sending(w)' <=> Sending(w)
<1> DEFINE n == Len(mailbox)
<1>1. /\ n \in Nat /\ Box = 1..n /\ Box' = 1..n-1
      /\ \A k \in 1..n-1 : mailbox'[k] = mailbox[k + 1] /\ k + 1 \in 1..n /\ Waits(k + 1) /\ Waits(k)'
      /\ \A k \in 1..n : k = 1 \/ (k - 1 \in 1..n-1 /\ mailbox'[k - 1] = mailbox[k] /\ Waits(k - 1)' /\ Waits(k))
      /\ ~Waits(1)
  BY HandleFacts
<1> HIDE DEF n
<1>2. ASSUME Sending(w)' PROVE Sending(w)
  BY <1>1, <1>2 DEF Sending
<1>3. ASSUME Sending(w) PROVE Sending(w)'
  <2>1. CASE pc[w] = "sent"
    BY <2>1 DEF Sending
  <2>2. CASE \E k \in Box : Waits(k) /\ mailbox[k].type = "JOB_SUBMITTED" /\ mailbox[k].from = w
    <3>1. PICK k \in Box : Waits(k) /\ mailbox[k].type = "JOB_SUBMITTED" /\ mailbox[k].from = w
      BY <2>2
    <3>2. k - 1 \in Box' /\ mailbox'[k - 1] = mailbox[k] /\ Waits(k - 1)'
      BY <1>1, <3>1
    <3> QED
      BY <3>1, <3>2 DEF Sending
  <2> QED
    BY <1>3, <2>1, <2>2 DEF Sending
<1> QED
  BY <1>2, <1>3

\* Nor does a step that leaves the mailbox and the places after a put alone.
LEMMA SendingStay ==
  ASSUME StayStep, NEW w, pc'[w] = "sent" <=> pc[w] = "sent"
  PROVE  Sending(w)' <=> Sending(w)
BY StayFacts DEF Sending

\* A submitter that is neither blocked nor just back puts nothing.
LEMMA NotSending ==
  ASSUME SenderInv, NEW w \in Workflow, pc[w] \notin {"sent", "blocked"}
  PROVE  ~Sending(w)
BY DEF Sending, SenderInv, Submitter

\* Nothing happens to the tasks, except that jobs which are not completed go on.
KeepsTasks ==
  /\ UNCHANGED <<ready, submitted, nb_parent_completed>>
  /\ \A w \in Workflow : key'[w] = key[w] \/ ~Sending(w)
  /\ \A w \in Workflow : Sending(w)' <=> Sending(w)
  /\ \A t \in Task : /\ times'[t] = times[t]
                     /\ job'[t] = job[t] \/ (job[t] \notin {"none", "completed"} /\ job'[t] # "none")

\* The ready tasks and the submitted tasks are tasks.
LEMMA TaskSets ==
  ASSUME Types, NEW w \in Workflow
  PROVE  ready[w] \in Seq(Task) /\ Range(ready[w]) \subseteq Task /\ submitted[w] \subseteq Task
<1>1. ready[w] \in Seq(Task) /\ submitted[w] \subseteq Task
  BY DEF Types
<1> QED
  BY <1>1 DEF Range

\* A step that only lets unfinished jobs go on keeps what is known of the tasks.
LEMMA TasksKept ==
  ASSUME Types, TaskInv, DoneInv, KeepsTasks
  PROVE  TaskInv' /\ DoneInv' /\ Done' = Done
<1>1. In \in [Task -> Workflow]
  BY WorkflowAssumption
<1>2. \A t \in Task : Open(t)' <=> Open(t)
  BY <1>1 DEF KeepsTasks, Open
<1>3. Done' = Done
  BY <1>2 DEF Done, KeepsTasks
<1>4. /\ \A t \in Task : times'[t] \in {0, 1} /\ (times'[t] = 0 <=> job'[t] = "none")
      /\ \A w \in Workflow : /\ IsInjective(ready'[w])
                             /\ \A t \in Range(ready'[w]) : In[t] = w /\ times'[t] = 0
                             /\ \A t \in submitted'[w] : In[t] = w /\ times'[t] = 1
  <2>1. \A t \in Task : times'[t] \in {0, 1} /\ (times'[t] = 0 <=> job'[t] = "none")
    BY DEF TaskInv, KeepsTasks
  <2>2. \A w \in Workflow : (\A t \in Range(ready[w]) : In[t] = w /\ times'[t] = 0)
                            /\ (\A t \in submitted[w] : In[t] = w /\ times'[t] = 1)
    <3>1. \A w \in Workflow : Range(ready[w]) \subseteq Task /\ submitted[w] \subseteq Task
      BY TaskSets
    <3> QED
      BY <3>1 DEF TaskInv, KeepsTasks
  <2> QED
    BY <2>1, <2>2 DEF TaskInv, KeepsTasks
<1>5. \A w \in Workflow : Sending(w)' => /\ key'[w] \in Task /\ In[key'[w]] = w
                                         /\ times'[key'[w]] = 1 /\ key'[w] \notin submitted'[w]
  BY DEF TaskInv, KeepsTasks
<1>6. TaskInv'
  BY <1>4, <1>5 DEF TaskInv
<1>7. Done \subseteq Task /\ \A t \in Done : job'[t] = "completed"
  BY DEF Done, DoneInv, KeepsTasks
<1>8. DoneInv'
  BY <1>3, <1>7 DEF DoneInv, KeepsTasks
<1> QED
  BY <1>3, <1>6, <1>8

\* Nobody is called back in this step.
LEMMA CallsKept ==
  ASSUME Types, CallInv, Done' = Done, origin_of_jobs' \subseteq origin_of_jobs,
         server = "finish" => server' = "finish" /\ Received' = Received,
         \A t \in Task : /\ times[t] = 1 => times'[t] = 1
                         /\ job[t] = "completed" => job'[t] = "completed",
         \A w \in Workflow : pc'[w] = "called" => /\ pc[w] = "called" /\ key'[w] = key[w]
                                                  /\ submitted[w] \subseteq submitted'[w]
  PROVE  CallInv'
<1>1. origin_of_jobs \subseteq Task /\ \A w \in Workflow : submitted[w] \subseteq Task
  BY TaskSets DEF Types
<1>2. \A t \in origin_of_jobs' : times'[t] = 1 /\ (t \in Done => server' = "finish" /\ Received'.about = t)
  BY <1>1 DEF CallInv
<1>3. ASSUME NEW w \in Workflow, pc'[w] = "called"
      PROVE  /\ key'[w] \in submitted'[w] /\ job'[key'[w]] = "completed"
             /\ key'[w] \in origin_of_jobs' => server' = "finish" /\ Received'.about = key'[w]
  <2>1. pc[w] = "called" /\ key'[w] = key[w] /\ key[w] \in submitted[w] /\ job[key[w]] = "completed"
    BY <1>3 DEF CallInv
  <2>2. key[w] \in origin_of_jobs => server = "finish" /\ Received.about = key[w]
    BY <2>1 DEF CallInv
  <2> QED
    BY <1>1, <1>3, <2>1, <2>2
<1> QED
  BY <1>2, <1>3 DEF CallInv

-----------------------------------------------------------------------------
(* The submitters that the server knows *)

\* A goodbye is the last word of a submitter.
LEMMA ByeIsLast ==
  ASSUME MailInv, SenderInv, NEW w, ByeFrom(w)
  PROVE  w \in Submitter /\ pc[w] \in {"blocked", "gone"}
BY DEF ByeFrom, MailInv, GoodMsg, SenderInv

\* A put keeps who is registered with the server and who has nothing left to submit.
LEMMA RegPut ==
  ASSUME Types, MailInv, SenderInv, RegInv, NEW m, PutStep(m), UNCHANGED <<submitters, origin_of_jobs>>,
         \/ m.from \notin Submitter /\ pc' = pc
         \/ m.from \in Submitter /\ pc[m.from] \in {"hello", "run"} /\ pc' = [pc EXCEPT ![m.from] = "blocked"],
         m.type = "JOB_SUBMITTED" => pc[m.from] = "run" /\ m.from \in Submitter,
         \A w \in Workflow : (ready'[w] = ready[w] /\ submitted'[w] = submitted[w])
                             \/ (w = m.from /\ m.type # "SUBMITTER_BYE"),
         m.type = "SUBMITTER_BYE" /\ m.from \in Workflow => ready'[m.from] = <<>> /\ submitted'[m.from] = {}
  PROVE  RegInv'
<1> DEFINE n == Len(mailbox)
<1>1. /\ n \in Nat /\ Box = 1..n /\ Box' = 1..n+1
      /\ \A k \in 1..n : mailbox'[k] = mailbox[k] /\ k \in 1..n+1
      /\ mailbox'[n + 1] = m
      /\ \A k \in 1..n+1 : k \in 1..n \/ k = n + 1
  BY PutFacts
<1>2. /\ \A s \in Submitter : s # m.from => pc'[s] = pc[s]
      /\ m.from \in Submitter => pc'[m.from] = "blocked"
  BY DEF Types
<1> HIDE DEF n
<1>3. \A w, k : HelloBefore(w, k) => HelloBefore(w, k)'
  BY <1>1 DEF HelloBefore
<1>4. \A w : HelloFrom(w) => HelloFrom(w)' /\ \A k : k = n + 1 => HelloBefore(w, k)'
  BY <1>1 DEF HelloFrom, HelloBefore
<1>5. \A w : ByeFrom(w)' => ByeFrom(w) \/ (m.type = "SUBMITTER_BYE" /\ m.from = w)
  BY <1>1 DEF ByeFrom
<1>6. \A t \in origin_of_jobs' : In[t] \in submitters'
  BY DEF RegInv
<1>7. \A k \in Box' : mailbox'[k].type = "JOB_SUBMITTED" =>
        mailbox'[k].from \in submitters' \/ HelloBefore(mailbox[k].from, k)'
  <2> TAKE k \in Box'
  <2>1. CASE k \in 1..n
    BY <1>1, <1>3, <2>1 DEF RegInv
  <2>2. CASE k = n + 1
    BY <1>1, <1>4, <2>2 DEF RegInv, Active
  <2> QED
    BY <1>1, <2>1, <2>2
<1>8. \A w \in Submitter : pc'[w] \in Active => w \in submitters' \/ HelloFrom(w)'
  BY <1>2, <1>4 DEF RegInv, Active
<1>9. ASSUME NEW w \in Workflow, pc'[w] = "gone" \/ ByeFrom(w)' PROVE ready'[w] = <<>> /\ submitted'[w] = {}
  <2>1. w \in Submitter
    BY DEF Submitter
  <2>2. CASE m.type = "SUBMITTER_BYE" /\ m.from = w
    BY <2>2
  <2>3. CASE ~(m.type = "SUBMITTER_BYE" /\ m.from = w)
    <3>1. pc[w] = "gone" \/ ByeFrom(w)
      BY <1>2, <1>5, <1>9, <2>1, <2>3
    <3>2. pc[w] \in {"blocked", "gone"}
      BY <3>1, ByeIsLast
    <3>3. w # m.from
      BY <2>1, <3>2
    <3> QED
      BY <3>1, <3>3 DEF RegInv
  <2> QED
    BY <2>2, <2>3
<1> QED
  BY <1>6, <1>7, <1>8, <1>9 DEF RegInv

\* So does a step that leaves the mailbox alone and lets nobody leave.
LEMMA RegStay ==
  ASSUME Types, MailInv, SenderInv, RegInv, StayStep, UNCHANGED <<submitters, origin_of_jobs>>,
         \A s \in Submitter : /\ pc'[s] \in Active => pc[s] \in Active
                              /\ pc'[s] = "gone" => pc[s] = "gone",
         \A w \in Workflow : (ready'[w] = ready[w] /\ submitted'[w] = submitted[w])
                             \/ pc[w] \notin {"blocked", "gone"}
  PROVE  RegInv'
<1>1. Box' = Box /\ mailbox' = mailbox
  BY StayFacts
<1>2. \A w : (HelloFrom(w)' <=> HelloFrom(w)) /\ (ByeFrom(w)' <=> ByeFrom(w))
             /\ \A k : HelloBefore(w, k)' <=> HelloBefore(w, k)
  BY <1>1 DEF HelloFrom, ByeFrom, HelloBefore
<1>3. \A k \in Box' : mailbox'[k].type = "JOB_SUBMITTED" =>
        mailbox'[k].from \in submitters' \/ HelloBefore(mailbox[k].from, k)'
  BY <1>1, <1>2 DEF RegInv
<1>4. ASSUME NEW w \in Workflow, pc'[w] = "gone" \/ ByeFrom(w)' PROVE ready'[w] = <<>> /\ submitted'[w] = {}
  <2>1. pc[w] = "gone" \/ ByeFrom(w)
    BY <1>2, <1>4 DEF Submitter
  <2>2. pc[w] \in {"blocked", "gone"}
    BY <2>1, ByeIsLast
  <2> QED
    BY <2>1, <2>2 DEF RegInv
<1>5. \A w \in Submitter : pc'[w] \in Active => w \in submitters' \/ HelloFrom(w)'
  BY <1>2 DEF RegInv
<1>6. \A t \in origin_of_jobs' : In[t] \in submitters'
  BY DEF RegInv
<1> QED
  BY <1>3, <1>4, <1>5, <1>6 DEF RegInv

\* The head of the mailbox is handled; the submitters known afterwards are given.
LEMMA RegHandle ==
  ASSUME Types, MailInv, SenderInv, RegInv, HandleStep, UNCHANGED <<pc, ready, submitted>>,
         Received.type = "SUBMITTER_HELLO" => Received.from \in submitters',
         \A s \in submitters : s \in submitters' \/ (Received.type = "SUBMITTER_BYE" /\ s = Received.from),
         \A t \in origin_of_jobs' : In[t] \in submitters'
  PROVE  RegInv'
<1> DEFINE n == Len(mailbox)
<1>1. /\ n \in Nat /\ Box = 1..n /\ Box' = 1..n-1
      /\ \A k \in 1..n-1 : mailbox'[k] = mailbox[k + 1] /\ k + 1 \in 1..n /\ 1 < k + 1
      /\ \A k \in 1..n : k = 1 \/ (k - 1 \in 1..n-1 /\ mailbox'[k - 1] = mailbox[k])
      /\ Received = mailbox[1] /\ ~Waits(1) /\ 1 \in 1..n
  BY HandleFacts
<1> HIDE DEF n
<1>2. ASSUME NEW w, NEW k \in 1..n-1, HelloBefore(w, k + 1), w \notin submitters' PROVE HelloBefore(w, k)'
  <2>1. PICK l \in Box : l < k + 1 /\ mailbox[l].type = "SUBMITTER_HELLO" /\ mailbox[l].from = w
    BY <1>2 DEF HelloBefore
  <2>2. l # 1
    BY <1>1, <1>2, <2>1
  <2>3. l - 1 \in Box' /\ mailbox'[l - 1] = mailbox[l] /\ l - 1 < k
    BY <1>1, <2>1, <2>2
  <2> QED
    BY <2>1, <2>3 DEF HelloBefore
<1>3. ASSUME NEW w, HelloFrom(w), w \notin submitters' PROVE HelloFrom(w)'
  <2>1. PICK l \in Box : mailbox[l].type = "SUBMITTER_HELLO" /\ mailbox[l].from = w
    BY <1>3 DEF HelloFrom
  <2>2. l # 1
    BY <1>1, <1>3, <2>1
  <2>3. l - 1 \in Box' /\ mailbox'[l - 1] = mailbox[l]
    BY <1>1, <2>1, <2>2
  <2> QED
    BY <2>1, <2>3 DEF HelloFrom
<1>4. ASSUME NEW w, ByeFrom(w)' PROVE ByeFrom(w)
  <2>1. PICK l \in Box' : mailbox'[l].type = "SUBMITTER_BYE" /\ mailbox'[l].from = w
    BY <1>4 DEF ByeFrom
  <2>2. l + 1 \in Box /\ mailbox[l + 1] = mailbox'[l]
    BY <1>1
  <2> QED
    BY <2>1, <2>2 DEF ByeFrom
<1>5. Received.type = "SUBMITTER_BYE" => /\ pc[Received.from] = "gone"
                                         /\ \A l \in Box : 1 < l => mailbox[l].from # Received.from
  BY <1>1 DEF SenderInv
<1>6. ASSUME NEW k \in Box', mailbox'[k].type = "JOB_SUBMITTED"
      PROVE  mailbox'[k].from \in submitters' \/ HelloBefore(mailbox[k].from, k)'
  <2>1. mailbox'[k] = mailbox[k + 1] /\ k + 1 \in Box /\ 1 < k + 1
    BY <1>1
  <2>2. mailbox[k + 1].from \in submitters \/ HelloBefore(mailbox[k + 1].from, k + 1)
    BY <1>6, <2>1 DEF RegInv
  <2>3. mailbox[k + 1].from \in submitters => mailbox[k + 1].from \in submitters'
    BY <1>5, <2>1
  <2>4. \A w : w = mailbox'[k].from => (HelloBefore(w, k)' <=> HelloBefore(mailbox[k].from, k)')
    BY DEF HelloBefore
  <2> QED
    BY <1>1, <1>2, <2>1, <2>2, <2>3, <2>4
<1>7. \A w \in Submitter : pc'[w] \in Active => w \in submitters' \/ HelloFrom(w)'
  BY <1>3, <1>5 DEF RegInv, Active
<1>8. \A w \in Workflow : (pc'[w] = "gone" \/ ByeFrom(w)') => ready'[w] = <<>> /\ submitted'[w] = {}
  BY <1>4 DEF RegInv
<1> QED
  BY <1>6, <1>7, <1>8 DEF RegInv

-----------------------------------------------------------------------------
(* The counters *)

\* The sets that are counted are finite.
LEMMA CountedSets ==
  /\ IsFiniteSet(Job) /\ IsFiniteSet(Submitter) /\ IsFiniteSet(Task) /\ IsFiniteSet(Workflow)
  /\ IsFiniteSet(InProgress) /\ InProgress \subseteq Job
  /\ IsFiniteSet(Finished) /\ Finished \subseteq Submitter /\ IsFiniteSet(Finished \cap Workflow)
<1>1. IsFiniteSet(Job)
  BY WorkflowAssumption, FS_Union DEF Job
<1>2. IsFiniteSet(Submitter)
  BY WorkflowAssumption, FS_Union, FS_Singleton DEF Submitter
<1>3. InProgress \subseteq Job /\ Finished \subseteq Submitter /\ Finished \cap Workflow \subseteq Finished
  BY DEF InProgress, Finished
<1>4. IsFiniteSet(InProgress) /\ IsFiniteSet(Finished)
  BY <1>1, <1>2, <1>3, FS_Subset
<1>5. IsFiniteSet(Finished \cap Workflow)
  BY <1>3, <1>4, FS_Subset
<1> QED
  BY <1>1, <1>2, <1>3, <1>4, <1>5, WorkflowAssumption

\* The jobs in progress after a put.
LEMMA ProgressPut ==
  ASSUME Types, MailInv, NEW m, PutStep(m),
         \A j \in Job : (job'[j] = "running" \/ EndOf(m, j)) <=> job[j] = "running"
  PROVE  InProgress' = InProgress
<1> DEFINE n == Len(mailbox)
<1>1. /\ n \in Nat /\ Box = 1..n /\ Box' = 1..n+1
      /\ \A k \in 1..n : mailbox'[k] = mailbox[k] /\ k \in 1..n+1
      /\ mailbox'[n + 1] = m /\ n + 1 \in 1..n+1
      /\ \A k \in 1..n+1 : k \in 1..n \/ k = n + 1
  BY PutFacts
<1> HIDE DEF n
<1>2. \A j : (\E k \in Box' : EndOf(mailbox'[k], j)) <=> (\E k \in Box : EndOf(mailbox[k], j)) \/ EndOf(m, j)
  BY <1>1
<1>3. \A j : (\E k \in Box : EndOf(mailbox[k], j))' <=> (\E k \in Box' : EndOf(mailbox'[k], j))
  BY DEF EndOf
<1> QED
  BY <1>2, <1>3 DEF InProgress

\* ... and after the handling of a message.
LEMMA ProgressHandle ==
  ASSUME Types, MailInv, JobMailInv, HandleStep, NEW j \in Job
  PROVE  /\ Received.type \in JobMsgType /\ Received.about = j =>
              /\ j \in InProgress <=> EndOf(Received, j) \/ job[j] = "running"
              /\ j \in InProgress' <=> job'[j] = "running"
         /\ ~(Received.type \in JobMsgType /\ Received.about = j) /\ (job'[j] = "running" <=> job[j] = "running") =>
              (j \in InProgress' <=> j \in InProgress)
<1> DEFINE n == Len(mailbox)
           Later == \E k \in Box' : EndOf(mailbox'[k], j)
<1>1. /\ n \in Nat /\ Box = 1..n /\ Box' = 1..n-1
      /\ \A k \in 1..n-1 : mailbox'[k] = mailbox[k + 1] /\ k + 1 \in 1..n /\ 1 < k + 1
      /\ \A k \in 1..n : k = 1 \/ (k - 1 \in 1..n-1 /\ mailbox'[k - 1] = mailbox[k])
      /\ Received = mailbox[1] /\ 1 \in 1..n
  BY HandleFacts
<1>2. (\E k \in Box : EndOf(mailbox[k], j)) <=> Later \/ EndOf(Received, j)
  <2>1. ASSUME NEW k \in Box, EndOf(mailbox[k], j) PROVE Later \/ EndOf(Received, j)
    BY <1>1, <2>1
  <2>2. ASSUME NEW k \in Box', EndOf(mailbox'[k], j) PROVE \E l \in Box : EndOf(mailbox[l], j)
    BY <1>1, <2>2
  <2> QED
    BY <1>1, <2>1, <2>2
<1>3. j \in InProgress' <=> job'[j] = "running" \/ Later
  <2>1. (\E k \in Box : EndOf(mailbox[k], j))' <=> Later
    BY DEF EndOf
  <2> QED
    BY <2>1 DEF InProgress
<1>4. j \in InProgress <=> job[j] = "running" \/ Later \/ EndOf(Received, j)
  BY <1>2 DEF InProgress
<1>5. ASSUME Received.type \in JobMsgType, Received.about = j PROVE ~Later
  <2> SUFFICES ASSUME NEW k \in Box', EndOf(mailbox'[k], j) PROVE FALSE
    OBVIOUS
  <2>1. k + 1 \in Box /\ 1 \in Box /\ 1 < k + 1 /\ mailbox[k + 1].type \in JobMsgType /\ mailbox[k + 1].about = j
    BY <1>1 DEF EndOf, JobMsgType
  <2> QED
    BY <1>1, <1>5, <2>1 DEF JobMailInv
<1>6. EndOf(Received, j) => Received.type \in JobMsgType /\ Received.about = j
  BY DEF EndOf, JobMsgType
<1> HIDE DEF Later, n
<1> QED
  BY <1>3, <1>4, <1>5, <1>6

\* The submitters that have left and are counted.
LEMMA FinishedPut ==
  ASSUME Types, MailInv, NEW m, PutStep(m),
         \A s \in Submitter : (pc'[s] = "gone" <=> pc[s] = "gone") /\ (pc[s] = "gone" => s # m.from)
  PROVE  Finished' = Finished
<1> DEFINE n == Len(mailbox)
<1>1. /\ n \in Nat /\ Box = 1..n /\ Box' = 1..n+1
      /\ \A k \in 1..n : mailbox'[k] = mailbox[k] /\ k \in 1..n+1
      /\ mailbox'[n + 1] = m /\ n + 1 \in 1..n+1
      /\ \A k \in 1..n+1 : k \in 1..n \/ k = n + 1
  BY PutFacts
<1> HIDE DEF n
<1>2. \A s : s # m.from => (ByeFrom(s)' <=> ByeFrom(s))
  BY <1>1 DEF ByeFrom
<1> QED
  BY <1>2 DEF Finished

\* Only server_on_submitter_bye adds to the submitters whose goodbye is handled.
LEMMA FinishedHandle ==
  ASSUME Types, MailInv, SenderInv, HandleStep, pc' = pc
  PROVE  /\ Received.type # "SUBMITTER_BYE" => Finished' = Finished
         /\ Received.type = "SUBMITTER_BYE" => /\ Finished' = Finished \cup {Received.from}
                                               /\ Received.from \in Submitter /\ Received.from \notin Finished
<1> DEFINE n == Len(mailbox)
<1>1. /\ n \in Nat /\ Box = 1..n /\ Box' = 1..n-1
      /\ \A k \in 1..n-1 : mailbox'[k] = mailbox[k + 1] /\ k + 1 \in 1..n /\ 1 < k + 1
      /\ \A k \in 1..n : k = 1 \/ (k - 1 \in 1..n-1 /\ mailbox'[k - 1] = mailbox[k])
      /\ Received = mailbox[1] /\ ~Waits(1) /\ 1 \in 1..n
  BY HandleFacts
<1> HIDE DEF n
<1>2. \A s : ByeFrom(s)' => ByeFrom(s)
  BY <1>1 DEF ByeFrom
<1>3. ASSUME NEW s, ByeFrom(s), ~ByeFrom(s)' PROVE Received.type = "SUBMITTER_BYE" /\ Received.from = s
  <2>1. PICK l \in Box : mailbox[l].type = "SUBMITTER_BYE" /\ mailbox[l].from = s
    BY <1>3 DEF ByeFrom
  <2>2. l = 1
    BY <1>1, <1>3, <2>1 DEF ByeFrom
  <2> QED
    BY <1>1, <2>1, <2>2
<1>4. CASE Received.type # "SUBMITTER_BYE"
  BY <1>2, <1>3, <1>4 DEF Finished
<1>5. CASE Received.type = "SUBMITTER_BYE"
  <2>1. Received.from \in Submitter /\ pc[Received.from] = "gone" /\ ByeFrom(Received.from)
    BY <1>1, <1>5 DEF MailInv, GoodMsg, SenderInv, ByeFrom
  <2>2. \A s : s = Received.from => ~ByeFrom(s)'
    BY <1>1, <1>5 DEF SenderInv, ByeFrom
  <2> QED
    BY <1>2, <1>3, <1>5, <2>1, <2>2 DEF Finished
<1> QED
  BY <1>4, <1>5

\* A step that leaves the mailbox alone handles no goodbye.
LEMMA FinishedStay ==
  ASSUME StayStep, \A s \in Submitter : pc'[s] = "gone" <=> pc[s] = "gone"
  PROVE  Finished' = Finished
BY StayFacts DEF Finished, ByeFrom

\* A step that leaves the mailbox and the jobs alone starts and ends none of them.
LEMMA ProgressStay ==
  ASSUME StayStep, job' = job PROVE InProgress' = InProgress
BY StayFacts DEF InProgress, EndOf

\* The counters that a step leaves alone.
LEMMA CountsKept ==
  ASSUME CountInv, UNCHANGED <<current_nb, submitted, nb_running, goodbyes>>,
         InProgress' = InProgress, Finished' = Finished
  PROVE  CountInv'
BY DEF CountInv, goodbyes

-----------------------------------------------------------------------------
(* The steps *)

\* A submitter says hello or goodbye.
LEMMA OtherPut ==
  ASSUME Inv, NEW m, PutStep(m), m.type \in {"SUBMITTER_HELLO", "SUBMITTER_BYE"}, m.from \in Submitter,
         pc[m.from] \in {"hello", "run"}, pc' = [pc EXCEPT ![m.from] = "blocked"],
         UNCHANGED <<taskVars, job, times, serverVars, ignore_beyond>>,
         m.type = "SUBMITTER_BYE" /\ m.from \in Workflow => ready[m.from] = <<>> /\ submitted[m.from] = {}
  PROVE  Inv' /\ Done' = Done
<1> USE DEF Inv, taskVars, serverVars, counters, goodbyes
<1>1. server' = server /\ mailbox' \in Seq(Message) /\ (Working => Received' = Received)
  BY PutFacts DEF PutStep
<1>2. m.type \notin JobMsgType /\ m.type # "JOB_SUBMITTED"
  BY DEF JobMsgType
<1>3. /\ \A s \in Submitter : s = m.from \/ pc'[s] = pc[s]
      /\ pc'[m.from] = "blocked" /\ pc' \in [Submitter -> Places]
  BY DEF Types, Places
<1>4. Types'
  BY <1>1, <1>3 DEF Types
<1>5. MailInv' /\ SenderInv' /\ JobMailInv'
  BY <1>2, MailPut, SenderPut, JobMailOther
<1>6. \A w \in Workflow : Sending(w)' <=> Sending(w)
  BY <1>2, <1>3, SendingPut DEF Submitter
<1>7. TaskInv' /\ DoneInv' /\ Done' = Done
  BY <1>6, TasksKept DEF KeepsTasks
<1>8. CallInv'
  BY <1>1, <1>3, <1>7, CallsKept DEF Working, Submitter
<1>9. RegInv'
  BY <1>2, RegPut
<1>10. InProgress' = InProgress
  BY ProgressPut DEF EndOf
<1>11. Finished' = Finished
  BY <1>3, FinishedPut
<1> QED
  BY <1>4, <1>5, <1>7, <1>8, <1>9, <1>10, <1>11, CountsKept

\* A message about a job that is not a submission by a workflow's submitter.
LEMMA JobPut ==
  ASSUME Inv, NEW m, PutStep(m), m.type \in JobMsgType, NEW j \in Job, m.about = j,
         m.type = "JOB_SUBMITTED" => m.from = "ordinary",
         \/ m.from \notin Submitter /\ pc' = pc
         \/ m.from \in Submitter /\ pc[m.from] = "run" /\ pc' = [pc EXCEPT ![m.from] = "blocked"],
         m.type = "JOB_SUBMITTED" => m.from \in Submitter,
         \A k \in Box : mailbox[k].type \in JobMsgType => mailbox[k].about # j,
         job' = [job EXCEPT ![j] = StateOf(m.type)],
         job[j] \notin {"none", "completed"}, EndOf(m, j) <=> job[j] = "running",
         times' \in [Job -> Nat], times'[j] # 0, \A i \in Job : times'[i] = times[i] \/ (i = j /\ i \in Plain),
         UNCHANGED <<taskVars, serverVars, ignore_beyond>>
  PROVE  Inv' /\ Done' = Done
<1> USE DEF Inv, taskVars, serverVars, counters, goodbyes
<1>1. server' = server /\ mailbox' \in Seq(Message) /\ (Working => Received' = Received)
  BY PutFacts DEF PutStep
<1>2. StateOf(m.type) \in States \ {"none", "running"}
  BY DEF JobMsgType, StateOf, States
<1>3. m.type \notin {"SUBMITTER_BYE", "SUBMITTER_HELLO"}
  BY DEF JobMsgType
<1>4. /\ \A s \in Submitter : pc'[s] = pc[s] \/ (s = m.from /\ pc[s] = "run" /\ pc'[s] = "blocked")
      /\ pc' \in [Submitter -> Places]
  BY DEF Types, Places
<1>5. /\ job' \in [Job -> States] /\ job'[j] = StateOf(m.type)
      /\ \A i \in Job : i = j \/ job'[i] = job[i]
  BY <1>2 DEF Types
<1>6. Types'
  BY <1>1, <1>4, <1>5 DEF Types
<1>7. MailInv' /\ SenderInv'
  BY MailPut, SenderPut, WorkflowAssumption
<1>8. JobMailInv'
  BY JobMailPut DEF Job
<1>9. \A w \in Workflow : ~(m.type = "JOB_SUBMITTED" /\ m.from = w) /\ (pc'[w] = "sent" <=> pc[w] = "sent")
  BY <1>4, WorkflowAssumption DEF Submitter
<1>10. \A w \in Workflow : Sending(w)' <=> Sending(w)
  BY <1>9, SendingPut
<1>11. \A t \in Task : t \in Job /\ t \notin Plain
  BY WorkflowAssumption DEF Job
<1>12. KeepsTasks
  BY <1>2, <1>5, <1>10, <1>11 DEF KeepsTasks
<1>13. TaskInv' /\ DoneInv' /\ Done' = Done
  BY <1>12, TasksKept
<1>14. CallInv'
  BY <1>1, <1>4, <1>5, <1>11, <1>13, CallsKept DEF Working, Submitter
<1>15. RegInv'
  BY <1>3, RegPut
<1>16. InProgress' = InProgress
  <2>1. \A i \in Job : (job'[i] = "running" \/ EndOf(m, i)) <=> job[i] = "running"
    BY <1>2, <1>5 DEF EndOf
  <2> QED
    BY <2>1, ProgressPut
<1>17. Finished' = Finished
  BY <1>4, FinishedPut
<1> QED
  BY <1>6, <1>7, <1>8, <1>13, <1>14, <1>15, <1>16, <1>17, CountsKept

\* A submitter or the server moves on; nothing else changes.
LEMMA QuietStay ==
  ASSUME Inv, StayStep, UNCHANGED <<taskVars, job, times, serverVars, ignore_beyond>>,
         pc' \in [Submitter -> Places],
         \A s \in Submitter : pc'[s] = pc[s] \/ (pc[s] \in {"asleep", "run"} /\ pc'[s] \in {"run", "waiting"}),
         server' \in {"receive", "handle", "callback", "finish", "done"},
         server' \in {"callback", "finish"} => Received.type = "JOB_COMPLETED" /\ Received.about \in origin_of_jobs,
         server = "finish" => server' = "finish"
  PROVE  Inv' /\ Done' = Done
<1> USE DEF Inv, taskVars, serverVars, counters, goodbyes
<1>1. mailbox' = mailbox /\ Received' = Received
  BY StayFacts
<1>2. Types'
  BY <1>1 DEF Types
<1>3. MailInv' /\ SenderInv' /\ JobMailInv'
  BY <1>1, MailStay, SenderStay, JobMailStay
<1>4. \A w \in Workflow : Sending(w)' <=> Sending(w)
  BY SendingStay DEF Submitter
<1>5. TaskInv' /\ DoneInv' /\ Done' = Done
  BY <1>4, TasksKept DEF KeepsTasks
<1>6. CallInv'
  BY <1>1, <1>5, CallsKept DEF Submitter
<1>7. RegInv'
  BY RegStay DEF Active
<1>8. InProgress' = InProgress
  BY ProgressStay
<1>9. Finished' = Finished
  BY FinishedStay
<1> QED
  BY <1>2, <1>3, <1>5, <1>6, <1>7, <1>8, <1>9, CountsKept

\* The names of the actors are not those of the workflows.
LEMMA Names ==
  /\ "ordinary" \in Submitter /\ Workflow \subseteq Submitter /\ "ordinary" \notin Workflow
  /\ \A w \in Workflow : w \notin {"sched", "job", "killer"}
  /\ "sched" \notin Submitter /\ "job" \notin Submitter /\ "killer" \notin Submitter
  /\ \A t \in Task : In[t] \in Workflow /\ t \in Job /\ t \notin Plain
  /\ \A j \in Plain : j \in Job /\ j \notin Task
BY WorkflowAssumption DEF Submitter, Job

\* The submitters' greetings.
LEMMA HelloInv == ASSUME Inv, NEW s \in Submitter, Hello(s) PROVE Inv' /\ Done' = Done
<1> DEFINE m == Msg("SUBMITTER_HELLO", s, s)
<1>1. m \in Message /\ GoodMsg(m) /\ m.type = "SUBMITTER_HELLO" /\ m.from = s
  BY DEF Msg, Message, MsgType, JobMsgType, GoodMsg
<1>2. PutStep(m)
  BY <1>1 DEF PutStep, Hello, Moves, Put
<1> HIDE DEF m
<1> QED
  BY <1>1, <1>2, OtherPut DEF Hello, Moves

\* Bye: a workflow's submitter has nothing left to submit or to wait for.
LEMMA ByeInv == ASSUME Inv, NEW w \in Workflow, Bye(w) PROVE Inv' /\ Done' = Done
<1> DEFINE m == Msg("SUBMITTER_BYE", w, w)
<1>1. m \in Message /\ GoodMsg(m) /\ m.type = "SUBMITTER_BYE" /\ m.from = w /\ w \in Submitter
  BY DEF Msg, Message, MsgType, JobMsgType, GoodMsg, Submitter
<1>2. PutStep(m)
  BY <1>1 DEF PutStep, Bye, Moves, Put
<1> HIDE DEF m
<1> QED
  BY <1>1, <1>2, OtherPut DEF Bye, Moves, NothingLeft

\* PlainBye: the ordinary workload is submitted.
LEMMA PlainByeInv == ASSUME Inv, PlainBye PROVE Inv' /\ Done' = Done
<1> DEFINE m == Msg("SUBMITTER_BYE", "ordinary", "ordinary")
<1>1. m \in Message /\ GoodMsg(m) /\ m.type = "SUBMITTER_BYE" /\ m.from = "ordinary" /\ m.from \in Submitter
  BY DEF Msg, Message, MsgType, JobMsgType, GoodMsg, Submitter
<1>2. PutStep(m)
  BY <1>1 DEF PutStep, PlainBye, Moves, Put
<1> HIDE DEF m
<1> QED
  BY <1>1, <1>2, OtherPut, Names DEF PlainBye, Moves

\* The submission of a job of the ordinary workload.
LEMMA PlainSubmitInv == ASSUME Inv, NEW j \in Plain, PlainSubmit(j) PROVE Inv' /\ Done' = Done
<1> DEFINE m == Msg("JOB_SUBMITTED", "ordinary", j)
<1>1. m \in Message /\ m.type = "JOB_SUBMITTED" /\ m.from = "ordinary" /\ m.from \in Submitter /\ m.about = j
  BY Names DEF Msg, Message, MsgType, JobMsgType
<1>2. GoodMsg(m) /\ m.type \in JobMsgType /\ StateOf(m.type) = "created" /\ ~EndOf(m, j)
  BY <1>1 DEF GoodMsg, JobMsgType, StateOf, EndOf
<1>3. PutStep(m)
  BY <1>1, <1>2 DEF PutStep, PlainSubmit, Moves, Put
<1> HIDE DEF m
<1>4. /\ job[j] = "created" /\ j \in Job
      /\ \A k \in Box : mailbox[k].type \in JobMsgType => mailbox[k].about # j
  BY Names DEF Inv, JobMailInv, PlainSubmit
<1>5. job' = [job EXCEPT ![j] = StateOf(m.type)]
  BY <1>2, <1>4 DEF PlainSubmit, Inv, Types
<1>6. times' \in [Job -> Nat] /\ times'[j] # 0 /\ \A i \in Job : times'[i] = times[i] \/ (i = j /\ i \in Plain)
  <2>1. times \in [Job -> Nat] /\ times' = [times EXCEPT ![j] = 1]
    BY DEF PlainSubmit, Inv, Types
  <2> QED
    BY <1>4, <2>1
<1> QED
  BY <1>1, <1>2, <1>3, <1>4, <1>5, <1>6, JobPut DEF PlainSubmit, Moves

\* A job that is submitted or running has been submitted, and no message is about it.
LEMMA JobIsQuiet ==
  ASSUME Inv, NEW j \in Job, job[j] \in {"submitted", "running"}
  PROVE  /\ \A k \in Box : mailbox[k].type \in JobMsgType => mailbox[k].about # j
         /\ times[j] # 0 /\ times \in [Job -> Nat]
<1>1. \A k \in Box : mailbox[k].type \in JobMsgType => StateOf(mailbox[k].type) \notin {"submitted", "running"}
  BY DEF StateOf, JobMsgType
<1>2. times[j] # 0
  BY DEF Inv, JobMailInv, TaskInv, Job
<1>3. \A k \in Box : mailbox[k].type \in JobMsgType => job[mailbox[k].about] = StateOf(mailbox[k].type)
  BY DEF Inv, JobMailInv
<1>4. \A k \in Box : mailbox[k].type \in JobMsgType => mailbox[k].about # j
  BY <1>1, <1>3
<1>5. times \in [Job -> Nat]
  BY DEF Inv, Types
<1> QED
  BY <1>2, <1>4, <1>5

\* A step of a job or of the scheduler.
LEMMA JobStepInv == ASSUME Inv, NEW j \in Job, JobStep(j) PROVE Inv' /\ Done' = Done
<1>1. ASSUME NEW type \in {"SCHED_EXECUTE_JOB", "SCHED_REJECT_JOB"}, Decide(j, type) PROVE Inv' /\ Done' = Done
  <2> DEFINE m == Msg(type, "sched", j)
  <2>1. m \in Message /\ m.type = type /\ m.from \notin Submitter /\ m.about = j
    BY Names DEF Msg, Message, MsgType, JobMsgType
  <2>2. GoodMsg(m) /\ m.type \in JobMsgType /\ StateOf(m.type) = "decided" /\ ~EndOf(m, j) /\ m.type # "JOB_SUBMITTED"
    BY <2>1 DEF GoodMsg, JobMsgType, StateOf, EndOf
  <2>3. PutStep(m)
    BY <1>1, <2>1, <2>2 DEF PutStep, Decide, Put, jobUnchanged
  <2> HIDE DEF m
  <2> QED
    BY <1>1, <2>1, <2>2, <2>3, JobIsQuiet, JobPut DEF Decide, jobUnchanged
<1>2. ASSUME JobEnds(j) PROVE Inv' /\ Done' = Done
  <2> DEFINE m == Msg("JOB_COMPLETED", "job", j)
  <2>1. m \in Message /\ m.type = "JOB_COMPLETED" /\ m.from \notin Submitter /\ m.about = j
    BY Names DEF Msg, Message, MsgType, JobMsgType
  <2>2. GoodMsg(m) /\ m.type \in JobMsgType /\ StateOf(m.type) = "completed" /\ EndOf(m, j) /\ m.type # "JOB_SUBMITTED"
    BY <2>1 DEF GoodMsg, JobMsgType, StateOf, EndOf
  <2>3. PutStep(m)
    BY <1>2, <2>1, <2>2 DEF PutStep, JobEnds, Put, jobUnchanged
  <2> HIDE DEF m
  <2> QED
    BY <1>2, <2>1, <2>2, <2>3, JobIsQuiet, JobPut DEF JobEnds, jobUnchanged
<1>3. ASSUME JobIsKilled(j) PROVE Inv' /\ Done' = Done
  <2> DEFINE m == Msg("KILLING_DONE", "killer", j)
  <2>1. m \in Message /\ m.type = "KILLING_DONE" /\ m.from \notin Submitter /\ m.about = j
    BY Names DEF Msg, Message, MsgType, JobMsgType
  <2>2. GoodMsg(m) /\ m.type \in JobMsgType /\ StateOf(m.type) = "killed" /\ EndOf(m, j) /\ m.type # "JOB_SUBMITTED"
    BY <2>1 DEF GoodMsg, JobMsgType, StateOf, EndOf
  <2>3. PutStep(m)
    BY <1>3, <2>1, <2>2 DEF PutStep, JobIsKilled, Put, jobUnchanged
  <2> HIDE DEF m
  <2> QED
    BY <1>3, <2>1, <2>2, <2>3, JobIsQuiet, JobPut DEF JobIsKilled, jobUnchanged
<1> QED
  BY <1>1, <1>2, <1>3 DEF JobStep

\* The steps that only move a submitter or the server.
LEMMA WakeUpInv == ASSUME Inv, NEW s \in Submitter, WakeUp(s) PROVE Inv' /\ Done' = Done
<1>1. StayStep
  BY DEF WakeUp, Moves, StayStep, Working
<1>2. pc' \in [Submitter -> Places] /\ pc[s] = "asleep" /\ pc'[s] = "run" /\ \A r \in Submitter : r = s \/ pc'[r] = pc[r]
  BY DEF WakeUp, Moves, Inv, Types, Places
<1> QED
  BY <1>1, <1>2, QuietStay DEF WakeUp, Moves, Inv, Types, MailInv

\* WaitForCompletion: the submitter waits for a callback.
LEMMA WaitInv == ASSUME Inv, NEW w \in Workflow, WaitForCompletion(w) PROVE Inv' /\ Done' = Done
<1>1. StayStep
  BY DEF WaitForCompletion, Moves, StayStep, Working
<1>2. pc' \in [Submitter -> Places] /\ pc[w] = "run" /\ pc'[w] = "waiting" /\ \A r \in Submitter : r = w \/ pc'[r] = pc[r]
  BY Names DEF WaitForCompletion, Moves, Inv, Types, Places
<1> QED
  BY <1>1, <1>2, QuietStay DEF WaitForCompletion, Moves, Inv, Types, MailInv

\* ServerCallsBack: the server starts to call a submitter back.
LEMMA CallsBackInv == ASSUME Inv, ServerCallsBack PROVE Inv' /\ Done' = Done
<1>1. StayStep
  BY DEF ServerCallsBack, StayStep, Working
<1> QED
  BY <1>1, QuietStay DEF ServerCallsBack, Inv, Types

\* SimulationEnds: nothing but the server's place changes.
LEMMA SimulationEndsInv == ASSUME Inv, SimulationEnds PROVE Inv' /\ Done' = Done
<1>1. StayStep
  BY DEF SimulationEnds, StayStep, Working
<1> QED
  BY <1>1, QuietStay DEF SimulationEnds, Inv, Types

\* What every handler preserves. A message about a job finds it in its state.
LEMMA HandleInvs ==
  ASSUME Inv, HandleStep, UNCHANGED <<pc, taskVars, times>>,
         \A i \in Job : job'[i] = job[i] \/ (Received.type \in JobMsgType /\ i = Received.about /\ job'[i] # "none"),
         Received.type = "JOB_COMPLETED" => job' = job
  PROVE  /\ MailInv' /\ SenderInv' /\ JobMailInv' /\ TaskInv' /\ DoneInv' /\ Done' = Done
         /\ mailbox' \in Seq(Message)
<1> USE DEF Inv, taskVars
<1>1. MailInv' /\ SenderInv' /\ JobMailInv' /\ mailbox' \in Seq(Message)
  BY MailHandle, SenderHandle, JobMailHandle, HandleFacts
<1>2. \A w \in Workflow : Sending(w)' <=> Sending(w)
  BY SendingHandle
<1>3. Received.type \in JobMsgType => Received.about \in Job /\ job[Received.about] = StateOf(Received.type)
  BY HandleFacts DEF JobMailInv, MailInv, GoodMsg, JobMsgType, Job
<1>4. Received.type \in JobMsgType \ {"JOB_COMPLETED"} => StateOf(Received.type) \notin {"none", "completed"}
  BY DEF StateOf, JobMsgType
<1>5. KeepsTasks
  BY <1>2, <1>3, <1>4 DEF KeepsTasks, Job
<1> QED
  BY <1>1, <1>5, TasksKept

\* The head of the mailbox, when a handler starts.
LEMMA HandlerFacts ==
  ASSUME Inv, Working
  PROVE  /\ 1 \in Box /\ Received = mailbox[1] /\ GoodMsg(Received) /\ ~Waits(1)
         /\ Received.type \in JobMsgType => Received.about \in Job /\ job[Received.about] = StateOf(Received.type)
         /\ Received.type = "SUBMITTER_BYE" => Received.from \in Submitter /\ pc[Received.from] = "gone"
         /\ Received.type = "SUBMITTER_HELLO" => Received.from \in Submitter
<1>1. 1 \in Box /\ Received = mailbox[1] /\ ~Waits(1)
  <2>1. mailbox \in Seq(Message) /\ mailbox # <<>>
    BY DEF Inv, Types, MailInv
  <2> QED
    BY <2>1 DEF Box, Received, Waits, Off
<1>2. GoodMsg(Received)
  BY <1>1 DEF Inv, MailInv
<1> QED
  BY <1>1, <1>2 DEF Inv, JobMailInv, SenderInv, GoodMsg, JobMsgType, Job

\* What is said of a job that the server is told of.
LEMMA ProgressFacts ==
  ASSUME Inv, HandleStep, Received.type \in JobMsgType,
         \A i \in Job : job'[i] = job[i] \/ i = Received.about
  PROVE  LET j == Received.about IN
         /\ j \in Job /\ (j \in InProgress <=> Received.type \in {"JOB_COMPLETED", "KILLING_DONE"})
         /\ job'[j] = "running"  => InProgress' = InProgress \cup {j}
         /\ job'[j] # "running" => InProgress' = InProgress \ {j}
<1> DEFINE j == Received.about
<1>1. j \in Job /\ job[j] # "running"
  BY HandlerFacts DEF HandleStep, StateOf, JobMsgType
<1>2. /\ j \in InProgress <=> Received.type \in {"JOB_COMPLETED", "KILLING_DONE"}
      /\ j \in InProgress' <=> job'[j] = "running"
  BY <1>1, ProgressHandle DEF Inv, EndOf
<1>3. \A i \in Job : i # j => (i \in InProgress' <=> i \in InProgress)
  BY ProgressHandle DEF Inv
<1>4. InProgress \subseteq Job /\ InProgress' \subseteq Job
  BY DEF InProgress
<1> HIDE DEF j
<1>5. /\ j \in Job /\ (j \in InProgress <=> Received.type \in {"JOB_COMPLETED", "KILLING_DONE"})
      /\ job'[j] = "running"  => InProgress' = InProgress \cup {j}
      /\ job'[j] # "running" => InProgress' = InProgress \ {j}
  BY <1>1, <1>2, <1>3, <1>4
<1> QED
  BY <1>5 DEF j

\* server_on_submitter_hello registers the sender.
LEMMA OnHelloInv == ASSUME Inv, server_on_submitter_hello PROVE Inv' /\ Done' = Done
<1> USE DEF Inv, taskVars, counters, goodbyes
<1>0. server = "handle" /\ HandleStep /\ Received.type = "SUBMITTER_HELLO" /\ Received.type \notin JobMsgType
  BY DEF server_on_submitter_hello, Handles, HandleStep, Working, JobMsgType
<1>1. UNCHANGED <<pc, ready, submitted, current_nb, key, nb_parent_completed, depth, times, ignore_beyond, job,
                  origin_of_jobs, nb_submitted, nb_completed, nb_running, nb_submitters_finished,
                  nb_workflow_submitters_finished>>
      /\ submitters' = submitters \cup {Received.from} /\ server' = "receive"
  BY DEF server_on_submitter_hello, Handles
<1>2. Received.from \in Submitter
  BY <1>0, HandlerFacts DEF Working
<1>3. MailInv' /\ SenderInv' /\ JobMailInv' /\ TaskInv' /\ DoneInv' /\ Done' = Done /\ mailbox' \in Seq(Message)
  BY <1>0, <1>1, HandleInvs
<1>4. Types'
  BY <1>1, <1>2, <1>3 DEF Types
<1>5. CallInv'
  BY <1>0, <1>1, <1>3, CallsKept
<1>6. RegInv'
  <2>1. \A t \in origin_of_jobs' : In[t] \in submitters'
    BY <1>1 DEF RegInv
  <2> QED
    BY <1>0, <1>1, <2>1, RegHandle
<1>7. InProgress' = InProgress
  <2>1. \A j \in Job : j \in InProgress' <=> j \in InProgress
    BY <1>0, <1>1, ProgressHandle
  <2> QED
    BY <2>1 DEF InProgress
<1>8. Finished' = Finished
  BY <1>0, <1>1, FinishedHandle
<1> QED
  BY <1>1, <1>3, <1>4, <1>5, <1>6, <1>7, <1>8, CountsKept

\* server_on_submitter_bye: no job of the sender is left in origin_of_jobs.
LEMMA OnByeInv == ASSUME Inv, server_on_submitter_bye PROVE Inv' /\ Done' = Done
<1> USE DEF Inv, taskVars, counters, goodbyes
<1> DEFINE w == Received.from
<1>0. server = "handle" /\ HandleStep /\ Received.type = "SUBMITTER_BYE" /\ Received.type \notin JobMsgType
  BY DEF server_on_submitter_bye, Handles, HandleStep, Working, JobMsgType
<1>1. UNCHANGED <<pc, ready, submitted, current_nb, key, nb_parent_completed, depth, times, ignore_beyond, job,
                  origin_of_jobs, nb_submitted, nb_completed, nb_running>>
      /\ submitters' = submitters \ {w} /\ server' = "receive"
      /\ nb_submitters_finished' = nb_submitters_finished + 1
      /\ nb_workflow_submitters_finished' = nb_workflow_submitters_finished + (IF w \in Workflow THEN 1 ELSE 0)
  BY DEF server_on_submitter_bye, Handles
<1>2. w \in Submitter /\ pc[w] = "gone"
  BY <1>0, HandlerFacts DEF Working
<1>3. MailInv' /\ SenderInv' /\ JobMailInv' /\ TaskInv' /\ DoneInv' /\ Done' = Done /\ mailbox' \in Seq(Message)
  BY <1>0, <1>1, HandleInvs
<1>4. Types'
  BY <1>1, <1>3 DEF Types
<1>5. CallInv'
  BY <1>0, <1>1, <1>3, CallsKept
<1>6. RegInv'
  <2>1. ASSUME NEW t \in origin_of_jobs, In[t] = w PROVE FALSE
    <3>1. t \in Task /\ w \in Workflow /\ times[t] = 1 /\ t \notin Done
      BY <1>0, <2>1, Names DEF Types, CallInv
    <3>2. submitted[w] = {}
      BY <1>2, <3>1 DEF RegInv
    <3>3. ~Sending(w)
      BY <1>2, <3>1, NotSending
    <3> QED
      BY <2>1, <3>1, <3>2, <3>3 DEF Done, Open
  <2>2. \A t \in origin_of_jobs' : In[t] \in submitters'
    BY <1>1, <2>1 DEF RegInv
  <2> QED
    BY <1>0, <1>1, <2>2, RegHandle
<1>7. InProgress' = InProgress
  <2>1. \A j \in Job : j \in InProgress' <=> j \in InProgress
    BY <1>0, <1>1, ProgressHandle
  <2> QED
    BY <2>1 DEF InProgress
<1>8. Finished' = Finished \cup {w} /\ w \notin Finished
  BY <1>0, <1>1, FinishedHandle
<1> HIDE DEF w
<1>9. CountInv'
  <2>1. Cardinality(Finished') = Cardinality(Finished) + 1
    BY <1>8, CountedSets, FS_AddElement
  <2>2. Cardinality((Finished \cap Workflow)') = Cardinality(Finished \cap Workflow) + (IF w \in Workflow THEN 1 ELSE 0)
    <3>1. CASE w \in Workflow
      <4>1. (Finished \cap Workflow)' = (Finished \cap Workflow) \cup {w} /\ w \notin Finished \cap Workflow
        BY <1>8, <3>1
      <4> QED
        BY <3>1, <4>1, CountedSets, FS_AddElement
    <3>2. CASE w \notin Workflow
      <4>1. (Finished \cap Workflow)' = Finished \cap Workflow
        BY <1>8, <3>2
      <4>2. Cardinality(Finished \cap Workflow) \in Nat
        BY CountedSets, FS_CardinalityType
      <4>3. Cardinality((Finished \cap Workflow)') = Cardinality(Finished \cap Workflow)
        BY <4>1
      <4> QED
        BY <3>2, <4>2, <4>3
    <3> QED
      BY <3>1, <3>2
  <2> QED
    BY <1>1, <1>7, <2>1, <2>2 DEF CountInv
<1> QED
  BY <1>1, <1>3, <1>4, <1>5, <1>6, <1>9

\* server_on_job_submitted: the job is tracked for its submitter, or ignored.
LEMMA OnSubmittedInv == ASSUME Inv, server_on_job_submitted PROVE Inv' /\ Done' = Done
<1> USE DEF Inv, taskVars, counters, goodbyes
<1> DEFINE j == Received.about
<1>0. server = "handle" /\ HandleStep /\ Received.type = "JOB_SUBMITTED" /\ Received.type \in JobMsgType
  BY DEF server_on_job_submitted, Handles, HandleStep, Working, JobMsgType
<1>1. /\ UNCHANGED <<pc, ready, submitted, current_nb, key, nb_parent_completed, depth, times, ignore_beyond,
                     submitters, nb_completed, nb_running, nb_submitters_finished, nb_workflow_submitters_finished>>
      /\ server' = "receive" /\ nb_submitted' \in Nat
      /\ job' = [job EXCEPT ![j] = "ignored"] \/ job' = [job EXCEPT ![j] = "submitted"]
      /\ origin_of_jobs' \subseteq origin_of_jobs \cup ({j} \cap Task) /\ origin_of_jobs' \subseteq Task
  <2>1. CASE Ignoring
    BY <2>1 DEF server_on_job_submitted, Handles, Types
  <2>2. CASE ~Ignoring
    <3>1. origin_of_jobs' = origin_of_jobs \cup ({j} \cap Task) /\ origin_of_jobs \subseteq Task
      BY <2>2 DEF server_on_job_submitted, Tracked, Types
    <3>2. nb_submitted' = nb_submitted + 1 /\ nb_submitted \in Nat /\ job' = [job EXCEPT ![j] = "submitted"]
      BY <2>2 DEF server_on_job_submitted, Types
    <3>3. nb_submitted' \in Nat
      BY <3>2
    <3> QED
      BY <3>1, <3>2, <3>3 DEF server_on_job_submitted, Handles
  <2> QED
    BY <2>1, <2>2
<1>2. j \in Job /\ job[j] = "created" /\ (j \in Task => Received.from = In[j])
  BY <1>0, HandlerFacts, Names DEF Working, StateOf, GoodMsg
<1>3. /\ job' \in [Job -> States] /\ job'[j] \in {"ignored", "submitted"}
      /\ \A i \in Job : i = j \/ job'[i] = job[i]
  BY <1>1, <1>2 DEF Types, States
<1>4. MailInv' /\ SenderInv' /\ JobMailInv' /\ TaskInv' /\ DoneInv' /\ Done' = Done /\ mailbox' \in Seq(Message)
  BY <1>0, <1>1, <1>2, <1>3, HandleInvs
<1>5. Types'
  BY <1>1, <1>3, <1>4 DEF Types
<1>6. j \in Task => times[j] = 1 /\ j \notin Done
  BY <1>2 DEF TaskInv, DoneInv
<1>7. CallInv'
  <2>1. \A t \in origin_of_jobs' : times'[t] = 1 /\ t \notin Done'
    BY <1>0, <1>1, <1>4, <1>6 DEF CallInv
  <2>2. ASSUME NEW w \in Workflow, pc'[w] = "called"
        PROVE  key'[w] \in submitted'[w] /\ job'[key'[w]] = "completed" /\ key'[w] \notin origin_of_jobs'
    <3>1. key[w] \in submitted[w] /\ job[key[w]] = "completed" /\ key[w] \notin origin_of_jobs /\ key[w] \in Task
      BY <1>0, <1>1, <2>2 DEF CallInv, Types
    <3>2. key[w] # j /\ key[w] \in Job
      BY <1>2, <3>1, Names
    <3> QED
      BY <1>1, <1>3, <3>1, <3>2
  <2> QED
    BY <2>1, <2>2 DEF CallInv
<1>8. RegInv'
  <2>1. j \in Task => In[j] \in submitters
    <3>1. 1 \in Box /\ Received = mailbox[1]
      BY <1>0, HandlerFacts DEF Working
    <3>2. ~HelloBefore(mailbox[1].from, 1)
      BY DEF HelloBefore, Box
    <3> QED
      BY <1>0, <1>2, <3>1, <3>2 DEF RegInv
  <2>2. \A t \in origin_of_jobs' : In[t] \in submitters'
    BY <1>1, <2>1 DEF RegInv
  <2> QED
    BY <1>0, <1>1, <2>2, RegHandle
<1>9. InProgress' = InProgress
  BY <1>0, <1>3, ProgressFacts
<1>10. Finished' = Finished
  BY <1>0, <1>1, FinishedHandle
<1> QED
  BY <1>1, <1>4, <1>5, <1>7, <1>8, <1>9, <1>10, CountsKept

\* server_on_job_completed: the job leaves origin_of_jobs and is counted.
LEMMA OnCompletedInv == ASSUME Inv, server_on_job_completed PROVE Inv' /\ Done' = Done
<1> USE DEF Inv, taskVars, counters, goodbyes
<1> DEFINE j == Received.about
<1>0. /\ HandleStep /\ Received.type = "JOB_COMPLETED" /\ Received.type \in JobMsgType
      /\ Received.type \notin {"SUBMITTER_HELLO", "SUBMITTER_BYE"}
  BY DEF server_on_job_completed, HandleStep, Working, JobMsgType, MailInv
<1>1. /\ UNCHANGED <<pc, ready, submitted, current_nb, key, nb_parent_completed, depth, times, ignore_beyond, job,
                     submitters, nb_submitted, nb_submitters_finished, nb_workflow_submitters_finished>>
      /\ server' = "receive" /\ nb_completed' = nb_completed + 1 /\ nb_running' = nb_running - 1
      /\ origin_of_jobs' = origin_of_jobs \ {j}
  BY DEF server_on_job_completed
<1>2. j \in Job /\ job[j] = "completed"
  BY <1>0, HandlerFacts DEF HandleStep, StateOf
<1>3. MailInv' /\ SenderInv' /\ JobMailInv' /\ TaskInv' /\ DoneInv' /\ Done' = Done /\ mailbox' \in Seq(Message)
  BY <1>0, <1>1, HandleInvs
<1>4. Types'
  <2>1. nb_completed \in Nat
    BY DEF Types
  <2>2. nb_completed' \in Nat
    BY <1>1, <2>1
  <2> QED
    BY <1>1, <1>3, <2>2 DEF Types
<1>5. CallInv'
  <2>1. \A t \in origin_of_jobs' : times'[t] = 1 /\ t \notin Done'
    BY <1>1, <1>3 DEF CallInv
  <2>2. \A w \in Workflow : pc'[w] = "called" =>
          key'[w] \in submitted'[w] /\ job'[key'[w]] = "completed" /\ key'[w] \notin origin_of_jobs'
    BY <1>1 DEF CallInv
  <2> QED
    BY <2>1, <2>2 DEF CallInv
<1>6. RegInv'
  <2>1. \A t \in origin_of_jobs' : In[t] \in submitters'
    BY <1>1 DEF RegInv
  <2> QED
    BY <1>0, <1>1, <2>1, RegHandle
<1>7. InProgress' = InProgress \ {j} /\ j \in InProgress
  BY <1>0, <1>1, <1>2, ProgressFacts
<1>8. Finished' = Finished
  BY <1>0, <1>1, FinishedHandle
<1> HIDE DEF j
<1>9. CountInv'
  <2>1. Cardinality(InProgress') = Cardinality(InProgress) - 1
    BY <1>7, CountedSets, FS_RemoveElement
  <2> QED
    BY <1>1, <1>8, <2>1 DEF CountInv
<1> QED
  BY <1>1, <1>3, <1>4, <1>5, <1>6, <1>9

\* server_on_killing_done counts the killed job; its submitter is not told.
LEMMA OnKillingDoneInv == ASSUME Inv, server_on_killing_done PROVE Inv' /\ Done' = Done
<1> USE DEF Inv, taskVars, counters, goodbyes
<1> DEFINE j == Received.about
<1>0. /\ server = "handle" /\ HandleStep /\ Received.type = "KILLING_DONE" /\ Received.type \in JobMsgType
      /\ Received.type \notin {"SUBMITTER_HELLO", "SUBMITTER_BYE"}
  BY DEF server_on_killing_done, Handles, HandleStep, Working, JobMsgType
<1>1. /\ UNCHANGED <<pc, ready, submitted, current_nb, key, nb_parent_completed, depth, times, ignore_beyond, job,
                     submitters, origin_of_jobs, nb_submitted, nb_submitters_finished, nb_workflow_submitters_finished>>
      /\ server' = "receive" /\ nb_completed' = nb_completed + 1 /\ nb_running' = nb_running - 1
  BY DEF server_on_killing_done, Handles
<1>2. j \in Job /\ job[j] = "killed"
  BY <1>0, HandlerFacts DEF HandleStep, StateOf
<1>3. MailInv' /\ SenderInv' /\ JobMailInv' /\ TaskInv' /\ DoneInv' /\ Done' = Done /\ mailbox' \in Seq(Message)
  BY <1>0, <1>1, HandleInvs
<1>4. Types'
  <2>1. nb_completed \in Nat
    BY DEF Types
  <2>2. nb_completed' \in Nat
    BY <1>1, <2>1
  <2> QED
    BY <1>1, <1>3, <2>2 DEF Types
<1>5. CallInv'
  BY <1>0, <1>1, <1>3, CallsKept
<1>6. RegInv'
  <2>1. \A t \in origin_of_jobs' : In[t] \in submitters'
    BY <1>1 DEF RegInv
  <2> QED
    BY <1>0, <1>1, <2>1, RegHandle
<1>7. InProgress' = InProgress \ {j} /\ j \in InProgress
  BY <1>0, <1>1, <1>2, ProgressFacts
<1>8. Finished' = Finished
  BY <1>0, <1>1, FinishedHandle
<1> HIDE DEF j
<1>9. CountInv'
  <2>1. Cardinality(InProgress') = Cardinality(InProgress) - 1
    BY <1>7, CountedSets, FS_RemoveElement
  <2> QED
    BY <1>1, <1>8, <2>1 DEF CountInv
<1> QED
  BY <1>1, <1>3, <1>4, <1>5, <1>6, <1>9

\* server_on_execute_job: the job runs.
LEMMA OnExecuteInv == ASSUME Inv, server_on_execute_job PROVE Inv' /\ Done' = Done
<1> USE DEF Inv, taskVars, counters, goodbyes
<1> DEFINE j == Received.about
<1>0. /\ server = "handle" /\ HandleStep /\ Received.type = "SCHED_EXECUTE_JOB" /\ Received.type \in JobMsgType
      /\ Received.type \notin {"SUBMITTER_HELLO", "SUBMITTER_BYE"}
  BY DEF server_on_execute_job, Handles, HandleStep, Working, JobMsgType
<1>1. /\ UNCHANGED <<pc, ready, submitted, current_nb, key, nb_parent_completed, depth, times, ignore_beyond,
                     submitters, origin_of_jobs, nb_submitted, nb_completed, nb_submitters_finished,
                     nb_workflow_submitters_finished>>
      /\ server' = "receive" /\ nb_running' = nb_running + 1 /\ job' = [job EXCEPT ![j] = "running"]
  BY DEF server_on_execute_job, Handles
<1>2. j \in Job /\ job[j] = "decided"
  BY <1>0, HandlerFacts DEF HandleStep, StateOf
<1>3. /\ job' \in [Job -> States] /\ job'[j] = "running"
      /\ \A i \in Job : i = j \/ job'[i] = job[i]
  BY <1>1, <1>2 DEF Types, States
<1>4. MailInv' /\ SenderInv' /\ JobMailInv' /\ TaskInv' /\ DoneInv' /\ Done' = Done /\ mailbox' \in Seq(Message)
  BY <1>0, <1>1, <1>2, <1>3, HandleInvs
<1>5. Types'
  BY <1>1, <1>3, <1>4 DEF Types
<1>6. \A t \in Task : job[t] = "completed" => job'[t] = "completed"
  BY <1>2, <1>3 DEF Job
<1>7. CallInv'
  BY <1>0, <1>1, <1>4, <1>6, CallsKept
<1>8. RegInv'
  <2>1. \A t \in origin_of_jobs' : In[t] \in submitters'
    BY <1>1 DEF RegInv
  <2> QED
    BY <1>0, <1>1, <2>1, RegHandle
<1>9. InProgress' = InProgress \cup {j} /\ j \notin InProgress
  BY <1>0, <1>3, ProgressFacts
<1>10. Finished' = Finished
  BY <1>0, <1>1, FinishedHandle
<1> HIDE DEF j
<1>11. CountInv'
  <2>1. Cardinality(InProgress') = Cardinality(InProgress) + 1
    BY <1>9, CountedSets, FS_AddElement
  <2> QED
    BY <1>1, <1>10, <2>1 DEF CountInv
<1> QED
  BY <1>1, <1>4, <1>5, <1>7, <1>8, <1>11

\* server_on_reject_job counts the rejected job; its submitter is not told.
LEMMA OnRejectInv == ASSUME Inv, server_on_reject_job PROVE Inv' /\ Done' = Done
<1> USE DEF Inv, taskVars, counters, goodbyes
<1> DEFINE j == Received.about
<1>0. /\ server = "handle" /\ HandleStep /\ Received.type = "SCHED_REJECT_JOB" /\ Received.type \in JobMsgType
      /\ Received.type \notin {"SUBMITTER_HELLO", "SUBMITTER_BYE"}
  BY DEF server_on_reject_job, Handles, HandleStep, Working, JobMsgType
<1>1. /\ UNCHANGED <<pc, ready, submitted, current_nb, key, nb_parent_completed, depth, times, ignore_beyond,
                     submitters, origin_of_jobs, nb_submitted, nb_running, nb_submitters_finished,
                     nb_workflow_submitters_finished>>
      /\ server' = "receive" /\ nb_completed' = nb_completed + 1 /\ job' = [job EXCEPT ![j] = "rejected"]
  BY DEF server_on_reject_job, Handles
<1>2. j \in Job /\ job[j] = "decided"
  BY <1>0, HandlerFacts DEF HandleStep, StateOf
<1>3. /\ job' \in [Job -> States] /\ job'[j] = "rejected"
      /\ \A i \in Job : i = j \/ job'[i] = job[i]
  BY <1>1, <1>2 DEF Types, States
<1>4. MailInv' /\ SenderInv' /\ JobMailInv' /\ TaskInv' /\ DoneInv' /\ Done' = Done /\ mailbox' \in Seq(Message)
  BY <1>0, <1>1, <1>2, <1>3, HandleInvs
<1>5. Types'
  <2>1. nb_completed \in Nat
    BY DEF Types
  <2>2. nb_completed' \in Nat
    BY <1>1, <2>1
  <2> QED
    BY <1>1, <1>3, <1>4, <2>2 DEF Types
<1>6. \A t \in Task : job[t] = "completed" => job'[t] = "completed"
  BY <1>2, <1>3 DEF Job
<1>7. CallInv'
  BY <1>0, <1>1, <1>4, <1>6, CallsKept
<1>8. RegInv'
  <2>1. \A t \in origin_of_jobs' : In[t] \in submitters'
    BY <1>1 DEF RegInv
  <2> QED
    BY <1>0, <1>1, <2>1, RegHandle
<1>9. InProgress' = InProgress
  BY <1>0, <1>3, ProgressFacts
<1>10. Finished' = Finished
  BY <1>0, <1>1, FinishedHandle
<1> QED
  BY <1>1, <1>4, <1>5, <1>7, <1>8, <1>9, <1>10, CountsKept

\* The oldest message is delivered.
LEMMA DeliverInv == ASSUME Inv, Deliver PROVE Inv' /\ Done' = Done
<1> USE DEF Inv, taskVars, serverVars, counters, goodbyes
<1> DEFINE m == mailbox[1]
<1>1. /\ server = "receive" /\ server' = "handle" /\ mailbox' = mailbox /\ Box' = Box /\ Received = m
      /\ 1 \in Box /\ Box \subseteq Nat /\ \A k \in Box : k = 1 \/ 1 < k
  <2>1. mailbox \in Seq(Message) /\ mailbox # <<>> /\ mailbox' = mailbox
    BY DEF Deliver, Types
  <2>2. Len(mailbox) \in Nat /\ Len(mailbox) # 0 /\ Head(mailbox) = mailbox[1]
    BY <2>1
  <2> QED
    BY <2>1, <2>2 DEF Deliver, Box, Received
<1>2. UNCHANGED <<ready, submitted, current_nb, key, nb_parent_completed, depth, job, times, submitters, origin_of_jobs,
                  nb_submitted, nb_completed, nb_running, nb_submitters_finished, nb_workflow_submitters_finished,
                  ignore_beyond>>
  BY DEF Deliver
<1>3. Off = 0 /\ Off' = 1
  BY <1>1 DEF Off, Working
<1>4. \A k \in Box : Waits(k) /\ (Waits(k)' <=> k # 1)
  BY <1>1, <1>3 DEF Waits
<1>5. /\ pc' \in [Submitter -> Places]
      /\ \A s \in Submitter : pc'[s] = IF s = m.from THEN AfterPut(m) ELSE pc[s]
  <2>1. AfterPut(m) \in Places
    BY DEF AfterPut, Places
  <2>2. pc \in [Submitter -> Places]
    BY DEF Types
  <2> HIDE DEF m
  <2> QED
    BY <1>1, <2>1, <2>2 DEF Deliver
<1>6. /\ GoodMsg(m) /\ (m.from \in Submitter => pc[m.from] = "blocked")
      /\ m.from \in Submitter => \A l \in Box : l # 1 => mailbox[l].from # m.from
  BY <1>1, <1>4 DEF MailInv, SenderInv
<1>7. m.type \in MsgType /\ (m.type \notin {"SUBMITTER_HELLO", "SUBMITTER_BYE", "JOB_SUBMITTED"} => m.from \notin Submitter)
  <2>0. mailbox \in Seq(Message) /\ 1 \in 1..Len(mailbox)
    BY <1>1 DEF Types, Box
  <2>1. m \in Message
    BY <2>0
  <2> HIDE DEF m
  <2> QED
    BY <1>6, <2>1 DEF Message, GoodMsg, MsgType, JobMsgType
<1>8. /\ m.type = "SUBMITTER_BYE" => AfterPut(m) = "gone"
      /\ m.type = "JOB_SUBMITTED" /\ m.from \in Workflow => AfterPut(m) = "sent"
      /\ m.type # "SUBMITTER_BYE" /\ ~(m.type = "JOB_SUBMITTED" /\ m.from \in Workflow) => AfterPut(m) = "asleep"
  BY DEF AfterPut
<1> HIDE DEF m
<1>9. Types'
  BY <1>1, <1>2, <1>5 DEF Types
<1>10. MailInv'
  <2>1. \A k \in Box : GoodMsg(mailbox[k])'
    BY <1>1 DEF MailInv, GoodMsg
  <2>2. mailbox # <<>>
    BY DEF Deliver
  <2> QED
    BY <1>1, <2>1, <2>2 DEF MailInv
<1>11. SenderInv'
  <2>1. \A k \in Box : Waits(k)' /\ mailbox[k].from \in Submitter => pc'[mailbox[k].from] = "blocked"
    BY <1>4, <1>5, <1>6 DEF SenderInv
  <2>2. \A k, l \in Box : k < l /\ Waits(k)' /\ mailbox[k].from \in Submitter => mailbox[l].from # mailbox[k].from
    BY <1>4 DEF SenderInv
  <2>3. ASSUME NEW k \in Box, mailbox[k].type = "SUBMITTER_BYE"
        PROVE  /\ ~Waits(k)' => pc'[mailbox[k].from] = "gone"
               /\ \A l \in Box : k < l => mailbox[l].from # mailbox[k].from
    <3>1. mailbox[k].from \in Submitter
      BY <2>3 DEF MailInv, GoodMsg
    <3>2. k = 1 => pc'[mailbox[k].from] = "gone"
      BY <1>5, <1>8, <2>3, <3>1 DEF m
    <3> QED
      BY <1>4, <2>3, <3>2 DEF SenderInv
  <2>4. \A k \in Box : Waits(k)' /\ mailbox[k].type = "JOB_SUBMITTED" /\ mailbox[k].from \in Workflow =>
          key'[mailbox[k].from] = mailbox[k].about
    BY <1>2, <1>4 DEF SenderInv
  <2> QED
    BY <1>1, <2>1, <2>2, <2>3, <2>4 DEF SenderInv
<1>12. JobMailInv'
  BY <1>1, <1>2, JobMailStay
<1>13. ASSUME NEW w \in Workflow PROVE Sending(w)' <=> Sending(w)
  <2>0. w \in Submitter
    BY DEF Submitter
  <2>1. CASE m.from = w /\ m.type = "JOB_SUBMITTED"
    <3>1. Sending(w)
      BY <1>1, <1>4, <2>1 DEF Sending, m
    <3>2. pc'[w] = "sent"
      BY <1>5, <1>8, <2>0, <2>1
    <3> QED
      BY <3>1, <3>2 DEF Sending
  <2>2. CASE ~(m.from = w /\ m.type = "JOB_SUBMITTED")
    <3>1. pc'[w] = "sent" <=> pc[w] = "sent"
      BY <1>5, <1>6, <1>8, <2>0, <2>2
    <3>2. \A k \in Box : mailbox[k].type = "JOB_SUBMITTED" /\ mailbox[k].from = w => k # 1
      BY <2>2 DEF m
    <3> QED
      BY <1>1, <1>4, <3>1, <3>2 DEF Sending
  <2> QED
    BY <2>1, <2>2
<1>14. TaskInv' /\ DoneInv' /\ Done' = Done
  BY <1>2, <1>13, TasksKept DEF KeepsTasks
<1>15. CallInv'
  <2>1. \A w \in Workflow : pc'[w] = "called" => pc[w] = "called"
    BY <1>5, <1>8, Names
  <2> QED
    BY <1>1, <1>2, <1>14, <2>1, CallsKept
<1>16. RegInv'
  <2>1. \A t \in origin_of_jobs' : In[t] \in submitters'
    BY <1>2 DEF RegInv
  <2>2. (\A w, n : HelloBefore(w, n)' <=> HelloBefore(w, n)) /\ (\A w : HelloFrom(w)' <=> HelloFrom(w))
        /\ (\A w : ByeFrom(w)' <=> ByeFrom(w))
    BY <1>1 DEF HelloBefore, HelloFrom, ByeFrom
  <2>3. \A k \in Box : mailbox[k].type = "JOB_SUBMITTED" => mailbox[k].from \in submitters' \/ HelloBefore(mailbox[k].from, k)'
    BY <1>1, <1>2 DEF RegInv, HelloBefore
  <2>4. ASSUME NEW s \in Submitter, pc'[s] \in Active PROVE s \in submitters' \/ HelloFrom(s)'
    <3>1. CASE s # m.from
      BY <1>2, <1>5, <2>2, <2>4, <3>1 DEF RegInv
    <3>2. CASE s = m.from /\ m.type = "SUBMITTER_HELLO"
      BY <1>1, <2>2, <3>2 DEF HelloFrom, m
    <3>3. CASE s = m.from /\ m.type = "JOB_SUBMITTED"
      BY <1>1, <1>2, <2>2, <3>3 DEF RegInv, HelloBefore, HelloFrom, m
    <3>4. CASE s = m.from /\ m.type = "SUBMITTER_BYE"
      BY <1>5, <1>8, <2>4, <3>4 DEF Active
    <3> QED
      BY <1>7, <3>1, <3>2, <3>3, <3>4
  <2>5. ASSUME NEW w \in Workflow, pc'[w] = "gone" \/ ByeFrom(w)' PROVE ready'[w] = <<>> /\ submitted'[w] = {}
    <3>1. w \in Submitter
      BY DEF Submitter
    <3>2. w = m.from /\ m.type = "SUBMITTER_BYE" => ByeFrom(w)
      BY <1>1 DEF ByeFrom, m
    <3>3. pc[w] = "gone" \/ ByeFrom(w)
      BY <1>5, <1>8, <2>2, <2>5, <3>1, <3>2
    <3> QED
      BY <1>2, <3>3 DEF RegInv
  <2> QED
    BY <1>1, <2>1, <2>3, <2>4, <2>5 DEF RegInv
<1>17. InProgress' = InProgress
  BY <1>1, <1>2 DEF InProgress, EndOf
<1>18. Finished' = Finished
  <2>1. \A s : ByeFrom(s)' <=> ByeFrom(s)
    BY <1>1 DEF ByeFrom
  <2>2. m.type = "SUBMITTER_BYE" => ByeFrom(m.from)
    BY <1>1 DEF ByeFrom, m
  <2>3. \A s \in Submitter : (pc'[s] = "gone" /\ ~ByeFrom(s)) <=> (pc[s] = "gone" /\ ~ByeFrom(s))
    BY <1>5, <1>6, <1>8, <2>2
  <2> QED
    BY <2>1, <2>3 DEF Finished
<1> QED
  BY <1>2, <1>9, <1>10, <1>11, <1>12, <1>14, <1>15, <1>16, <1>17, <1>18, CountsKept

\* A submitter is told that a job is completed, and finds the task.
LEMMA CallbackInv == ASSUME Inv, DeliverCallback PROVE Inv' /\ Done' = Done
<1> USE DEF Inv, taskVars, serverVars, counters, goodbyes
<1> DEFINE t == Received.about
<1> DEFINE w == In[t]
<1>1. /\ server = "callback" /\ server' = "finish" /\ mailbox' = mailbox /\ Received' = Received
      /\ pc[w] = "waiting" /\ pc' = [pc EXCEPT ![w] = "called"] /\ key' = [key EXCEPT ![w] = t]
      /\ UNCHANGED <<ready, submitted, current_nb, nb_parent_completed, depth, job, times, submitters, origin_of_jobs,
                     nb_submitted, nb_completed, nb_running, nb_submitters_finished, nb_workflow_submitters_finished,
                     ignore_beyond>>
  BY DEF DeliverCallback, Received
<1>2. t \in origin_of_jobs /\ Received.type = "JOB_COMPLETED" /\ t \in Task /\ w \in Workflow /\ w \in Submitter
  BY <1>1, Names DEF MailInv, Types
<1>3. job[t] = "completed"
  BY <1>1, <1>2, HandlerFacts DEF Working, StateOf, JobMsgType
<1>4. StayStep
  BY <1>1 DEF StayStep, Working
<1> HIDE DEF t, w
<1>5. /\ pc' \in [Submitter -> Places] /\ key' \in [Workflow -> Task \cup {""}]
      /\ pc'[w] = "called" /\ key'[w] = t
      /\ \A s \in Submitter : s = w \/ pc'[s] = pc[s]
      /\ \A v \in Workflow : v = w \/ key'[v] = key[v]
  BY <1>1, <1>2 DEF Types, Places
<1>6. Types'
  BY <1>1, <1>5 DEF Types
<1>7. MailInv' /\ SenderInv' /\ JobMailInv'
  BY <1>1, <1>2, <1>4, <1>5, MailStay, SenderStay, JobMailStay DEF t
<1>8. ~Sending(w)
  BY <1>1, <1>2, NotSending
<1>9. \A v \in Workflow : Sending(v)' <=> Sending(v)
  BY <1>1, <1>4, <1>5, SendingStay DEF Submitter
<1>10. TaskInv' /\ DoneInv' /\ Done' = Done
  BY <1>1, <1>5, <1>8, <1>9, TasksKept DEF KeepsTasks
<1>11. CallInv'
  <2>1. \A u \in origin_of_jobs : times[u] = 1 /\ u \notin Done
    BY <1>1 DEF CallInv
  <2>2. t \in submitted[w]
    BY <1>2, <1>8, <2>1 DEF Done, Open, w
  <2>3. ASSUME NEW v \in Workflow, pc'[v] = "called"
        PROVE  /\ key'[v] \in submitted'[v] /\ job'[key'[v]] = "completed"
               /\ key'[v] \in origin_of_jobs' => server' = "finish" /\ Received'.about = key'[v]
    <3>1. CASE v = w
      BY <1>1, <1>3, <1>5, <2>2, <3>1 DEF t
    <3>2. CASE v # w
      BY <1>1, <1>5, <2>3, <3>2, Names DEF CallInv
    <3> QED
      BY <3>1, <3>2
  <2> QED
    BY <1>1, <1>10, <2>1, <2>3 DEF CallInv
<1>12. RegInv'
  BY <1>1, <1>4, <1>5, RegStay DEF Active
<1>13. InProgress' = InProgress /\ Finished' = Finished
  BY <1>1, <1>4, <1>5, ProgressStay, FinishedStay
<1> QED
  BY <1>1, <1>6, <1>7, <1>10, <1>11, <1>12, <1>13, CountsKept

\* The job of a ready task is created and put.
LEMMA SubmitTaskInv == ASSUME Inv, NEW w \in Workflow, SubmitTask(w) PROVE Inv' /\ Done' = Done
<1> USE DEF Inv, taskVars, serverVars, counters, goodbyes
<1>0. PICK t : t = Head(ready[w])
  OBVIOUS
<1> DEFINE m == Msg("JOB_SUBMITTED", w, t)
<1>1. /\ ready[w] # <<>> /\ pc[w] = "run" /\ pc' = [pc EXCEPT ![w] = "blocked"]
      /\ ready' = [ready EXCEPT ![w] = Tail(@)]
      /\ job' = [job EXCEPT ![t] = "created"] /\ times' = [times EXCEPT ![t] = @ + 1] /\ key' = [key EXCEPT ![w] = t]
      /\ mailbox' = Append(mailbox, m) /\ server' = server
      /\ UNCHANGED <<submitted, current_nb, nb_parent_completed, depth, submitters, origin_of_jobs, nb_submitted,
                     nb_completed, nb_running, nb_submitters_finished, nb_workflow_submitters_finished, ignore_beyond>>
  BY <1>0 DEF SubmitTask, Moves, Put
<1>2. ready[w] \in Seq(Task) /\ IsInjective(ready[w])
  BY DEF Types, TaskInv
<1>3. /\ t \in Task /\ t \in Range(ready[w]) /\ Tail(ready[w]) \in Seq(Task) /\ IsInjective(Tail(ready[w]))
      /\ \A x : x \in Range(Tail(ready[w])) <=> x \in Range(ready[w]) /\ x # t
  BY <1>0, <1>1, <1>2, TailFacts
<1>4. In[t] = w /\ times[t] = 0 /\ job[t] = "none" /\ t \in Job /\ w \in Submitter
  BY <1>3, Names DEF TaskInv
<1>5. m \in Message /\ m.type = "JOB_SUBMITTED" /\ m.from = w /\ m.about = t /\ m.type \in JobMsgType
  BY <1>4 DEF Msg, Message, MsgType, JobMsgType
<1>6. GoodMsg(m) /\ StateOf(m.type) = "created" /\ \A j : ~EndOf(m, j)
  BY <1>3, <1>4, <1>5 DEF GoodMsg, JobMsgType, StateOf, EndOf
<1>7. PutStep(m)
  BY <1>1, <1>5, <1>6 DEF PutStep
<1> HIDE DEF m
<1>8. mailbox' \in Seq(Message) /\ (Working => Received' = Received)
  BY <1>7, PutFacts
<1>9. /\ pc' \in [Submitter -> Places] /\ pc'[w] = "blocked" /\ \A s \in Submitter : s = w \/ pc'[s] = pc[s]
  BY <1>1, <1>4 DEF Types, Places
<1>10. ready' \in [Workflow -> Seq(Task)] /\ ready'[w] = Tail(ready[w]) /\ \A v \in Workflow : v = w \/ ready'[v] = ready[v]
  BY <1>1, <1>3 DEF Types
<1>11. /\ job' \in [Job -> States] /\ job'[t] = "created" /\ \A j \in Job : j = t \/ job'[j] = job[j]
  BY <1>1, <1>4 DEF Types, States
<1>12. /\ times' \in [Job -> Nat] /\ times'[t] = 1 /\ \A j \in Job : j = t \/ times'[j] = times[j]
  <2>1. times \in [Job -> Nat] /\ times' = [times EXCEPT ![t] = @ + 1]
    BY <1>1 DEF Types
  <2>2. times[t] + 1 = 1
    BY <1>4
  <2> QED
    BY <1>4, <2>1, <2>2
<1>13. /\ key' \in [Workflow -> Task \cup {""}] /\ key'[w] = t /\ \A v \in Workflow : v = w \/ key'[v] = key[v]
  BY <1>1, <1>3 DEF Types
<1>14. Types'
  BY <1>1, <1>8, <1>9, <1>10, <1>11, <1>12, <1>13 DEF Types
<1>15. MailInv' /\ SenderInv'
  BY <1>1, <1>4, <1>5, <1>7, <1>13, MailPut, SenderPut
<1>16. JobMailInv'
  <2>1. \A k \in Box : mailbox[k].type \in JobMsgType => StateOf(mailbox[k].type) # "none"
    BY DEF StateOf, JobMsgType
  <2>2. \A k \in Box : mailbox[k].type \in JobMsgType => mailbox[k].about # t
    BY <1>4, <2>1 DEF JobMailInv
  <2>3. \A i \in Plain : times'[i] = times[i] \/ i = t
    BY <1>12, Names
  <2>4. job' = [job EXCEPT ![t] = StateOf(m.type)] /\ times'[t] # 0
    BY <1>1, <1>6, <1>12
  <2> QED
    BY <1>4, <1>5, <1>7, <2>2, <2>3, <2>4, JobMailPut
<1>17. ~Sending(w)
  BY <1>1, NotSending
<1>18. Sending(w)'
  <2> DEFINE n == Len(mailbox)
  <2>1. n + 1 \in Box' /\ mailbox'[n + 1] = m /\ (\A k : k = n + 1 => Waits(k)')
    BY <1>7, PutFacts
  <2> HIDE DEF n
  <2> QED
    BY <1>5, <2>1 DEF Sending
<1>19. \A v \in Workflow : v # w => (Sending(v)' <=> Sending(v))
  BY <1>5, <1>7, <1>9, SendingPut, Names
<1>20. \A u \in Task : In[u] \in Workflow /\ u \in Job
  BY Names
<1>21. /\ \A u \in Task : u # t => (Open(u)' <=> Open(u))
       /\ Open(t)'
  BY <1>1, <1>3, <1>4, <1>13, <1>17, <1>18, <1>19, <1>20 DEF Open
<1>22. Done' = Done
  BY <1>4, <1>12, <1>20, <1>21 DEF Done
<1>23. TaskInv'
  <2>1. \A u \in Task : times'[u] \in {0, 1} /\ (times'[u] = 0 <=> job'[u] = "none")
    BY <1>11, <1>12, <1>20 DEF TaskInv
  <2>2. ASSUME NEW v \in Workflow
        PROVE  /\ IsInjective(ready'[v])
               /\ \A u \in Range(ready'[v]) : In[u] = v /\ times'[u] = 0
               /\ \A u \in submitted'[v] : In[u] = v /\ times'[u] = 1
               /\ Sending(v)' => /\ key'[v] \in Task /\ In[key'[v]] = v
                                 /\ times'[key'[v]] = 1 /\ key'[v] \notin submitted'[v]
    <3>0. Range(ready[v]) \subseteq Task /\ submitted[v] \subseteq Task
      BY TaskSets
    <3>1. IsInjective(ready'[v])
      BY <1>3, <1>10 DEF TaskInv
    <3>2. ASSUME NEW u \in Range(ready'[v]) PROVE In[u] = v /\ times'[u] = 0
      <4>1. u \in Range(ready[v]) /\ (v = w => u # t)
        BY <1>3, <1>10, <3>2
      <4>2. In[u] = v /\ times[u] = 0 /\ u \in Task
        BY <3>0, <4>1 DEF TaskInv
      <4> QED
        BY <1>4, <1>12, <1>20, <4>1, <4>2
    <3>3. \A u \in submitted'[v] : In[u] = v /\ times'[u] = 1
      <4>1. \A u \in submitted[v] : In[u] = v /\ times[u] = 1 /\ u \in Task
        BY <3>0 DEF TaskInv
      <4> QED
        BY <1>1, <1>4, <1>12, <1>20, <4>1
    <3>4. Sending(v)' => key'[v] \in Task /\ In[key'[v]] = v /\ times'[key'[v]] = 1 /\ key'[v] \notin submitted'[v]
      <4>1. CASE v = w
        <5>1. t \notin submitted[w]
          BY <1>4 DEF TaskInv
        <5> QED
          BY <1>1, <1>3, <1>4, <1>12, <1>13, <4>1, <5>1
      <4>2. CASE v # w
        <5>1. Sending(v) => key[v] \in Task /\ In[key[v]] = v /\ times[key[v]] = 1 /\ key[v] \notin submitted[v]
          BY DEF TaskInv
        <5> QED
          BY <1>1, <1>4, <1>12, <1>13, <1>19, <1>20, <4>2, <5>1
      <4> QED
        BY <4>1, <4>2
    <3> QED
      BY <3>1, <3>2, <3>3, <3>4
  <2> QED
    BY <2>1, <2>2 DEF TaskInv
<1>24. DoneInv'
  <2>1. ASSUME NEW u \in Task, times'[u] = 1 \/ u \in Range(ready'[In[u]]) PROVE Parents(u) \subseteq Done
    <3>1. u = t \/ times[u] = 1 \/ u \in Range(ready[In[u]])
      BY <1>3, <1>10, <1>12, <1>20, <2>1
    <3> QED
      BY <1>3, <1>4, <3>1 DEF DoneInv
  <2>2. ASSUME NEW u \in Task, times'[u] = 0, Parents(u) \subseteq Done PROVE u \in Range(ready'[In[u]])
    <3>1. u # t /\ u \in Range(ready[In[u]])
      BY <1>12, <1>20, <2>2 DEF DoneInv
    <3> QED
      BY <1>3, <1>10, <1>20, <3>1
  <2>3. \A u \in Done : job'[u] = "completed"
    <3>1. \A u \in Done : u \in Task /\ u # t /\ job[u] = "completed"
      BY <1>4 DEF Done, DoneInv
    <3> QED
      BY <1>11, <1>20, <3>1
  <2> QED
    BY <1>1, <1>22, <2>1, <2>2, <2>3 DEF DoneInv
<1>25. CallInv'
  <2>1. \A u \in Task : (times[u] = 1 => times'[u] = 1) /\ (job[u] = "completed" => job'[u] = "completed")
    BY <1>4, <1>11, <1>12, <1>20
  <2>2. \A v \in Workflow : pc'[v] = "called" => pc[v] = "called" /\ key'[v] = key[v]
    BY <1>9, <1>13, Names
  <2> QED
    BY <1>1, <1>8, <1>22, <2>1, <2>2, CallsKept DEF Working
<1>26. RegInv'
  BY <1>1, <1>4, <1>5, <1>7, <1>10, RegPut
<1>27. InProgress' = InProgress
  BY <1>4, <1>6, <1>7, <1>11, ProgressPut
<1>28. Finished' = Finished
  BY <1>1, <1>5, <1>7, <1>9, FinishedPut
<1> QED
  BY <1>1, <1>14, <1>15, <1>16, <1>22, <1>23, <1>24, <1>25, <1>26, <1>27, <1>28, CountsKept

\* The put is over, and the task is recorded.
LEMMA RememberTaskInv == ASSUME Inv, NEW w \in Workflow, RememberTask(w) PROVE Inv' /\ Done' = Done
<1> USE DEF Inv, taskVars, serverVars, counters, goodbyes
<1>1. /\ pc[w] = "sent" /\ pc' = [pc EXCEPT ![w] = "run"]
      /\ submitted' = [submitted EXCEPT ![w] = @ \cup {key[w]}]
      /\ current_nb' = [current_nb EXCEPT ![w] = @ + 1]
      /\ UNCHANGED <<ready, key, nb_parent_completed, depth, job, times, mailbox, server, submitters, origin_of_jobs,
                     nb_submitted, nb_completed, nb_running, nb_submitters_finished, nb_workflow_submitters_finished,
                     ignore_beyond>>
  BY DEF RememberTask, Moves
<1>2. StayStep /\ Received' = Received
  BY <1>1 DEF StayStep, Working, Received
<1>3. Sending(w)
  BY <1>1 DEF Sending
<1>4. key[w] \in Task /\ In[key[w]] = w /\ times[key[w]] = 1 /\ key[w] \notin submitted[w] /\ w \in Submitter
  BY <1>3, Names DEF TaskInv
<1>5. /\ pc' \in [Submitter -> Places] /\ pc'[w] = "run" /\ \A s \in Submitter : s = w \/ pc'[s] = pc[s]
  BY <1>1, <1>4 DEF Types, Places
<1>6. /\ submitted' \in [Workflow -> SUBSET Task] /\ submitted'[w] = submitted[w] \cup {key[w]}
      /\ \A v \in Workflow : v = w \/ submitted'[v] = submitted[v]
  BY <1>1, <1>4 DEF Types
<1>7. /\ current_nb' \in [Workflow -> Nat] /\ current_nb'[w] = current_nb[w] + 1
      /\ \A v \in Workflow : v = w \/ current_nb'[v] = current_nb[v]
  <2>1. current_nb \in [Workflow -> Nat]
    OBVIOUS
  <2> QED
    BY <1>1, <2>1
<1>8. Types'
  BY <1>1, <1>5, <1>6 DEF Types
<1>9. MailInv' /\ SenderInv' /\ JobMailInv'
  BY <1>1, <1>2, <1>5, MailStay, SenderStay, JobMailStay DEF MailInv
<1>10. ~Sending(w)'
  <2>1. \A k \in Box : Waits(k) => mailbox[k].from # w
    BY <1>1, <1>4 DEF SenderInv
  <2> QED
    BY <1>2, <1>5, <2>1, StayFacts DEF Sending
<1>11. \A v \in Workflow : v # w => (Sending(v)' <=> Sending(v))
  BY <1>2, <1>5, SendingStay, Names
<1>12. \A u \in Task : In[u] \in Workflow
  BY Names
<1>13. \A u \in Task : Open(u)' <=> Open(u)
  BY <1>1, <1>3, <1>4, <1>6, <1>10, <1>11, <1>12 DEF Open
<1>14. Done' = Done
  BY <1>1, <1>13 DEF Done
<1>15. TaskInv'
  BY <1>1, <1>4, <1>6, <1>10, <1>11 DEF TaskInv
<1>16. DoneInv'
  BY <1>1, <1>14 DEF DoneInv
<1>17. CallInv'
  BY <1>1, <1>2, <1>5, <1>6, <1>14, CallsKept, Names
<1>18. RegInv'
  BY <1>1, <1>2, <1>5, <1>6, RegStay DEF Active
<1>19. InProgress' = InProgress /\ Finished' = Finished
  BY <1>1, <1>2, <1>5, ProgressStay, FinishedStay
<1>20. CountInv'
  <2>1. IsFiniteSet(submitted[w])
    BY CountedSets, TaskSets, FS_Subset
  <2>2. Cardinality(submitted'[w]) = Cardinality(submitted[w]) + 1
    BY <1>4, <1>6, <2>1, FS_AddElement
  <2>3. \A v \in Workflow : current_nb'[v] = Cardinality(submitted'[v])
    BY <1>6, <1>7, <2>2 DEF CountInv
  <2> QED
    BY <1>1, <1>19, <2>3 DEF CountInv
<1> QED
  BY <1>7, <1>8, <1>9, <1>14, <1>15, <1>16, <1>17, <1>18, <1>20

\* A task is completed: its children that wait for no other parent become ready.
LEMMA TaskCompletedInv ==
  ASSUME SimpleGraph, Inv, NEW w \in Workflow, TaskCompleted(w)
  PROVE  Inv' /\ Done' = Done \cup {key[w]} /\ key[w] \in Task \ Done
<1> USE DEF Inv, taskVars, serverVars, counters, goodbyes
<1>0. PICK c : c = key[w]
  OBVIOUS
<1> DEFINE kids == Children(c)
<1> DEFINE S == {u \in Task : nb_parent_completed'[u] = Cardinality(Parents(u))}
<1> DEFINE new == Only(kids, S)
<1>1. /\ pc[w] = "called" /\ pc' = [pc EXCEPT ![w] = "run"]
      /\ current_nb' = [current_nb EXCEPT ![w] = @ - 1]
      /\ nb_parent_completed' = [u \in Task |-> nb_parent_completed[u] + Occurrences(u, kids)]
      /\ depth' = [u \in Task |-> IF u \in Range(kids) THEN DepthOf(u, c) ELSE depth[u]]
      /\ ready' = [ready EXCEPT ![w] = @ \o new]
      /\ submitted' = [submitted EXCEPT ![w] = @ \ {c}]
      /\ UNCHANGED <<key, job, times, mailbox, server, submitters, origin_of_jobs, nb_submitted, nb_completed, nb_running,
                     nb_submitters_finished, nb_workflow_submitters_finished, ignore_beyond>>
  BY <1>0 DEF TaskCompleted, Moves, ReadyKids
<1>2. StayStep /\ Received' = Received
  BY <1>1 DEF StayStep, Working, Received
<1>3. c \in submitted[w] /\ job[c] = "completed" /\ (c \in origin_of_jobs => server = "finish" /\ Received.about = c)
  BY <1>0, <1>1 DEF CallInv
<1>4. c \in Task /\ In[c] = w /\ times[c] = 1 /\ w \in Submitter /\ c \notin Done
  BY <1>3, TaskSets, Names DEF TaskInv, Done, Open
<1>5. /\ kids \in Seq(Task) /\ IsInjective(kids) /\ \A u : u \in Range(kids) <=> (u \in Task /\ c \in Parents(u))
  BY <1>4, GraphFacts
<1>6. \A u \in Task : /\ In[u] \in Workflow /\ Parents(u) \subseteq Task /\ IsFiniteSet(Parents(u))
                      /\ c \in Parents(u) => In[u] = w
  BY <1>4, GraphFacts, Names
<1>7. new \in Seq(Task) /\ Range(new) = Range(kids) \cap S /\ IsInjective(new)
  BY <1>5, OnlyFacts
<1>8. \A u \in Task : nb_parent_completed'[u] = nb_parent_completed[u] + (IF c \in Parents(u) THEN 1 ELSE 0)
  <2>1. \A u \in Task : Occurrences(u, kids) = IF u \in Range(kids) THEN 1 ELSE 0
    BY <1>5, OccurrencesFacts
  <2> HIDE DEF kids, S, new
  <2> QED
    BY <1>1, <1>5, <2>1
<1> HIDE DEF new, kids
<1>9. /\ pc' \in [Submitter -> Places] /\ pc'[w] = "run" /\ \A s \in Submitter : s = w \/ pc'[s] = pc[s]
  BY <1>1, <1>4 DEF Types, Places
<1>10. /\ submitted' \in [Workflow -> SUBSET Task] /\ submitted'[w] = submitted[w] \ {c}
       /\ \A v \in Workflow : v = w \/ submitted'[v] = submitted[v]
  BY <1>1 DEF Types
<1>11. ready[w] \in Seq(Task) /\ IsInjective(ready[w]) /\ Range(ready[w]) \subseteq Task
  BY TaskSets DEF TaskInv
<1>12. ~Sending(w)
  BY <1>1, NotSending
<1>13. \A v \in Workflow : Sending(v)' <=> Sending(v)
  BY <1>1, <1>2, <1>9, SendingStay, Names
<1>14. \A u \in Task : Open(u)' <=> Open(u) /\ u # c
  BY <1>1, <1>4, <1>6, <1>10, <1>12, <1>13 DEF Open
<1>15. Done' = Done \cup {c}
  BY <1>1, <1>4, <1>14 DEF Done
<1>16. ASSUME NEW u \in Task PROVE nb_parent_completed'[u] = Cardinality(Parents(u) \cap Done')
  <2>0. nb_parent_completed[u] = Cardinality(Parents(u) \cap Done)
    BY DEF DoneInv
  <2>1. IsFiniteSet(Parents(u) \cap Done) /\ Cardinality(Parents(u) \cap Done) \in Nat
    BY <1>6, FS_Subset, FS_CardinalityType
  <2>2. CASE c \in Parents(u)
    <3>1. Parents(u) \cap Done' = (Parents(u) \cap Done) \cup {c} /\ c \notin Parents(u) \cap Done
      BY <1>4, <1>15, <2>2
    <3>2. Cardinality(Parents(u) \cap Done') = Cardinality(Parents(u) \cap Done) + 1
      BY <2>1, <3>1, FS_AddElement
    <3> QED
      BY <1>8, <2>0, <2>2, <3>2
  <2>3. CASE c \notin Parents(u)
    <3>1. Parents(u) \cap Done' = Parents(u) \cap Done
      BY <1>15, <2>3
    <3>2. nb_parent_completed'[u] = nb_parent_completed[u] + 0
      BY <1>8, <2>3
    <3>3. nb_parent_completed'[u] = nb_parent_completed[u]
      BY <2>0, <2>1, <3>2
    <3> QED
      BY <2>0, <3>1, <3>3
  <2> QED
    BY <2>2, <2>3
<1>17. ASSUME NEW u \in Task PROVE u \in S <=> Parents(u) \subseteq Done'
  <2>1. Parents(u) \cap Done' \subseteq Parents(u) /\ IsFiniteSet(Parents(u))
    BY <1>6
  <2>2. Cardinality(Parents(u) \cap Done') = Cardinality(Parents(u)) => Parents(u) \cap Done' = Parents(u)
    BY <2>1, FS_Subset
  <2>3. Parents(u) \subseteq Done' => Parents(u) \cap Done' = Parents(u)
    OBVIOUS
  <2> QED
    BY <1>16, <2>2, <2>3
<1> HIDE DEF S
<1>18. \A u : u \in Range(new) <=> u \in Task /\ c \in Parents(u) /\ Parents(u) \subseteq Done'
  BY <1>5, <1>7, <1>17
<1>19. \A u \in Range(new) : u \in Task /\ In[u] = w /\ times[u] = 0 /\ u \notin Range(ready[w])
  <2>1. \A u \in Task : ~(Parents(u) \subseteq Done) => times[u] = 0 /\ u \notin Range(ready[In[u]])
    BY DEF DoneInv, TaskInv
  <2> QED
    BY <1>4, <1>6, <1>18, <2>1
<1>20. /\ ready[w] \o new \in Seq(Task) /\ IsInjective(ready[w] \o new)
       /\ \A x : x \in Range(ready[w] \o new) <=> x \in Range(ready[w]) \/ x \in Range(new)
  <2>1. Range(ready[w]) \cap Range(new) = {}
    BY <1>19
  <2> QED
    BY <1>7, <1>11, <2>1, ConcatFacts
<1>21. /\ ready' \in [Workflow -> Seq(Task)] /\ ready'[w] = ready[w] \o new
       /\ \A v \in Workflow : v = w \/ ready'[v] = ready[v]
  BY <1>1, <1>20 DEF Types
<1>22. /\ IsInjective(ready'[w]) /\ (\A x : x \in Range(ready'[w]) <=> x \in Range(ready[w]) \/ x \in Range(new))
  BY <1>20, <1>21
<1>23. nb_parent_completed' \in [Task -> Nat] /\ depth' \in [Task -> Nat]
  <2>1. \A u \in Task : nb_parent_completed'[u] \in Nat
    <3>1. \A u \in Task : nb_parent_completed[u] \in Nat
      BY DEF Types
    <3> QED
      BY <1>8, <3>1
  <2>2. \A u \in Task : depth[u] \in Nat
    BY DEF Types
  <2>3. \A u \in Task : DepthOf(u, c) \in Nat
    BY <1>4, <2>2 DEF DepthOf
  <2> QED
    BY <1>1, <2>1, <2>2, <2>3
<1>24. Types'
  BY <1>1, <1>9, <1>10, <1>21, <1>23 DEF Types
<1>25. MailInv' /\ SenderInv' /\ JobMailInv'
  BY <1>1, <1>2, <1>9, MailStay, SenderStay, JobMailStay DEF MailInv
<1>26. TaskInv'
  <2>1. \A u \in Task : times'[u] \in {0, 1} /\ (times'[u] = 0 <=> job'[u] = "none")
    BY <1>1 DEF TaskInv
  <2>2. \A v \in Workflow : IsInjective(ready'[v]) /\ \A u \in Range(ready'[v]) : In[u] = v /\ times'[u] = 0
    BY <1>1, <1>19, <1>21, <1>22 DEF TaskInv
  <2>3. \A v \in Workflow : \A u \in submitted'[v] : In[u] = v /\ times'[u] = 1
    BY <1>1, <1>10 DEF TaskInv
  <2>4. \A v \in Workflow : Sending(v)' => /\ key'[v] \in Task /\ In[key'[v]] = v
                                           /\ times'[key'[v]] = 1 /\ key'[v] \notin submitted'[v]
    BY <1>1, <1>10, <1>13 DEF TaskInv
  <2> QED
    BY <2>1, <2>2, <2>3, <2>4 DEF TaskInv
<1>27. DoneInv'
  <2>1. ASSUME NEW u \in Task, times'[u] = 1 \/ u \in Range(ready'[In[u]]) PROVE Parents(u) \subseteq Done'
    <3>1. times[u] = 1 \/ u \in Range(ready[In[u]]) \/ u \in Range(new)
      BY <1>1, <1>6, <1>21, <1>22, <2>1
    <3> QED
      BY <1>15, <1>18, <3>1 DEF DoneInv
  <2>2. ASSUME NEW u \in Task, times'[u] = 0, Parents(u) \subseteq Done' PROVE u \in Range(ready'[In[u]])
    <3>1. CASE c \in Parents(u)
      BY <1>6, <1>18, <1>22, <2>2, <3>1
    <3>2. CASE c \notin Parents(u)
      <4>1. u \in Range(ready[In[u]])
        BY <1>1, <1>15, <2>2, <3>2 DEF DoneInv
      <4> QED
        BY <1>6, <1>21, <1>22, <4>1
    <3> QED
      BY <3>1, <3>2
  <2>3. \A u \in Done' : job'[u] = "completed"
    BY <1>1, <1>3, <1>15 DEF DoneInv
  <2> QED
    BY <1>16, <2>1, <2>2, <2>3 DEF DoneInv
<1>28. CallInv'
  <2>1. \A u \in origin_of_jobs' : times'[u] = 1 /\ (u \in Done' => server' = "finish" /\ Received'.about = u)
    BY <1>1, <1>2, <1>3, <1>15 DEF CallInv
  <2>2. \A v \in Workflow : pc'[v] = "called" =>
          /\ key'[v] \in submitted'[v] /\ job'[key'[v]] = "completed"
          /\ key'[v] \in origin_of_jobs' => server' = "finish" /\ Received'.about = key'[v]
    BY <1>1, <1>2, <1>9, <1>10, Names DEF CallInv
  <2> QED
    BY <2>1, <2>2 DEF CallInv
<1>29. RegInv'
  BY <1>1, <1>2, <1>9, <1>10, <1>21, RegStay DEF Active
<1>30. InProgress' = InProgress /\ Finished' = Finished
  BY <1>1, <1>2, <1>9, ProgressStay, FinishedStay
<1>31. \A v \in Workflow : current_nb'[v] = Cardinality(submitted'[v]) /\ current_nb'[v] \in Nat
  <2>1. \A v \in Workflow : current_nb[v] = Cardinality(submitted[v]) /\ current_nb[v] \in Nat
    BY DEF CountInv
  <2>2. IsFiniteSet(submitted[w]) /\ IsFiniteSet(submitted'[w])
    BY <1>10, CountedSets, TaskSets, FS_Subset
  <2>3. Cardinality(submitted'[w]) = Cardinality(submitted[w]) - 1 /\ Cardinality(submitted'[w]) \in Nat
    BY <1>3, <1>10, <2>2, FS_RemoveElement, FS_CardinalityType
  <2>4. current_nb'[w] = current_nb[w] - 1 /\ \A v \in Workflow : v = w \/ current_nb'[v] = current_nb[v]
    BY <1>1
  <2> QED
    BY <1>10, <2>1, <2>3, <2>4
<1>32. current_nb' \in [Workflow -> Nat]
  BY <1>1, <1>31
<1>33. CountInv'
  BY <1>1, <1>30, <1>31 DEF CountInv
<1> QED
  BY <1>0, <1>4, <1>15, <1>24, <1>25, <1>26, <1>27, <1>28, <1>29, <1>32, <1>33

-----------------------------------------------------------------------------
(* Every reachable state *)

\* The invariant holds at the start.
LEMMA WorkflowsInitInv == Init => Inv
<1> SUFFICES ASSUME Init PROVE Inv
  OBVIOUS
<1>1. /\ pc = [s \in Submitter |-> "hello"] /\ submitted = [w \in Workflow |-> {}]
      /\ ready = [w \in Workflow |-> get_source_tasks(w)]
      /\ current_nb = [w \in Workflow |-> 0] /\ key = [w \in Workflow |-> ""]
      /\ nb_parent_completed = [t \in Task |-> 0] /\ depth = [t \in Task |-> 0]
      /\ job = [j \in Job |-> IF j \in Task THEN "none" ELSE "created"] /\ times = [j \in Job |-> 0]
      /\ mailbox = <<>> /\ server = "receive" /\ submitters = {} /\ origin_of_jobs = {}
      /\ nb_submitted = 0 /\ nb_completed = 0 /\ nb_running = 0
      /\ nb_submitters_finished = 0 /\ nb_workflow_submitters_finished = 0 /\ ignore_beyond \in IgnoreBeyond
  BY DEF Init
<1>2. Box = {} /\ mailbox \in Seq(Message)
  <2>1. mailbox = <<>> /\ mailbox \in Seq(Message)
    BY <1>1, EmptySeq
  <2>2. Len(mailbox) = 0
    BY <2>1, EmptySeq
  <2>3. 1..0 = {}
    OBVIOUS
  <2> QED
    BY <2>1, <2>2, <2>3 DEF Box
<1>3. ASSUME NEW w \in Workflow
      PROVE  /\ ready[w] \in Seq(Task) /\ IsInjective(ready[w])
             /\ \A t : t \in Range(ready[w]) <=> t \in Task /\ In[t] = w /\ Parents(t) = {}
  <2> DEFINE S == {t \in Task : In[t] = w /\ Parents(t) = {}}
  <2>1. ready[w] = Only(TaskOrder, S)
    BY <1>1 DEF get_source_tasks
  <2>2. TaskOrder \in Seq(Task) /\ Range(TaskOrder) = Task /\ IsInjective(TaskOrder)
    BY WorkflowAssumption
  <2> HIDE DEF S
  <2>3. ready[w] \in Seq(Task) /\ Range(ready[w]) = Task \cap S /\ IsInjective(ready[w])
    BY <2>1, <2>2, OnlyFacts
  <2> QED
    BY <2>3 DEF S
<1>4. Types
  <2>1. ready \in [Workflow -> Seq(Task)]
    BY <1>1, <1>3
  <2>2. ignore_beyond \in BOOLEAN
    BY <1>1, WorkflowAssumption
  <2> QED
    BY <1>1, <1>2, <2>1, <2>2 DEF Types, Places, States
<1>5. MailInv /\ SenderInv
  BY <1>1, <1>2 DEF MailInv, SenderInv, Working
<1>6. JobMailInv
  BY <1>1, <1>2, Names DEF JobMailInv
<1>7. \A w \in Workflow : ~Sending(w)
  BY <1>1, <1>2, Names DEF Sending
<1>8. \A t \in Task : times[t] = 0 /\ job[t] = "none"
  BY <1>1, Names
<1>9. Done = {}
  BY <1>8 DEF Done
<1>10. TaskInv
  BY <1>1, <1>3, <1>7, <1>8 DEF TaskInv
<1>11. DoneInv
  <2>1. \A t \in Task : nb_parent_completed[t] = Cardinality(Parents(t) \cap Done)
    <3>1. \A t \in Task : Parents(t) \cap Done = {}
      BY <1>9
    <3> QED
      BY <1>1, <3>1, FS_EmptySet
  <2>2. \A t \in Task : t \in Range(ready[In[t]]) <=> Parents(t) = {}
    BY <1>3, Names
  <2> QED
    BY <1>8, <1>9, <2>1, <2>2 DEF DoneInv
<1>12. CallInv
  BY <1>1, Names DEF CallInv
<1>13. RegInv
  BY <1>1, <1>2, Names DEF RegInv, Active, ByeFrom
<1>14. CountInv
  <2>1. InProgress = {} /\ Finished = {}
    BY <1>1, <1>2 DEF InProgress, Finished
  <2>2. Finished \cap Workflow = {}
    BY <2>1
  <2> QED
    BY <1>1, <2>1, <2>2, FS_EmptySet DEF CountInv
<1>15. current_nb \in [Workflow -> Nat]
  BY <1>1
<1> QED
  BY <1>4, <1>5, <1>6, <1>10, <1>11, <1>12, <1>13, <1>14, <1>15 DEF Inv

\* Nothing changes.
LEMMA WorkflowsStutter == ASSUME Inv, UNCHANGED vars PROVE Inv' /\ Done' = Done
<1> USE DEF vars, taskVars, serverVars, counters, goodbyes
<1>1. StayStep
  BY DEF StayStep, Working
<1> QED
  BY <1>1, QuietStay DEF Inv, Types, MailInv

\* Every step preserves the invariant, and only TaskCompleted changes Done or a depth.
LEMMA WorkflowsNextInv ==
  ASSUME SimpleGraph, Inv, [Next]_vars
  PROVE  Inv' /\ ((Done' = Done /\ depth' = depth) \/ \E w \in Workflow : TaskCompleted(w))
<1> DEFINE Goal == Inv' /\ ((Done' = Done /\ depth' = depth) \/ \E w \in Workflow : TaskCompleted(w))
<1>1. CASE UNCHANGED vars
  <2>1. depth' = depth
    BY <1>1 DEF vars, taskVars
  <2> QED
    BY <1>1, <2>1, WorkflowsStutter
<1>2. ASSUME NEW w \in Workflow, WorkflowSubmitterStep(w) PROVE Goal
  <2>1. TaskCompleted(w) \/ depth' = depth
    BY <1>2 DEF WorkflowSubmitterStep, Hello, WakeUp, SubmitTask, RememberTask, WaitForCompletion, Bye, taskVars
  <2>2. Inv' /\ (Done' = Done \/ TaskCompleted(w))
    BY <1>2, Names, HelloInv, WakeUpInv, SubmitTaskInv, RememberTaskInv, WaitInv, TaskCompletedInv, ByeInv
       DEF WorkflowSubmitterStep
  <2> QED
    BY <2>1, <2>2
<1>3. CASE PlainSubmitterStep
  <2>1. depth' = depth
    BY <1>3 DEF PlainSubmitterStep, Hello, WakeUp, PlainBye, PlainSubmit, taskVars
  <2>2. Inv' /\ Done' = Done
    BY <1>3, Names, HelloInv, WakeUpInv, PlainByeInv, PlainSubmitInv DEF PlainSubmitterStep
  <2> QED
    BY <2>1, <2>2
<1>4. CASE ServerStep
  <2>1. depth' = depth
    BY <1>4 DEF ServerStep, Deliver, DeliverCallback, ServerCallsBack, SimulationEnds, Handles, server_on_submitter_hello,
       server_on_submitter_bye, server_on_job_submitted, server_on_job_completed, server_on_execute_job,
       server_on_killing_done, server_on_reject_job, taskVars
  <2>2. Inv' /\ Done' = Done
    BY <1>4, DeliverInv, CallbackInv, CallsBackInv, SimulationEndsInv, OnHelloInv, OnByeInv, OnSubmittedInv,
       OnCompletedInv, OnExecuteInv, OnKillingDoneInv, OnRejectInv DEF ServerStep
  <2> QED
    BY <2>1, <2>2
<1>5. ASSUME NEW j \in Job, JobStep(j) PROVE Goal
  <2>1. depth' = depth
    BY <1>5 DEF JobStep, Decide, JobEnds, JobIsKilled, jobUnchanged, taskVars
  <2> QED
    BY <1>5, <2>1, JobStepInv
<1> QED
  BY <1>1, <1>2, <1>3, <1>4, <1>5 DEF Next

\* In every reachable state.
LEMMA WorkflowsInvariant == SimpleGraph => (Spec => []Inv)
<1> SUFFICES ASSUME SimpleGraph PROVE Spec => []Inv
  OBVIOUS
<1>1. Init => Inv
  BY WorkflowsInitInv
<1>2. Inv /\ [Next]_vars => Inv'
  BY WorkflowsNextInv
<1> QED
  BY <1>1, <1>2, PTL DEF Spec


-----------------------------------------------------------------------------
(* The depth of the tasks *)

\* The recursion of AtEndOfPath, up to paths of n edges.
Paths(f, n) ==
  f = [k \in 0..n |-> IF k = 0 THEN {t \in Task : Parents(t) = {}}
                      ELSE {t \in Task : Parents(t) \cap f[k - 1] # {}}]

\* It has a solution.
LEMMA PathsExist == ASSUME NEW n \in Nat PROVE \E f : Paths(f, n)
<1> DEFINE B == {m \in Nat : ~\E f : Paths(f, m)}
           src == {t \in Task : Parents(t) = {}}
           Next1(A) == {t \in Task : Parents(t) \cap A # {}}
<1>1. SUFFICES ASSUME B # {} PROVE FALSE
  BY <1>1
<1>2. PICK m \in B : \A o \in B : m <= o
  BY <1>1, LeastNat
<1>3. m # 0
  <2> DEFINE g == [k \in 0..0 |-> src]
  <2>1. Paths(g, 0)
    BY DEF Paths
  <2> QED
    BY <2>1, <1>2
<1>4. PICK g : Paths(g, m - 1)
  <2>1. m - 1 \in Nat /\ ~(m <= m - 1)
    BY <1>2, <1>3
  <2> QED
    BY <1>2, <2>1
<1> DEFINE f == [k \in 0..m |-> IF k < m THEN g[k] ELSE Next1(g[m - 1])]
<1>5. \A k \in 0..m-1 : f[k] = g[k]
  BY <1>2
<1>6. \A k \in 0..m-1 : g[k] = IF k = 0 THEN src ELSE Next1(g[k - 1])
  BY <1>4 DEF Paths
<1>7. f[m] = Next1(g[m - 1])
  BY <1>2
<1> HIDE DEF src, Next1
<1>8. \A k \in 0..m : f[k] = IF k = 0 THEN src ELSE Next1(f[k - 1])
  <2> TAKE k \in 0..m
  <2>1. CASE k = 0
    <3>1. 0 \in 0..m-1
      BY <1>2, <1>3
    <3> QED
      BY <1>5, <1>6, <2>1, <3>1
  <2>2. CASE k # 0 /\ k < m
    <3>1. k \in 0..m-1 /\ k - 1 \in 0..m-1
      BY <1>2, <2>2
    <3>2. f[k] = g[k] /\ f[k - 1] = g[k - 1] /\ g[k] = Next1(g[k - 1])
      BY <1>5, <1>6, <2>2, <3>1
    <3> HIDE DEF f
    <3> QED
      BY <2>2, <3>2
  <2>3. CASE k = m
    <3>1. m - 1 \in 0..m-1
      BY <1>2, <1>3
    <3>2. f[m - 1] = g[m - 1]
      BY <1>5, <3>1
    <3> HIDE DEF f
    <3> QED
      BY <1>3, <1>7, <2>3, <3>2
  <2> QED
    BY <1>2, <2>1, <2>2, <2>3
<1>9. Paths(f, m)
  <2>1. f = [k \in 0..m |-> f[k]]
    OBVIOUS
  <2> HIDE DEF f
  <2> QED
    BY <1>8, <2>1 DEF Paths, src, Next1
<1> HIDE DEF f
<1> QED
  BY <1>2, <1>9

\* The paths, edge after edge.
LEMMA PathSteps ==
  /\ Cardinality(Task) \in Nat
  /\ AtEndOfPath[0] = {t \in Task : Parents(t) = {}}
  /\ \A k \in 1..Cardinality(Task) : AtEndOfPath[k] = {t \in Task : Parents(t) \cap AtEndOfPath[k - 1] # {}}
<1> DEFINE N == Cardinality(Task)
<1>1. N \in Nat
  BY FS_CardinalityType, WorkflowAssumption
<1>2. Paths(AtEndOfPath, N)
  <2>1. AtEndOfPath = CHOOSE f : Paths(f, N)
    BY DEF AtEndOfPath, Paths
  <2> HIDE DEF N
  <2> QED
    BY <1>1, <2>1, PathsExist
<1> HIDE DEF N
<1>3. 0 \in 0..N /\ \A k \in 1..N : k \in 0..N /\ k # 0
  BY <1>1
<1>4. /\ AtEndOfPath[0] = {t \in Task : Parents(t) = {}}
      /\ \A k \in 1..N : AtEndOfPath[k] = {t \in Task : Parents(t) \cap AtEndOfPath[k - 1] # {}}
  BY <1>2, <1>3 DEF Paths
<1> QED
  BY <1>1, <1>4 DEF N

\* A task is one deeper than the deepest of its completed parents.
DepthInv ==
  /\ \A t \in Task : \A p \in Parents(t) \cap Done : depth[p] + 1 <= depth[t]
  /\ \A t \in Task : depth[t] = 0 \/ \E p \in Parents(t) \cap Done : depth[t] = depth[p] + 1

\* A completed task no longer changes its depth, and gives it to its children.
LEMMA DepthKept == ASSUME SimpleGraph, Inv, DepthInv, [Next]_vars PROVE DepthInv'
<1>1. CASE Done' = Done /\ depth' = depth
  BY <1>1 DEF DepthInv
<1>2. ASSUME NEW w \in Workflow, TaskCompleted(w) PROVE DepthInv'
  <2>1. PICK c : c = key[w]
    OBVIOUS
  <2>2. Done' = Done \cup {c} /\ c \in Task /\ c \notin Done /\ Inv'
    BY <1>2, <2>1, TaskCompletedInv
  <2>3. \A u : u \in Range(Children(c)) <=> (u \in Task /\ c \in Parents(u))
    BY <2>2, GraphFacts
  <2>4. \A u \in Task : depth'[u] = IF c \in Parents(u) THEN DepthOf(u, c) ELSE depth[u]
    BY <1>2, <2>1, <2>3 DEF TaskCompleted
  <2>5. \A u \in Task : depth[u] \in Nat
    BY DEF Inv, Types
  <2>6. \A u \in Done' : u \in Task /\ c \notin Parents(u)
    <3>1. \A u \in Done' : u \in Task /\ times'[u] = 1
      BY DEF Done
    <3>2. times' = times
      BY <1>2 DEF TaskCompleted
    <3> QED
      BY <2>2, <3>1, <3>2 DEF Inv, DoneInv
  <2>7. \A p \in Done' : depth'[p] = depth[p]
    BY <2>4, <2>6
  <2>8. ASSUME NEW u \in Task, NEW p \in Parents(u) \cap Done' PROVE depth'[p] + 1 <= depth'[u]
    <3>1. depth'[p] = depth[p] /\ depth[p] \in Nat /\ depth[u] \in Nat /\ depth[c] \in Nat
      BY <2>2, <2>5, <2>6, <2>7
    <3>2. depth[u] <= depth'[u]
      BY <2>4, <3>1 DEF DepthOf
    <3>3. CASE p = c
      BY <2>4, <3>1, <3>3 DEF DepthOf
    <3>4. CASE p # c
      <4>1. depth[p] + 1 <= depth[u]
        BY <2>2, <3>4 DEF DepthInv
      <4>2. depth'[u] \in Nat
        BY <2>4, <3>1 DEF DepthOf
      <4> QED
        BY <3>1, <3>2, <4>1, <4>2
    <3> QED
      BY <3>3, <3>4
  <2>9. ASSUME NEW u \in Task PROVE depth'[u] = 0 \/ \E p \in Parents(u) \cap Done' : depth'[u] = depth'[p] + 1
    <3>1. CASE depth'[u] = depth[u]
      <4>1. depth[u] = 0 \/ \E p \in Parents(u) \cap Done : depth[u] = depth[p] + 1
        BY DEF DepthInv
      <4> QED
        BY <2>2, <2>7, <3>1, <4>1
    <3>2. CASE depth'[u] # depth[u]
      <4>1. c \in Parents(u) /\ depth'[u] = depth[c] + 1
        BY <2>4, <3>2 DEF DepthOf
      <4>2. c \in Done' /\ depth'[c] = depth[c]
        BY <2>2, <2>7
      <4> QED
        BY <4>1, <4>2
    <3> QED
      BY <3>1, <3>2
  <2> QED
    BY <2>8, <2>9 DEF DepthInv
<1> QED
  BY <1>1, <1>2, WorkflowsNextInv

\* Before any task is completed.
LEMMA DepthInit == Init => DepthInv
<1> SUFFICES ASSUME Init PROVE DepthInv
  OBVIOUS
<1>1. \A t \in Task : times[t] = 0 /\ depth[t] = 0
  BY Names DEF Init
<1>2. Done = {}
  BY <1>1 DEF Done
<1> QED
  BY <1>1, <1>2 DEF DepthInv

\* When a submitter has left, all its tasks are done.
LEMMA AllAreDone ==
  ASSUME SimpleGraph, Acyclic, Inv, NEW w \in Workflow, pc[w] = "gone", NEW t \in Task, In[t] = w
  PROVE  t \in Done
<1>1. ready[w] = <<>> /\ submitted[w] = {}
  BY DEF Inv, RegInv
<1>2. ~Sending(w)
  BY NotSending DEF Inv
<1>3. \A u \in Task : In[u] = w /\ times[u] = 1 => u \in Done
  BY <1>1, <1>2 DEF Done, Open
<1>4. \A u \in Task : In[u] = w /\ times[u] # 1 => times[u] = 0 /\ ~(Parents(u) \subseteq Done)
  <2>1. Range(ready[w]) = {}
    BY <1>1 DEF Range
  <2> QED
    BY <2>1 DEF Inv, TaskInv, DoneInv
<1>5. PICK rank \in [Task -> Nat] : \A k \in 1..Len(Edge) : rank[Edge[k][1]] < rank[Edge[k][2]]
  BY DEF Acyclic
<1>6. ASSUME NEW u \in Task, NEW p \in Parents(u) PROVE p \in Task /\ In[p] = In[u] /\ rank[p] < rank[u]
  <2>1. p \in Task /\ In[p] = In[u]
    BY GraphFacts
  <2>2. EdgeUpTo(Len(Edge), p, u)
    BY <2>1, GraphIsLoaded DEF GraphUpTo, Parents, load_from_xml
  <2>3. PICK i \in 1..Len(Edge) : Edge[i] = <<p, u>>
    BY <2>2 DEF EdgeUpTo
  <2> QED
    BY <1>5, <2>1, <2>3
<1>7. times[t] = 1
  <2> SUFFICES ASSUME times[t] # 1 PROVE FALSE
    OBVIOUS
  <2> DEFINE Left == {u \in Task : In[u] = w /\ times[u] # 1}
  <2> DEFINE Ranks == {rank[u] : u \in Left}
  <2>1. Ranks \in SUBSET Nat /\ Ranks # {}
    OBVIOUS
  <2>2. PICK n \in Ranks : \A m \in Ranks : n <= m
    <3> HIDE DEF Ranks
    <3> QED
      BY <2>1, LeastNat
  <2>3. PICK u \in Left : n = rank[u]
    OBVIOUS
  <2>4. PICK p \in Parents(u) : p \notin Done
    BY <1>4, <2>3
  <2>5. p \in Left /\ rank[p] < rank[u] /\ rank[p] \in Nat /\ rank[u] \in Nat
    BY <1>3, <1>6, <2>3, <2>4
  <2>6. rank[u] <= rank[p]
    BY <2>2, <2>3, <2>5
  <2> QED
    BY <2>5, <2>6
<1> QED
  BY <1>3, <1>7

\* A depth is less than the number of tasks: every smaller number is a depth too.
LEMMA DepthBound ==
  ASSUME Inv, DepthInv, NEW t \in Task
  PROVE  depth[t] \in 0..Cardinality(Task)
<1> DEFINE D == {depth[u] : u \in Task}
           n == depth[t]
           B == {e \in Nat : e <= n /\ n - e \notin D}
<1>1. \A u \in Task : depth[u] \in Nat /\ Parents(u) \subseteq Task
  BY GraphFacts DEF Inv, Types
<1>2. B = {}
  <2> SUFFICES ASSUME B # {} PROVE FALSE
    OBVIOUS
  <2>1. PICK e \in B : \A o \in B : e <= o
    <3>1. B \in SUBSET Nat
      OBVIOUS
    <3> HIDE DEF B
    <3> QED
      BY <3>1, LeastNat
  <2>2. n \in Nat /\ e \in Nat /\ e <= n /\ n - e \notin D
    BY <1>1
  <2>3. e # 0
    BY <2>2
  <2>4. e - 1 \in Nat /\ e - 1 <= n /\ ~(e <= e - 1)
    BY <2>2, <2>3
  <2>5. n - (e - 1) \in D
    BY <2>1, <2>4
  <2>6. PICK u \in Task : depth[u] = n - (e - 1)
    BY <2>5
  <2> HIDE DEF D, B, n
  <2>7. depth[u] # 0
    BY <2>2, <2>6
  <2>8. PICK p \in Parents(u) : depth[u] = depth[p] + 1
    BY <2>7 DEF DepthInv
  <2>9. p \in Task /\ depth[p] \in Nat
    BY <1>1
  <2>10. depth[p] = n - e
    BY <2>2, <2>6, <2>8, <2>9
  <2> QED
    BY <2>2, <2>9, <2>10 DEF D
<1>3. n \in Nat
  BY <1>1
<1>4. 0..n \subseteq D
  <2> SUFFICES ASSUME NEW d \in 0..n PROVE d \in D
    OBVIOUS
  <2>1. n - d \in Nat /\ n - d <= n /\ n - (n - d) = d
    BY <1>3
  <2>2. n - d \notin B
    BY <1>2
  <2> HIDE DEF n, D
  <2>3. n - (n - d) \in D
    BY <2>1, <2>2
  <2> QED
    BY <2>1, <2>3
<1>5. IsFiniteSet(D) /\ Cardinality(D) <= Cardinality(Task) /\ Cardinality(D) \in Nat /\ Cardinality(Task) \in Nat
  <2> DEFINE f == [u \in Task |-> depth[u]]
  <2>1. f \in Surjection(Task, D)
    BY DEF Surjection
  <2> HIDE DEF f, D
  <2>2. IsFiniteSet(Task)
    BY CountedSets
  <2>3. IsFiniteSet(D) /\ Cardinality(D) <= Cardinality(Task)
    BY <2>1, <2>2, FS_Surjection
  <2> QED
    BY <2>2, <2>3, FS_CardinalityType
<1> HIDE DEF n, D
<1>6. Cardinality(0..n) = n + 1
  BY <1>3, FS_Interval
<1>7. Cardinality(0..n) <= Cardinality(D)
  BY <1>4, <1>5, FS_Subset
<1>8. n \in 0..Cardinality(Task)
  BY <1>3, <1>5, <1>6, <1>7
<1> QED
  BY <1>8 DEF n

\* The depth of a task is the length of a path that ends at it.
LEMMA DepthIsReached ==
  ASSUME SimpleGraph, Acyclic, Inv, DepthInv, NEW w \in Workflow, pc[w] = "gone", NEW t \in Task, In[t] = w
  PROVE  t \in AtEndOfPath[depth[t]]
<1> DEFINE Bad(u) == In[u] = w /\ u \notin AtEndOfPath[depth[u]]
           B == {depth[u] : u \in {v \in Task : Bad(v)}}
<1> SUFFICES ASSUME Bad(t) PROVE FALSE
  OBVIOUS
<1>1. \A u \in Task : depth[u] \in 0..Cardinality(Task) /\ depth[u] \in Nat /\ Parents(u) \subseteq Task
  BY DepthBound, GraphFacts DEF Inv, Types
<1>2. PICK d \in B : \A o \in B : d <= o
  <2>1. B \in SUBSET Nat /\ B # {}
    BY <1>1
  <2> HIDE DEF B
  <2> QED
    BY <2>1, LeastNat
<1>3. PICK u \in Task : Bad(u) /\ d = depth[u]
  OBVIOUS
<1>4. \A p \in Parents(u) : p \in Task /\ In[p] = w /\ p \in Done
  BY <1>3, GraphFacts, AllAreDone
<1>5. d # 0
  <2> SUFFICES ASSUME d = 0 PROVE FALSE
    OBVIOUS
  <2>1. Parents(u) = {}
    <3> SUFFICES ASSUME NEW p \in Parents(u) PROVE FALSE
      OBVIOUS
    <3>1. depth[p] + 1 <= depth[u] /\ depth[p] \in Nat
      BY <1>1, <1>4 DEF DepthInv
    <3> QED
      BY <1>3, <3>1
  <2> QED
    BY <1>3, <2>1, PathSteps
<1>6. PICK p \in Parents(u) : depth[u] = depth[p] + 1
  BY <1>3, <1>5 DEF DepthInv
<1>7. p \in Task /\ In[p] = w /\ depth[p] \in Nat /\ depth[u] \in 1..Cardinality(Task) /\ depth[u] - 1 = depth[p]
  BY <1>1, <1>3, <1>4, <1>5, <1>6
<1>8. p \in AtEndOfPath[depth[p]]
  <2> SUFFICES ASSUME Bad(p) PROVE FALSE
    BY <1>7
  <2>1. depth[p] \in B
    BY <1>7
  <2>2. d <= depth[p]
    BY <1>2, <2>1
  <2> QED
    BY <1>3, <1>6, <1>7, <2>2
<1>9. u \in AtEndOfPath[depth[u]]
  BY <1>7, <1>8, PathSteps
<1> QED
  BY <1>3, <1>9

\* A path that ends at a task is not longer than its depth.
LEMMA PathsAreShort ==
  ASSUME SimpleGraph, Acyclic, Inv, DepthInv, NEW w \in Workflow, pc[w] = "gone",
         NEW k \in 0..Cardinality(Task), NEW t \in AtEndOfPath[k], In[t] = w
  PROVE  t \in Task /\ k <= depth[t]
<1> DEFINE N == Cardinality(Task)
           B == {m \in 0..N : \E u \in AtEndOfPath[m] : In[u] = w /\ ~(u \in Task /\ m <= depth[u])}
<1>0. N \in Nat
  BY PathSteps
<1> SUFFICES ASSUME B # {} PROVE FALSE
  OBVIOUS
<1>1. PICK m \in B : \A o \in B : m <= o
  <2>1. B \in SUBSET Nat
    BY <1>0
  <2> HIDE DEF B
  <2> QED
    BY <2>1, LeastNat
<1>2. PICK u \in AtEndOfPath[m] : In[u] = w /\ ~(u \in Task /\ m <= depth[u])
  OBVIOUS
<1>3. u \in Task /\ (m # 0 => Parents(u) \cap AtEndOfPath[m - 1] # {})
  <2>1. m = 0 \/ m \in 1..N
    BY <1>0
  <2> QED
    BY <1>2, <2>1, PathSteps
<1>4. depth[u] \in Nat
  BY <1>3 DEF Inv, Types
<1>5. m # 0 /\ m \in Nat /\ m - 1 \in 0..N /\ ~(m <= m - 1)
  BY <1>0, <1>2, <1>3, <1>4
<1>6. PICK p \in Parents(u) : p \in AtEndOfPath[m - 1]
  BY <1>3, <1>5
<1>7. p \in Task /\ In[p] = w /\ p \in Done /\ depth[p] \in Nat
  BY <1>2, <1>3, <1>6, GraphFacts, AllAreDone DEF Inv, Types
<1>8. m - 1 <= depth[p]
  BY <1>1, <1>5, <1>6, <1>7
<1>9. depth[p] + 1 <= depth[u]
  BY <1>3, <1>7 DEF DepthInv
<1> QED
  BY <1>2, <1>3, <1>4, <1>5, <1>7, <1>8, <1>9
(***************************************************************************)
(* The variables keep their types and bounds: in particular                *)
(* current_nb_of_jobs never exceeds the number of tasks nor falls below    *)
(* zero, and no more submitters leave than there are.                      *)
(***************************************************************************)
THEOREM WorkflowTypes == SimpleGraph => (Spec => []WorkflowTypeOK)
<1> SUFFICES ASSUME SimpleGraph PROVE Spec => []WorkflowTypeOK
  OBVIOUS
<1>1. Spec => []Inv
  BY WorkflowsInvariant
<1>2. Inv => WorkflowTypeOK
  <2> SUFFICES ASSUME Inv PROVE WorkflowTypeOK
    OBVIOUS
  <2>1. \A w \in Workflow : current_nb[w] \in 0..Cardinality(Task)
    <3> TAKE w \in Workflow
    <3>1. submitted[w] \subseteq Task /\ IsFiniteSet(Task)
      BY CountedSets, TaskSets DEF Inv
    <3>2. Cardinality(submitted[w]) <= Cardinality(Task) /\ Cardinality(submitted[w]) \in Nat /\ Cardinality(Task) \in Nat
      BY <3>1, FS_Subset, FS_CardinalityType
    <3> QED
      BY <3>2 DEF Inv, CountInv
  <2>2. current_nb \in [Workflow -> 0..Cardinality(Task)]
    BY <2>1 DEF Inv
  <2>3. nb_running \in Nat
    BY CountedSets, FS_CardinalityType DEF Inv, CountInv
  <2>4. nb_submitters_finished \in 0..Cardinality(Submitter)
    <3>1. /\ Cardinality(Finished) <= Cardinality(Submitter)
          /\ Cardinality(Finished) \in Nat /\ Cardinality(Submitter) \in Nat
      BY CountedSets, FS_Subset, FS_CardinalityType
    <3> QED
      BY <3>1 DEF Inv, CountInv
  <2>5. nb_workflow_submitters_finished \in 0..Cardinality(Workflow)
    <3>1. /\ Cardinality(Finished \cap Workflow) <= Cardinality(Workflow)
          /\ Cardinality(Finished \cap Workflow) \in Nat /\ Cardinality(Workflow) \in Nat
      BY CountedSets, FS_Subset, FS_CardinalityType
    <3> QED
      BY <3>1 DEF Inv, CountInv
  <2>6. Types /\ (Working => mailbox # <<>>)
    BY DEF Inv, MailInv
  <2> QED
    BY <2>2, <2>3, <2>4, <2>5, <2>6 DEF WorkflowTypeOK, Types, Working, Places, States
<1> QED
  BY <1>1, <1>2, PTL

(***************************************************************************)
(* A task is submitted at most once, and after all its parents are         *)
(* completed (nb_parent_completed, ready_tasks), whatever the graph, the   *)
(* limit on the jobs and the order of the completions. An edge that the    *)
(* file repeats is counted twice, so the file must not repeat one.         *)
(***************************************************************************)
THEOREM TasksRunOnceAfterParents == SimpleGraph => (Spec => []OnceAfterParents)
<1> SUFFICES ASSUME SimpleGraph PROVE Spec => []OnceAfterParents
  OBVIOUS
<1>1. Spec => []Inv
  BY WorkflowsInvariant
<1>2. Inv => OnceAfterParents
  <2> SUFFICES ASSUME Inv, NEW t \in Task
               PROVE  times[t] <= 1 /\ (times[t] > 0 => \A p \in Parents(t) : Completed(p))
    BY DEF OnceAfterParents
  <2>1. times[t] \in {0, 1}
    BY DEF Inv, TaskInv
  <2>2. times[t] = 1 => \A p \in Parents(t) : job[p] = "completed"
    BY DEF Inv, DoneInv
  <2> QED
    BY <2>1, <2>2 DEF Completed
<1> QED
  BY <1>1, <1>2, PTL

(***************************************************************************)
(* The lookups that nothing guards succeed: a submitter that is called     *)
(* back finds the task in submitted_tasks, and the server holds no pointer *)
(* to a submitter that has left.                                           *)
(***************************************************************************)
THEOREM CallbacksAreSafe == SimpleGraph => (Spec => []CallbacksFindTheirTarget)
<1> SUFFICES ASSUME SimpleGraph PROVE Spec => []CallbacksFindTheirTarget
  OBVIOUS
<1>1. Spec => []Inv
  BY WorkflowsInvariant
<1>2. Inv => CallbacksFindTheirTarget
  BY DEF Inv, CallInv, RegInv, CallbacksFindTheirTarget
<1> QED
  BY <1>1, <1>2, PTL

(***************************************************************************)
(* When the graph has no cycle, a workflow's submitter leaves only after   *)
(* all its tasks are completed. Otherwise take a task of least rank that   *)
(* is not submitted: its parents are completed and their completion was    *)
(* seen, so it is among the ready tasks, of which none is left.            *)
(***************************************************************************)
THEOREM SubmittersLeaveLast == SimpleGraph /\ Acyclic => (Spec => []ByeMeansAllRun)
<1> SUFFICES ASSUME SimpleGraph, Acyclic PROVE Spec => []ByeMeansAllRun
  OBVIOUS
<1>1. Spec => []Inv
  BY WorkflowsInvariant
<1>2. Inv => ByeMeansAllRun
  <2> SUFFICES ASSUME Inv, NEW w \in Workflow, pc[w] = "gone", NEW t \in Task, In[t] = w
               PROVE  job[t] = "completed"
    BY DEF ByeMeansAllRun, Completed
  <2>1. t \in Done
    BY AllAreDone
  <2> QED
    BY <2>1 DEF Inv, DoneInv
<1> QED
  BY <1>1, <1>2, PTL

(***************************************************************************)
(* When the graph has no cycle, the depth that get_maximum_depth finds     *)
(* after the last task is the length of the longest path, in whatever      *)
(* order the parents of a task complete (bottom_level_f).                  *)
(***************************************************************************)
THEOREM DepthsAreRight == SimpleGraph /\ Acyclic => (Spec => []DepthIsLongestPath)
<1> SUFFICES ASSUME SimpleGraph, Acyclic PROVE Spec => []DepthIsLongestPath
  OBVIOUS
<1>1. Init => Inv /\ DepthInv
  BY WorkflowsInitInv, DepthInit
<1>2. (Inv /\ DepthInv) /\ [Next]_vars => (Inv /\ DepthInv)'
  BY WorkflowsNextInv, DepthKept
<1>3. Inv /\ DepthInv => DepthIsLongestPath
  <2> SUFFICES ASSUME Inv, DepthInv, NEW w \in Workflow, pc[w] = "gone", NEW t0 \in Task, In[t0] = w
               PROVE  LET n == get_maximum_depth(w) IN
                      /\ \E t \in AtEndOfPath[n] : In[t] = w
                      /\ \A k \in (n + 1)..Cardinality(Task) : \A t \in AtEndOfPath[k] : In[t] # w
    BY DEF DepthIsLongestPath
  <2> DEFINE N == Cardinality(Task)
             Mine == {t \in Task : In[t] = w}
             sinks == get_sink_tasks(w)
  <2>1. N \in Nat /\ \A t \in Task : depth[t] \in 0..N
    BY DepthBound, PathSteps
  <2> HIDE DEF N
  <2>2. PICK s \in Mine : \A t \in Mine : depth[t] <= depth[s]
    <3> DEFINE B == {N - depth[t] : t \in Mine}
    <3>1. B \in SUBSET Nat /\ B # {}
      BY <2>1
    <3>2. PICK b \in B : \A o \in B : b <= o
      <4> HIDE DEF B
      <4> QED
        BY <3>1, LeastNat
    <3>3. PICK s \in Mine : b = N - depth[s]
      OBVIOUS
    <3>4. ASSUME NEW t \in Mine PROVE depth[t] <= depth[s]
      <4>1. N - depth[s] <= N - depth[t]
        BY <3>2, <3>3
      <4>2. depth[s] \in 0..N /\ depth[t] \in 0..N
        BY <2>1
      <4> QED
        BY <2>1, <4>1, <4>2
    <3> QED
      BY <3>4
  <2>3. s \in sinks
    <3> SUFFICES ASSUME Children(s) # <<>> PROVE FALSE
      BY DEF get_sink_tasks
    <3>1. Children(s) \in Seq(Task) /\ \A u : u \in Range(Children(s)) <=> (u \in Task /\ s \in Parents(u))
      BY GraphFacts
    <3>2. Children(s)[1] \in Range(Children(s))
      <4> DEFINE c == Children(s)
      <4>1. c \in Seq(Task) /\ c # <<>>
        BY <3>1
      <4> HIDE DEF c
      <4>2. Len(c) \in Nat \ {0} /\ DOMAIN c = 1..Len(c)
        BY <4>1
      <4>3. c[1] \in Range(c)
        BY <4>2 DEF Range
      <4> QED
        BY <4>3 DEF c
    <3>3. PICK u \in Task : s \in Parents(u)
      BY <3>1, <3>2
    <3>4. In[u] = w /\ s \in Done
      BY <3>3, GraphFacts, AllAreDone
    <3>5. depth[s] + 1 <= depth[u] /\ depth[u] <= depth[s] /\ depth[s] \in Nat
      BY <2>1, <2>2, <3>3, <3>4 DEF DepthInv
    <3> QED
      BY <2>1, <3>5
  <2>4. sinks \subseteq Mine
    BY DEF get_sink_tasks
  <2> DEFINE n == get_maximum_depth(w)
  <2>5. n \in {depth[t] : t \in sinks} /\ \A t \in sinks : depth[t] <= n
    <3>1. sinks # {}
      BY <2>3
    <3>2. \E d \in {depth[t] : t \in sinks} : \A t \in sinks : depth[t] <= d
      BY <2>2, <2>3, <2>4
    <3> QED
      BY <3>1, <3>2 DEF get_maximum_depth
  <2>6. PICK z \in sinks : n = depth[z]
    BY <2>5
  <2> HIDE DEF n
  <2>7. n \in Nat /\ \A t \in Mine : depth[t] <= n
    <3>1. depth[s] <= n /\ n \in 0..N /\ depth[s] \in 0..N
      BY <2>1, <2>3, <2>4, <2>5, <2>6
    <3> QED
      BY <2>1, <2>2, <3>1
  <2>8. z \in AtEndOfPath[n] /\ In[z] = w
    BY <2>4, <2>6, DepthIsReached
  <2>9. ASSUME NEW k \in (n + 1)..N, NEW t \in AtEndOfPath[k], In[t] = w PROVE FALSE
    <3>1. k \in 0..N /\ n < k
      BY <2>1, <2>7
    <3>2. t \in Task /\ k <= depth[t]
      BY <2>9, <3>1, PathsAreShort DEF N
    <3> QED
      BY <2>1, <2>7, <2>9, <3>1, <3>2
  <2> QED
    BY <2>8, <2>9 DEF n, N
<1> QED
  BY <1>1, <1>2, <1>3, PTL DEF Spec

=============================================================================
