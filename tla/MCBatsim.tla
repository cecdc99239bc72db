------------------------------ MODULE MCBatsim ------------------------------
\* Instances of Batsim for TLC.
EXTENDS Batsim

CONSTANTS j1, j2, j3, s1, s2, e1, ev1, m1, m2, w1

\* Each static job comes from its own workload, or both come from the same one.
TwoWorkloads == [i \in StaticJob \cup ExtEvent |->
                   IF i = j1 THEN s1 ELSE IF i = j2 THEN s2 ELSE e1]
OneWorkload == [i \in StaticJob \cup ExtEvent |-> IF i \in StaticJob THEN s1 ELSE e1]
Dates       == [i \in StaticJob \cup ExtEvent |-> IF i = j2 THEN 1 ELSE 0]
OneMachineEach == [j \in Job |-> 1]
=============================================================================
