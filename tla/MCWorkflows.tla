---------------------------- MODULE MCWorkflows ----------------------------
\* Instances of Workflows for TLC.
EXTENDS Workflows, TLC

CONSTANTS w1, w2, a, b, c, d, e, p1

\* d has three parents, the deepest of which need not be the last to complete, and
\* e is a third task that may be ready beside two others.
Join      == <<<<a, b>>, <<b, d>>, <<c, d>>, <<a, d>>>>
JoinOrder == <<a, b, c, d, e>>
JoinIn    == [t \in {a, b, c, d, e} |-> w1]

\* Two independent chains in one workflow.
Chains      == <<<<a, c>>, <<b, d>>>>
ChainsOrder == <<a, b, c, d>>
ChainsIn    == [t \in {a, b, c, d} |-> w1]

\* Two workflows, of two tasks and of one task.
PairIn    == (a :> w1) @@ (b :> w1) @@ (e :> w2)
PairOrder == <<a, b, e>>
Pair      == <<<<a, b>>>>

\* The same edge twice.
DoubledIn    == (a :> w1) @@ (b :> w1)
DoubledOrder == <<a, b>>
Doubled      == <<<<a, b>>, <<a, b>>>>
=============================================================================
