------------------------------ MODULE MCPStates -----------------------------
EXTENDS PStates

\* Event lists: none, or the machines go away and come back.
NoEvents == <<>>
DownAndUp == <<[type |-> "unavailable", about |-> Machine], [type |-> "available", about |-> Machine]>>

\* The lists alternate: the theorems of AvailabilityProofs apply to the instances.
ASSUME ProperEvents == EventsAlternate
==============================================================================
