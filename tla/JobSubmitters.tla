--------------------------- MODULE JobSubmitters ----------------------------
(***************************************************************************)
(* The actors that inject the inputs: static_job_submitter_process         *)
(* (job_submitter.cpp), one per workload, and                              *)
(* static_event_submitter_process (event_submitter.cpp), one per event     *)
(* list. Both say hello, send what they hold grouped by date, say goodbye, *)
(* and sleep between two dates.                                            *)
(***************************************************************************)
EXTENDS BatsimState

submitterUnchanged ==
  UNCHANGED <<jobVars, machineVars, server, loopVars, jobCounters, actorCounts,
              submitVars, registration_finished, bufferVars, readerActor,
              helperActors, schedVars, aborted>>

\* What the submitter sends next: everything it holds for the earliest date.
NextBatch(s) ==
  {i \in todo[s] : \A k \in todo[s] : Date[i] <= Date[k]}

\* Mutant of Unsent: jobs_to_send is not cleared, so the batch is sent again.
BatchKept(s) == todo[s]

Unsent(s) == todo[s] \ NextBatch(s)

SubmitterHello(s) ==
  /\ ~aborted
  /\ submitter[s] = "hello"
  /\ Put(Msg("SUBMITTER_HELLO", s, {}))
  /\ submitter' = [submitter EXCEPT ![s] = "blocked"]
  /\ UNCHANGED todo
  /\ submitterUnchanged

\* The wake-up at the next date and the put of that date's jobs or events.
SubmitBatch(s) ==
  /\ ~aborted
  /\ submitter[s] = "run"
  /\ todo[s] # {}
  /\ Put(Msg(IF s \in JobSubmitter THEN "JOB_SUBMITTED" ELSE "EVENT_OCCURRED",
             s, NextBatch(s)))
  /\ todo' = [todo EXCEPT ![s] = Unsent(s)]
  /\ submitter' = [submitter EXCEPT ![s] = "blocked"]
  /\ submitterUnchanged

SubmitterBye(s) ==
  /\ ~aborted
  /\ submitter[s] = "run"
  /\ todo[s] = {}
  /\ Put(Msg("SUBMITTER_BYE", s, {}))
  /\ submitter' = [submitter EXCEPT ![s] = "blocked"]
  /\ UNCHANGED todo
  /\ submitterUnchanged

SubmitterStep(s) == SubmitterHello(s) \/ SubmitBatch(s) \/ SubmitterBye(s)
=============================================================================
