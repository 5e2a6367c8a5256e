----------------------------- MODULE MCRunWorker -----------------------------
(***************************************************************************)
(* RunWorker for TLC: the constants of its runs, and the statements of the *)
(* documents that the code does not keep.                                  *)
(***************************************************************************)
EXTENDS RunWorker

CONSTANTS r1, a1, c1, c2

OneRun == {r1}
RunAndAction == {r1, a1}
OneCaller == {c1}
TwoCallers == {c1, c2}

-----------------------------------------------------------------------------
\* docs/service-contract.md: a duplicate resume cannot answer a later pause.  The
\* reply carries no pause, so one still in flight when the next pause opens does.
DuplicateNeverAnswersLaterPause ==
    gen = "resumed" => answer.asked = pauseNo[current]

\* docs/service-contract.md: Job.resume accepts detail only during the open pause.
\* An abort that closes the generator at NeedsOperator never reaches the wait that
\* lowers `paused`.
NoReplyAcceptedAfterTheEnd ==
    \A j \in Jobs : (terminal(j) /\ state[j] # "cancelled") => ~paused[j]

\* The run-state diagram of docs/service-contract.md: a run is paused only from
\* running, and `stopping` leads to an outcome.
StoppingLeadsToAnOutcome ==
    [][\A j \in Jobs : state[j] = "stopping" => state'[j] \in {"stopping"} \cup TERMINAL]_vars

\* worker.py: the bus lock is held throughout each worker job.  A BaseException has
\* left `with self.bus` when its handler parks the bench.
BusHeldThroughoutJob == pc \in OnBench => bus = "worker"
=============================================================================
