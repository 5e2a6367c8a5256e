---------------------------- MODULE MCRunSession -----------------------------
(***************************************************************************)
(* RunSession for TLC: the constants of its runs, and the statements of    *)
(* the documents that the code does not keep.                              *)
(***************************************************************************)
EXTENDS RunSession

CONSTANTS r1, r2, c1

OneRun == {r1}
TwoRuns == {r1, r2}
LoopAndPool == {Loop, c1}

\* service-contract.md: an accepted stop updates the record to `stopping` at once
\* and keeps it there.  A pause that was opening takes the record to `paused`, and
\* the worker's own `stopping` is then suppressed as already said.
AcceptedStopStaysShown ==
    \A j \in Jobs : (record[j].stopping /\ hand.job # j)
                       => record[j].state \in TERMINAL \cup {"stopping"}

\* app.py, SHUTDOWN_DRAIN_S: the pause lets the final callbacks run before the
\* journal closes.  It follows the first shutdown; when Session.close is the one that
\* sees the worker end, nothing lets them run between its join and journal.close.
JournalHoldsEveryOutcome ==
    (life = "closed" /\ released /\ posted = <<>>) =>
        \A j \in Jobs : recorded(j) => state[j] \in journal[j]

\* service-contract.md: the run record retains the terminal state.  Without a loop
\* a stop that was being accepted when the run ended says `stopping` after it.
RecordRetainsTheOutcome ==
    \A j \in Jobs : record[j].ended => ended(j)
=============================================================================
