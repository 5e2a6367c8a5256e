----------------------------- MODULE MCPageStore ------------------------------
(***************************************************************************)
(* PageStore for TLC: histories of two runs, and what the store's source   *)
(* says that the code does not keep.                                       *)
(***************************************************************************)
EXTENDS PageStore

CONSTANTS r1, r2

S(r, s) == [type |-> "state", run |-> r, state |-> s]
E(r, t) == [type |-> t, run |-> r]

\* A pause that is answered; shots of a node with its axis; a run that ends, and the next
\* one; a stop in preflight; a queued run that is cancelled.
Histories ==
    {<<S(r1, "preflight"), S(r1, "running"), E(r1, "needs"), E(r1, "resumed")>>,
     <<S(r1, "preflight"), E(r1, "axis"), E(r1, "shot"), E(r1, "node")>>,
     <<S(r1, "preflight"), S(r1, "done"), S(r1, "parked"), S(r2, "preflight")>>,
     <<S(r1, "preflight"), S(r1, "stopping"), S(r1, "running"), S(r1, "stopped")>>,
     <<S(r1, "preflight"), S(r2, "queued"), S(r2, "cancelled"), E(r1, "needs")>>}

\* store.js:135: Boot and Hello snapshots establish the initial state.  One taken after a
\* run's `parked' is out and before the worker clears `current' (worker.py:387) shows the
\* ended run as stopping, and no later frame of it says otherwise.
IdleOnceCleared ==
    CaughtUp => \E n \in {seq, IF seq < MaxSeq THEN seq + 1 ELSE seq} : Shows(InWorker(n))
=============================================================================
