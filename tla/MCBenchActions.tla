--------------------------- MODULE MCBenchActions ----------------------------
(***************************************************************************)
(* BenchActions for TLC: two clients beside two runs, and the statements   *)
(* of the documents that the code does not keep.                           *)
(***************************************************************************)
EXTENDS BenchActions

CONSTANTS r1, r2, c1, c2

TwoRuns == {r1, r2}
OneRun == {r1}
TwoClients == {c1, c2}
OneClient == {c1}

-----------------------------------------------------------------------------
\* session.py: park aborts the active run and cancels queued runs before parking;
\* safety must not wait for the queued runs.  A run popped between run_active's two
\* reads is seen by neither, and park queues behind it.
ParkWaitsForNoRun ==
    \A c \in Clients : kind[c] = "park" => \A r \in Ahead(c) : r \in asked \/ terminal(r)

\* session.py: active runs make actions and read-backs Busy.  The same gap lets one
\* in while a run starts.
BusyWhileARunIsActive ==
    \A c \in Clients : (kind[c] # "park" /\ at[c] = "wait") => Ahead(c) = {}

\* session.py: _await returns true when the job runs.  A shutdown cancels the queued
\* job, which wakes the waiter, and cancelled is not failed.
AwaitTrueMeansItRan ==
    \A c \in Clients : answer[c] = "ran" => phase[c] # "cancelled"
=============================================================================
