------------------------------ MODULE JobQueue -------------------------------
(***************************************************************************)
(* What the bench worker promises its callers, without its threads: jobs   *)
(* wait in submission order, one at a time is taken to the bench and walks *)
(* the run states of docs/service-contract.md section 2, and a job that    *)
(* was withdrawn never reaches the bench.                                  *)
(***************************************************************************)
CONSTANTS Jobs, None,
          MayEscape     \* an exception no handler expects may escape a job's park

VARIABLES waiting,      \* the jobs submitted and not yet taken
          ahead,        \* for each waiting job, the waiting jobs submitted before it
          active,       \* the job on the bench, or None
          phase,        \* the run state of each job
          parked        \* the jobs whose park has been attempted

queueVars == <<waiting, ahead, active, phase, parked>>

Ended == {"done", "stopped", "aborted", "failed", "blocked", "cancelled"}

\* The arrows of the run-state diagram that the bench walks.  A pause may follow
\* `stopping`: a loop whose entry was under way still asks, and is answered at once.
Arrow(p) ==
    CASE p = "queued"    -> {"preflight"}
      [] p = "preflight" -> {"running", "failed", "blocked"}
      [] p = "running"   -> {"paused", "stopping", "done", "stopped", "aborted", "failed"}
      [] p = "paused"    -> {"running", "stopping", "stopped", "aborted", "failed"}
      [] p = "stopping"  -> {"paused", "done", "stopped", "aborted", "failed"}
      [] OTHER           -> {}

Init ==
    /\ waiting = {} /\ ahead = [j \in Jobs |-> {}]
    /\ active = None
    /\ phase = [j \in Jobs |-> "new"]
    /\ parked = {}

\* The jobs S leave the queue, from wherever in it they are.
Leave(S) ==
    /\ waiting' = waiting \ S
    /\ ahead' = [j \in Jobs |-> IF j \in S THEN {} ELSE ahead[j] \ S]

Enqueue(j) ==
    /\ phase[j] = "new"
    /\ waiting' = waiting \cup {j}
    /\ ahead' = [ahead EXCEPT ![j] = waiting]
    /\ phase' = [phase EXCEPT ![j] = "queued"]
    /\ UNCHANGED <<active, parked>>

\* Any set of waiting jobs is withdrawn at once.
Withdraw(S) ==
    /\ S \subseteq waiting
    /\ Leave(S)
    /\ phase' = [j \in Jobs |-> IF j \in S THEN "cancelled" ELSE phase[j]]
    /\ UNCHANGED <<active, parked>>

\* The job with none ahead of it is taken to an empty bench.
Start ==
    /\ active = None
    /\ \E j \in waiting : ahead[j] = {} /\ active' = j /\ Leave({j})
    /\ UNCHANGED <<phase, parked>>

Advance ==
    /\ active # None
    /\ \E p \in Arrow(phase[active]) : phase' = [phase EXCEPT ![active] = p]
    /\ UNCHANGED <<waiting, ahead, active, parked>>

Park ==
    /\ active # None /\ phase[active] \in Ended
    /\ parked' = parked \cup {active}
    /\ UNCHANGED <<waiting, ahead, active, phase>>

Retire ==
    /\ active # None /\ phase[active] \in Ended
    /\ active \in parked \/ MayEscape
    /\ active' = None
    /\ UNCHANGED <<waiting, ahead, phase, parked>>

Next ==
    \/ \E j \in Jobs : Enqueue(j)
    \/ \E S \in SUBSET Jobs : Withdraw(S)
    \/ Start \/ Advance \/ Park \/ Retire

Spec == Init /\ [][Next]_queueVars
=============================================================================
