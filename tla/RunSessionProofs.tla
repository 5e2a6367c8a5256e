--------------------------- MODULE RunSessionProofs ---------------------------
(***************************************************************************)
(* Theorems about the worker and the session around it, for any jobs,      *)
(* callers and bounds.  First the worker by itself: who owns a job, the    *)
(* pause, what a stop tells, and that it implements the job queue.  Then   *)
(* the session, for either way of attaching it: what a record shows, what  *)
(* wakes its waiters, what the journal holds.                              *)
(***************************************************************************)
EXTENDS RunSession, TLAPS

-----------------------------------------------------------------------------
(* The worker. *)

\* Every step keeps the types.
LEMMA TypesKept ==
    ASSUME TypeOK, [Next]_vars
    PROVE  TypeOK'
<1> USE RunWorkerAssumption
<1> USE DEF TERMINAL, States, StopModes, Pauses, Answers, Answer, NoAnswer, Replies,
            InCall, Idle, Calls, PCs, Gens, Events
<1> USE DEF TypeOK, loopVars, queueVars, pauseVars, jobVars, genVars, endVars,
            execVars, workVars
<1>1. ASSUME NEW j \in Jobs, Submit(j) PROVE TypeOK'
  BY <1>1 DEF Submit
<1>2. ASSUME NEW c \in Callers, NEW j \in Jobs, Cancel(c, j) PROVE TypeOK'
  BY <1>2 DEF Cancel, Removable, Dequeue
<1>3. ASSUME NEW c \in Callers, StopRuns(c) PROVE TypeOK'
  BY <1>3 DEF StopRuns, Dequeue
<1>4. ASSUME NEW c \in Callers, Shutdown(c) PROVE TypeOK'
  BY <1>4 DEF Shutdown, Dequeue
<1>5. ASSUME NEW c \in Callers, MarkCancelled(c) PROVE TypeOK'
  BY <1>5 DEF MarkCancelled, Oldest, Withdrawing
<1>6. ASSUME NEW c \in Callers, Return(c) PROVE TypeOK'
  BY <1>6 DEF Return, AbortsCurrent, terminal, terminal
<1>7. ASSUME NEW j \in Jobs, NEW m \in StopModes, RequestStop(j, m) PROVE TypeOK'
  BY <1>7 DEF RequestStop
<1>8. ASSUME NEW c \in Callers, NEW j \in Jobs, SendResume(c, j) PROVE TypeOK'
  BY <1>8 DEF SendResume
<1>9. ASSUME NEW c \in Callers, Resume(c) PROVE TypeOK'
  BY <1>9 DEF Resume
<1>10. CASE Take BY <1>10 DEF Take, Oldest, Dequeue
<1>11. CASE LeaveLoop BY <1>11 DEF LeaveLoop
<1>12. CASE AcquireBus BY <1>12 DEF AcquireBus, BusIsFree, SetState
<1>13. CASE MakeReturns BY <1>13 DEF MakeReturns, SetState
<1>14. CASE MakeRaises BY <1>14 DEF MakeRaises, EndWith
<1>15. CASE YieldEvent BY <1>15 DEF YieldEvent, Yield
<1>16. CASE YieldNeedsOperator BY <1>16 DEF YieldNeedsOperator, ArmPause, Yield
<1>17. CASE YieldResumed BY <1>17 DEF YieldResumed, Yield
<1>18. CASE YieldRunAborted BY <1>18 DEF YieldRunAborted, Yield
<1>19. CASE YieldRunFailed BY <1>19 DEF YieldRunFailed, Yield
<1>20. CASE StopIteration BY <1>20 DEF StopIteration
<1>21. CASE GeneratorRaises BY <1>21 DEF GeneratorRaises, EndWith
<1>22. CASE AbortNowRaised BY <1>22 DEF AbortNowRaised, EndWith, SyntheticAbort
<1>23. CASE EnterWait BY <1>23 DEF EnterWait
<1>24. CASE WaitReady BY <1>24 DEF WaitReady, _ready
<1>25. CASE LeaveWait BY <1>25 DEF LeaveWait, ClosePause
<1>26. CASE HandleEvent BY <1>26 DEF HandleEvent, StoppedOutcome
<1>27. CASE CloseOnAbort BY <1>27 DEF CloseOnAbort, EndWith, SyntheticAbort
<1>28. CASE Continue
  <2>1. state' \in [Jobs -> States]
    BY <1>28 DEF Continue, SetState
  <2>2. said' \subseteq {"RunAborted", "RunFailed", "stopping"}
    BY <1>28 DEF Continue
  <2>3. QED
    BY <1>28, <2>1, <2>2 DEF Continue
<1>29. CASE Finish BY <1>29 DEF Finish, SetState
<1>30. CASE Park BY <1>30 DEF Park
<1>31. CASE ReleaseBus BY <1>31 DEF ReleaseBus
<1>32. CASE ClearCurrent BY <1>32 DEF ClearCurrent, NextTurn, ResetLocals
<1>33. CASE BaseExceptionEscapes BY <1>33 DEF BaseExceptionEscapes, CatchEscape, EndWith, terminal
<1>34. CASE MonitorAcquire BY <1>34 DEF MonitorAcquire, BusIsFree
<1>35. CASE MonitorRelease BY <1>35 DEF MonitorRelease
<1>36. CASE UNCHANGED vars BY <1>36 DEF vars
<1>37. QED
  BY <1>1, <1>2, <1>3, <1>4, <1>5, <1>6, <1>7, <1>8, <1>9, <1>10, <1>11, <1>12,
     <1>13, <1>14, <1>15, <1>16, <1>17, <1>18, <1>19, <1>20, <1>21, <1>22, <1>23,
     <1>24, <1>25, <1>26, <1>27, <1>28, <1>29, <1>30, <1>31, <1>32, <1>33, <1>34,
     <1>35, <1>36 DEF Next, Worker, Generator, Proceed

\* The types hold at the start.
LEMMA TypesAtStart ==
    ASSUME Init
    PROVE  TypeOK
<1> USE RunWorkerAssumption
<1> USE DEF TERMINAL, States, StopModes, Pauses, Answers, Answer, NoAnswer, Replies,
            InCall, Idle, Calls, PCs, Gens, Events
<1>1. NoAnswer \in Answers /\ Idle \in Calls
  OBVIOUS
<1>2. /\ queue \subseteq Jobs /\ ticket \in [Jobs -> Nat] /\ submitted \in Nat
      /\ current \in Jobs \cup {None} /\ stopping \in BOOLEAN /\ crashed \in BOOLEAN
      /\ bus \in {"free", "worker", "monitor"}
      /\ state \in [Jobs -> States] /\ stopMode \in [Jobs -> StopModes \cup {None}]
      /\ paused \in [Jobs -> BOOLEAN] /\ parked \in [Jobs -> BOOLEAN]
  BY DEF Init
<1>3. /\ (current = None) <=> (pc \in {"wait", "ended"})
      /\ detail \in [Jobs -> Replies \cup {None}] /\ pauseNo \in [Jobs -> Pauses]
      /\ pc \in PCs /\ gen \in Gens /\ ev \in Events
  BY DEF Init
<1>4. /\ answer \in Answers
      /\ outcome \in TERMINAL \ {"cancelled"}
      /\ said \subseteq {"RunAborted", "RunFailed", "stopping"}
      /\ left \in 0 .. MaxYields /\ aborts \in Nat
      /\ call \in [Callers -> Calls]
  BY <1>1 DEF Init
<1>5. QED
  BY <1>2, <1>3, <1>4 DEF TypeOK

\* Every variable of the worker keeps its type, and a job is current exactly while
\* the thread is between popping it and clearing it (RunWorker._loop).
THEOREM TypeCorrect == Spec => []TypeOK
<1>1. Init => TypeOK
  BY TypesAtStart
<1>2. TypeOK /\ [Next]_vars => TypeOK'
  BY TypesKept
<1>3. QED
  BY <1>1, <1>2, PTL DEF Spec
-----------------------------------------------------------------------------
\* Every step keeps one owner for each queued job and one job on the bench.
LEMMA OwnersKept ==
    ASSUME TypeOK, Ownership, [Next]_vars
    PROVE  Ownership'
<1> USE RunWorkerAssumption
<1> USE DEF Ownership, QueuedJobHasOneOwner, OnlyCurrentExecutes,
            CurrentStateFollowsThread, TERMINAL
<1>t. /\ queue \subseteq Jobs /\ current \in Jobs \cup {None}
      /\ (current = None) <=> (pc \in {"wait", "ended"})
      /\ state \in [Jobs -> States] /\ call \in [Callers -> Calls]
      /\ outcome \in TERMINAL \ {"cancelled"} /\ pc \in PCs
  BY DEF TypeOK
<1> USE <1>t
<1> USE DEF loopVars, queueVars, pauseVars, jobVars, genVars, endVars, execVars,
            workVars, PCs
<1>1. ASSUME NEW j \in Jobs, Submit(j) PROVE Ownership'
  BY <1>1 DEF Submit, Withdrawing
<1>2. ASSUME NEW c \in Callers, NEW j \in Jobs, Cancel(c, j) PROVE Ownership'
  BY <1>2 DEF Cancel, Removable, Dequeue, Withdrawing, InCall
<1>3. ASSUME NEW c \in Callers, StopRuns(c) PROVE Ownership'
  BY <1>3 DEF StopRuns, Dequeue, Withdrawing, InCall
<1>4. ASSUME NEW c \in Callers, Shutdown(c) PROVE Ownership'
  BY <1>4 DEF Shutdown, Dequeue, Withdrawing, InCall
<1>5. ASSUME NEW c \in Callers, MarkCancelled(c) PROVE Ownership'
  BY <1>5 DEF MarkCancelled, Oldest, Withdrawing, InCall
<1>6. ASSUME NEW c \in Callers, Return(c) PROVE Ownership'
  BY <1>6 DEF Return, AbortsCurrent, terminal, Withdrawing, InCall, Idle
<1>7. ASSUME NEW j \in Jobs, NEW m \in StopModes, RequestStop(j, m) PROVE Ownership'
  BY <1>7 DEF RequestStop, Withdrawing
<1>8. ASSUME NEW c \in Callers, NEW j \in Jobs, SendResume(c, j) PROVE Ownership'
  BY <1>8 DEF SendResume, Withdrawing, InCall
<1>9. ASSUME NEW c \in Callers, Resume(c) PROVE Ownership'
  BY <1>9 DEF Resume, Withdrawing, InCall, Idle
<1>10. CASE Take BY <1>10 DEF Take, Oldest, Dequeue, Withdrawing
<1>11. CASE LeaveLoop BY <1>11 DEF LeaveLoop, Withdrawing
<1>12. CASE AcquireBus BY <1>12 DEF AcquireBus, BusIsFree, SetState, Withdrawing
<1>13. CASE MakeReturns BY <1>13 DEF MakeReturns, SetState, Withdrawing
<1>14. CASE MakeRaises BY <1>14 DEF MakeRaises, EndWith, Withdrawing
<1>15. CASE YieldEvent BY <1>15 DEF YieldEvent, Yield, Withdrawing
<1>16. CASE YieldNeedsOperator BY <1>16 DEF YieldNeedsOperator, ArmPause, Yield, Withdrawing
<1>17. CASE YieldResumed BY <1>17 DEF YieldResumed, Yield, Withdrawing
<1>18. CASE YieldRunAborted BY <1>18 DEF YieldRunAborted, Yield, Withdrawing
<1>19. CASE YieldRunFailed BY <1>19 DEF YieldRunFailed, Yield, Withdrawing
<1>20. CASE StopIteration BY <1>20 DEF StopIteration, Withdrawing
<1>21. CASE GeneratorRaises BY <1>21 DEF GeneratorRaises, EndWith, Withdrawing
<1>22. CASE AbortNowRaised BY <1>22 DEF AbortNowRaised, EndWith, SyntheticAbort, Withdrawing
<1>23. CASE EnterWait BY <1>23 DEF EnterWait, Withdrawing
<1>24. CASE WaitReady BY <1>24 DEF WaitReady, _ready, Withdrawing
<1>25. CASE LeaveWait BY <1>25 DEF LeaveWait, ClosePause, Withdrawing
<1>26. CASE HandleEvent BY <1>26 DEF HandleEvent, StoppedOutcome, Withdrawing
<1>27. CASE CloseOnAbort BY <1>27 DEF CloseOnAbort, EndWith, SyntheticAbort, Withdrawing
<1>28. CASE Continue BY <1>28 DEF Continue, SetState, Withdrawing
<1>29. CASE Finish BY <1>29 DEF Finish, SetState, Withdrawing
<1>30. CASE Park BY <1>30 DEF Park, Withdrawing
<1>31. CASE ReleaseBus BY <1>31 DEF ReleaseBus, Withdrawing
<1>32. CASE ClearCurrent BY <1>32 DEF ClearCurrent, NextTurn, ResetLocals, Withdrawing
<1>33. CASE BaseExceptionEscapes
  BY <1>33 DEF BaseExceptionEscapes, CatchEscape, EndWith, terminal, Withdrawing
<1>34. CASE MonitorAcquire BY <1>34 DEF MonitorAcquire, BusIsFree, Withdrawing
<1>35. CASE MonitorRelease BY <1>35 DEF MonitorRelease, Withdrawing
<1>36. CASE UNCHANGED vars BY <1>36 DEF vars, Withdrawing
<1>37. QED
  BY <1>1, <1>2, <1>3, <1>4, <1>5, <1>6, <1>7, <1>8, <1>9, <1>10, <1>11,
     <1>12, <1>13, <1>14, <1>15, <1>16, <1>17, <1>18, <1>19, <1>20,
     <1>21, <1>22, <1>23, <1>24, <1>25, <1>26, <1>27, <1>28, <1>29,
     <1>30, <1>31, <1>32, <1>33, <1>34, <1>35, <1>36
     DEF Next, Worker, Generator, Proceed

\* Ownership holds at the start.
LEMMA OwnersAtStart == Init => Ownership
  BY RunWorkerAssumption DEF Init, Ownership, QueuedJobHasOneOwner, OnlyCurrentExecutes,
         CurrentStateFollowsThread, TERMINAL, Withdrawing, Idle, InCall

\* Every queued job has one owner, only the current job executes, and the current
\* job's state agrees with where the thread is: submit, cancel, stop_runs, shutdown
\* and _loop cannot hand one job to two parties.
THEOREM OwnershipInvariant == Spec => []Ownership
<1>1. Init => Ownership
  BY OwnersAtStart
<1>2. TypeOK /\ Ownership /\ [Next]_vars => Ownership'
  BY OwnersKept
<1>3. QED
  BY <1>1, <1>2, TypeCorrect, PTL DEF Spec
-----------------------------------------------------------------------------
\* Unless a BaseException escapes, the worker holds the bus lock from AcquireBus
\* until ReleaseBus.
BusFollowsThread == ~MayCrash => (bus = "worker" <=> pc \in OnBench \cup {"release"})

\* A GPIB monitor's read never overlaps a job, its unwinding or its park, for any
\* number of jobs and callers: _loop executes under the bus lock and Monitor._loop
\* reads only while it holds it.
THEOREM MonitorExclusion == ~MayCrash => (Spec => []MonitorNeverOverlapsJob)
<1> SUFFICES ASSUME ~MayCrash PROVE Spec => []MonitorNeverOverlapsJob
  OBVIOUS
<1> USE RunWorkerAssumption
<1> USE DEF BusFollowsThread, OnBench
<1>1. Init => BusFollowsThread
  BY DEF Init
<1>2. TypeOK /\ BusFollowsThread /\ [Next]_vars => BusFollowsThread'
  <2> SUFFICES ASSUME TypeOK, BusFollowsThread, [Next]_vars PROVE BusFollowsThread'
    OBVIOUS
  <2>t. bus \in {"free", "worker", "monitor"} /\ pc \in PCs
    BY DEF TypeOK
  <2> USE <2>t
  <2> USE DEF loopVars, queueVars, pauseVars, jobVars, genVars, endVars, execVars,
              workVars, PCs
  <2>1. ASSUME NEW j \in Jobs, Submit(j) PROVE BusFollowsThread'
    BY <2>1 DEF Submit
  <2>2. ASSUME NEW c \in Callers, NEW j \in Jobs, Cancel(c, j) PROVE BusFollowsThread'
    BY <2>2 DEF Cancel, Removable, Dequeue
  <2>3. ASSUME NEW c \in Callers, StopRuns(c) PROVE BusFollowsThread'
    BY <2>3 DEF StopRuns, Dequeue
  <2>4. ASSUME NEW c \in Callers, Shutdown(c) PROVE BusFollowsThread'
    BY <2>4 DEF Shutdown, Dequeue
  <2>5. ASSUME NEW c \in Callers, MarkCancelled(c) PROVE BusFollowsThread'
    BY <2>5 DEF MarkCancelled, Oldest, Withdrawing
  <2>6. ASSUME NEW c \in Callers, Return(c) PROVE BusFollowsThread'
    BY <2>6 DEF Return, AbortsCurrent, terminal
  <2>7. ASSUME NEW j \in Jobs, NEW m \in StopModes, RequestStop(j, m) PROVE BusFollowsThread'
    BY <2>7 DEF RequestStop
  <2>8. ASSUME NEW c \in Callers, NEW j \in Jobs, SendResume(c, j) PROVE BusFollowsThread'
    BY <2>8 DEF SendResume
  <2>9. ASSUME NEW c \in Callers, Resume(c) PROVE BusFollowsThread'
    BY <2>9 DEF Resume
  <2>10. CASE Take BY <2>10 DEF Take, Oldest, Dequeue
  <2>11. CASE LeaveLoop BY <2>11 DEF LeaveLoop
  <2>12. CASE AcquireBus BY <2>12 DEF AcquireBus, BusIsFree, SetState
  <2>13. CASE MakeReturns BY <2>13 DEF MakeReturns, SetState
  <2>14. CASE MakeRaises BY <2>14 DEF MakeRaises, EndWith
  <2>15. CASE YieldEvent BY <2>15 DEF YieldEvent, Yield
  <2>16. CASE YieldNeedsOperator BY <2>16 DEF YieldNeedsOperator, ArmPause, Yield
  <2>17. CASE YieldResumed BY <2>17 DEF YieldResumed, Yield
  <2>18. CASE YieldRunAborted BY <2>18 DEF YieldRunAborted, Yield
  <2>19. CASE YieldRunFailed BY <2>19 DEF YieldRunFailed, Yield
  <2>20. CASE StopIteration BY <2>20 DEF StopIteration
  <2>21. CASE GeneratorRaises BY <2>21 DEF GeneratorRaises, EndWith
  <2>22. CASE AbortNowRaised BY <2>22 DEF AbortNowRaised, EndWith, SyntheticAbort
  <2>23. CASE EnterWait BY <2>23 DEF EnterWait
  <2>24. CASE WaitReady BY <2>24 DEF WaitReady, _ready
  <2>25. CASE LeaveWait BY <2>25 DEF LeaveWait, ClosePause
  <2>26. CASE HandleEvent BY <2>26 DEF HandleEvent, StoppedOutcome
  <2>27. CASE CloseOnAbort BY <2>27 DEF CloseOnAbort, EndWith, SyntheticAbort
  <2>28. CASE Continue BY <2>28 DEF Continue, SetState
  <2>29. CASE Finish BY <2>29 DEF Finish, SetState
  <2>30. CASE Park BY <2>30 DEF Park
  <2>31. CASE ReleaseBus BY <2>31 DEF ReleaseBus
  <2>32. CASE ClearCurrent BY <2>32 DEF ClearCurrent, NextTurn, ResetLocals
  <2>33. CASE BaseExceptionEscapes BY <2>33 DEF BaseExceptionEscapes, CatchEscape, EndWith, terminal
  <2>34. CASE MonitorAcquire BY <2>34 DEF MonitorAcquire, BusIsFree
  <2>35. CASE MonitorRelease BY <2>35 DEF MonitorRelease
  <2>36. CASE UNCHANGED vars BY <2>36 DEF vars
  <2>37. QED
    BY <2>1, <2>2, <2>3, <2>4, <2>5, <2>6, <2>7, <2>8, <2>9, <2>10, <2>11,
       <2>12, <2>13, <2>14, <2>15, <2>16, <2>17, <2>18, <2>19, <2>20,
       <2>21, <2>22, <2>23, <2>24, <2>25, <2>26, <2>27, <2>28, <2>29,
       <2>30, <2>31, <2>32, <2>33, <2>34, <2>35, <2>36
       DEF Next, Worker, Generator, Proceed
<1>3. BusFollowsThread => MonitorNeverOverlapsJob
  BY DEF MonitorNeverOverlapsJob
<1>4. QED
  BY <1>1, <1>2, <1>3, TypeCorrect, PTL DEF Spec

-----------------------------------------------------------------------------
\* A terminal state is never left and `parked` is never taken back: what stop_runs
\* and cancel promise their callers, and what _finish reports, stays true.
THEOREM OutcomesAreFinal == Spec => TerminalIsFinal
<1>1. TypeOK /\ Ownership /\ [Next]_vars =>
        [\A j \in Jobs : /\ terminal(j) => state'[j] = state[j]
                         /\ parked[j] => parked'[j]]_vars
  <2> DEFINE Final ==
        \A j \in Jobs : /\ terminal(j) => state'[j] = state[j]
                        /\ parked[j] => parked'[j]
  <2> SUFFICES ASSUME TypeOK, Ownership, [Next]_vars PROVE Final
    BY DEF Final
  <2>t. /\ current \in Jobs \cup {None}
        /\ (current = None) <=> (pc \in {"wait", "ended"})
        /\ state \in [Jobs -> States] /\ parked \in [Jobs -> BOOLEAN]
    BY DEF TypeOK
  <2>o. /\ \A c \in Callers : \A j \in Withdrawing(c) : j \in Jobs => state[j] = "queued"
        /\ CurrentStateFollowsThread
    BY DEF Ownership, QueuedJobHasOneOwner
  <2> USE <2>t, <2>o
  <2> USE DEF CurrentStateFollowsThread, terminal, TERMINAL
  <2> USE DEF loopVars, queueVars, pauseVars, jobVars, genVars, endVars, execVars,
              workVars
  <2>1. ASSUME NEW j \in Jobs, Submit(j) PROVE Final
    BY <2>1 DEF Submit
  <2>2. ASSUME NEW c \in Callers, NEW j \in Jobs, Cancel(c, j) PROVE Final
    BY <2>2 DEF Cancel, Removable, Dequeue
  <2>3. ASSUME NEW c \in Callers, StopRuns(c) PROVE Final
    BY <2>3 DEF StopRuns, Dequeue
  <2>4. ASSUME NEW c \in Callers, Shutdown(c) PROVE Final
    BY <2>4 DEF Shutdown, Dequeue
  <2>5. ASSUME NEW c \in Callers, MarkCancelled(c) PROVE Final
    BY <2>5 DEF MarkCancelled, Oldest, Withdrawing
  <2>6. ASSUME NEW c \in Callers, Return(c) PROVE Final
    BY <2>6 DEF Return, AbortsCurrent, terminal
  <2>7. ASSUME NEW j \in Jobs, NEW m \in StopModes, RequestStop(j, m) PROVE Final
    BY <2>7 DEF RequestStop
  <2>8. ASSUME NEW c \in Callers, NEW j \in Jobs, SendResume(c, j) PROVE Final
    BY <2>8 DEF SendResume
  <2>9. ASSUME NEW c \in Callers, Resume(c) PROVE Final
    BY <2>9 DEF Resume
  <2>10. CASE Take BY <2>10 DEF Take, Oldest, Dequeue
  <2>11. CASE LeaveLoop BY <2>11 DEF LeaveLoop
  <2>12. CASE AcquireBus BY <2>12 DEF AcquireBus, BusIsFree, SetState
  <2>13. CASE MakeReturns BY <2>13 DEF MakeReturns, SetState
  <2>14. CASE MakeRaises BY <2>14 DEF MakeRaises, EndWith
  <2>15. CASE YieldEvent BY <2>15 DEF YieldEvent, Yield
  <2>16. CASE YieldNeedsOperator BY <2>16 DEF YieldNeedsOperator, ArmPause, Yield
  <2>17. CASE YieldResumed BY <2>17 DEF YieldResumed, Yield
  <2>18. CASE YieldRunAborted BY <2>18 DEF YieldRunAborted, Yield
  <2>19. CASE YieldRunFailed BY <2>19 DEF YieldRunFailed, Yield
  <2>20. CASE StopIteration BY <2>20 DEF StopIteration
  <2>21. CASE GeneratorRaises BY <2>21 DEF GeneratorRaises, EndWith
  <2>22. CASE AbortNowRaised BY <2>22 DEF AbortNowRaised, EndWith, SyntheticAbort
  <2>23. CASE EnterWait BY <2>23 DEF EnterWait
  <2>24. CASE WaitReady BY <2>24 DEF WaitReady, _ready
  <2>25. CASE LeaveWait BY <2>25 DEF LeaveWait, ClosePause
  <2>26. CASE HandleEvent BY <2>26 DEF HandleEvent, StoppedOutcome
  <2>27. CASE CloseOnAbort BY <2>27 DEF CloseOnAbort, EndWith, SyntheticAbort
  <2>28. CASE Continue BY <2>28 DEF Continue, SetState
  <2>29. CASE Finish BY <2>29 DEF Finish, SetState
  <2>30. CASE Park BY <2>30 DEF Park
  <2>31. CASE ReleaseBus BY <2>31 DEF ReleaseBus
  <2>32. CASE ClearCurrent BY <2>32 DEF ClearCurrent, NextTurn, ResetLocals
  <2>33. CASE BaseExceptionEscapes BY <2>33 DEF BaseExceptionEscapes, CatchEscape, EndWith, terminal
  <2>34. CASE MonitorAcquire BY <2>34 DEF MonitorAcquire, BusIsFree
  <2>35. CASE MonitorRelease BY <2>35 DEF MonitorRelease
  <2>36. CASE UNCHANGED vars BY <2>36 DEF vars
  <2>37. QED
    BY <2>1, <2>2, <2>3, <2>4, <2>5, <2>6, <2>7, <2>8, <2>9, <2>10, <2>11,
       <2>12, <2>13, <2>14, <2>15, <2>16, <2>17, <2>18, <2>19, <2>20,
       <2>21, <2>22, <2>23, <2>24, <2>25, <2>26, <2>27, <2>28, <2>29,
       <2>30, <2>31, <2>32, <2>33, <2>34, <2>35, <2>36
       DEF Next, Worker, Generator, Proceed
<1>2. QED
  BY <1>1, TypeCorrect, OwnershipInvariant, PTL DEF Spec, TerminalIsFinal
-----------------------------------------------------------------------------
\* Job.resume and Job.wait_for_operator: while a pause is open a reply is accepted,
\* and a reply accepted during one pause is used by that pause or dropped with it,
\* for any number of pauses, callers and duplicate replies.
THEOREM PauseCorrect == Spec => []PauseProtocol
<1> USE DEF PauseProtocol, FlagFollowsPause, OpenPauseAcceptsReply,
            ReplyStaysInItsPause, terminal, TERMINAL
<1>1. Init => PauseProtocol
  BY DEF Init
<1>2. TypeOK /\ Ownership /\ PauseProtocol /\ [Next]_vars => PauseProtocol'
  <2> SUFFICES ASSUME TypeOK, Ownership, PauseProtocol, [Next]_vars
               PROVE PauseProtocol'
    OBVIOUS
  <2>t. /\ current \in Jobs \cup {None}
        /\ (current = None) <=> (pc \in {"wait", "ended"})
        /\ state \in [Jobs -> States] /\ paused \in [Jobs -> BOOLEAN]
        /\ detail \in [Jobs -> Replies \cup {None}] /\ pauseNo \in [Jobs -> Pauses]
        /\ stopMode \in [Jobs -> StopModes \cup {None}]
        /\ pc \in PCs /\ gen \in Gens
        /\ outcome \in TERMINAL \ {"cancelled"}
    BY DEF TypeOK
  <2>o. /\ \A c \in Callers : \A j \in Withdrawing(c) : j \in Jobs => state[j] = "queued"
        /\ CurrentStateFollowsThread
    BY DEF Ownership, QueuedJobHasOneOwner
  <2> USE <2>t, <2>o
  <2> USE DEF CurrentStateFollowsThread, PCs, Gens, StopModes
  <2> USE DEF loopVars, queueVars, pauseVars, jobVars, genVars, endVars, execVars,
              workVars
  <2>1. ASSUME NEW j \in Jobs, Submit(j) PROVE PauseProtocol'
    BY <2>1 DEF Submit
  <2>2. ASSUME NEW c \in Callers, NEW j \in Jobs, Cancel(c, j) PROVE PauseProtocol'
    BY <2>2 DEF Cancel, Removable, Dequeue
  <2>3. ASSUME NEW c \in Callers, StopRuns(c) PROVE PauseProtocol'
    BY <2>3 DEF StopRuns, Dequeue
  <2>4. ASSUME NEW c \in Callers, Shutdown(c) PROVE PauseProtocol'
    BY <2>4 DEF Shutdown, Dequeue
  <2>5. ASSUME NEW c \in Callers, MarkCancelled(c) PROVE PauseProtocol'
    BY <2>5 DEF MarkCancelled, Oldest, Withdrawing
  <2>6. ASSUME NEW c \in Callers, Return(c) PROVE PauseProtocol'
    BY <2>6 DEF Return, AbortsCurrent, terminal
  <2>7. ASSUME NEW j \in Jobs, NEW m \in StopModes, RequestStop(j, m) PROVE PauseProtocol'
    BY <2>7 DEF RequestStop
  <2>8. ASSUME NEW c \in Callers, NEW j \in Jobs, SendResume(c, j) PROVE PauseProtocol'
    BY <2>8 DEF SendResume
  <2>9. ASSUME NEW c \in Callers, Resume(c) PROVE PauseProtocol'
    BY <2>9 DEF Resume
  <2>10. CASE Take BY <2>10 DEF Take, Oldest, Dequeue
  <2>11. CASE LeaveLoop BY <2>11 DEF LeaveLoop
  <2>12. CASE AcquireBus BY <2>12 DEF AcquireBus, BusIsFree, SetState
  <2>13. CASE MakeReturns BY <2>13 DEF MakeReturns, SetState
  <2>14. CASE MakeRaises BY <2>14 DEF MakeRaises, EndWith
  <2>15. CASE YieldEvent BY <2>15 DEF YieldEvent, Yield
  <2>16. CASE YieldNeedsOperator BY <2>16 DEF YieldNeedsOperator, ArmPause, Yield
  <2>17. CASE YieldResumed BY <2>17 DEF YieldResumed, Yield
  <2>18. CASE YieldRunAborted BY <2>18 DEF YieldRunAborted, Yield
  <2>19. CASE YieldRunFailed BY <2>19 DEF YieldRunFailed, Yield
  <2>20. CASE StopIteration BY <2>20 DEF StopIteration
  <2>21. CASE GeneratorRaises BY <2>21 DEF GeneratorRaises, EndWith
  <2>22. CASE AbortNowRaised BY <2>22 DEF AbortNowRaised, EndWith, SyntheticAbort
  <2>23. CASE EnterWait BY <2>23 DEF EnterWait
  <2>24. CASE WaitReady BY <2>24 DEF WaitReady, _ready, Answer
  <2>25. CASE LeaveWait BY <2>25 DEF LeaveWait, ClosePause
  <2>26. CASE HandleEvent BY <2>26 DEF HandleEvent, StoppedOutcome
  <2>27. CASE CloseOnAbort BY <2>27 DEF CloseOnAbort, EndWith, SyntheticAbort
  <2>28. CASE Continue BY <2>28 DEF Continue, SetState
  <2>29. CASE Finish BY <2>29 DEF Finish, SetState
  <2>30. CASE Park BY <2>30 DEF Park
  <2>31. CASE ReleaseBus BY <2>31 DEF ReleaseBus
  <2>32. CASE ClearCurrent BY <2>32 DEF ClearCurrent, NextTurn, ResetLocals
  <2>33. CASE BaseExceptionEscapes BY <2>33 DEF BaseExceptionEscapes, CatchEscape, EndWith
  <2>34. CASE MonitorAcquire BY <2>34 DEF MonitorAcquire, BusIsFree
  <2>35. CASE MonitorRelease BY <2>35 DEF MonitorRelease
  <2>36. CASE UNCHANGED vars BY <2>36 DEF vars
  <2>37. QED
    BY <2>1, <2>2, <2>3, <2>4, <2>5, <2>6, <2>7, <2>8, <2>9, <2>10, <2>11,
       <2>12, <2>13, <2>14, <2>15, <2>16, <2>17, <2>18, <2>19, <2>20,
       <2>21, <2>22, <2>23, <2>24, <2>25, <2>26, <2>27, <2>28, <2>29,
       <2>30, <2>31, <2>32, <2>33, <2>34, <2>35, <2>36
       DEF Next, Worker, Generator, Proceed
<1>3. QED
  BY <1>1, <1>2, TypeCorrect, OwnershipInvariant, PTL DEF Spec
-----------------------------------------------------------------------------
\* Whose stop it is, at each place: the turn's outcome, the event in hand, the answer of
\* the pause and where the generator goes from it are a stop only if the job was asked.
StopsAreAsked ==
    /\ pc \in {"next", "handle", "check", "finish"} =>
          /\ outcome = "stopped" => stopMode[current] # None
          /\ outcome = "aborted" => stopMode[current] = "abort"
    /\ (pc = "handle" /\ ev = "RunAborted") => stopMode[current] # None
    /\ gen = "leaving" =>
          /\ answer.how = "after_shot" => stopMode[current] # None
          /\ answer.how = "abort" => stopMode[current] = "abort"
    /\ gen = "stopped" => stopMode[current] # None
    /\ gen = "aborting" => stopMode[current] = "abort"

\* What has been told of it: `said' knows of the one RunAborted once its event was handled,
\* and a generator that has told it only unwinds.
OneAbort ==
    /\ pc \in {"wait", "bus", "make", "ended"} => aborts = 0 /\ "RunAborted" \notin said
    /\ gen \notin {"none", "unwinding", "closed"} => aborts = 0
    /\ IF pc = "handle" /\ ev = "RunAborted"
       THEN aborts = 1
       ELSE aborts = IF "RunAborted" \in said THEN 1 ELSE 0
    /\ pc \in {"next", "handle", "check", "finish"} /\ outcome \in {"stopped", "aborted"}
          => aborts = 1

Told == StopsAreTold /\ StopsAreAsked /\ OneAbort

\* A run that stopped was asked to, and told exactly one RunAborted, for any jobs, callers
\* and pauses and whichever of generator and worker told it (worker.py, _execute and
\* _synthetic_abort).
THEOREM StopsTold == Spec => []StopsAreTold
<1> USE RunWorkerAssumption
<1> USE DEF Told, StopsAreTold, NobodyStopsUnasked, RunAbortedToldOnce, StopsAreAsked,
            OneAbort, TERMINAL
<1>1. Init => Told
  BY DEF Init
<1>2. TypeOK /\ Ownership /\ PauseProtocol /\ Told /\ [Next]_vars => Told'
  <2> SUFFICES ASSUME TypeOK, Ownership, PauseProtocol, Told, [Next]_vars
               PROVE Told'
    OBVIOUS
  <2>t. /\ current \in Jobs \cup {None}
        /\ (current = None) <=> (pc \in {"wait", "ended"})
        /\ state \in [Jobs -> States] /\ detail \in [Jobs -> Replies \cup {None}]
        /\ stopMode \in [Jobs -> StopModes \cup {None}]
        /\ pc \in PCs /\ gen \in Gens /\ ev \in Events /\ aborts \in Nat
        /\ said \subseteq {"RunAborted", "RunFailed", "stopping"}
        /\ outcome \in TERMINAL \ {"cancelled"}
    BY DEF TypeOK
  <2>o. /\ \A c \in Callers : \A j \in Withdrawing(c) : j \in Jobs => state[j] = "queued"
        /\ CurrentStateFollowsThread
        /\ pc \in {"wait", "bus", "make", "ended"} => gen = "none"
    BY DEF Ownership, QueuedJobHasOneOwner, PauseProtocol, FlagFollowsPause
  <2> USE <2>t, <2>o
  <2> USE DEF CurrentStateFollowsThread, PCs, Gens, Events, StopModes
  <2> USE DEF loopVars, queueVars, pauseVars, jobVars, genVars, endVars, execVars,
              workVars
  <2>1. ASSUME NEW j \in Jobs, Submit(j) PROVE Told'
    BY <2>1 DEF Submit
  <2>2. ASSUME NEW c \in Callers, NEW j \in Jobs, Cancel(c, j) PROVE Told'
    BY <2>2 DEF Cancel, Removable, Dequeue
  <2>3. ASSUME NEW c \in Callers, StopRuns(c) PROVE Told'
    BY <2>3 DEF StopRuns, Dequeue
  <2>4. ASSUME NEW c \in Callers, Shutdown(c) PROVE Told'
    BY <2>4 DEF Shutdown, Dequeue
  <2>5. ASSUME NEW c \in Callers, MarkCancelled(c) PROVE Told'
    BY <2>5 DEF MarkCancelled, Oldest, Withdrawing
  <2>6. ASSUME NEW c \in Callers, Return(c) PROVE Told'
    BY <2>6 DEF Return, AbortsCurrent, terminal
  <2>7. ASSUME NEW j \in Jobs, NEW m \in StopModes, RequestStop(j, m) PROVE Told'
    BY <2>7 DEF RequestStop
  <2>8. ASSUME NEW c \in Callers, NEW j \in Jobs, SendResume(c, j) PROVE Told'
    BY <2>8 DEF SendResume
  <2>9. ASSUME NEW c \in Callers, Resume(c) PROVE Told'
    BY <2>9 DEF Resume
  <2>10. CASE Take BY <2>10 DEF Take, Oldest, Dequeue
  <2>11. CASE LeaveLoop BY <2>11 DEF LeaveLoop
  <2>12. CASE AcquireBus BY <2>12 DEF AcquireBus, BusIsFree, SetState
  <2>13. CASE MakeReturns BY <2>13 DEF MakeReturns, SetState
  <2>14. CASE MakeRaises BY <2>14 DEF MakeRaises, EndWith
  <2>15. CASE YieldEvent BY <2>15 DEF YieldEvent, Yield
  <2>16. CASE YieldNeedsOperator BY <2>16 DEF YieldNeedsOperator, ArmPause, Yield
  <2>17. CASE YieldResumed BY <2>17 DEF YieldResumed, Yield
  <2>18. CASE YieldRunAborted BY <2>18 DEF YieldRunAborted, Yield
  <2>19. CASE YieldRunFailed BY <2>19 DEF YieldRunFailed, Yield
  <2>20. CASE StopIteration BY <2>20 DEF StopIteration
  <2>21. CASE GeneratorRaises BY <2>21 DEF GeneratorRaises, EndWith
  <2>22. CASE AbortNowRaised BY <2>22 DEF AbortNowRaised, EndWith, SyntheticAbort
  <2>23. CASE EnterWait BY <2>23 DEF EnterWait
  <2>24. CASE WaitReady
    <3>1. /\ current \in Jobs /\ state' = state /\ stopMode' = stopMode /\ pc' = pc /\ pc = "next"
          /\ gen' = "leaving" /\ gen = "waiting"
          /\ UNCHANGED <<ev, current, aborts, said, outcome>>
      BY <2>24 DEF WaitReady
    <3>2. CASE stopMode[current] # None
      BY <2>24, <3>1, <3>2 DEF WaitReady, Answer
    <3>3. CASE stopMode[current] = None
      <4>1. answer' = detail[current] /\ detail[current] \in Replies
        BY <2>24, <3>1, <3>3 DEF WaitReady, _ready
      <4>2. answer'.how = "reply"
        BY <4>1 DEF Replies
      <4>3. QED
        BY <3>1, <4>2
    <3>4. QED
      BY <3>2, <3>3
  <2>25. CASE LeaveWait BY <2>25 DEF LeaveWait, ClosePause
  <2>26. CASE HandleEvent BY <2>26 DEF HandleEvent, StoppedOutcome
  <2>27. CASE CloseOnAbort BY <2>27 DEF CloseOnAbort, EndWith, SyntheticAbort
  <2>28. CASE Continue BY <2>28 DEF Continue, SetState
  <2>29. CASE Finish BY <2>29 DEF Finish, SetState
  <2>30. CASE Park BY <2>30 DEF Park
  <2>31. CASE ReleaseBus BY <2>31 DEF ReleaseBus
  <2>32. CASE ClearCurrent BY <2>32 DEF ClearCurrent, NextTurn, ResetLocals
  <2>33. CASE BaseExceptionEscapes BY <2>33 DEF BaseExceptionEscapes, CatchEscape, EndWith
  <2>34. CASE MonitorAcquire BY <2>34 DEF MonitorAcquire, BusIsFree
  <2>35. CASE MonitorRelease BY <2>35 DEF MonitorRelease
  <2>36. CASE UNCHANGED vars BY <2>36 DEF vars
  <2>37. QED
    BY <2>1, <2>2, <2>3, <2>4, <2>5, <2>6, <2>7, <2>8, <2>9, <2>10, <2>11,
       <2>12, <2>13, <2>14, <2>15, <2>16, <2>17, <2>18, <2>19, <2>20,
       <2>21, <2>22, <2>23, <2>24, <2>25, <2>26, <2>27, <2>28, <2>29,
       <2>30, <2>31, <2>32, <2>33, <2>34, <2>35, <2>36
       DEF Next, Worker, Generator, Proceed
<1>3. Told => StopsAreTold
  OBVIOUS
<1> HIDE DEF Told, StopsAreTold
<1>4. QED
  BY <1>1, <1>2, <1>3, TypeCorrect, OwnershipInvariant, PauseCorrect, PTL DEF Spec
-----------------------------------------------------------------------------
\* Which arrows the turn can still take: the generator is inside its wait only during
\* next(gen), it works on only in a job that is not paused, it resumes only a job that
\* was not told to stop, and a turn that made no generator ends blocked or failed.
TurnWalks ==
    /\ gen \in {"waiting", "leaving", "resumed"} => pc = "next"
    /\ (gen = "work" /\ pc \in {"next", "check"}) => state[current] # "paused"
    /\ (gen = "work" /\ pc = "handle" /\ ev # "OperatorResumed") => state[current] # "paused"
    /\ (gen = "leaving" /\ answer.how \notin {"abort", "after_shot"})
          => state[current] # "stopping"
    /\ gen = "resumed" => state[current] # "stopping"
    /\ (pc = "handle" /\ ev = "OperatorResumed") => state[current] # "stopping"
    /\ (gen = "unwinding" /\ ~(pc = "handle" /\ ev = "RunAborted")) => outcome # "done"

\* How it ends: only a turn that made no generator is blocked, and a paused job is
\* not done.
EndWalks ==
    /\ pc \in {"next", "handle", "check"} => outcome # "blocked"
    /\ pc = "finish" =>
          /\ state[current] = "preflight" => outcome \in {"blocked", "failed"}
          /\ state[current] # "preflight" => outcome # "blocked"
          /\ state[current] = "paused" => outcome # "done"

\* The order of the queue is the order of the tickets, and only an exception out of
\* the park lets a job go unparked.
QueueWalks ==
    /\ \A j \in queue : ticket[j] <= submitted
    /\ pc \in {"release", "clear"} => (parked[current] \/ MayCrash)

Walks == TurnWalks /\ EndWalks /\ QueueWalks

\* The worker keeps to the arrows at every step, for any jobs, callers and pauses.
LEMMA TurnsWalk == Spec => []Walks
<1> USE RunWorkerAssumption
<1> USE DEF Walks, TurnWalks, EndWalks, QueueWalks
<1>1. Init => Walks
  BY DEF Init
<1>2. TypeOK /\ Ownership /\ PauseProtocol /\ StopsAreTold /\ Walks /\ [Next]_vars => Walks'
  <2> SUFFICES ASSUME TypeOK, Ownership, PauseProtocol, StopsAreTold, Walks, [Next]_vars
               PROVE Walks'
    OBVIOUS
  <2>t. /\ current \in Jobs \cup {None}
        /\ (current = None) <=> (pc \in {"wait", "ended"})
        /\ queue \subseteq Jobs /\ ticket \in [Jobs -> Nat] /\ submitted \in Nat
        /\ state \in [Jobs -> States] /\ parked \in [Jobs -> BOOLEAN]
        /\ stopMode \in [Jobs -> StopModes \cup {None}]
        /\ pc \in PCs /\ gen \in Gens /\ ev \in Events
        /\ outcome \in TERMINAL \ {"cancelled"}
    BY DEF TypeOK
  <2>o. /\ \A c \in Callers : \A j \in Withdrawing(c) : j \in Jobs => state[j] = "queued"
        /\ CurrentStateFollowsThread
        /\ pc \in {"wait", "bus", "make", "ended"} => gen = "none"
        /\ (pc = "handle" /\ ev = "NeedsOperator") => gen = "pausing"
        /\ \A j \in Jobs : state[j] = "stopping" => stopMode[j] # None
    BY DEF Ownership, QueuedJobHasOneOwner, PauseProtocol, FlagFollowsPause, StopsAreTold,
           NobodyStopsUnasked
  <2> USE <2>t, <2>o
  <2> USE DEF CurrentStateFollowsThread, PCs, Gens, Events, StopModes, TERMINAL
  <2> USE DEF loopVars, queueVars, pauseVars, jobVars, genVars, endVars, execVars,
              workVars
  <2>1. ASSUME NEW j \in Jobs, Submit(j) PROVE Walks'
    BY <2>1 DEF Submit
  <2>2. ASSUME NEW c \in Callers, NEW j \in Jobs, Cancel(c, j) PROVE Walks'
    BY <2>2 DEF Cancel, Removable, Dequeue
  <2>3. ASSUME NEW c \in Callers, StopRuns(c) PROVE Walks'
    BY <2>3 DEF StopRuns, Dequeue
  <2>4. ASSUME NEW c \in Callers, Shutdown(c) PROVE Walks'
    BY <2>4 DEF Shutdown, Dequeue
  <2>5. ASSUME NEW c \in Callers, MarkCancelled(c) PROVE Walks'
    BY <2>5 DEF MarkCancelled, Oldest, Withdrawing
  <2>6. ASSUME NEW c \in Callers, Return(c) PROVE Walks'
    BY <2>6 DEF Return, AbortsCurrent, terminal
  <2>7. ASSUME NEW j \in Jobs, NEW m \in StopModes, RequestStop(j, m) PROVE Walks'
    BY <2>7 DEF RequestStop
  <2>8. ASSUME NEW c \in Callers, NEW j \in Jobs, SendResume(c, j) PROVE Walks'
    BY <2>8 DEF SendResume
  <2>9. ASSUME NEW c \in Callers, Resume(c) PROVE Walks'
    BY <2>9 DEF Resume
  <2>10. CASE Take BY <2>10 DEF Take, Oldest, Dequeue
  <2>11. CASE LeaveLoop BY <2>11 DEF LeaveLoop
  <2>12. CASE AcquireBus BY <2>12 DEF AcquireBus, BusIsFree, SetState
  <2>13. CASE MakeReturns BY <2>13 DEF MakeReturns, SetState
  <2>14. CASE MakeRaises BY <2>14 DEF MakeRaises, EndWith
  <2>15. CASE YieldEvent BY <2>15 DEF YieldEvent, Yield
  <2>16. CASE YieldNeedsOperator BY <2>16 DEF YieldNeedsOperator, ArmPause, Yield
  <2>17. CASE YieldResumed BY <2>17 DEF YieldResumed, Yield
  <2>18. CASE YieldRunAborted BY <2>18 DEF YieldRunAborted, Yield
  <2>19. CASE YieldRunFailed BY <2>19 DEF YieldRunFailed, Yield
  <2>20. CASE StopIteration BY <2>20 DEF StopIteration
  <2>21. CASE GeneratorRaises BY <2>21 DEF GeneratorRaises, EndWith
  <2>22. CASE AbortNowRaised BY <2>22 DEF AbortNowRaised, EndWith, SyntheticAbort
  <2>23. CASE EnterWait BY <2>23 DEF EnterWait
  <2>24. CASE WaitReady BY <2>24 DEF WaitReady, _ready, Answer
  <2>25. CASE LeaveWait BY <2>25 DEF LeaveWait, ClosePause
  <2>26. CASE HandleEvent BY <2>26 DEF HandleEvent, StoppedOutcome
  <2>27. CASE CloseOnAbort BY <2>27 DEF CloseOnAbort, EndWith, SyntheticAbort
  <2>28. CASE Continue BY <2>28 DEF Continue, SetState
  <2>29. CASE Finish BY <2>29 DEF Finish, SetState
  <2>30. CASE Park BY <2>30 DEF Park
  <2>31. CASE ReleaseBus BY <2>31 DEF ReleaseBus
  <2>32. CASE ClearCurrent BY <2>32 DEF ClearCurrent, NextTurn, ResetLocals
  <2>33. CASE BaseExceptionEscapes BY <2>33 DEF BaseExceptionEscapes, CatchEscape, EndWith
  <2>34. CASE MonitorAcquire BY <2>34 DEF MonitorAcquire, BusIsFree
  <2>35. CASE MonitorRelease BY <2>35 DEF MonitorRelease
  <2>36. CASE UNCHANGED vars BY <2>36 DEF vars
  <2>37. QED
    BY <2>1, <2>2, <2>3, <2>4, <2>5, <2>6, <2>7, <2>8, <2>9,
       <2>10, <2>11, <2>12, <2>13, <2>14, <2>15, <2>16, <2>17, <2>18,
       <2>19, <2>20, <2>21, <2>22, <2>23, <2>24, <2>25, <2>26, <2>27,
       <2>28, <2>29, <2>30, <2>31, <2>32, <2>33, <2>34, <2>35, <2>36
       DEF Next, Worker, Generator, Proceed
<1> HIDE DEF Walks
<1>3. QED
  BY <1>1, <1>2, TypeCorrect, OwnershipInvariant, PauseCorrect, StopsTold, PTL DEF Spec

\* What the mapped variables are made of.
Seen == <<queue, ticket, current, state, parked, call>>

\* A step that touches none of it is a stutter of the queue.
LEMMA UnseenStutters == UNCHANGED Seen => UNCHANGED Promise!queueVars
  BY DEF Seen, Promise!queueVars, AheadOf, Phase, Withdrawn, Withdrawing

\* A step of the current job's state alone is a move of its phase along one arrow.
LEMMA MoveIsAdvance ==
  ASSUME TypeOK, Ownership, current # None, NEW p \in Promise!Arrow(state[current]),
         state' = [state EXCEPT ![current] = p],
         UNCHANGED <<queue, ticket, current, parked, call>>
  PROVE  Promise!Advance
<1>1. current \in Jobs /\ state \in [Jobs -> States]
  BY DEF TypeOK
<1>2. current \notin Withdrawn
  BY <1>1 DEF Ownership, QueuedJobHasOneOwner, Withdrawn
<1>3. Withdrawn' = Withdrawn /\ AheadOf' = AheadOf
  BY DEF Withdrawn, Withdrawing, AheadOf
<1>4. Phase[current] = state[current] /\ Phase' = [Phase EXCEPT ![current] = p]
  BY <1>1, <1>2, <1>3 DEF Phase
<1>5. QED
  BY <1>3, <1>4 DEF Promise!Advance

\* A locked part of cancel, stop_runs and shutdown withdraws its jobs from the queue.
LEMMA LockedPartWithdraws ==
  ASSUME TypeOK, Ownership, NEW c \in Callers, NEW S \in SUBSET queue,
         call[c].op = "none", queue' = queue \ S,
         call'[c].op \in {"cancel", "stop_runs", "shutdown"}, call'[c].jobs = S,
         \A d \in Callers \ {c} : call'[d] = call[d],
         UNCHANGED <<ticket, current, state, parked>>
  PROVE  Promise!Withdraw(S)
<1>1. Withdrawing(c) = {} /\ Withdrawing(c)' = S
  BY DEF Withdrawing
<1>2. \A d \in Callers \ {c} : Withdrawing(d)' = Withdrawing(d)
  BY DEF Withdrawing
<1>3. Withdrawn' = Withdrawn \cup S
  BY <1>1, <1>2 DEF Withdrawn
<1>4. Phase' = [j \in Jobs |-> IF j \in S THEN "cancelled" ELSE Phase[j]]
  BY <1>3 DEF Phase
<1>5. AheadOf' = [j \in Jobs |-> IF j \in S THEN {} ELSE AheadOf[j] \ S]
  BY DEF AheadOf
<1>6. QED
  BY <1>4, <1>5 DEF Promise!Withdraw, Promise!Leave

\* RunWorker implements the queue it promises: with any jobs, callers and pauses each of
\* its steps is a step of JobQueue or leaves the queue as it was, so jobs start in
\* submission order, one at a time, on the arrows of the run-state diagram, and none
\* follows an unparked one unless an exception escaped the park.
THEOREM WorkerImplementsQueue == Spec => ImplementsJobQueue
<1> USE RunWorkerAssumption
<1>1. Init => Promise!Init
  BY DEF Init, Promise!Init, AheadOf, Phase, Withdrawn, Withdrawing, Idle, InCall
<1>2. TypeOK /\ Ownership /\ Walks /\ [Next]_vars => [Promise!Next]_Promise!queueVars
  <2> SUFFICES ASSUME TypeOK, Ownership, Walks, [Next]_vars
               PROVE  [Promise!Next]_Promise!queueVars
    OBVIOUS
  <2>t. /\ current \in Jobs \cup {None}
        /\ (current = None) <=> (pc \in {"wait", "ended"})
        /\ queue \subseteq Jobs /\ ticket \in [Jobs -> Nat] /\ submitted \in Nat
        /\ state \in [Jobs -> States] /\ parked \in [Jobs -> BOOLEAN]
        /\ pc \in PCs /\ gen \in Gens
        /\ outcome \in TERMINAL \ {"cancelled"}
        /\ call \in [Callers -> Calls]
    BY DEF TypeOK
  <2>o. CurrentStateFollowsThread /\ QueuedJobHasOneOwner
    BY DEF Ownership
  <2>w. TurnWalks /\ EndWalks /\ QueueWalks
    BY DEF Walks
  <2> USE <2>t
  <2> USE DEF loopVars, queueVars, pauseVars, jobVars, genVars, endVars, execVars,
              workVars
  <2>1. ASSUME NEW j \in Jobs, Submit(j) PROVE Promise!Next
    <3>1. state[j] = "new" /\ j \notin Withdrawn /\ Withdrawn' = Withdrawn
      BY <2>1, <2>o DEF Submit, QueuedJobHasOneOwner, Withdrawn, Withdrawing
    <3>2. Phase[j] = "new" /\ Phase' = [Phase EXCEPT ![j] = "queued"]
      BY <2>1, <3>1 DEF Submit, Phase
    <3>3. \A i \in queue : i # j /\ ticket'[i] = ticket[i] /\ ticket[i] <= submitted
      BY <2>1, <2>o, <2>w DEF Submit, QueuedJobHasOneOwner, QueueWalks
    <3>4. ticket'[j] = submitted + 1 /\ queue' = queue \cup {j}
      BY <2>1 DEF Submit
    <3>5. ASSUME NEW k \in Jobs PROVE AheadOf'[k] = [AheadOf EXCEPT ![j] = queue][k]
      <4>1. CASE k = j
        <5>1. {i \in queue' : ticket'[i] < ticket'[j]} = queue
          BY <3>3, <3>4
        <5>2. QED
          BY <4>1, <5>1, <3>4 DEF AheadOf
      <4>2. CASE k # j /\ k \in queue
        <5>1. {i \in queue' : ticket'[i] < ticket'[k]} = {i \in queue : ticket[i] < ticket[k]}
          BY <4>2, <3>3, <3>4
        <5>2. QED
          BY <4>2, <5>1, <3>4 DEF AheadOf
      <4>3. CASE k # j /\ k \notin queue
        BY <4>3, <3>4 DEF AheadOf
      <4>4. QED
        BY <4>1, <4>2, <4>3
    <3>6. AheadOf' = [AheadOf EXCEPT ![j] = queue]
      BY <3>5 DEF AheadOf
    <3>7. current' = current /\ parked' = parked
      BY <2>1 DEF Submit
    <3>8. QED
      BY <3>2, <3>4, <3>6, <3>7 DEF Promise!Enqueue, Promise!Next
  <2>2. ASSUME NEW c \in Callers, NEW j \in Jobs, Cancel(c, j) PROVE Promise!Next
    <3>1. {j} \in SUBSET queue /\ queue' = queue \ {j}
      BY <2>2 DEF Cancel, Removable, Dequeue
    <3>2. Promise!Withdraw({j})
      BY <2>2, <3>1, LockedPartWithdraws DEF Cancel, InCall
    <3>3. QED
      BY <3>2 DEF Promise!Next
  <2>3. ASSUME NEW c \in Callers, StopRuns(c) PROVE Promise!Next
    <3>1. queue \cap Runs \in SUBSET queue /\ queue' = queue \ (queue \cap Runs)
      BY <2>3 DEF StopRuns, Dequeue
    <3>2. Promise!Withdraw(queue \cap Runs)
      BY <2>3, <3>1, LockedPartWithdraws DEF StopRuns, InCall
    <3>3. QED
      BY <3>2 DEF Promise!Next
  <2>4. ASSUME NEW c \in Callers, Shutdown(c) PROVE Promise!Next
    <3>1. Promise!Withdraw(queue)
      BY <2>4, LockedPartWithdraws DEF Shutdown, Dequeue, InCall
    <3>2. QED
      BY <3>1 DEF Promise!Next
  <2>5. ASSUME NEW c \in Callers, MarkCancelled(c) PROVE UNCHANGED Promise!queueVars
    <3>1. PICK j \in Withdrawing(c) :
             /\ state' = [state EXCEPT ![j] = "cancelled"]
             /\ call' = [call EXCEPT ![c] = InCall(@.op, @.jobs \ {j}, @.cur, 0)]
      BY <2>5 DEF MarkCancelled
    <3>2. \A d \in Callers : Withdrawing(d)' = Withdrawing(d) \ (IF d = c THEN {j} ELSE {})
      BY <3>1 DEF Withdrawing, InCall
    <3>3. j \in Withdrawn /\ Withdrawn \ {j} \subseteq Withdrawn' /\ Withdrawn' \subseteq Withdrawn
      BY <3>1, <3>2 DEF Withdrawn
    <3>4. Phase' = Phase
      BY <3>1, <3>3 DEF Phase
    <3>5. QED
      BY <2>5, <3>4 DEF MarkCancelled, Promise!queueVars, AheadOf
  <2>6. ASSUME NEW c \in Callers, Return(c) \/ Resume(c) PROVE UNCHANGED Promise!queueVars
    <3>1. call' = [call EXCEPT ![c] = Idle] /\ UNCHANGED <<queue, ticket, current, state, parked>>
      BY <2>6 DEF Return, Resume
    <3>2. Withdrawing(c)' = Withdrawing(c)
      BY <2>6, <3>1 DEF Return, Resume, Withdrawing, Idle, InCall
    <3>3. \A d \in Callers \ {c} : Withdrawing(d)' = Withdrawing(d)
      BY <3>1 DEF Withdrawing
    <3>4. Withdrawn' = Withdrawn
      BY <3>2, <3>3 DEF Withdrawn
    <3>5. Phase' = Phase
      BY <3>1, <3>4 DEF Phase
    <3>6. QED
      BY <3>1, <3>5 DEF Promise!queueVars, AheadOf
  <2>7. ASSUME NEW j \in Jobs, NEW m \in StopModes, RequestStop(j, m)
        PROVE UNCHANGED Promise!queueVars
    BY <2>7, UnseenStutters DEF RequestStop, Seen
  <2>8. ASSUME NEW c \in Callers, NEW j \in Jobs, SendResume(c, j)
        PROVE UNCHANGED Promise!queueVars
    <3>1. \A d \in Callers : Withdrawing(d)' = Withdrawing(d)
      BY <2>8 DEF SendResume, Withdrawing, InCall
    <3>2. Phase' = Phase
      BY <2>8, <3>1 DEF SendResume, Phase, Withdrawn
    <3>3. QED
      BY <2>8, <3>2 DEF SendResume, Promise!queueVars, AheadOf
  <2>9. CASE Take
    <3>1. PICK j \in queue : Oldest(j, queue) /\ queue' = queue \ {j} /\ current' = j
      BY <2>9 DEF Take, Dequeue
    <3>2. ticket' = ticket /\ Phase' = Phase /\ parked' = parked
      BY <2>9 DEF Take, Phase, Withdrawn, Withdrawing
    <3>3. AheadOf[j] = {}
      BY <3>1 DEF AheadOf, Oldest
    <3>4. AheadOf' = [k \in Jobs |-> IF k \in {j} THEN {} ELSE AheadOf[k] \ {j}]
      BY <3>1, <3>2 DEF AheadOf
    <3>5. current = None
      BY <2>9 DEF Take
    <3>6. Promise!Start
      BY <3>1, <3>2, <3>3, <3>4, <3>5 DEF Promise!Start, Promise!Leave
    <3>7. QED
      BY <3>6 DEF Promise!Next
  <2>10. CASE AcquireBus
    <3>1. "preflight" \in Promise!Arrow(state[current])
      BY <2>10, <2>o DEF AcquireBus, CurrentStateFollowsThread, Promise!Arrow
    <3>2. Promise!Advance
      BY <2>10, <3>1, MoveIsAdvance DEF AcquireBus, SetState
    <3>3. QED
      BY <3>2 DEF Promise!Next
  <2>11. CASE MakeReturns
    <3>1. "running" \in Promise!Arrow(state[current])
      BY <2>11, <2>o DEF MakeReturns, CurrentStateFollowsThread, Promise!Arrow
    <3>2. Promise!Advance
      BY <2>11, <3>1, MoveIsAdvance DEF MakeReturns, SetState
    <3>3. QED
      BY <3>2 DEF Promise!Next
  <2>12. CASE HandleEvent
    <3>1. UNCHANGED <<queue, ticket, current, parked, call>> /\ current # None /\ current \in Jobs
      BY <2>12 DEF HandleEvent
    <3>2. state[current] \in {"running", "paused", "stopping"}
      BY <2>12, <2>o DEF HandleEvent, CurrentStateFollowsThread
    <3>3. CASE ev = "NeedsOperator" /\ state[current] # "paused"
      <4>1. /\ "paused" \in Promise!Arrow(state[current])
            /\ state' = [state EXCEPT ![current] = "paused"]
        BY <2>12, <3>2, <3>3 DEF HandleEvent, Promise!Arrow
      <4>2. QED
        BY <3>1, <4>1, MoveIsAdvance DEF Promise!Next
    <3>4. CASE ev = "OperatorResumed" /\ state[current] # "running"
      <4>1. state[current] = "paused"
        BY <2>12, <2>w, <3>2, <3>4 DEF HandleEvent, TurnWalks
      <4>2. /\ "running" \in Promise!Arrow(state[current])
            /\ state' = [state EXCEPT ![current] = "running"]
        BY <2>12, <3>4, <4>1 DEF HandleEvent, Promise!Arrow
      <4>3. QED
        BY <3>1, <4>2, MoveIsAdvance DEF Promise!Next
    <3>5. CASE state' = state
      BY <3>1, <3>5, UnseenStutters DEF Seen
    <3>6. QED
      BY <2>12, <3>1, <3>3, <3>4, <3>5 DEF HandleEvent
  <2>13. CASE Continue
    <3>1. UNCHANGED <<queue, ticket, current, parked, call>> /\ current # None /\ current \in Jobs
      BY <2>13 DEF Continue
    <3>2. state[current] \in {"running", "paused", "stopping"}
      BY <2>13, <2>o DEF Continue, CurrentStateFollowsThread
    <3>3. CASE state' # state
      <4>1. state' = [state EXCEPT ![current] = "stopping"]
        BY <2>13, <3>3 DEF Continue, SetState
      <4>2. "stopping" \in Promise!Arrow(state[current])
        BY <3>1, <3>2, <3>3, <4>1 DEF Promise!Arrow
      <4>3. QED
        BY <3>1, <4>1, <4>2, MoveIsAdvance DEF Promise!Next
    <3>4. CASE state' = state
      BY <3>1, <3>4, UnseenStutters DEF Seen
    <3>5. QED
      BY <3>3, <3>4
  <2>14. CASE Finish
    <3>1. state[current] \in {"preflight", "running", "paused", "stopping"}
      BY <2>14, <2>o DEF Finish, CurrentStateFollowsThread
    <3>2. outcome \in Promise!Arrow(state[current])
      BY <2>14, <2>w, <3>1 DEF Finish, EndWalks, TERMINAL, Promise!Arrow
    <3>3. Promise!Advance
      BY <2>14, <3>2, MoveIsAdvance DEF Finish, SetState
    <3>4. QED
      BY <3>3 DEF Promise!Next
  <2>15. CASE Park \/ ClearCurrent
    <3>1. current # None /\ current \in Jobs /\ state[current] \in TERMINAL \ {"cancelled"}
      BY <2>15, <2>o DEF Park, ClearCurrent, CurrentStateFollowsThread
    <3>2. Phase[current] \in Promise!Ended
      BY <3>1 DEF Phase, Promise!Ended, TERMINAL
    <3>u. UNCHANGED <<queue, ticket, state, call>>
      BY <2>15 DEF Park, ClearCurrent
    <3>3. AheadOf' = AheadOf /\ Phase' = Phase
      BY <3>u DEF AheadOf, Phase, Withdrawn, Withdrawing
    <3>4. CASE Park
      <4>1. {j \in Jobs : parked'[j]} = {j \in Jobs : parked[j]} \cup {current}
        BY <3>1, <3>4 DEF Park
      <4>2. Promise!Park
        BY <3>1, <3>2, <3>3, <3>4, <4>1 DEF Park, Promise!Park
      <4>3. QED
        BY <4>2 DEF Promise!Next
    <3>5. CASE ClearCurrent
      <4>1. current \in {j \in Jobs : parked[j]} \/ MayCrash
        BY <2>w, <3>1, <3>5 DEF ClearCurrent, QueueWalks
      <4>2. Promise!Retire
        BY <3>1, <3>2, <3>3, <3>5, <4>1 DEF ClearCurrent, NextTurn, Promise!Retire
      <4>3. QED
        BY <4>2 DEF Promise!Next
    <3>6. QED
      BY <2>15, <3>4, <3>5
  <2>16. CASE LeaveLoop BY <2>16, UnseenStutters DEF LeaveLoop, Seen
  <2>17. CASE MakeRaises BY <2>17, UnseenStutters DEF MakeRaises, EndWith, Seen
  <2>18. CASE YieldEvent BY <2>18, UnseenStutters DEF YieldEvent, Yield, Seen
  <2>19. CASE YieldNeedsOperator
    BY <2>19, UnseenStutters DEF YieldNeedsOperator, ArmPause, Yield, Seen
  <2>20. CASE YieldResumed BY <2>20, UnseenStutters DEF YieldResumed, Yield, Seen
  <2>21. CASE YieldRunAborted BY <2>21, UnseenStutters DEF YieldRunAborted, Yield, Seen
  <2>22. CASE YieldRunFailed BY <2>22, UnseenStutters DEF YieldRunFailed, Yield, Seen
  <2>23. CASE StopIteration BY <2>23, UnseenStutters DEF StopIteration, Seen
  <2>24. CASE GeneratorRaises BY <2>24, UnseenStutters DEF GeneratorRaises, EndWith, Seen
  <2>25. CASE AbortNowRaised
    BY <2>25, UnseenStutters DEF AbortNowRaised, EndWith, SyntheticAbort, Seen
  <2>26. CASE EnterWait BY <2>26, UnseenStutters DEF EnterWait, Seen
  <2>27. CASE WaitReady BY <2>27, UnseenStutters DEF WaitReady, Seen
  <2>28. CASE LeaveWait BY <2>28, UnseenStutters DEF LeaveWait, ClosePause, Seen
  <2>29. CASE CloseOnAbort BY <2>29, UnseenStutters DEF CloseOnAbort, EndWith, SyntheticAbort, Seen
  <2>30. CASE ReleaseBus BY <2>30, UnseenStutters DEF ReleaseBus, Seen
  <2>31. CASE BaseExceptionEscapes
    BY <2>31, UnseenStutters DEF BaseExceptionEscapes, CatchEscape, EndWith, Seen
  <2>32. CASE MonitorAcquire BY <2>32, UnseenStutters DEF MonitorAcquire, BusIsFree, Seen
  <2>33. CASE MonitorRelease BY <2>33, UnseenStutters DEF MonitorRelease, Seen
  <2>34. CASE UNCHANGED vars BY <2>34, UnseenStutters DEF vars, Seen
  <2>35. CASE Worker
    BY <2>35, <2>9, <2>10, <2>11, <2>12, <2>13, <2>14, <2>15, <2>16, <2>17,
       <2>18, <2>19, <2>20, <2>21, <2>22, <2>23, <2>24, <2>25, <2>26,
       <2>27, <2>28, <2>29, <2>30, <2>31 DEF Worker, Generator
  <2>36. ASSUME NEW c \in Callers, Proceed(c) PROVE UNCHANGED Promise!queueVars
    BY <2>36, <2>5, <2>6 DEF Proceed
  <2>37. QED
    BY <2>1, <2>2, <2>3, <2>4, <2>7, <2>8, <2>32, <2>33, <2>34, <2>35, <2>36 DEF Next
<1>3. QED
  BY <1>1, <1>2, TypeCorrect, OwnershipInvariant, TurnsWalk, PTL
     DEF Spec, ImplementsJobQueue, Promise!Spec

-----------------------------------------------------------------------------
(* The session. *)

\* What can be reported of a job, and what a record is.
Whats == (States \ {"new", "queued"}) \cup {"parked", "NeedsOperator", "OperatorResumed"}
Posts == [job : Jobs, what : Whats]
Post(j, what) == [job |-> j, what |-> what]
Records == [state : (States \ {"new"}) \cup {"none"}, stopping : BOOLEAN,
            pending : BOOLEAN, parked : BOOLEAN, ended : BOOLEAN]
Hands == [op : {"idle", "submit", "request", "tell"}, job : Jobs \cup {None},
          mode : StopModes \cup {None}, first : BOOLEAN]
Starting == {"queued", "preflight", "running"}

Waiting(j, what) == \E i \in DOMAIN posted : posted[i] = Post(j, what)

SessionTypes ==
    /\ attached \in BOOLEAN /\ inTime \in BOOLEAN
    /\ record \in [Jobs -> Records]
    /\ posted \in Seq(Posts)
    /\ lock \in Callers \cup {None}
    /\ hand \in Hands
    /\ life \in {"serving", "joining", "draining", "closing", "closed"}
    /\ journal \in [Jobs -> SUBSET (TERMINAL \cup {"parked"})]

\* The loop's thread is in one call at a time; a submission holds the lock until its record
\* is open, and a stop that is being accepted is of a record that has not ended.
HandIsKept ==
    /\ hand.op = "idle" => hand = NoHand
    /\ hand.op # "idle" => life = "serving" /\ hand.job \in Jobs /\ call[Loop].op = "none"
    /\ hand.op = "submit" =>
          lock = Loop /\ ~recorded(hand.job) /\ state[hand.job] = "queued"
    /\ hand.op = "request" => hand.mode \in StopModes
    /\ hand.op \in {"request", "tell"} =>
          /\ recorded(hand.job) /\ record[hand.job].stopping
          /\ attached => ~ended(hand.job)
          /\ ~hand.first => record[hand.job].state \notin Starting

\* A job without a record was not started: it is being submitted, or nobody submitted it.
Unopened ==
    /\ \A j \in Jobs : recorded(j) => state[j] # "new"
    /\ \A j \in Jobs : ~recorded(j) =>
        /\ record[j] = NoRecord
        /\ state[j] \in {"new", "queued"}
        /\ state[j] = "queued" => hand.op = "submit" /\ hand.job = j

\* What was posted is true of the worker, in the order in which it became true.
PostIsTrue(i) ==
    LET j == posted[i].job what == posted[i].what IN
    /\ recorded(j) /\ state[j] # "queued"
    /\ what \in TERMINAL => state[j] = what
    /\ what = "parked" =>
          /\ parked[j]
          /\ record[j].state = state[j] \/ \E k \in 1..(i - 1) : posted[k] = Post(j, state[j])
    /\ ended(j) => what = "parked"

PostsAreTrue ==
    /\ ~attached => posted = <<>>
    /\ \A i \in DOMAIN posted : PostIsTrue(i)
    /\ \A i, k \in DOMAIN posted :
          (i < k /\ posted[i].job = posted[k].job /\ posted[i].what \in TERMINAL)
              => posted[k].what = "parked"

\* A record shows the outcome or it is still posted, and so is its line.
RecordsAreTrue ==
    attached => \A j \in Jobs :
        /\ ended(j) => record[j].state = state[j]
        /\ (recorded(j) /\ terminal(j)) => (record[j].state = state[j] \/ Waiting(j, state[j]))

LinesAreTrue ==
    (attached /\ life # "closed") => \A j \in Jobs : recorded(j) =>
        /\ terminal(j) => (state[j] \in journal[j] \/ Waiting(j, state[j]))
        /\ parked[j] => ("parked" \in journal[j] \/ Waiting(j, "parked"))

\* The park follows the outcome, and a run that was executed is parked before the next.
ParksAreTrue ==
    /\ \A j \in Jobs : parked[j] => terminal(j)
    /\ ~MayCrash => \A j \in Jobs :
          (terminal(j) /\ state[j] # "cancelled") => parked[j] \/ (j = current /\ pc = "park")
    /\ stopping => queue = {}
    /\ pc = "ended" => stopping

\* The end in time: after the first join nothing of the worker or of a caller moves.
EndInTime ==
    /\ life # "serving" => hand.op = "idle"
    /\ life = "joining" => attached
    /\ released => pc = "ended"
    /\ inTime =>
          /\ attached /\ life \in {"draining", "closing", "closed"}
          /\ pc = "ended" /\ \A c \in Callers : call[c].op = "none"
    /\ (inTime /\ life \in {"closing", "closed"}) =>
          /\ posted = <<>>
          /\ ~MayCrash => \A j \in Jobs : recorded(j) =>
                /\ state[j] \in journal[j]
                /\ state[j] # "cancelled" => "parked" \in journal[j]

Facts == PostsAreTrue /\ RecordsAreTrue /\ WaitersFindAParkedBench

SessionInv ==
    /\ SessionTypes /\ HandIsKept /\ Unopened /\ StopIsNotTakenBack
    /\ Facts /\ LinesAreTrue /\ ParksAreTrue /\ EndInTime
-----------------------------------------------------------------------------
(* What a step of the worker does to the jobs, and what it tells of it.    *)

\* Nothing is told: no job moved, or one shows the stop that was already said.
Quiet ==
    /\ Reports = <<>> /\ parked' = parked
    /\ \A j \in Jobs : state'[j] = state[j] \/
          (~terminal(j) /\ state[j] # "queued" /\ state'[j] = "stopping" /\ record[j].stopping)
    /\ pc = "park" => MayCrash \/ parked[current]
    /\ pc = "park" => state' = state

\* The current job moved on, not to its end.
MovesOn(j, s) ==
    /\ s \in {"preflight", "running", "paused", "stopping"}
    /\ state[j] \in {"queued", "preflight", "running", "paused", "stopping"}
    /\ state' = [state EXCEPT ![j] = s] /\ parked' = parked /\ pc # "park"
    /\ Reports \in {<<Post(j, s)>>, <<Post(j, "NeedsOperator"), Post(j, "paused")>>,
                    <<Post(j, "OperatorResumed"), Post(j, "running")>>}

\* It ended ...
ItEnds(j, s) ==
    /\ s \in TERMINAL \ {"cancelled"}
    /\ state[j] \in {"preflight", "running", "paused", "stopping"}
    /\ state' = [state EXCEPT ![j] = s] /\ parked' = parked
    /\ pc # "park" /\ pc' = "park" /\ current' = current
    /\ Reports = <<Post(j, s)>>

\* ... and was parked.
ItParks(j) ==
    /\ state' = state /\ state[j] \in TERMINAL \ {"cancelled"}
    /\ parked' = [parked EXCEPT ![j] = TRUE]
    /\ Reports = <<Post(j, "parked")>>

WorkerMoves ==
    /\ pc # "ended" /\ (pc' = "ended" => stopping)
    /\ stopping' = stopping /\ queue' \subseteq queue /\ call' = call
    /\ \/ Quiet
       \/ current \in Jobs /\ \E s \in States : MovesOn(current, s)
       \/ current \in Jobs /\ \E s \in States : ItEnds(current, s)
       \/ current \in Jobs /\ ItParks(current)

\* Every step of the worker thread is one of these, and leaves the callers alone.
LEMMA WorkerTells ==
    ASSUME TypeOK, Ownership, Worker
    PROVE  WorkerMoves
<1> USE RunWorkerAssumption
<1>t. /\ queue \subseteq Jobs /\ current \in Jobs \cup {None}
      /\ (current = None) <=> (pc \in {"wait", "ended"})
      /\ state \in [Jobs -> States] /\ parked \in [Jobs -> BOOLEAN]
      /\ outcome \in TERMINAL \ {"cancelled"} /\ pc \in PCs
      /\ CurrentStateFollowsThread
  BY DEF TypeOK, Ownership
<1> USE <1>t
<1> USE DEF loopVars, queueVars, pauseVars, jobVars, genVars, endVars, execVars,
            workVars, PCs, CurrentStateFollowsThread, TERMINAL, States, terminal
<1>q. Quiet => \/ ~(pc # "ended" /\ (pc' = "ended" => stopping)
                    /\ stopping' = stopping /\ queue' \subseteq queue /\ call' = call)
               \/ WorkerMoves
  BY DEF WorkerMoves
<1>1. CASE Take BY <1>1, <1>q DEF Take, Oldest, Dequeue, Quiet, Reports
<1>2. CASE LeaveLoop BY <1>2, <1>q DEF LeaveLoop, Quiet, Reports
<1>3. CASE AcquireBus
  <2>1. MovesOn(current, "preflight")
    BY <1>3 DEF AcquireBus, BusIsFree, SetState, MovesOn, Reports, Said, Post
  <2>2. QED
    BY <1>3, <2>1 DEF AcquireBus, WorkerMoves
<1>4. CASE MakeReturns
  <2>1. MovesOn(current, "running")
    BY <1>4 DEF MakeReturns, SetState, MovesOn, Reports, Said, Post
  <2>2. QED
    BY <1>4, <2>1 DEF MakeReturns, WorkerMoves
<1>5. CASE MakeRaises BY <1>5, <1>q DEF MakeRaises, EndWith, Quiet, Reports
<1>6. CASE YieldEvent BY <1>6, <1>q DEF YieldEvent, Yield, Quiet, Reports
<1>7. CASE YieldNeedsOperator
  BY <1>7, <1>q DEF YieldNeedsOperator, ArmPause, Yield, Quiet, Reports
<1>8. CASE YieldResumed BY <1>8, <1>q DEF YieldResumed, Yield, Quiet, Reports
<1>9. CASE YieldRunAborted BY <1>9, <1>q DEF YieldRunAborted, Yield, Quiet, Reports
<1>10. CASE YieldRunFailed BY <1>10, <1>q DEF YieldRunFailed, Yield, Quiet, Reports
<1>11. CASE StopIteration BY <1>11, <1>q DEF StopIteration, Quiet, Reports
<1>12. CASE GeneratorRaises BY <1>12, <1>q DEF GeneratorRaises, EndWith, Quiet, Reports
<1>13. CASE AbortNowRaised
  BY <1>13, <1>q DEF AbortNowRaised, EndWith, SyntheticAbort, Quiet, Reports
<1>14. CASE EnterWait BY <1>14, <1>q DEF EnterWait, Quiet, Reports
<1>15. CASE WaitReady BY <1>15, <1>q DEF WaitReady, _ready, Quiet, Reports
<1>16. CASE LeaveWait BY <1>16, <1>q DEF LeaveWait, ClosePause, Quiet, Reports
<1>17. CASE HandleEvent
  <2>1. current \in Jobs /\ state[current] \in {"running", "paused", "stopping"} /\ parked' = parked
    BY <1>17 DEF HandleEvent
  <2>2. CASE ev = "NeedsOperator"
    <3>1. MovesOn(current, "paused")
      BY <1>17, <2>1, <2>2 DEF HandleEvent, MovesOn, Reports, Said, Post
    <3>2. QED
      BY <1>17, <2>1, <3>1 DEF HandleEvent, WorkerMoves
  <2>3. CASE ev = "OperatorResumed"
    <3>1. MovesOn(current, "running")
      BY <1>17, <2>1, <2>3 DEF HandleEvent, MovesOn, Reports, Said, Post
    <3>2. QED
      BY <1>17, <2>1, <3>1 DEF HandleEvent, WorkerMoves
  <2>4. CASE ev \notin {"NeedsOperator", "OperatorResumed"}
    BY <1>17, <1>q, <2>1, <2>4 DEF HandleEvent, Quiet, Reports
  <2>5. QED
    BY <2>2, <2>3, <2>4
<1>18. CASE CloseOnAbort
  BY <1>18, <1>q DEF CloseOnAbort, EndWith, SyntheticAbort, Quiet, Reports
<1>19. CASE Continue
  <2>1. /\ current \in Jobs /\ state[current] \in {"running", "paused", "stopping"}
        /\ parked' = parked /\ pc = "check"
        /\ pc # "ended" /\ (pc' = "ended" => stopping)
        /\ stopping' = stopping /\ queue' \subseteq queue /\ call' = call
    BY <1>19 DEF Continue
  <2>2. state' = state \/ state' = [state EXCEPT ![current] = "stopping"]
    BY <1>19 DEF Continue, SetState
  <2>3. CASE state' = state \/ record[current].stopping
    <3>1. Quiet
      BY <2>1, <2>2, <2>3 DEF Quiet, Reports
    <3>2. QED
      BY <1>q, <2>1, <3>1
  <2>4. CASE state' # state /\ ~record[current].stopping
    <3>1. MovesOn(current, "stopping")
      BY <2>1, <2>2, <2>4 DEF MovesOn, Reports, Said, Post
    <3>2. QED
      BY <2>1, <3>1 DEF WorkerMoves
  <2>5. QED
    BY <2>3, <2>4
<1>20. CASE Finish
  <2>1. ItEnds(current, outcome)
    BY <1>20 DEF Finish, SetState, ItEnds, Reports, Said, Post
  <2>2. QED
    BY <1>20, <2>1 DEF Finish, WorkerMoves
<1>21. CASE Park
  <2>1. /\ current \in Jobs /\ state[current] \in TERMINAL \ {"cancelled"} /\ state' = state
        /\ pc = "park" /\ parked' = [parked EXCEPT ![current] = TRUE]
        /\ pc # "ended" /\ (pc' = "ended" => stopping)
        /\ stopping' = stopping /\ queue' \subseteq queue /\ call' = call
    BY <1>21 DEF Park
  <2>2. CASE parked[current] = TRUE
    <3>1. parked' = parked
      BY <2>1, <2>2
    <3>2. Quiet
      BY <2>1, <2>2, <3>1 DEF Quiet, Reports
    <3>3. QED
      BY <1>q, <2>1, <3>2
  <2>3. CASE parked[current] = FALSE
    <3>1. parked' # parked
      BY <2>1, <2>3
    <3>2. ItParks(current)
      BY <2>1, <3>1 DEF ItParks, Reports, Said, Post
    <3>3. QED
      BY <2>1, <3>2 DEF WorkerMoves
  <2>4. QED
    BY <2>1, <2>2, <2>3
<1>22. CASE ReleaseBus BY <1>22, <1>q DEF ReleaseBus, Quiet, Reports
<1>23. CASE ClearCurrent BY <1>23, <1>q DEF ClearCurrent, NextTurn, ResetLocals, Quiet, Reports
<1>24. CASE BaseExceptionEscapes
  BY <1>24, <1>q DEF BaseExceptionEscapes, CatchEscape, EndWith, Quiet, Reports
<1>25. QED
  BY <1>1, <1>2, <1>3, <1>4, <1>5, <1>6, <1>7, <1>8, <1>9, <1>10, <1>11, <1>12, <1>13,
     <1>14, <1>15, <1>16, <1>17, <1>18, <1>19, <1>20, <1>21, <1>22, <1>23, <1>24
     DEF Worker, Generator
-----------------------------------------------------------------------------
(* What reports make of a record.                                          *)

\* The reports applied one after the other: what each leaves.
Taken(told, r, j, reports) ==
    told = [n \in 0..Len(reports) |->
              IF n = 0 THEN r
              ELSE IF reports[n].job = j THEN Apply(told[n - 1], reports[n].what)
              ELSE told[n - 1]]

\* One report makes one step of its own record.
LEMMA OneReport ==
    ASSUME NEW r, NEW j, NEW e
    PROVE  After(r, j, <<e>>) = IF e.job = j THEN Apply(r, e.what) ELSE r
<1> DEFINE one == IF e.job = j THEN Apply(r, e.what) ELSE r
           told == CHOOSE told : Taken(told, r, j, <<e>>)
<1>1. Taken([n \in 0..1 |-> IF n = 0 THEN r ELSE one], r, j, <<e>>)
  BY DEF Taken
<1>2. Taken(told, r, j, <<e>>)
  BY <1>1
<1>3. After(r, j, <<e>>) = told[1]
  BY DEF After, Taken
<1> HIDE DEF told
<1>4. told[0] = r /\ told[1] = IF e.job = j THEN Apply(told[0], e.what) ELSE told[0]
  BY <1>2 DEF Taken
<1> QED
  BY <1>3, <1>4

\* Two reports of a job make two.
LEMMA TwoReports ==
    ASSUME NEW r, NEW j, NEW i, NEW a, NEW b
    PROVE  After(r, j, <<Post(i, a), Post(i, b)>>) =
              IF i = j THEN Apply(Apply(r, a), b) ELSE r
<1> DEFINE both == <<Post(i, a), Post(i, b)>>
           one == IF i = j THEN Apply(r, a) ELSE r
           two == IF i = j THEN Apply(one, b) ELSE one
           told == CHOOSE told : Taken(told, r, j, both)
<1>0. /\ Len(both) = 2 /\ both[1].job = i /\ both[1].what = a
      /\ both[2].job = i /\ both[2].what = b
  BY DEF Post
<1>3. After(r, j, both) = told[Len(both)]
  BY DEF After, Taken
<1> HIDE DEF both
<1>1. Taken([n \in 0..2 |-> IF n = 0 THEN r ELSE IF n = 1 THEN one ELSE two], r, j, both)
  BY <1>0 DEF Taken
<1>2. Taken(told, r, j, both)
  BY <1>1
<1> HIDE DEF told, one, two
<1>4. told[0] = r
  BY <1>0, <1>2 DEF Taken
<1>5. told[1] = IF i = j THEN Apply(told[0], a) ELSE told[0]
  BY <1>0, <1>2 DEF Taken
<1>6. told[2] = IF i = j THEN Apply(told[1], b) ELSE told[1]
  BY <1>0, <1>2 DEF Taken
<1>7. After(r, j, both) = IF i = j THEN Apply(Apply(r, a), b) ELSE r
  BY <1>0, <1>3, <1>4, <1>5, <1>6
<1> QED
  BY <1>7 DEF both

\* None leaves it as it is.
LEMMA NoReport ==
    ASSUME NEW r, NEW j
    PROVE  After(r, j, <<>>) = r
<1> DEFINE told == CHOOSE told : Taken(told, r, j, <<>>)
<1>1. Taken([n \in 0..0 |-> r], r, j, <<>>)
  BY DEF Taken
<1>2. Taken(told, r, j, <<>>)
  BY <1>1
<1>3. After(r, j, <<>>) = told[0]
  BY DEF After, Taken
<1> HIDE DEF told
<1> QED
  BY <1>2, <1>3 DEF Taken

\* What _apply keeps of a record, whatever is reported (session.py, _apply_state).
Grows(r, q) ==
    /\ q \in Records /\ q.stopping = r.stopping
    /\ r.state = "none" => q = r
    /\ r.state # "none" => q.state # "none"
    /\ (r.stopping /\ r.state \notin Starting) => q.state \notin Starting

LEMMA Applying ==
    ASSUME NEW r \in Records, NEW what \in Whats
    PROVE  LET q == Apply(r, what) IN
           /\ Grows(r, q)
           /\ (r.state # "none" /\ what \in TERMINAL) => q.state = what
           /\ what = "parked" => q.state = r.state
           /\ (q.state \in TERMINAL /\ what \notin TERMINAL) => q.state = r.state
           /\ q.ended => (r.ended \/ what \in {"parked", "cancelled"})
<1> DEFINE q == Apply(r, what)
<1>0. /\ r.state \in (States \ {"new"}) \cup {"none"} /\ r.stopping \in BOOLEAN
      /\ r.pending \in BOOLEAN /\ r.parked \in BOOLEAN /\ r.ended \in BOOLEAN
  BY DEF Records
<1>1. CASE r.state = "none" \/ Overtaken(r, what)
  BY <1>0, <1>1 DEF Apply, Overtaken, Grows, TERMINAL
<1>2. CASE ~(r.state = "none" \/ Overtaken(r, what)) /\ what = "parked"
  <2>1. q = [r EXCEPT !.parked = TRUE, !.ended = @ \/ Wakes(what)]
    BY <1>2 DEF Apply
  <2>2. Wakes(what) = TRUE
    BY <1>2 DEF Wakes
  <2> QED
    BY <1>0, <1>2, <2>1, <2>2 DEF Grows, Records, TERMINAL
<1>3. CASE /\ ~(r.state = "none" \/ Overtaken(r, what))
           /\ what \in {"NeedsOperator", "OperatorResumed"}
  BY <1>0, <1>3 DEF Apply, Grows, Records, TERMINAL
<1>4. CASE /\ ~(r.state = "none" \/ Overtaken(r, what))
           /\ what \notin {"parked", "NeedsOperator", "OperatorResumed"}
  <2>1. q = [r EXCEPT !.state = what, !.pending = @ /\ what \notin TERMINAL,
                      !.ended = @ \/ Wakes(what)]
    BY <1>4 DEF Apply
  <2>2. what \in States \ {"new", "queued"}
    BY <1>4 DEF Whats
  <2>3. (r.pending /\ what \notin TERMINAL) \in BOOLEAN /\ (r.ended \/ Wakes(what)) \in BOOLEAN
    BY <1>0 DEF Wakes
  <2>4. Wakes(what) => what = "cancelled"
    BY <1>4 DEF Wakes
  <2>5. q \in Records
    BY <1>0, <2>1, <2>2, <2>3 DEF Records
  <2>6. q.state = what /\ q.stopping = r.stopping /\ (q.ended => r.ended \/ Wakes(what))
    BY <1>0, <2>1 DEF Records
  <2>7. r.stopping => what \notin Starting
    BY <1>4, <2>2 DEF Overtaken, Starting
  <2> QED
    BY <1>4, <2>2, <2>4, <2>5, <2>6, <2>7 DEF Grows, States, TERMINAL
<1> QED
  BY <1>1, <1>2, <1>3, <1>4

\* The record and the lines that one report leaves.
LEMMA IngestOne ==
    ASSUME SessionTypes, NEW j \in Jobs, NEW what \in Whats, Ingest(<<Post(j, what)>>)
    PROVE  /\ record' = [record EXCEPT ![j] = Apply(record[j], what)]
           /\ \A k \in Jobs : journal[k] \subseteq journal'[k]
           /\ (life # "closed" /\ what \in TERMINAL \cup {"parked"}) => what \in journal'[j]
<1> DEFINE one == <<Post(j, what)>>
<1>1. \A k \in Jobs : record'[k] = After(record[k], k, one)
  BY DEF Ingest
<1>2. \A k \in Jobs : After(record[k], k, one) =
                        IF k = j THEN Apply(record[k], what) ELSE record[k]
  BY OneReport DEF Post
<1>3. record' = [k \in Jobs |-> record'[k]]
  BY DEF Ingest
<1>4. record' = [record EXCEPT ![j] = Apply(record[j], what)]
  BY <1>1, <1>2, <1>3 DEF SessionTypes
<1>5. \A k \in Jobs : journal[k] \subseteq journal'[k]
  BY DEF Ingest
<1>6. ASSUME life # "closed", what \in TERMINAL \cup {"parked"} PROVE what \in journal'[j]
  <2>1. Post(j, what) \in {one[i] : i \in DOMAIN one} \cap
                            [job : {j}, what : TERMINAL \cup {"parked"}]
    BY <1>6 DEF Post
  <2>2. Post(j, what).what = what
    BY DEF Post
  <2> QED
    BY <1>6, <2>1, <2>2 DEF Ingest
<1> QED
  BY <1>4, <1>5, <1>6

\* The lines are lines.
LEMMA IngestTypes ==
    ASSUME SessionTypes, NEW reports, Ingest(reports)
    PROVE  journal' \in [Jobs -> SUBSET (TERMINAL \cup {"parked"})]
  BY DEF Ingest, SessionTypes

\* What any of the worker's reports leaves of the records.
LEMMA IngestAny ==
    ASSUME SessionTypes, NEW j \in Jobs, NEW reports, Ingest(reports),
           NEW a \in Whats, NEW b \in Whats,
           reports \in {<<>>, <<Post(j, a)>>, <<Post(j, a), Post(j, b)>>}
    PROVE  /\ record' \in [Jobs -> Records]
           /\ \A k \in Jobs : Grows(record[k], record'[k])
           /\ \A k \in Jobs : record'[k].ended =>
                 record[k].ended \/ (k = j /\ reports # <<>> /\
                                     {a, b} \cap {"parked", "cancelled"} # {})
           /\ \A k \in Jobs \ {j} : record'[k] = record[k]
<1> DEFINE first(k) == Apply(record[k], a)
           second(k) == Apply(first(k), b)
<1>1. /\ \A k \in Jobs : record'[k] = After(record[k], k, reports)
      /\ record' = [k \in Jobs |-> record'[k]]
  BY DEF Ingest
<1>2. \A k \in Jobs : record[k] \in Records
  BY DEF SessionTypes
<1>3. \A k \in Jobs : first(k) \in Records /\ second(k) \in Records
  BY <1>2, Applying DEF Grows
<1>4. ASSUME NEW k \in Jobs
      PROVE record'[k] = record[k] \/
              (k = j /\ reports # <<>> /\ record'[k] \in {first(k), second(k)})
  <2>1. CASE reports = <<>>
    BY <1>1, <2>1, NoReport
  <2>2. CASE reports = <<Post(j, a)>>
    BY <1>1, <2>2, OneReport DEF Post
  <2>3. CASE reports = <<Post(j, a), Post(j, b)>>
    BY <1>1, <2>3, TwoReports
  <2> QED
    BY <2>1, <2>2, <2>3
<1>5. ASSUME NEW k \in Jobs
      PROVE /\ Grows(record[k], record[k])
            /\ Grows(record[k], first(k)) /\ Grows(record[k], second(k))
  <2>1. Grows(record[k], first(k)) /\ Grows(first(k), second(k))
    BY <1>2, <1>3, Applying
  <2> HIDE DEF first, second
  <2> QED
    BY <1>2, <2>1 DEF Grows
<1>6. ASSUME NEW k \in Jobs
      PROVE /\ first(k).ended => record[k].ended \/ a \in {"parked", "cancelled"}
            /\ second(k).ended => first(k).ended \/ b \in {"parked", "cancelled"}
  BY <1>2, <1>3, Applying
<1> HIDE DEF first, second
<1> QED
  BY <1>1, <1>2, <1>3, <1>4, <1>5, <1>6
-----------------------------------------------------------------------------
(* The steps.                                                              *)

\* Where no job moves and nothing is told, what was true stays true.
LEMMA CalmKeeps ==
    ASSUME Facts, LinesAreTrue, UNCHANGED <<state, parked, record, posted, attached, journal>>,
           life = "closed" => life' = "closed"
    PROVE  Facts' /\ LinesAreTrue'
  BY DEF Facts, PostsAreTrue, PostIsTrue, RecordsAreTrue, WaitersFindAParkedBench, LinesAreTrue,
         recorded,
         ended, terminal, Waiting, Post

\* A post is of a job.
LEMMA PostsTyped ==
    ASSUME SessionTypes
    PROVE  /\ Len(posted) \in Nat /\ DOMAIN posted = 1..Len(posted)
           /\ \A i \in DOMAIN posted : /\ posted[i] \in Posts /\ posted[i].job \in Jobs
                                       /\ posted[i].what \in Whats
                                       /\ posted[i] = Post(posted[i].job, posted[i].what)
<1>1. posted \in Seq(Posts)
  BY DEF SessionTypes
<1>2. /\ Len(posted) \in Nat /\ DOMAIN posted = 1..Len(posted)
      /\ \A i \in DOMAIN posted : posted[i] \in Posts
  BY <1>1
<1>3. \A p \in Posts : p.job \in Jobs /\ p.what \in Whats /\ p = Post(p.job, p.what)
  BY DEF Posts, Post
<1> QED
  BY <1>2, <1>3

\* Nothing told: a job may show a stop that its record shows already.
LEMMA QuietKeeps ==
    ASSUME Facts, LinesAreTrue, ParksAreTrue, Unopened, SessionTypes, TypeOK,
           UNCHANGED <<parked, record, posted, attached, life>>,
           \A j \in Jobs : journal[j] \subseteq journal'[j],
           \A j \in Jobs : state'[j] = state[j] \/
              (~terminal(j) /\ state[j] # "queued" /\ state'[j] = "stopping" /\ record[j].stopping)
    PROVE  Facts' /\ LinesAreTrue'
<1> USE DEF terminal, TERMINAL
<1>1. \A j \in Jobs : parked[j] => terminal(j)
  BY DEF ParksAreTrue
<1>2. \A j \in Jobs : terminal(j) \/ terminal(j)' => state'[j] = state[j]
  OBVIOUS
<1>3. \A i \in DOMAIN posted : posted[i].job \in Jobs
  BY PostsTyped
<1>4. PostsAreTrue'
  <2>1. ASSUME NEW i \in DOMAIN posted
        PROVE /\ recorded(posted[i].job)' /\ state'[posted[i].job] # "queued"
              /\ posted[i].what = "parked" => state'[posted[i].job] = state[posted[i].job]
              /\ posted[i].what \in TERMINAL => state'[posted[i].job] = posted[i].what
              /\ ended(posted[i].job)' => ended(posted[i].job)
    BY <1>1, <1>2, <1>3 DEF Facts, PostsAreTrue, PostIsTrue, recorded, ended
  <2> QED
    BY <2>1 DEF Facts, PostsAreTrue, PostIsTrue
<1>5. RecordsAreTrue'
  BY <1>2 DEF Facts, RecordsAreTrue, recorded, ended, Waiting
<1>6. WaitersFindAParkedBench'
  BY <1>1, <1>2 DEF Facts, WaitersFindAParkedBench
<1>7. LinesAreTrue'
  BY <1>2 DEF LinesAreTrue, recorded, Waiting
<1> QED
  BY <1>4, <1>5, <1>6, <1>7 DEF Facts

\* One or two reports behind the ones already posted.
LEMMA Posting ==
    ASSUME NEW s \in Seq(Posts), NEW a \in Posts, NEW b \in Posts,
           NEW rs \in {<<a>>, <<a, b>>}
    PROVE  /\ s \o rs \in Seq(Posts) /\ Len(s \o rs) = Len(s) + Len(rs)
           /\ \A i \in 1..Len(s) : (s \o rs)[i] = s[i]
           /\ \A i \in 1..Len(rs) : (s \o rs)[Len(s) + i] = rs[i]
           /\ \A i \in 1..Len(s \o rs) : i \in 1..Len(s) \/ i = Len(s) + 1 \/ i = Len(s) + 2
           /\ Len(rs) \in {1, 2} /\ rs[1] = a /\ (Len(rs) = 2 => rs[2] = b)
<1>1. rs \in Seq(Posts) /\ Len(rs) \in {1, 2} /\ rs[1] = a /\ (Len(rs) = 2 => rs[2] = b)
  <2>1. CASE rs = <<a>>
    BY <2>1
  <2>2. CASE rs = <<a, b>>
    BY <2>2
  <2> QED
    BY <2>1, <2>2
<1>2. s \o rs \in Seq(Posts) /\ Len(s \o rs) = Len(s) + Len(rs) /\ Len(s) \in Nat
  BY <1>1
<1>3. \A i \in 1..Len(s) + Len(rs) :
         (s \o rs)[i] = IF i <= Len(s) THEN s[i] ELSE rs[i - Len(s)]
  BY <1>1
<1>4. \A i \in 1..Len(s) : (s \o rs)[i] = s[i]
  BY <1>1, <1>2, <1>3
<1>5. \A i \in 1..Len(rs) : (s \o rs)[Len(s) + i] = rs[i]
  BY <1>1, <1>2, <1>3
<1>6. \A i \in 1..Len(s \o rs) : i \in 1..Len(s) \/ i = Len(s) + 1 \/ i = Len(s) + 2
  <2> HIDE DEF Posts
  <2>1. ASSUME NEW n \in Nat, NEW m \in {1, 2}
        PROVE  \A i \in 1..(n + m) : i \in 1..n \/ i = n + 1 \/ i = n + 2
    OBVIOUS
  <2> QED
    BY <1>1, <1>2, <2>1
<1> QED
  BY <1>1, <1>2, <1>4, <1>5, <1>6

\* A live job that is not queued tells that it moves on: nothing posted says it ended.
LEMMA MovingOnPosts ==
    ASSUME TypeOK, SessionTypes, Facts, LinesAreTrue, ParksAreTrue, Unopened,
           NEW j \in Jobs, recorded(j), ~terminal(j), NEW s \in States,
           s \notin TERMINAL \cup {"new", "queued"},
           state' = [state EXCEPT ![j] = s],
           NEW a \in Whats \ (TERMINAL \cup {"parked"}),
           NEW b \in Whats \ (TERMINAL \cup {"parked"}),
           NEW rs \in {<<Post(j, a)>>, <<Post(j, a), Post(j, b)>>},
           posted' = posted \o rs, attached,
           UNCHANGED <<parked, record, attached, life, journal>>
    PROVE  Facts' /\ LinesAreTrue'
<1> USE DEF terminal
<1>1. /\ posted' \in Seq(Posts)
      /\ Len(posted') = Len(posted) + Len(rs) /\ Len(rs) \in {1, 2}
      /\ \A i \in 1..Len(posted) : posted'[i] = posted[i]
      /\ \A i \in 1..Len(posted') : i \notin 1..Len(posted) =>
            posted'[i].job = j /\ posted'[i].what \notin TERMINAL \cup {"parked"}
  <2>1. Post(j, a) \in Posts /\ Post(j, b) \in Posts /\ posted \in Seq(Posts)
    BY DEF Post, Posts, SessionTypes
  <2>2. \A i \in 1..Len(posted') : i \notin 1..Len(posted) =>
            posted'[i] = Post(j, a) \/ posted'[i] = Post(j, b)
    BY <2>1, Posting
  <2> QED
    BY <2>1, <2>2, Posting DEF Post
<1>2. \A k \in Jobs : (terminal(k) \/ terminal(k)') => state'[k] = state[k]
  BY DEF TypeOK
<1>3. \A k \in Jobs : parked[k] => terminal(k)
  BY DEF ParksAreTrue
<1>4. ~ended(j)
  BY DEF Facts, RecordsAreTrue, ended
<1>5. /\ DOMAIN posted = 1..Len(posted) /\ DOMAIN posted' = 1..Len(posted')
      /\ Len(posted) \in Nat /\ Len(posted') \in Nat
      /\ \A i \in 1..Len(posted) : posted[i].job \in Jobs
      /\ \A i \in 1..Len(posted) : i \in 1..Len(posted')
  BY <1>1, PostsTyped
<1>6. PostsAreTrue'
  <2>1. ASSUME NEW i \in 1..Len(posted) PROVE PostIsTrue(i)'
    <3> DEFINE k == posted[i].job
    <3>0. k \in Jobs /\ posted'[i] = posted[i] /\ PostIsTrue(i)
      BY <1>1, <1>5 DEF Facts, PostsAreTrue
    <3>1. recorded(k) /\ state[k] # "queued"
      BY <3>0 DEF PostIsTrue
    <3>2. recorded(k)' /\ (ended(k)' <=> ended(k))
      BY <3>1 DEF recorded, ended
    <3>3. state'[k] # "queued"
      BY <3>0, <3>1 DEF TypeOK
    <3>4. posted[i].what = "parked" => state'[k] = state[k]
      BY <1>2, <1>3, <3>0 DEF PostIsTrue
    <3>5. posted[i].what \in TERMINAL => state'[k] = state[k]
      BY <1>2, <3>0 DEF PostIsTrue
    <3>6. \A n \in 1..(i - 1) : posted'[n] = posted[n]
      BY <1>1, <1>5
    <3> QED
      BY <3>0, <3>2, <3>3, <3>4, <3>5, <3>6 DEF PostIsTrue
  <2>2. ASSUME NEW i \in 1..Len(posted'), i \notin 1..Len(posted) PROVE PostIsTrue(i)'
    <3>1. posted'[i].job = j /\ posted'[i].what \notin TERMINAL \cup {"parked"}
      BY <1>1, <2>2
    <3>2. recorded(j)' /\ ~ended(j)' /\ state'[j] = s
      BY <1>4 DEF recorded, ended, TypeOK
    <3> QED
      BY <3>1, <3>2 DEF PostIsTrue
  <2>3. ASSUME NEW i \in 1..Len(posted'), NEW k \in 1..Len(posted'), i < k,
               posted'[i].job = posted'[k].job, posted'[i].what \in TERMINAL
        PROVE  posted'[k].what = "parked"
    <3>1. i \in 1..Len(posted) /\ posted[i].what \in TERMINAL
      BY <1>1, <2>3
    <3>2. terminal(posted[i].job) /\ posted[i].job # j
      BY <1>5, <3>1 DEF Facts, PostsAreTrue, PostIsTrue
    <3>3. k \in 1..Len(posted)
      BY <1>1, <2>3, <3>1, <3>2
    <3> QED
      BY <1>1, <1>5, <2>3, <3>1, <3>3 DEF Facts, PostsAreTrue
  <2>4. \A i \in DOMAIN posted' : PostIsTrue(i)'
    BY <1>5, <2>1, <2>2
  <2> QED
    BY <1>5, <2>3, <2>4 DEF PostsAreTrue
<1>7. RecordsAreTrue'
  BY <1>1, <1>2, <1>4, <1>5 DEF Facts, RecordsAreTrue, recorded, ended, Waiting, TypeOK
<1>8. WaitersFindAParkedBench'
  BY <1>2, <1>3, <1>4 DEF Facts, WaitersFindAParkedBench, RecordsAreTrue, ended, TypeOK, TERMINAL
<1>9. LinesAreTrue'
  BY <1>1, <1>2, <1>3, <1>5 DEF LinesAreTrue, recorded, Waiting
<1> QED
  BY <1>6, <1>7, <1>8, <1>9 DEF Facts

\* A post behind the ones already posted.
LEMMA OnePosting ==
    ASSUME SessionTypes, NEW p \in Posts, posted' = posted \o <<p>>
    PROVE  /\ posted' \in Seq(Posts) /\ Len(posted') = Len(posted) + 1
           /\ \A i \in DOMAIN posted : i \in DOMAIN posted' /\ posted'[i] = posted[i]
           /\ posted'[Len(posted)+1] = p /\ Len(posted)+1 \in DOMAIN posted'
           /\ \A i \in DOMAIN posted' : i \in DOMAIN posted \/ i = Len(posted) + 1
<1>1. posted \in Seq(Posts)
  BY DEF SessionTypes
<1>2. posted' = Append(posted, p)
  BY <1>1
<1> QED
  BY <1>1, <1>2

\* A live job tells its outcome: that is the one terminal state posted of it.
LEMMA EndingPosts ==
    ASSUME TypeOK, SessionTypes, Facts, LinesAreTrue, ParksAreTrue,
           NEW j \in Jobs, recorded(j), ~terminal(j), NEW s \in TERMINAL,
           state' = [state EXCEPT ![j] = s],
           posted' = posted \o <<Post(j, s)>>, attached,
           UNCHANGED <<parked, record, attached, life, journal>>
    PROVE  Facts' /\ LinesAreTrue'
<1> USE DEF terminal
<1>p. Post(j, s) \in Posts /\ Post(j, s).job = j /\ Post(j, s).what = s /\ s \in States
  BY DEF Post, Posts, Whats, TERMINAL, States
<1>1. /\ Len(posted') = Len(posted) + 1
      /\ \A i \in DOMAIN posted : i \in DOMAIN posted' /\ posted'[i] = posted[i]
      /\ posted'[Len(posted)+1] = Post(j, s) /\ Len(posted)+1 \in DOMAIN posted'
      /\ \A i \in DOMAIN posted' : i \in DOMAIN posted \/ i = Len(posted) + 1
  BY <1>p, OnePosting
<1>2. \A k \in Jobs : k # j => state'[k] = state[k]
  BY DEF TypeOK
<1>3. \A k \in Jobs : (terminal(k) \/ parked[k]) => k # j
  BY DEF ParksAreTrue
<1>4. ~ended(j) /\ state'[j] = s
  BY DEF Facts, RecordsAreTrue, ended, TypeOK
<1>5. /\ Len(posted) \in Nat /\ DOMAIN posted = 1..Len(posted)
      /\ \A i \in DOMAIN posted : posted[i].job \in Jobs
  BY PostsTyped
<1>6. \A i \in DOMAIN posted : PostIsTrue(i) /\
          (posted[i].what \in TERMINAL \cup {"parked"} => posted[i].job # j)
  BY <1>3, <1>5 DEF Facts, PostsAreTrue, PostIsTrue
<1>7. PostsAreTrue'
  <2>1. ASSUME NEW i \in DOMAIN posted PROVE PostIsTrue(i)'
    <3> DEFINE k == posted[i].job
    <3>0. k \in Jobs /\ posted'[i] = posted[i] /\ PostIsTrue(i)
      BY <1>1, <1>5, <1>6
    <3>1. recorded(k) /\ state[k] # "queued"
      BY <3>0 DEF PostIsTrue
    <3>2. recorded(k)' /\ (ended(k)' <=> ended(k))
      BY <3>1 DEF recorded, ended
    <3>3. state'[k] # "queued"
      BY <1>2, <1>4, <3>0, <3>1 DEF TERMINAL
    <3>4. posted[i].what \in TERMINAL \cup {"parked"} => state'[k] = state[k]
      BY <1>2, <1>6, <3>0
    <3>6. \A n \in 1..(i - 1) : posted'[n] = posted[n]
      BY <1>1, <1>5
    <3> QED
      BY <3>0, <3>2, <3>3, <3>4, <3>6 DEF PostIsTrue
  <2>2. ASSUME NEW n, n = Len(posted) + 1 PROVE PostIsTrue(n)'
    <3>1. recorded(j)' /\ ~ended(j)' /\ state'[j] = s /\ s # "queued" /\ s # "parked"
      BY <1>4 DEF recorded, ended, TERMINAL
    <3>2. posted'[n].job = j /\ posted'[n].what = s
      BY <1>1, <1>p, <2>2
    <3> QED
      BY <3>1, <3>2 DEF PostIsTrue
  <2>3. ASSUME NEW i \in DOMAIN posted', NEW k \in DOMAIN posted', i < k,
               posted'[i].job = posted'[k].job, posted'[i].what \in TERMINAL
        PROVE  posted'[k].what = "parked"
    <3>1. i \in DOMAIN posted
      BY <1>1, <1>5, <2>3
    <3>2. posted[i].job # j
      BY <1>1, <1>6, <2>3, <3>1
    <3>3. k \in DOMAIN posted
      BY <1>1, <1>p, <2>3, <3>1, <3>2
    <3> QED
      BY <1>1, <2>3, <3>1, <3>3 DEF Facts, PostsAreTrue
  <2>4. ASSUME NEW i \in DOMAIN posted' PROVE PostIsTrue(i)'
    BY <1>1, <2>1, <2>2
  <2> QED
    BY <2>3, <2>4 DEF PostsAreTrue
<1>8. \A k \in Jobs : \A what : Waiting(k, what) => Waiting(k, what)'
  BY <1>1 DEF Waiting, Post
<1>9. Waiting(j, s)'
  BY <1>1 DEF Waiting, Post
<1>10. RecordsAreTrue'
  BY <1>2, <1>4, <1>8, <1>9 DEF Facts, RecordsAreTrue, recorded, ended
<1>11. WaitersFindAParkedBench'
  <2>1. ~record[j].ended
    BY <1>3, <1>4 DEF Facts, WaitersFindAParkedBench, TERMINAL
  <2> QED
    BY <1>2, <2>1 DEF Facts, WaitersFindAParkedBench
<1>12. LinesAreTrue'
  <2>1. ~parked[j]
    BY <1>3
  <2> QED
    BY <1>2, <1>4, <1>8, <1>9, <2>1 DEF LinesAreTrue, recorded
<1> QED
  BY <1>7, <1>10, <1>11, <1>12 DEF Facts

\* A job that ended tells its park, behind its outcome.
LEMMA ParkingPosts ==
    ASSUME TypeOK, SessionTypes, Facts, LinesAreTrue,
           NEW j \in Jobs, recorded(j), terminal(j), state[j] # "queued",
           parked' = [parked EXCEPT ![j] = TRUE],
           posted' = posted \o <<Post(j, "parked")>>, attached,
           UNCHANGED <<state, record, attached, life, journal>>
    PROVE  Facts' /\ LinesAreTrue'
<1> USE DEF terminal
<1>p. /\ Post(j, "parked") \in Posts /\ Post(j, "parked").job = j
      /\ Post(j, "parked").what = "parked"
  BY DEF Post, Posts, Whats
<1>1. /\ Len(posted') = Len(posted) + 1
      /\ \A i \in DOMAIN posted : i \in DOMAIN posted' /\ posted'[i] = posted[i]
      /\ posted'[Len(posted)+1] = Post(j, "parked") /\ Len(posted)+1 \in DOMAIN posted'
      /\ \A i \in DOMAIN posted' : i \in DOMAIN posted \/ i = Len(posted) + 1
  BY <1>p, OnePosting
<1>2. parked'[j] = TRUE /\ \A k \in Jobs : parked[k] => parked'[k]
  BY DEF TypeOK
<1>3. \A k \in Jobs : parked'[k] => k = j \/ parked[k]
  BY DEF TypeOK
<1>4. record[j].state = state[j] \/ Waiting(j, state[j])
  BY DEF Facts, RecordsAreTrue
<1>5. /\ Len(posted) \in Nat /\ DOMAIN posted = 1..Len(posted)
      /\ \A i \in DOMAIN posted : posted[i].job \in Jobs
  BY PostsTyped
<1>7. PostsAreTrue'
  <2>1. ASSUME NEW i \in DOMAIN posted PROVE PostIsTrue(i)'
    <3>0. posted[i].job \in Jobs /\ posted'[i] = posted[i] /\ PostIsTrue(i)
      BY <1>1, <1>5 DEF Facts, PostsAreTrue
    <3>6. \A n \in 1..(i - 1) : posted'[n] = posted[n]
      BY <1>1, <1>5
    <3> QED
      BY <1>2, <3>0, <3>6 DEF PostIsTrue, recorded, ended
  <2>2. ASSUME NEW n, n = Len(posted) + 1 PROVE PostIsTrue(n)'
    <3>1. posted'[n].job = j /\ posted'[n].what = "parked"
      BY <1>1, <1>p, <2>2
    <3>2. ASSUME Waiting(j, state[j])
          PROVE \E k \in 1..(n - 1) : posted'[k] = Post(j, state[j])
      BY <1>1, <1>5, <2>2, <3>2 DEF Waiting
    <3> QED
      BY <1>2, <1>4, <3>1, <3>2 DEF PostIsTrue, recorded, ended, Post, TERMINAL
  <2>3. ASSUME NEW i \in DOMAIN posted', NEW k \in DOMAIN posted', i < k,
               posted'[i].job = posted'[k].job, posted'[i].what \in TERMINAL
        PROVE  posted'[k].what = "parked"
    <3>1. i \in DOMAIN posted
      BY <1>1, <1>5, <2>3
    <3>2. CASE k \in DOMAIN posted
      BY <1>1, <2>3, <3>1, <3>2 DEF Facts, PostsAreTrue
    <3>3. CASE k = Len(posted) + 1
      BY <1>1, <1>p, <3>3
    <3> QED
      BY <1>1, <3>2, <3>3
  <2>4. ASSUME NEW i \in DOMAIN posted' PROVE PostIsTrue(i)'
    BY <1>1, <2>1, <2>2
  <2> QED
    BY <2>3, <2>4 DEF PostsAreTrue
<1>8. \A k \in Jobs : \A what : Waiting(k, what) => Waiting(k, what)'
  BY <1>1 DEF Waiting, Post
<1>9. Waiting(j, "parked")'
  BY <1>1 DEF Waiting, Post
<1>10. RecordsAreTrue'
  BY <1>8 DEF Facts, RecordsAreTrue, recorded, ended
<1>11. WaitersFindAParkedBench'
  BY <1>2 DEF Facts, WaitersFindAParkedBench
<1>12. LinesAreTrue'
  BY <1>3, <1>8, <1>9 DEF LinesAreTrue, recorded
<1> QED
  BY <1>7, <1>10, <1>11, <1>12 DEF Facts

\* One report applied where it is made, on a script's thread: nothing is ever posted.
LEMMA InPlaceKeeps ==
    ASSUME SessionTypes, Facts, ~attached, UNCHANGED <<attached, posted>>,
           NEW j \in Jobs, NEW reports, Ingest(reports), NEW a \in Whats, NEW b \in Whats,
           reports \in {<<>>, <<Post(j, a)>>, <<Post(j, a), Post(j, b)>>},
           \A k \in Jobs : (parked[k] \/ state[k] = "cancelled")
                              => (parked'[k] \/ state'[k] = "cancelled"),
           (reports # <<>> /\ {a, b} \cap {"parked", "cancelled"} # {})
              => (parked'[j] \/ state'[j] = "cancelled")
    PROVE  /\ Facts' /\ LinesAreTrue'
           /\ record' \in [Jobs -> Records] /\ posted' \in Seq(Posts)
           /\ \A k \in Jobs : Grows(record[k], record'[k])
<1>1. /\ record' \in [Jobs -> Records]
      /\ \A k \in Jobs : Grows(record[k], record'[k])
      /\ \A k \in Jobs : record'[k].ended =>
            record[k].ended \/ (k = j /\ reports # <<>> /\
                                {a, b} \cap {"parked", "cancelled"} # {})
  BY IngestAny
<1>2. posted' = <<>> /\ posted' \in Seq(Posts)
  BY DEF Facts, PostsAreTrue, SessionTypes
<1>3. PostsAreTrue'
  BY <1>2 DEF PostsAreTrue
<1>4. RecordsAreTrue' /\ LinesAreTrue'
  BY DEF RecordsAreTrue, LinesAreTrue
<1>5. WaitersFindAParkedBench'
  BY <1>1 DEF Facts, WaitersFindAParkedBench
<1> QED
  BY <1>1, <1>2, <1>3, <1>4, <1>5 DEF Facts

\* Records that grow keep what the loop's thread has in hand ...
LEMMA HandStays ==
    ASSUME HandIsKept, UNCHANGED <<hand, lock, life, attached>>,
           \A k \in Jobs : Grows(record[k], record'[k]), attached => record' = record,
           hand.op # "idle" => call'[Loop] = call[Loop],
           hand.op = "submit" => state'[hand.job] = state[hand.job]
    PROVE  HandIsKept'
  BY DEF HandIsKept, Grows, recorded, ended

\* ... and what is opened, and a stop that was accepted.
LEMMA GrownStays ==
    ASSUME Unopened, StopIsNotTakenBack, UNCHANGED hand,
           \A k \in Jobs : Grows(record[k], record'[k]),
           \A k \in Jobs : state'[k] = state[k] \/ (recorded(k) /\ state'[k] # "new")
    PROVE  Unopened' /\ StopIsNotTakenBack'
<1>1. Unopened'
  BY DEF Unopened, Grows, recorded
<1>2. StopIsNotTakenBack'
  BY DEF StopIsNotTakenBack, Grows, Starting
<1> QED
  BY <1>1, <1>2

-----------------------------------------------------------------------------
(* The actions: each keeps the invariant, and the outcomes that are shown. *)

EndsStay == \A j \in Jobs : (attached /\ ended(j)) => record'[j].state = record[j].state

\* RunWorker's steps on the session's thread.
LEMMA WorkerKeeps ==
    ASSUME SessionInv, TypeOK, Ownership, WorkerStep
    PROVE  SessionInv' /\ EndsStay
<1> USE DEF SessionInv
<1>a. /\ None \notin Jobs /\ Loop # None /\ "worker" # Loop
  BY RunWorkerAssumption, RunSessionAssumption
<1>w. /\ WorkerMoves /\ (Reports # <<>> => lock = None)
      /\ UNCHANGED <<lock, hand, attached, life, inTime, released>>
  BY WorkerTells DEF WorkerStep, lifeVars
<1>d. IF attached THEN posted' = posted \o Reports /\ UNCHANGED <<record, journal>>
      ELSE Ingest(Reports) /\ posted' = posted
  BY <1>a DEF WorkerStep, Dispatch, recordVars
<1>j. \A k \in Jobs : journal[k] \subseteq journal'[k]
  BY <1>d DEF Ingest
<1>l. journal' \in [Jobs -> SUBSET (TERMINAL \cup {"parked"})]
  BY <1>d, IngestTypes DEF SessionTypes
<1>r. ASSUME current \in Jobs, Reports # <<>> PROVE recorded(current) \/ state[current] = "new"
  BY <1>a, <1>r, <1>w DEF Unopened, HandIsKept
<1>t. state \in [Jobs -> States] /\ parked \in [Jobs -> BOOLEAN]
  BY DEF TypeOK
<1>p. \A k \in Jobs : parked[k] => terminal(k)
  BY DEF ParksAreTrue
<1>e. EndInTime'
  BY <1>w DEF WorkerMoves, EndInTime
<1>s. ASSUME Facts', LinesAreTrue', record' \in [Jobs -> Records], posted' \in Seq(Posts),
             \A k \in Jobs : Grows(record[k], record'[k]),
             \A k \in Jobs : state'[k] = state[k] \/
                  (recorded(k) /\ state[k] # "new" /\ state'[k] # "new"),
             ParksAreTrue'
      PROVE  SessionInv' /\ EndsStay
  <2>1. SessionTypes'
    BY <1>s, <1>w, <1>l DEF SessionTypes
  <2>2. attached => record' = record
    BY <1>d
  <2>3. call' = call
    BY <1>w DEF WorkerMoves
  <2>4. hand.op = "submit" => state'[hand.job] = state[hand.job]
    BY <1>s DEF HandIsKept
  <2>5. HandIsKept'
    BY <1>s, <1>w, <2>2, <2>3, <2>4, HandStays
  <2>6. Unopened' /\ StopIsNotTakenBack'
    BY <1>s, <1>w, GrownStays
  <2>7. EndsStay
    BY <2>2 DEF EndsStay
  <2> QED
    BY <1>s, <1>e, <2>1, <2>5, <2>6, <2>7
<1>n. ASSUME NEW k \in Jobs PROVE Grows(record[k], record[k])
  BY DEF Grows, SessionTypes
<1>1. CASE Quiet
  <2>1. /\ Reports = <<>> /\ parked' = parked
        /\ \A j \in Jobs : state'[j] = state[j] \/
              (~terminal(j) /\ state[j] # "queued" /\ state'[j] = "stopping" /\ record[j].stopping)
        /\ pc = "park" => MayCrash \/ parked[current]
        /\ pc = "park" => state' = state
    BY <1>1 DEF Quiet
  <2>2. record' = record /\ posted' = posted
    <3>1. CASE attached
      BY <1>d, <2>1, <3>1 DEF SessionTypes
    <3>2. CASE ~attached
      <4>1. \A k \in Jobs : record'[k] = record[k]
        BY <1>d, <2>1, <3>2, NoReport DEF Ingest
      <4>2. record' = [k \in Jobs |-> record'[k]]
        BY <1>d, <3>2 DEF Ingest
      <4> QED
        BY <1>d, <3>2, <4>1, <4>2 DEF SessionTypes
    <3> QED
      BY <3>1, <3>2
  <2>3. Facts' /\ LinesAreTrue'
    BY <1>w, <1>j, <2>1, <2>2, QuietKeeps
  <2>4. ParksAreTrue'
    <3>1. \A k \in Jobs : (terminal(k) \/ terminal(k)') => state'[k] = state[k]
      BY <2>1 DEF terminal, TERMINAL
    <3>2. \A k \in Jobs : (parked[k] => terminal(k)') /\ (terminal(k)' => terminal(k))
      BY <1>p, <3>1 DEF terminal
    <3>3. ASSUME ~MayCrash, NEW k \in Jobs, terminal(k)', state'[k] # "cancelled" PROVE parked[k]
      BY <2>1, <3>1, <3>2, <3>3 DEF ParksAreTrue
    <3> QED
      BY <1>w, <2>1, <3>2, <3>3 DEF ParksAreTrue, WorkerMoves
  <2>5. \A k \in Jobs : state'[k] = state[k] \/
                  (recorded(k) /\ state[k] # "new" /\ state'[k] # "new")
    BY <2>1 DEF Unopened, NoRecord
  <2>6. record' \in [Jobs -> Records] /\ posted' \in Seq(Posts)
    BY <2>2 DEF SessionTypes
  <2>7. \A k \in Jobs : Grows(record[k], record'[k])
    BY <1>n, <2>2
  <2> QED
    BY <1>s, <2>3, <2>4, <2>5, <2>6, <2>7
<1>2. ASSUME current \in Jobs, NEW s \in States, MovesOn(current, s)
      PROVE  SessionInv' /\ EndsStay
  <2> DEFINE j == current
  <2>1. /\ s \in {"preflight", "running", "paused", "stopping"}
        /\ state[j] \in {"queued", "preflight", "running", "paused", "stopping"}
        /\ state' = [state EXCEPT ![j] = s] /\ parked' = parked /\ pc # "park"
    BY <1>2 DEF MovesOn
  <2>2. PICK a \in Whats \ (TERMINAL \cup {"parked"}), b \in Whats \ (TERMINAL \cup {"parked"}) :
           Reports \in {<<Post(j, a)>>, <<Post(j, a), Post(j, b)>>}
    <3>1. {s, "NeedsOperator", "OperatorResumed", "paused", "running"}
             \subseteq Whats \ (TERMINAL \cup {"parked"})
      BY <2>1 DEF Whats, States, TERMINAL
    <3> QED
      BY <1>2, <3>1 DEF MovesOn
  <2>3. recorded(j) /\ ~terminal(j)
    BY <1>2, <1>r, <2>1, <2>2 DEF terminal, TERMINAL
  <2>4. \A k \in Jobs : parked[k] => state'[k] = state[k]
    BY <1>p, <1>t, <2>1, <2>3
  <2>5. /\ Facts' /\ LinesAreTrue' /\ record' \in [Jobs -> Records] /\ posted' \in Seq(Posts)
        /\ \A k \in Jobs : Grows(record[k], record'[k])
    <3>1. CASE attached
      <4>1. Facts' /\ LinesAreTrue'
        <5>1. s \notin TERMINAL \cup {"new", "queued"}
          BY <2>1 DEF TERMINAL
        <5>2. posted' = posted \o Reports /\ UNCHANGED <<parked, record, attached, life, journal>>
          BY <1>d, <1>w, <2>1, <3>1
        <5> QED
          BY <1>2, <2>1, <2>2, <2>3, <3>1, <5>1, <5>2, MovingOnPosts
      <4>2. Post(j, a) \in Posts /\ Post(j, b) \in Posts /\ posted \in Seq(Posts)
        BY <1>2 DEF Post, Posts, SessionTypes
      <4>3. posted \o Reports \in Seq(Posts)
        <5> DEFINE p == Post(j, a) q == Post(j, b)
        <5>1. p \in Posts /\ q \in Posts /\ Reports \in {<<p>>, <<p, q>>}
          BY <2>2, <4>2
        <5>2. Reports \in Seq(Posts)
          <6> HIDE DEF p, q, Posts, j
          <6>1. <<p>> \in Seq(Posts) /\ <<p, q>> \in Seq(Posts)
            BY <5>1
          <6> QED
            BY <5>1, <6>1
        <5> HIDE DEF p, q, Posts
        <5> QED
          BY <4>2, <5>2
      <4>4. posted' \in Seq(Posts)
        BY <1>d, <3>1, <4>3
      <4> QED
        BY <1>d, <1>n, <3>1, <4>1, <4>4 DEF SessionTypes
    <3>2. CASE ~attached
      <4>1. \A k \in Jobs : (parked[k] \/ state[k] = "cancelled")
                              => (parked'[k] \/ state'[k] = "cancelled")
        BY <1>t, <2>1
      <4>2. {a, b} \cap {"parked", "cancelled"} = {}
        BY <2>2 DEF TERMINAL
      <4>3. Ingest(Reports) /\ UNCHANGED <<attached, posted>>
        BY <1>d, <1>w, <3>2
      <4> HIDE DEF Facts, j
      <4> QED
        BY <1>2, <2>2, <3>2, <4>1, <4>2, <4>3, InPlaceKeeps DEF j
    <3> QED
      BY <3>1, <3>2
  <2>6. ParksAreTrue'
    <3>1. \A k \in Jobs : terminal(k)' => k # j /\ state'[k] = state[k]
      BY <1>t, <2>1 DEF terminal, TERMINAL
    <3>2. \A k \in Jobs : parked'[k] => terminal(k)'
      BY <1>p, <2>1, <2>4 DEF terminal
    <3> QED
      BY <1>w, <2>1, <3>1, <3>2 DEF ParksAreTrue, WorkerMoves, terminal
  <2>7. \A k \in Jobs : state'[k] = state[k] \/
                  (recorded(k) /\ state[k] # "new" /\ state'[k] # "new")
    BY <1>t, <2>1, <2>3
  <2> QED
    BY <1>s, <2>5, <2>6, <2>7
<1>3. ASSUME current \in Jobs, NEW s \in States, ItEnds(current, s)
      PROVE  SessionInv' /\ EndsStay
  <2> DEFINE j == current
  <2>1. /\ s \in TERMINAL \ {"cancelled"}
        /\ state[j] \in {"preflight", "running", "paused", "stopping"}
        /\ state' = [state EXCEPT ![j] = s] /\ parked' = parked
        /\ pc # "park" /\ pc' = "park" /\ current' = current
        /\ Reports = <<Post(j, s)>>
    BY <1>3 DEF ItEnds
  <2>2. s \in Whats /\ s # "parked"
    BY <2>1 DEF Whats, States, TERMINAL
  <2>3. recorded(j) /\ ~terminal(j)
    BY <1>3, <1>r, <2>1 DEF terminal, TERMINAL
  <2>5. /\ Facts' /\ LinesAreTrue' /\ record' \in [Jobs -> Records] /\ posted' \in Seq(Posts)
        /\ \A k \in Jobs : Grows(record[k], record'[k])
    <3>1. CASE attached
      <4>1. Facts' /\ LinesAreTrue'
        <5>2. posted' = posted \o Reports /\ UNCHANGED <<parked, record, attached, life, journal>>
          BY <1>d, <1>w, <2>1, <3>1
        <5> QED
          BY <1>3, <2>1, <2>3, <3>1, <5>2, EndingPosts
      <4>2. Post(j, s) \in Posts
        BY <1>3, <2>2 DEF Post, Posts
      <4>3. posted' \in Seq(Posts)
        BY <1>d, <2>1, <3>1, <4>2, OnePosting
      <4> QED
        BY <1>d, <1>n, <3>1, <4>1, <4>3 DEF SessionTypes
    <3>2. CASE ~attached
      <4>1. \A k \in Jobs : (parked[k] \/ state[k] = "cancelled")
                              => (parked'[k] \/ state'[k] = "cancelled")
        BY <1>t, <2>1
      <4>2. {s, s} \cap {"parked", "cancelled"} = {}
        BY <2>1, <2>2
      <4>3. Ingest(Reports) /\ UNCHANGED <<attached, posted>>
        BY <1>d, <1>w, <3>2
      <4> HIDE DEF Facts, j
      <4> QED
        BY <1>3, <2>1, <2>2, <3>2, <4>1, <4>2, <4>3, InPlaceKeeps DEF j
    <3> QED
      BY <3>1, <3>2
  <2>6. ParksAreTrue'
    <3>1. \A k \in Jobs : k # j => state'[k] = state[k]
      BY <1>t, <2>1
    <3>2. \A k \in Jobs : parked'[k] => terminal(k)'
      BY <1>p, <2>1, <2>3, <3>1 DEF terminal
    <3> QED
      BY <1>w, <2>1, <3>1, <3>2 DEF ParksAreTrue, WorkerMoves, terminal
  <2>7. \A k \in Jobs : state'[k] = state[k] \/
                  (recorded(k) /\ state[k] # "new" /\ state'[k] # "new")
    BY <1>t, <2>1, <2>3 DEF TERMINAL
  <2> QED
    BY <1>s, <2>5, <2>6, <2>7
<1>4. ASSUME current \in Jobs, ItParks(current)
      PROVE  SessionInv' /\ EndsStay
  <2> DEFINE j == current
  <2>1. /\ state' = state /\ state[j] \in TERMINAL \ {"cancelled"}
        /\ parked' = [parked EXCEPT ![j] = TRUE]
        /\ Reports = <<Post(j, "parked")>>
    BY <1>4 DEF ItParks
  <2>2. "parked" \in Whats
    BY DEF Whats
  <2>3. recorded(j) /\ terminal(j) /\ state[j] # "queued"
    BY <1>4, <2>1 DEF terminal, TERMINAL, Unopened
  <2>4. parked'[j] = TRUE /\ \A k \in Jobs : parked[k] => parked'[k]
    BY <1>4, <1>t, <2>1
  <2>5. /\ Facts' /\ LinesAreTrue' /\ record' \in [Jobs -> Records] /\ posted' \in Seq(Posts)
        /\ \A k \in Jobs : Grows(record[k], record'[k])
    <3>1. CASE attached
      <4>1. Facts' /\ LinesAreTrue'
        <5>2. posted' = posted \o Reports /\ UNCHANGED <<state, record, attached, life, journal>>
          BY <1>d, <1>w, <2>1, <3>1
        <5> QED
          BY <1>4, <2>1, <2>3, <3>1, <5>2, ParkingPosts
      <4>2. Post(j, "parked") \in Posts
        BY <1>4, <2>2 DEF Post, Posts
      <4>3. posted' \in Seq(Posts)
        BY <1>d, <2>1, <3>1, <4>2, OnePosting
      <4> QED
        BY <1>d, <1>n, <3>1, <4>1, <4>3 DEF SessionTypes
    <3>2. CASE ~attached
      <4>1. \A k \in Jobs : (parked[k] \/ state[k] = "cancelled")
                              => (parked'[k] \/ state'[k] = "cancelled")
        BY <2>1, <2>4
      <4>3. Ingest(Reports) /\ UNCHANGED <<attached, posted>>
        BY <1>d, <1>w, <3>2
      <4> HIDE DEF Facts, j
      <4> QED
        BY <1>4, <2>1, <2>2, <2>4, <3>2, <4>1, <4>3, InPlaceKeeps DEF j
    <3> QED
      BY <3>1, <3>2
  <2>6. ParksAreTrue'
    <3>2. \A k \in Jobs : parked'[k] => k = j \/ parked[k]
      BY <1>t, <2>1
    <3>3. ASSUME ~MayCrash, NEW k \in Jobs, terminal(k), state[k] # "cancelled" PROVE parked'[k]
      BY <2>4, <3>3 DEF ParksAreTrue
    <3> QED
      BY <1>p, <1>w, <2>1, <2>3, <3>2, <3>3 DEF ParksAreTrue, WorkerMoves, terminal
  <2>7. \A k \in Jobs : state'[k] = state[k]
    BY <2>1
  <2> QED
    BY <1>s, <2>5, <2>6, <2>7
<1> QED
  BY <1>w, <1>1, <1>2, <1>3, <1>4 DEF WorkerMoves

\* The rest of the posts, one place further on.
LEMMA Popping ==
    ASSUME SessionTypes, posted # <<>>, posted' = Tail(posted)
    PROVE  /\ posted' \in Seq(Posts) /\ 1 \in DOMAIN posted /\ Head(posted) = posted[1]
           /\ \A i \in DOMAIN posted' :
                 i \in Nat \ {0} /\ i + 1 \in DOMAIN posted /\ posted'[i] = posted[i + 1]
           /\ \A i \in DOMAIN posted :
                 i = 1 \/ (i - 1 \in DOMAIN posted' /\ posted'[i - 1] = posted[i])
<1>1. posted \in Seq(Posts)
  BY DEF SessionTypes
<1> QED
  BY <1>1

\* The oldest post is applied.
LEMMA CallbackKeeps ==
    ASSUME SessionInv, TypeOK, RunCallback
    PROVE  SessionInv' /\ EndsStay
<1> USE DEF SessionInv
<1>w. /\ UNCHANGED <<vars, lock, hand, attached, life, inTime, released>>
      /\ posted # <<>> /\ posted' = Tail(posted) /\ hand.op = "idle"
      /\ Ingest(<<Head(posted)>>)
  BY DEF RunCallback, LoopIdle, lifeVars
<1>v. UNCHANGED <<state, parked, stopping, queue, pc, current, call>>
  BY <1>w DEF vars, loopVars, queueVars, jobVars
<1> DEFINE j == posted[1].job what == posted[1].what
<1>p. /\ posted' \in Seq(Posts) /\ 1 \in DOMAIN posted /\ Head(posted) = posted[1]
      /\ \A i \in DOMAIN posted' :
            i \in Nat \ {0} /\ i + 1 \in DOMAIN posted /\ posted'[i] = posted[i + 1]
      /\ \A i \in DOMAIN posted :
            i = 1 \/ (i - 1 \in DOMAIN posted' /\ posted'[i - 1] = posted[i])
  BY <1>w, Popping
<1>q. j \in Jobs /\ what \in Whats /\ Head(posted) = Post(j, what)
      /\ \A i \in DOMAIN posted : posted[i].job \in Jobs
  BY <1>p, PostsTyped
<1>a. attached /\ PostIsTrue(1) /\ \A i \in DOMAIN posted : PostIsTrue(i)
  BY <1>p, <1>w DEF Facts, PostsAreTrue
<1>i. /\ record' = [record EXCEPT ![j] = Apply(record[j], what)]
      /\ \A k \in Jobs : journal[k] \subseteq journal'[k]
      /\ (life # "closed" /\ what \in TERMINAL \cup {"parked"}) => what \in journal'[j]
  BY <1>q, <1>w, IngestOne
<1> DEFINE q == Apply(record[j], what)
<1>r. record \in [Jobs -> Records] /\ record[j] \in Records
  BY <1>q DEF SessionTypes
<1>k. /\ record'[j] = q /\ \A k \in Jobs : k # j => record'[k] = record[k]
  BY <1>i, <1>q, <1>r
<1>g. /\ Grows(record[j], q)
      /\ what \in TERMINAL => q.state = what
      /\ what = "parked" => q.state = record[j].state
      /\ (q.state \in TERMINAL /\ what \notin TERMINAL) => q.state = record[j].state
      /\ q.ended => (record[j].ended \/ what \in {"parked", "cancelled"})
  BY <1>a, <1>q, <1>r, Applying DEF PostIsTrue, recorded
<1>t. /\ recorded(j) /\ (what \in TERMINAL => state[j] = what)
      /\ (what = "parked" => parked[j] /\ record[j].state = state[j])
      /\ (ended(j) => what = "parked")
  <2>1. \A k \in 1..(1 - 1) : FALSE
    OBVIOUS
  <2> QED
    BY <1>a, <2>1 DEF PostIsTrue
<1> HIDE DEF q
<1>n. \A k \in Jobs : Grows(record[k], record'[k])
  <2>1. \A k \in Jobs : Grows(record[k], record[k])
    BY <1>r DEF Grows
  <2> QED
    BY <1>g, <1>k, <2>1
<1>m. \A k \in Jobs : (recorded(k)' <=> recorded(k))
  BY <1>n DEF Grows, recorded
<1>o. \A k \in Jobs : parked[k] => terminal(k)
  BY DEF ParksAreTrue
<1>e. ASSUME NEW k \in Jobs PROVE ended(k) => record'[k].state = record[k].state
  BY <1>g, <1>k, <1>t
\* What the record did not show and was posted is shown or posted.
<1>s. ASSUME NEW k \in Jobs, terminal(k), record[k].state = state[k]
      PROVE  record'[k].state = state[k]
  BY <1>e, <1>s DEF ended, terminal
<1>1. PostsAreTrue'
  <2>1. ASSUME NEW i \in DOMAIN posted' PROVE PostIsTrue(i)'
    <3>k. PICK k \in Jobs : k = posted[i + 1].job
      BY <1>p, <1>q
    <3>0. /\ i + 1 \in DOMAIN posted /\ posted'[i] = posted[i + 1] /\ k = posted[i + 1].job
          /\ PostIsTrue(i + 1) /\ i \in Nat \ {0}
      BY <1>a, <1>p, <3>k
    <3>1. recorded(k)' /\ state'[k] # "queued"
      BY <1>m, <1>v, <3>0 DEF PostIsTrue
    <3>2. posted[i + 1].what \in TERMINAL => state'[k] = posted[i + 1].what
      BY <1>v, <3>0 DEF PostIsTrue
    <3>3. ASSUME posted[i + 1].what = "parked"
          PROVE /\ parked'[k]
                /\ record'[k].state = state'[k] \/
                      \E m \in 1..(i - 1) : posted'[m] = Post(k, state[k])
      <4>1. parked[k] /\ terminal(k)
        BY <1>o, <3>0, <3>3 DEF PostIsTrue
      <4>2. record[k].state = state[k] \/
              \E m \in 1..((i + 1) - 1) : posted[m] = Post(k, state[k])
        BY <3>0, <3>3 DEF PostIsTrue
      <4>3. CASE record[k].state = state[k]
        BY <1>s, <1>v, <3>0, <4>1, <4>3
      <4>4. ASSUME NEW m \in 1..i, posted[m] = Post(k, state[k])
            PROVE record'[k].state = state[k] \/
                      \E n \in 1..(i - 1) : posted'[n] = Post(k, state[k])
        <5>1. CASE m = 1
          <6>1. k = j /\ what = state[k]
            BY <4>4, <5>1 DEF Post
          <6> QED
            BY <1>g, <1>k, <3>0, <4>1, <6>1 DEF terminal
        <5>2. CASE m # 1
          <6>0. posted \in Seq(Posts)
            BY DEF SessionTypes
          <6>1. m \in DOMAIN posted
            BY <3>0, <6>0
          <6>2. m - 1 \in 1..(i - 1) /\ posted'[m - 1] = posted[m]
            BY <1>p, <3>0, <5>2, <6>1
          <6> QED
            BY <4>4, <6>2
        <5> QED
          BY <5>1, <5>2
      <4> QED
        BY <1>v, <3>0, <4>1, <4>2, <4>3, <4>4
    <3>4. ASSUME ended(k)' PROVE posted[i + 1].what = "parked"
      <4>1. CASE ended(k)
        BY <3>0, <4>1 DEF PostIsTrue
      <4>2. CASE ~ended(k)
        <5>1. k = j /\ what \in TERMINAL
          BY <1>g, <1>k, <3>0, <3>4, <4>2 DEF ended
        <5>2. 1 < i + 1
          BY <3>0
        <5> QED
          BY <1>p, <3>0, <5>1, <5>2 DEF Facts, PostsAreTrue
      <4> QED
        BY <4>1, <4>2
    <3> HIDE DEF j, what
    <3> QED
      BY <1>v, <3>0, <3>1, <3>2, <3>3, <3>4 DEF PostIsTrue
  <2>2. ASSUME NEW i \in DOMAIN posted', NEW k \in DOMAIN posted', i < k,
               posted'[i].job = posted'[k].job, posted'[i].what \in TERMINAL
        PROVE  posted'[k].what = "parked"
    <3>1. i + 1 < k + 1
      BY <1>p, <2>2
    <3> QED
      BY <1>p, <2>2, <3>1 DEF Facts, PostsAreTrue
  <2> QED
    BY <1>a, <1>w, <2>1, <2>2 DEF PostsAreTrue
<1>2. ASSUME NEW k \in Jobs, NEW x, Waiting(k, x), ~Waiting(k, x)' PROVE k = j /\ x = what
  <2>1. PICK i \in DOMAIN posted : posted[i] = Post(k, x)
    BY <1>2 DEF Waiting
  <2>2. i = 1
    BY <1>2, <1>p, <2>1 DEF Waiting, Post
  <2> QED
    BY <2>1, <2>2 DEF Post
<1>3. RecordsAreTrue'
  <2>1. ASSUME NEW k \in Jobs, ended(k)' PROVE record'[k].state = state'[k]
    <3>1. CASE ended(k)
      BY <1>a, <1>e, <1>v, <3>1 DEF Facts, RecordsAreTrue
    <3>2. CASE ~ended(k)
      BY <1>g, <1>k, <1>t, <1>v, <2>1, <3>2 DEF ended
    <3> QED
      BY <3>1, <3>2
  <2>2. ASSUME NEW k \in Jobs, recorded(k)', terminal(k)', NEW x, x = state[k]
        PROVE  record'[k].state = x \/ Waiting(k, x)'
    <3>1. terminal(k) /\ (record[k].state = x \/ Waiting(k, x))
      BY <1>a, <1>m, <1>v, <2>2 DEF Facts, RecordsAreTrue, terminal
    <3>2. CASE record[k].state = x
      BY <1>s, <2>2, <3>1, <3>2
    <3>3. CASE Waiting(k, x) /\ ~Waiting(k, x)'
      <4>1. k = j /\ what = x
        BY <1>2, <3>3
      <4> QED
        BY <1>g, <1>k, <2>2, <3>1, <4>1 DEF terminal
    <3> QED
      BY <3>1, <3>2, <3>3
  <2> QED
    BY <1>v, <2>1, <2>2 DEF RecordsAreTrue, Waiting
<1>4. WaitersFindAParkedBench'
  <2>1. ASSUME NEW k \in Jobs, record'[k].ended
        PROVE (parked[k] \/ state[k] = "cancelled") /\ record'[k].state = state[k]
    <3>1. CASE record[k].ended
      <4>1. (parked[k] \/ state[k] = "cancelled") /\ record[k].state = state[k] /\ terminal(k)
        BY <1>a, <1>o, <3>1 DEF Facts, WaitersFindAParkedBench, terminal, TERMINAL
      <4> QED
        BY <1>s, <4>1
    <3>2. CASE ~record[k].ended
      BY <1>g, <1>k, <1>t, <2>1, <3>2 DEF TERMINAL
    <3> QED
      BY <3>1, <3>2
  <2> QED
    BY <1>v, <2>1 DEF WaitersFindAParkedBench
<1>5. LinesAreTrue'
  <2>1. ASSUME NEW k \in Jobs, NEW x \in TERMINAL \cup {"parked"}, life # "closed",
               x \in journal[k] \/ Waiting(k, x)
        PROVE  x \in journal'[k] \/ Waiting(k, x)'
    BY <1>2, <1>i, <2>1
  <2>2. ASSUME NEW k \in Jobs, life # "closed", recorded(k), NEW x, x = state[k]
        PROVE  /\ terminal(k) => (x \in journal'[k] \/ Waiting(k, x)')
               /\ parked[k] => ("parked" \in journal'[k] \/ Waiting(k, "parked")')
    BY <1>a, <2>1, <2>2 DEF LinesAreTrue, terminal
  <2> QED
    BY <1>m, <1>v, <1>w, <2>2 DEF LinesAreTrue, terminal, Waiting
<1>6. SessionTypes'
  <2>1. record' \in [Jobs -> Records]
    BY <1>g, <1>i, <1>r DEF Grows, q
  <2> QED
    BY <1>p, <1>w, <2>1, IngestTypes DEF SessionTypes
<1>7. HandIsKept'
  BY <1>w, <1>v DEF HandIsKept
<1>8. Unopened' /\ StopIsNotTakenBack'
  BY <1>n, <1>v, <1>w, GrownStays
<1>9. ParksAreTrue'
  BY <1>v DEF ParksAreTrue, terminal
<1>10. EndInTime'
  BY <1>v, <1>w DEF EndInTime
<1>11. EndsStay
  BY <1>e DEF EndsStay
<1> QED
  BY <1>1, <1>3, <1>4, <1>5, <1>6, <1>7, <1>8, <1>9, <1>10, <1>11 DEF Facts

\* The report of a withdrawn job, posted from the pool or told in place by the loop's thread.
LEMMA CancelKeeps ==
    ASSUME SessionInv, TypeOK, Ownership, NEW c \in Callers, CancelTold(c)
    PROVE  SessionInv' /\ EndsStay
<1> USE DEF SessionInv
<1>a. None \notin Jobs /\ Loop # None /\ Loop \in Callers
  BY RunWorkerAssumption, RunSessionAssumption
<1>w. /\ UNCHANGED <<lock, hand, attached, life, inTime, released>> /\ lock \in {None, c}
      /\ UNCHANGED <<queue, pc, current, stopping, parked>>
      /\ \A d \in Callers : d # c => call'[d] = call[d]
  BY DEF CancelTold, lifeVars, MarkCancelled, queueVars, workVars, TypeOK
<1>1. PICK j \in Withdrawing(c) : state' = [state EXCEPT ![j] = "cancelled"]
  BY DEF CancelTold, MarkCancelled
<1>2. j \in Jobs /\ call[c].op # "none"
  BY <1>1 DEF Withdrawing, TypeOK, Calls
<1>3. state[j] = "queued" /\ ~terminal(j)
  BY <1>1, <1>2 DEF Ownership, QueuedJobHasOneOwner, terminal, TERMINAL
<1>t. state \in [Jobs -> States] /\ parked \in [Jobs -> BOOLEAN]
  BY DEF TypeOK
<1>4. state'[j] = "cancelled" /\ \A k \in Jobs : k # j => state'[k] = state[k]
  BY <1>1, <1>2, <1>t
<1>5. Dispatch(c, <<Post(j, "cancelled")>>)
  <2>1. PICK i \in Withdrawing(c) : /\ state'[i] # state[i]
                                    /\ Dispatch(c, <<[job |-> i, what |-> "cancelled"]>>)
    BY DEF CancelTold
  <2>2. i \in Jobs
    BY <2>1 DEF Withdrawing, TypeOK, Calls
  <2>3. i = j
    BY <1>4, <2>1, <2>2
  <2> QED
    BY <2>1, <2>3 DEF Post
<1>h. hand.op # "idle" => c # Loop
  BY <1>2 DEF HandIsKept
<1>6. recorded(j)
  BY <1>2, <1>3, <1>h, <1>a, <1>w DEF Unopened, HandIsKept
<1>p. \A k \in Jobs : parked[k] => terminal(k)
  BY DEF ParksAreTrue
<1>7. "cancelled" \in Whats /\ "cancelled" \in TERMINAL
  BY DEF Whats, States, TERMINAL
<1>8. Post(j, "cancelled") \in Posts
  BY <1>2, <1>7 DEF Post, Posts
<1>n. \A k \in Jobs : Grows(record[k], record[k])
  BY DEF Grows, SessionTypes
<1>9. /\ Facts' /\ LinesAreTrue' /\ record' \in [Jobs -> Records] /\ posted' \in Seq(Posts)
      /\ \A k \in Jobs : Grows(record[k], record'[k])
      /\ journal' \in [Jobs -> SUBSET (TERMINAL \cup {"parked"})]
      /\ (attached /\ hand.op # "idle") => record' = record
      /\ EndsStay
  <2>1. CASE attached /\ c # Loop
    <3>1. posted' = posted \o <<Post(j, "cancelled")>> /\ UNCHANGED <<record, journal>>
      BY <1>5, <2>1 DEF Dispatch, recordVars
    <3>2. Facts' /\ LinesAreTrue'
      BY <1>1, <1>2, <1>3, <1>6, <1>7, <1>w, <2>1, <3>1, EndingPosts
    <3>3. posted' \in Seq(Posts)
      BY <1>8, <3>1, OnePosting
    <3> QED
      BY <1>n, <3>1, <3>2, <3>3 DEF SessionTypes, EndsStay
  <2>2. CASE ~attached
    <3>1. Ingest(<<Post(j, "cancelled")>>) /\ UNCHANGED <<attached, posted>>
      BY <1>5, <1>w, <2>2 DEF Dispatch
    <3>2. \A k \in Jobs : (parked[k] \/ state[k] = "cancelled")
                             => (parked'[k] \/ state'[k] = "cancelled")
      BY <1>4, <1>w
    <3>3. journal' \in [Jobs -> SUBSET (TERMINAL \cup {"parked"})]
      BY <3>1, IngestTypes
    <3> HIDE DEF Facts
    <3>4. /\ Facts' /\ LinesAreTrue' /\ record' \in [Jobs -> Records] /\ posted' \in Seq(Posts)
          /\ \A k \in Jobs : Grows(record[k], record'[k])
      BY <1>2, <1>4, <1>7, <2>2, <3>1, <3>2, InPlaceKeeps
    <3> QED
      BY <2>2, <3>3, <3>4 DEF EndsStay
  <2>3. CASE attached /\ c = Loop
    <3>1. Ingest(<<Post(j, "cancelled")>>) /\ posted' = posted
      BY <1>5, <2>3 DEF Dispatch
    <3> DEFINE q == Apply(record[j], "cancelled")
    <3>2. /\ record' = [record EXCEPT ![j] = q]
          /\ \A k \in Jobs : journal[k] \subseteq journal'[k]
          /\ life # "closed" => "cancelled" \in journal'[j]
      BY <1>2, <1>7, <3>1, IngestOne
    <3>3. record \in [Jobs -> Records] /\ record[j] \in Records
      BY <1>2 DEF SessionTypes
    <3>4. Grows(record[j], q) /\ q.state = "cancelled"
      BY <1>6, <1>7, <3>3, Applying DEF recorded
    <3>5. record'[j] = q /\ \A k \in Jobs : k # j => record'[k] = record[k]
      BY <1>2, <3>2, <3>3
    <3> HIDE DEF q
    <3>6. \A k \in Jobs : Grows(record[k], record'[k])
      BY <1>n, <3>4, <3>5
    <3>7. record' \in [Jobs -> Records]
      BY <3>2, <3>3, <3>4 DEF Grows
    <3>8. \A i \in DOMAIN posted : PostIsTrue(i) /\ posted[i].job \in Jobs /\ posted[i].job # j
      BY <1>3, PostsTyped DEF Facts, PostsAreTrue, PostIsTrue
    <3>9. ~ended(j)
      BY <1>2, <1>3, <2>3 DEF Facts, RecordsAreTrue, ended, terminal
    <3>10. PostsAreTrue'
      <4>1. ASSUME NEW i \in DOMAIN posted PROVE PostIsTrue(i)'
        <5>1. PICK k \in Jobs : k = posted[i].job /\ k # j /\ PostIsTrue(i)
          BY <3>8
        <5>2. state'[k] = state[k] /\ record'[k] = record[k] /\ parked'[k] = parked[k]
          BY <1>4, <1>w, <3>5, <5>1
        <5> QED
          BY <3>1, <5>1, <5>2 DEF PostIsTrue, recorded, ended
      <4> QED
        BY <1>w, <2>3, <3>1, <4>1 DEF Facts, PostsAreTrue
    <3>11. RecordsAreTrue'
      <4>1. ASSUME NEW k \in Jobs, k # j
            PROVE  /\ ended(k)' => record'[k].state = state'[k]
                   /\ (recorded(k)' /\ terminal(k)')
                         => (record'[k].state = state'[k] \/ Waiting(k, state[k]))
        BY <1>4, <2>3, <3>5, <4>1 DEF Facts, RecordsAreTrue, recorded, ended, terminal
      <4> QED
        BY <1>4, <3>1, <3>4, <3>5, <4>1 DEF RecordsAreTrue, Waiting
    <3>12. WaitersFindAParkedBench'
      BY <1>4, <1>w, <3>4, <3>5 DEF Facts, WaitersFindAParkedBench
    <3>13. LinesAreTrue'
      <4>1. ~parked[j]
        BY <1>2, <1>3, <1>p
      <4> QED
        BY <1>4, <1>w, <3>1, <3>2, <3>5, <4>1
           DEF LinesAreTrue, recorded, terminal, Waiting
    <3>14. EndsStay
      BY <3>5, <3>9 DEF EndsStay
    <3> QED
      BY <1>h, <2>3, <3>1, <3>6, <3>7, <3>10, <3>11, <3>12, <3>13, <3>14, IngestTypes
         DEF SessionTypes, Facts
  <2> QED
    BY <2>1, <2>2, <2>3
<1>10. SessionTypes'
  BY <1>9, <1>w DEF SessionTypes
<1>11. HandIsKept'
  <2>1. hand.op = "submit" => state'[hand.job] = state[hand.job]
    BY <1>4, <1>6 DEF HandIsKept
  <2>2. hand.op # "idle" => call'[Loop] = call[Loop]
    BY <1>a, <1>h, <1>w
  <2>3. CASE hand.op = "idle"
    BY <1>w, <2>3 DEF HandIsKept
  <2>4. CASE hand.op # "idle"
    BY <1>9, <1>w, <2>1, <2>2, <2>4, HandStays
  <2> QED
    BY <2>3, <2>4
<1>12. Unopened' /\ StopIsNotTakenBack'
  BY <1>4, <1>6, <1>9, <1>w, GrownStays
<1>13. ParksAreTrue'
  <2>1. \A k \in Jobs : parked'[k] => terminal(k)'
    BY <1>4, <1>7, <1>p, <1>w DEF terminal
  <2>2. \A k \in Jobs : (terminal(k)' /\ state'[k] # "cancelled")
                           => k # j /\ terminal(k) /\ state[k] # "cancelled"
    BY <1>4 DEF terminal
  <2> QED
    BY <1>w, <2>1, <2>2 DEF ParksAreTrue
<1>14. EndInTime'
  BY <1>2, <1>w DEF EndInTime
<1> QED
  BY <1>9, <1>10, <1>11, <1>12, <1>13, <1>14

\* The stop is said to the record, on the loop's own thread.
LEMMA StopToldKeeps ==
    ASSUME SessionInv, TypeOK, StopTold
    PROVE  SessionInv' /\ EndsStay
<1> USE DEF SessionInv
<1>a. None \notin Jobs
  BY RunWorkerAssumption
<1>w. /\ UNCHANGED <<vars, lock, attached, life, inTime, released>> /\ hand.op = "tell"
      /\ hand' = NoHand
  BY DEF StopTold, lifeVars
<1>v. UNCHANGED <<state, parked, stopping, queue, pc, current, call>>
  BY <1>w DEF vars, loopVars, queueVars, jobVars
<1> DEFINE j == hand.job
<1>1. /\ j \in Jobs /\ recorded(j) /\ record[j].stopping /\ (attached => ~ended(j))
      /\ ~hand.first => record[j].state \notin Starting
      /\ life = "serving"
  BY <1>w DEF HandIsKept
<1>2. posted' = posted /\ IF hand.first THEN Ingest(<<Post(j, "stopping")>>)
                           ELSE UNCHANGED <<record, journal>>
  BY DEF StopTold, Dispatch, Post, recordVars
<1>3. "stopping" \in Whats /\ "stopping" \notin TERMINAL
  BY DEF Whats, States, TERMINAL
<1> DEFINE q == Apply(record[j], "stopping")
<1>r. record \in [Jobs -> Records] /\ record[j] \in Records
  BY <1>1 DEF SessionTypes
<1>4. /\ Grows(record[j], q) /\ q.state = "stopping" /\ (q.ended => record[j].ended)
  <2>1. ~Overtaken(record[j], "stopping")
    BY DEF Overtaken
  <2>2. q.state = "stopping"
    BY <1>1, <1>r, <2>1 DEF Apply, recorded, Records
  <2> QED
    BY <1>3, <1>r, <2>2, Applying
<1>5. /\ \A k \in Jobs : k # j => record'[k] = record[k]
      /\ record'[j] = record[j] \/ record'[j] = q
      /\ hand.first => record'[j] = q
      /\ record' \in [Jobs -> Records]
      /\ journal' \in [Jobs -> SUBSET (TERMINAL \cup {"parked"})]
      /\ \A k \in Jobs : journal[k] \subseteq journal'[k]
  <2>1. CASE hand.first
    <3>1. record' = [record EXCEPT ![j] = q] /\ \A k \in Jobs : journal[k] \subseteq journal'[k]
      BY <1>1, <1>2, <1>3, <2>1, IngestOne
    <3>2. journal' \in [Jobs -> SUBSET (TERMINAL \cup {"parked"})]
      BY <1>2, <2>1, IngestTypes
    <3>3. q \in Records
      BY <1>4 DEF Grows
    <3> HIDE DEF q
    <3> QED
      BY <1>1, <1>r, <3>1, <3>2, <3>3
  <2>2. CASE ~hand.first
    BY <1>2, <1>r, <2>2 DEF SessionTypes
  <2> QED
    BY <2>1, <2>2
<1>6. \A k \in Jobs : Grows(record[k], record'[k])
  <2>1. \A k \in Jobs : Grows(record[k], record[k])
    BY <1>r DEF Grows
  <2> HIDE DEF q
  <2> QED
    BY <1>4, <1>5, <2>1
<1>m. \A k \in Jobs : (recorded(k)' <=> recorded(k))
  BY <1>6 DEF Grows, recorded
<1>7. ASSUME attached, NEW k \in Jobs
      PROVE  (ended(k)' <=> ended(k)) /\ (ended(k) => record'[k] = record[k])
  <2> HIDE DEF q
  <2> QED
    BY <1>1, <1>3, <1>4, <1>5, <1>7 DEF ended
<1> HIDE DEF q
<1>p. \A k \in Jobs : parked[k] => terminal(k)
  BY DEF ParksAreTrue
<1>s. attached => \A k \in Jobs : (terminal(k) /\ record[k].state = state[k])
                                    => record'[k] = record[k]
  BY <1>7 DEF ended, terminal
<1>8. PostsAreTrue'
  <2>1. ASSUME NEW i \in DOMAIN posted PROVE PostIsTrue(i)'
    <3>1. PICK k \in Jobs : k = posted[i].job
      BY PostsTyped
    <3>2. PostIsTrue(i) /\ attached
      BY DEF Facts, PostsAreTrue
    <3>3. recorded(k)' /\ (ended(k)' => ended(k))
      BY <1>7, <1>m, <3>1, <3>2 DEF PostIsTrue
    <3>4. (parked[k] /\ record[k].state = state[k]) => record'[k] = record[k]
      BY <1>p, <1>s, <3>2
    <3> QED
      BY <1>2, <1>v, <3>1, <3>2, <3>3, <3>4 DEF PostIsTrue
  <2> QED
    BY <1>2, <1>w, <2>1 DEF Facts, PostsAreTrue
<1>9. RecordsAreTrue'
  BY <1>2, <1>7, <1>m, <1>s, <1>v, <1>w DEF Facts, RecordsAreTrue, Waiting, terminal
<1>10. WaitersFindAParkedBench'
  <2>1. ASSUME NEW k \in Jobs, record'[k].ended
        PROVE  record[k].ended /\ (attached => record'[k] = record[k])
    <3>1. record[k].ended
      BY <1>4, <1>5, <2>1
    <3>2. attached => ended(k)
      BY <1>p, <3>1 DEF Facts, WaitersFindAParkedBench, ended, terminal, TERMINAL
    <3> QED
      BY <1>7, <3>1, <3>2
  <2> QED
    BY <1>v, <1>w, <2>1 DEF Facts, WaitersFindAParkedBench
<1>11. LinesAreTrue'
  BY <1>2, <1>5, <1>m, <1>v, <1>w DEF LinesAreTrue, Waiting, terminal
<1>12. SessionTypes'
  BY <1>2, <1>5, <1>w DEF SessionTypes, NoHand, Hands
<1>13. HandIsKept'
  BY <1>w DEF HandIsKept, NoHand
<1>14. Unopened'
  BY <1>6, <1>m, <1>v, <1>w DEF Unopened, Grows, recorded, NoHand
<1>15. StopIsNotTakenBack'
  <2>1. ASSUME NEW k \in Jobs, k # j, record'[k].stopping
        PROVE  record'[k].state \notin {"queued", "preflight", "running"}
    BY <1>5, <2>1 DEF StopIsNotTakenBack
  <2>2. record'[j].state \notin {"queued", "preflight", "running"}
    BY <1>1, <1>4, <1>5 DEF Starting
  <2> QED
    BY <2>1, <2>2 DEF StopIsNotTakenBack
<1>16. ParksAreTrue'
  BY <1>v DEF ParksAreTrue, terminal
<1>17. EndInTime'
  BY <1>1, <1>v, <1>w DEF EndInTime, NoHand
<1>18. EndsStay
  BY <1>7 DEF EndsStay
<1> QED
  BY <1>8, <1>9, <1>10, <1>11, <1>12, <1>13, <1>14, <1>15, <1>16, <1>17, <1>18 DEF Facts

\* Submission: a new job is queued, and nothing is known of it yet.
LEMMA SubmitKeeps ==
    ASSUME SessionInv, TypeOK, NEW j \in Jobs, SubmitRun(j)
    PROVE  SessionInv' /\ EndsStay
<1> USE DEF SessionInv
<1>a. None \notin Jobs /\ Loop \in Callers
  BY RunWorkerAssumption, RunSessionAssumption
<1>w. /\ UNCHANGED <<record, journal, posted, attached, life, inTime, released>>
      /\ UNCHANGED <<parked, pc, current, stopping, call>>
      /\ lock' = Loop /\ hand' = Hand("submit", j, None, FALSE)
      /\ hand.op = "idle" /\ call[Loop].op = "none" /\ life = "serving"
      /\ state[j] = "new" /\ ~stopping /\ state' = [state EXCEPT ![j] = "queued"]
  BY DEF SubmitRun, Request, LoopIdle, Submit, HoldLock, recordVars, lifeVars, workVars
<1>1. state'[j] = "queued" /\ \A k \in Jobs : k # j => state'[k] = state[k]
  BY <1>w DEF TypeOK
<1>2. ~recorded(j) /\ record[j] = NoRecord /\ ~ended(j) /\ ~terminal(j) /\ ~parked[j]
  BY <1>w DEF Unopened, NoRecord, recorded, ended, terminal, TERMINAL, ParksAreTrue
<1>3. SessionTypes'
  BY <1>a, <1>w DEF SessionTypes, Hands, Hand
<1>4. HandIsKept'
  <2>1. hand'.op = "submit" /\ hand'.job = j
    BY <1>w DEF Hand
  <2> QED
    BY <1>1, <1>2, <1>w, <2>1 DEF HandIsKept, recorded
<1>5. Unopened'
  BY <1>1, <1>2, <1>w DEF Unopened, Hand, HandIsKept, recorded
<1>6. StopIsNotTakenBack'
  BY <1>a, <1>2, <1>w DEF StopIsNotTakenBack, HandIsKept, NoHand, NoRecord
<1>7. Facts'
  <2>1. PostsAreTrue'
    <3>1. ASSUME NEW i \in DOMAIN posted PROVE PostIsTrue(i)'
      <4>1. PICK k \in Jobs : k = posted[i].job
        BY PostsTyped
      <4>2. PostIsTrue(i)
        BY DEF Facts, PostsAreTrue
      <4>3. k # j
        BY <1>2, <4>1, <4>2 DEF PostIsTrue
      <4>4. state'[k] = state[k]
        BY <1>1, <4>3
      <4> QED
        BY <1>w, <4>1, <4>2, <4>4 DEF PostIsTrue, recorded, ended
    <3> QED
      BY <1>w, <3>1 DEF Facts, PostsAreTrue
  <2>2. RecordsAreTrue'
    BY <1>1, <1>2, <1>w DEF Facts, RecordsAreTrue, recorded, ended, terminal, Waiting
  <2>3. WaitersFindAParkedBench'
    BY <1>1, <1>2, <1>w DEF Facts, WaitersFindAParkedBench, NoRecord
  <2> QED
    BY <2>1, <2>2, <2>3 DEF Facts
<1>8. LinesAreTrue'
  BY <1>1, <1>2, <1>w DEF LinesAreTrue, recorded, terminal, Waiting
<1>9. ParksAreTrue'
  BY <1>1, <1>2, <1>w DEF ParksAreTrue, terminal, TERMINAL
<1>10. EndInTime'
  BY <1>w DEF EndInTime
<1>11. EndsStay
  BY <1>w DEF EndsStay
<1> QED
  BY <1>3, <1>4, <1>5, <1>6, <1>7, <1>8, <1>9, <1>10, <1>11

\* What a change of one record keeps, while no job moves: a record that is opened, or one
\* whose stop is accepted.
LEMMA MarkingKeeps ==
    ASSUME SessionInv, TypeOK, NEW j \in Jobs, NEW r \in Records,
           record' = [record EXCEPT ![j] = r], r.state # "none",
           recorded(j) => r.state = record[j].state /\ r.ended = record[j].ended,
           ~recorded(j) => r.state = "queued" /\ ~r.ended /\ state[j] # "new",
           r.stopping => hand'.job = j,
           hand.op = "idle" \/ hand.job = j,
           UNCHANGED <<vars, journal, posted, attached, life, inTime, released>>,
           hand' \in Hands, lock' \in Callers \cup {None}, HandIsKept', hand'.op # "submit",
           life = "serving"
    PROVE  SessionInv' /\ EndsStay
<1> USE DEF SessionInv
<1>a. None \notin Jobs
  BY RunWorkerAssumption
<1>v. UNCHANGED <<state, parked, stopping, queue, pc, current, call>>
  BY DEF vars, loopVars, queueVars, jobVars
<1>1. /\ record'[j] = r /\ \A k \in Jobs : k # j => record'[k] = record[k]
      /\ record' \in [Jobs -> Records]
  BY DEF SessionTypes
<1>2. ~recorded(j) => state[j] = "queued" /\ ~terminal(j) /\ ~parked[j]
  BY DEF Unopened, ParksAreTrue, terminal, TERMINAL
<1>m. \A k \in Jobs : k # j => (recorded(k)' <=> recorded(k))
  BY <1>1 DEF recorded
<1>o. \A k \in Jobs : recorded(k) => record'[k].state = record[k].state
                                      /\ record'[k].ended = record[k].ended
  BY <1>1
<1>p. \A k \in Jobs : recorded(k) => recorded(k)'
  BY <1>o DEF recorded
<1>3. SessionTypes'
  BY <1>1 DEF SessionTypes
<1>5. Unopened'
  BY <1>1, <1>2, <1>m, <1>v DEF Unopened, HandIsKept, recorded, NoHand
<1>6. StopIsNotTakenBack'
  BY <1>a, <1>1, <1>v DEF StopIsNotTakenBack, HandIsKept, NoHand
<1>7. Facts'
  <2>1. PostsAreTrue'
    <3>1. ASSUME NEW i \in DOMAIN posted PROVE PostIsTrue(i)'
      <4>1. PICK k \in Jobs : k = posted[i].job
        BY PostsTyped
      <4>2. PostIsTrue(i)
        BY DEF Facts, PostsAreTrue
      <4>3. recorded(k)
        BY <4>1, <4>2 DEF PostIsTrue
      <4>4. recorded(k)' /\ record'[k].state = record[k].state
        BY <1>o, <1>p, <4>3
      <4> QED
        BY <1>v, <4>1, <4>2, <4>4 DEF PostIsTrue, ended
    <3> QED
      BY <3>1 DEF Facts, PostsAreTrue
  <2>2. RecordsAreTrue'
    <3>1. ASSUME NEW k \in Jobs, attached
          PROVE  /\ ended(k)' => record'[k].state = state[k]
                 /\ (recorded(k)' /\ terminal(k))
                       => (record'[k].state = state[k] \/ Waiting(k, state[k]))
      <4>1. CASE recorded(k)
        BY <1>o, <3>1, <4>1 DEF Facts, RecordsAreTrue, ended
      <4>2. CASE ~recorded(k)
        BY <1>1, <1>2, <1>m, <4>2 DEF ended, recorded, TERMINAL
      <4> QED
        BY <4>1, <4>2
    <3> QED
      BY <1>v, <3>1 DEF RecordsAreTrue, Waiting, terminal
  <2>3. WaitersFindAParkedBench'
    BY <1>1, <1>o, <1>v DEF Facts, WaitersFindAParkedBench
  <2> QED
    BY <2>1, <2>2, <2>3 DEF Facts
<1>8. LinesAreTrue'
  BY <1>2, <1>m, <1>v DEF LinesAreTrue, terminal, Waiting
<1>9. ParksAreTrue'
  BY <1>v DEF ParksAreTrue, terminal
<1>10. EndInTime'
  BY <1>v DEF EndInTime
<1>11. EndsStay
  BY <1>o DEF EndsStay, ended, recorded, TERMINAL
<1> QED
  BY <1>3, <1>5, <1>6, <1>7, <1>8, <1>9, <1>10, <1>11

\* The record of the submitted job is opened.
LEMMA OpenKeeps ==
    ASSUME SessionInv, TypeOK, OpenRecord
    PROVE  SessionInv' /\ EndsStay
<1> DEFINE j == hand.job
<1>1. /\ j \in Jobs /\ ~recorded(j) /\ state[j] = "queued" /\ life = "serving"
      /\ record' = [record EXCEPT ![j] = Opened] /\ lock' = None /\ hand' = NoHand
      /\ UNCHANGED <<vars, journal, posted, attached, life, inTime, released>>
  BY DEF OpenRecord, SessionInv, HandIsKept, lifeVars
<1>2. /\ Opened \in Records /\ Opened.state = "queued"
      /\ ~Opened.ended /\ ~Opened.stopping
  BY DEF Opened, NoRecord, Records, States, TERMINAL
<1>3. hand' \in Hands /\ HandIsKept' /\ hand'.op # "submit"
  BY <1>1 DEF HandIsKept, NoHand, Hands
<1> HIDE DEF Opened
<1> QED
  BY <1>1, <1>2, <1>3, MarkingKeeps

\* The record shows that a stop was accepted.
LEMMA AcceptKeeps ==
    ASSUME SessionInv, TypeOK, NEW j \in Jobs, NEW mode \in StopModes, StopAccepted(j, mode)
    PROVE  SessionInv' /\ EndsStay
<1>a. None \notin Jobs
  BY RunWorkerAssumption
<1> DEFINE r == [record[j] EXCEPT !.stopping = TRUE]
<1>1. /\ recorded(j) /\ ~ended(j) /\ life = "serving" /\ hand.op = "idle" /\ call[Loop].op = "none"
      /\ record' = [record EXCEPT ![j] = r]
      /\ hand' = Hand("request", j, mode, ~record[j].stopping)
      /\ UNCHANGED <<vars, lock, journal, posted, attached, life, inTime, released>>
  BY DEF StopAccepted, Request, LoopIdle, lifeVars
<1>2. record[j] \in Records /\ record \in [Jobs -> Records]
  BY DEF SessionInv, SessionTypes
<1>3. /\ r \in Records /\ r.state = record[j].state /\ r.ended = record[j].ended
      /\ r.stopping = TRUE
  BY <1>2 DEF Records
<1> HIDE DEF r
<1>4. record'[j] = r
  BY <1>1, <1>2
<1>5. (~record[j].stopping) \in BOOLEAN
  OBVIOUS
<1>6. /\ hand'.op = "request" /\ hand'.job = j
      /\ hand'.first = (~record[j].stopping) /\ hand'.mode = mode /\ hand' \in Hands
  BY <1>1, <1>5 DEF Hand, Hands
<1>7. call' = call
  BY <1>1 DEF vars, loopVars
<1>8. ~hand'.first => record'[j].state \notin Starting
  <2>1. hand.job = None
    BY <1>1 DEF SessionInv, HandIsKept, NoHand
  <2>2. ASSUME record[j].stopping PROVE record[j].state \notin Starting
    BY <1>a, <2>1, <2>2 DEF SessionInv, StopIsNotTakenBack, Starting
  <2> QED
    BY <1>3, <1>4, <1>6, <2>2
<1>9. HandIsKept'
  BY <1>1, <1>3, <1>4, <1>6, <1>7, <1>8 DEF HandIsKept, recorded, ended
<1>10. lock' \in Callers \cup {None}
  BY <1>1 DEF SessionInv, SessionTypes
<1> QED
  BY <1>1, <1>3, <1>6, <1>9, <1>10, MarkingKeeps DEF recorded

\* A step that moves no job, tells nothing and leaves the records alone.
LEMMA CalmSteps ==
    ASSUME SessionInv, UNCHANGED <<state, parked, record, journal, posted, attached, pc, current>>,
           hand' \in Hands, hand'.job = hand.job, HandIsKept',
           hand.op = "submit" <=> hand'.op = "submit",
           lock' \in Callers \cup {None},
           queue' \subseteq queue, stopping' = stopping \/ (stopping' /\ queue' = {}),
           stopping => stopping',
           life' \in {"serving", "joining", "draining", "closing", "closed"}, inTime' \in BOOLEAN,
           life = "closed" => life' = "closed", EndInTime'
    PROVE  SessionInv' /\ EndsStay
<1> USE DEF SessionInv
<1>1. Facts' /\ LinesAreTrue'
  BY CalmKeeps
<1>2. SessionTypes'
  BY DEF SessionTypes
<1>3. Unopened'
  BY DEF Unopened, recorded
<1>4. StopIsNotTakenBack'
  BY DEF StopIsNotTakenBack
<1>5. ParksAreTrue'
  BY DEF ParksAreTrue, terminal
<1>6. EndsStay
  BY DEF EndsStay
<1> QED
  BY <1>1, <1>2, <1>3, <1>4, <1>5, <1>6

\* When the worker has ended in time and no call is under way, every run that was submitted
\* has ended, and what was not applied is still posted.
LEMMA AllEnded ==
    ASSUME SessionInv, TypeOK, Ownership, ~MayCrash, attached, life # "closed", posted = <<>>,
           pc = "ended", \A c \in Callers : call[c].op = "none"
    PROVE  \A j \in Jobs : recorded(j) =>
                /\ state[j] \in journal[j]
                /\ state[j] # "cancelled" => "parked" \in journal[j]
<1>1. current = None /\ queue = {} /\ None \notin Jobs
  BY RunWorkerAssumption DEF TypeOK, SessionInv, ParksAreTrue
<1>2. ASSUME NEW j \in Jobs, recorded(j) PROVE terminal(j)
  <2>1. state[j] \in States /\ state[j] # "new"
    BY <1>2 DEF TypeOK, SessionInv, Unopened
  <2>2. state[j] # "queued"
    BY <1>1 DEF Ownership, QueuedJobHasOneOwner, Withdrawing
  <2>3. state[j] \notin {"preflight", "running", "paused", "stopping"}
    BY <1>1 DEF Ownership, OnlyCurrentExecutes
  <2> QED
    BY <2>1, <2>2, <2>3 DEF States, terminal
<1>3. \A j \in Jobs : \A what : ~Waiting(j, what)
  BY DEF Waiting
<1> QED
  BY <1>2, <1>3 DEF SessionInv, LinesAreTrue, ParksAreTrue

\* What the callers do, and how the application ends.
LEMMA CallsKeep ==
    ASSUME SessionInv, TypeOK, Ownership,
           \/ StopRequested \/ \E j \in Jobs : StopQueued(j)
           \/ \E c \in Callers : \/ Returned(c) \/ Answered(c) \/ ParkRequested(c)
                                 \/ BeginShutdown(c) \/ \E j \in Jobs : SendReply(c, j)
           \/ JoinReturns \/ Drained \/ ScriptCloses \/ Close
    PROVE  SessionInv' /\ EndsStay
<1>a. None \notin Callers /\ Loop \in Callers
  BY RunSessionAssumption
<1>t. /\ call \in [Callers -> Calls] /\ hand \in Hands /\ lock \in Callers \cup {None}
      /\ life \in {"serving", "joining", "draining", "closing", "closed"} /\ inTime \in BOOLEAN
  BY DEF TypeOK, SessionInv, SessionTypes
<1>h. HandIsKept /\ EndInTime /\ (stopping => queue = {})
  BY DEF SessionInv, ParksAreTrue
<1>c. \A c \in Callers : call[c].op # "none" => ~inTime
  BY <1>h DEF EndInTime
<1> USE DEF HandIsKept, EndInTime, lifeVars, recordVars, jobVars, workVars, queueVars, pauseVars,
            execVars, recorded, ended
<1>1. CASE StopRequested
  <2>1. UNCHANGED <<state, parked, record, journal, posted, attached, pc, current, lock, queue,
                    stopping, life, inTime, released, call>>
    BY <1>1 DEF StopRequested, RequestStop, loopVars
  <2>2. /\ hand'.op = "tell" /\ hand'.job = hand.job /\ hand'.first = hand.first
        /\ hand' \in Hands /\ hand.op = "request"
    BY <1>1, <1>t DEF StopRequested, Hands
  <2>3. HandIsKept'
    BY <1>h, <2>1, <2>2
  <2> HIDE DEF HandIsKept
  <2>4. EndInTime'
    BY <1>h, <2>1, <2>2 DEF HandIsKept
  <2> HIDE DEF EndInTime
  <2> QED
    BY <1>t, <2>1, <2>2, <2>3, <2>4, CalmSteps
\* All the others leave the hand alone.
<1>s. ASSUME UNCHANGED <<state, parked, record, journal, posted, attached, pc, current, hand>>,
             lock' \in Callers \cup {None}, hand.op = "submit" => lock' = lock,
             hand.op # "idle" => life' = life /\ call'[Loop].op = "none",
             queue' \subseteq queue, stopping' = stopping \/ (stopping' /\ queue' = {}),
             stopping => stopping',
             life' \in {"serving", "joining", "draining", "closing", "closed"}, inTime' \in BOOLEAN,
             life = "closed" => life' = "closed", EndInTime'
      PROVE  SessionInv' /\ EndsStay
  <2>1. HandIsKept'
    BY <1>h, <1>s
  <2> HIDE DEF HandIsKept, EndInTime
  <2> QED
    BY <1>s, <1>t, <2>1, CalmSteps
<1>2. ASSUME NEW j \in Jobs, StopQueued(j) PROVE SessionInv' /\ EndsStay
  <2>1. /\ UNCHANGED <<state, parked, record, journal, posted, attached, pc, current, hand, lock,
                       stopping, life, inTime, released>>
        /\ queue' \subseteq queue /\ hand.op = "idle" /\ call[Loop].op = "none" /\ life = "serving"
    BY <1>2 DEF StopQueued, Cancel, Dequeue, Request, LoopIdle, sessionVars
  <2>2. EndInTime'
    BY <1>h, <2>1
  <2> QED
    BY <1>s, <1>t, <2>1, <2>2
<1>3. ASSUME NEW c \in Callers, Returned(c) PROVE SessionInv' /\ EndsStay
  <2>1. /\ UNCHANGED <<state, parked, record, journal, posted, attached, pc, current, hand,
                       queue, stopping, life, inTime, released>>
        /\ lock' = (IF lock = c THEN None ELSE lock) /\ call[c].op # "none"
        /\ \A d \in Callers : d # c => call'[d] = call[d]
        /\ ~inTime
    BY <1>3, <1>c, <1>t DEF Returned, Return, Unlocked
  <2>2. hand.op # "idle" => c # Loop
    BY <1>h, <2>1
  <2>3. EndInTime'
    BY <1>h, <2>1
  <2> QED
    BY <1>a, <1>h, <1>s, <1>t, <2>1, <2>2, <2>3
<1>4. ASSUME NEW c \in Callers, Answered(c) PROVE SessionInv' /\ EndsStay
  <2>1. /\ UNCHANGED <<state, parked, record, journal, posted, attached, pc, current, hand, lock,
                       queue, stopping, life, inTime, released>>
        /\ hand.op = "idle" /\ ~inTime
    BY <1>4, <1>c DEF Answered, Resume, LoopIdle, sessionVars
  <2>3. EndInTime'
    BY <1>h, <2>1
  <2> QED
    BY <1>s, <1>t, <2>1, <2>3
<1>5. ASSUME NEW c \in Callers, ParkRequested(c) PROVE SessionInv' /\ EndsStay
  <2>1. /\ UNCHANGED <<state, parked, record, journal, posted, attached, pc, current, hand,
                       stopping, life, inTime, released>>
        /\ queue' \subseteq queue /\ lock = None /\ lock' = c /\ life = "serving"
        /\ c # Loop /\ \A d \in Callers : d # c => call'[d] = call[d]
    BY <1>5, <1>t DEF ParkRequested, StopRuns, Dequeue, HoldLock
  <2>2. hand.op # "submit"
    BY <1>a, <1>h, <2>1
  <2>3. EndInTime'
    BY <1>h, <2>1
  <2> QED
    BY <1>a, <1>h, <1>s, <1>t, <2>1, <2>2, <2>3
<1>6. ASSUME NEW c \in Callers, BeginShutdown(c) PROVE SessionInv' /\ EndsStay
  <2>1. /\ UNCHANGED <<state, parked, record, journal, posted, attached, pc, current, hand, lock,
                       inTime, released>>
        /\ stopping' = TRUE /\ queue' = {} /\ hand.op = "idle" /\ attached
        /\ life = "serving" /\ life' = "joining"
    BY <1>6 DEF BeginShutdown, Shutdown, Dequeue
  <2>3. EndInTime'
    BY <1>h, <2>1
  <2> QED
    BY <1>s, <1>t, <2>1, <2>3
<1>7. ASSUME NEW c \in Callers, NEW j \in Jobs, SendReply(c, j) PROVE SessionInv' /\ EndsStay
  <2>1. /\ UNCHANGED <<state, parked, record, journal, posted, attached, pc, current, hand, lock,
                       queue, stopping, life, inTime, released>>
        /\ life = "serving" /\ c # Loop /\ \A d \in Callers : d # c => call'[d] = call[d]
    BY <1>7, <1>t DEF SendReply, SendResume, sessionVars
  <2>3. EndInTime'
    BY <1>h, <2>1
  <2> QED
    BY <1>a, <1>h, <1>s, <1>t, <2>1, <2>3
<1> USE DEF vars, loopVars
<1>8. CASE JoinReturns
  <2>1. /\ UNCHANGED <<state, parked, record, journal, posted, attached, pc, current, hand, lock,
                       queue, stopping, call, released>>
        /\ life = "joining" /\ life' = "draining" /\ \A c \in Callers : call[c].op = "none"
        /\ inTime' = (pc = "ended")
    BY <1>8 DEF JoinReturns
  <2>2. (pc = "ended") \in BOOLEAN
    OBVIOUS
  <2>3. EndInTime'
    BY <1>h, <2>1
  <2>4. hand.op = "idle"
    BY <1>h, <2>1
  <2> QED
    BY <1>s, <1>t, <2>1, <2>2, <2>3, <2>4
<1>9. CASE Drained
  <2>1. /\ UNCHANGED <<state, parked, record, journal, posted, attached, pc, current, hand, lock,
                       queue, stopping, call, released, inTime>>
        /\ life = "draining" /\ life' = "closing" /\ posted = <<>>
    BY <1>9 DEF Drained, DrainDone
  <2>2. hand.op = "idle"
    BY <1>h, <2>1
  <2>3. EndInTime'
    <3>1. ASSUME inTime, ~MayCrash, NEW j \in Jobs, recorded(j)
          PROVE  state[j] \in journal[j] /\ (state[j] # "cancelled" => "parked" \in journal[j])
      <4> HIDE DEF recorded
      <4> QED
        BY <1>h, <2>1, <3>1, AllEnded
    <3> QED
      BY <1>h, <2>1, <2>2, <3>1
  <2> QED
    BY <1>s, <1>t, <2>1, <2>2, <2>3
<1>10. CASE ScriptCloses
  <2>1. /\ UNCHANGED <<state, parked, record, journal, posted, attached, pc, current, hand, lock,
                       inTime, released>>
        /\ stopping' = TRUE /\ queue' = {} /\ hand.op = "idle"
        /\ life = "serving" /\ life' = "closing"
    BY <1>10 DEF ScriptCloses, Shutdown, Dequeue, Request, LoopIdle
  <2>3. EndInTime'
    BY <1>h, <2>1
  <2> QED
    BY <1>s, <1>t, <2>1, <2>3
<1>11. CASE Close
  <2>1. /\ UNCHANGED <<state, parked, record, journal, posted, attached, pc, current, hand, lock,
                       queue, stopping, call, inTime>>
        /\ life = "closing" /\ life' = "closed" /\ released' = (pc = "ended")
    BY <1>11 DEF Close, MayRelease
  <2>2. hand.op = "idle"
    BY <1>h, <2>1
  <2>3. EndInTime'
    BY <1>h, <2>1, <2>2
  <2> QED
    BY <1>s, <1>t, <2>1, <2>2, <2>3
<1> QED
  BY <1>1, <1>2, <1>3, <1>4, <1>5, <1>6, <1>7, <1>8, <1>9, <1>10, <1>11

-----------------------------------------------------------------------------
(* The whole.                                                              *)

\* The session's calls are calls of the worker, but for a reply it refuses itself.
LEMMA WorkerUnderneath ==
    ASSUME SessionInv, TypeOK, Ownership, [SessionNext]_allVars
    PROVE  TypeOK' /\ Ownership'
<1>1. ASSUME [Next]_vars PROVE TypeOK' /\ Ownership'
  BY <1>1, TypesKept, OwnersKept
<1>2. ASSUME NEW c \in Callers, Answered(c) PROVE TypeOK' /\ Ownership'
  <2>1. CASE Resume(c)
    BY <1>1, <2>1 DEF Next, Proceed
  <2>2. ASSUME call[c].op = "resume", call' = [call EXCEPT ![c] = Idle],
               UNCHANGED <<queueVars, jobVars, workVars, stopping>>
        PROVE  TypeOK' /\ Ownership'
    <3> USE DEF queueVars, jobVars, pauseVars, workVars, execVars, genVars, endVars
    <3>1. Idle \in Calls /\ Idle.op = "none"
      BY RunWorkerAssumption DEF Idle, InCall, Calls, Pauses
    <3>2. \A d \in Callers : Withdrawing(d)' = Withdrawing(d)
      BY <2>2, <3>1 DEF Withdrawing, TypeOK
    <3>3. TypeOK'
      <4>1. call' \in [Callers -> Calls]
        BY <2>2, <3>1 DEF TypeOK
      <4> QED
        BY <2>2, <4>1 DEF TypeOK
    <3>4. Ownership'
      BY <2>2, <3>2 DEF Ownership, QueuedJobHasOneOwner, OnlyCurrentExecutes,
                        CurrentStateFollowsThread
    <3> QED
      BY <3>3, <3>4
  <2> QED
    BY <1>2, <2>1, <2>2 DEF Answered
<1>3. CASE WorkerStep
  BY <1>1, <1>3 DEF WorkerStep, Next
<1>4. CASE LoopThread
  <2>1. CASE StopRequested
    <3>1. hand.job \in Jobs /\ hand.mode \in StopModes
      BY <2>1 DEF StopRequested, SessionInv, HandIsKept
    <3>2. RequestStop(hand.job, hand.mode)
      BY <2>1 DEF StopRequested
    <3> QED
      BY <1>1, <3>1, <3>2 DEF Next
  <2>2. CASE UNCHANGED vars
    BY <1>1, <2>2
  <2> QED
    BY <1>4, <2>1, <2>2 DEF LoopThread, RunCallback, OpenRecord, StopTold
<1>5. ASSUME NEW j \in Jobs, SubmitRun(j) \/ StopQueued(j) PROVE TypeOK' /\ Ownership'
  <2>1. CASE SubmitRun(j)
    BY <1>1, <2>1 DEF SubmitRun, Next
  <2>2. CASE StopQueued(j)
    BY <1>1, <2>2, RunSessionAssumption DEF StopQueued, Next
  <2> QED
    BY <1>5, <2>1, <2>2
<1>6. ASSUME NEW j \in Jobs, NEW mode \in StopModes, StopAccepted(j, mode)
      PROVE  TypeOK' /\ Ownership'
  BY <1>1, <1>6 DEF StopAccepted
<1>7. ASSUME NEW c \in Callers, CancelTold(c) \/ Returned(c) PROVE TypeOK' /\ Ownership'
  BY <1>1, <1>7 DEF CancelTold, Returned, Next, Proceed
<1>8. ASSUME NEW c \in Callers, ParkRequested(c) \/ BeginShutdown(c) PROVE TypeOK' /\ Ownership'
  BY <1>1, <1>8 DEF ParkRequested, BeginShutdown, Next
<1>9. ASSUME NEW c \in Callers, NEW j \in Jobs, SendReply(c, j) PROVE TypeOK' /\ Ownership'
  BY <1>1, <1>9 DEF SendReply, Next
<1>10. CASE JoinReturns \/ Drained \/ Close
  BY <1>1, <1>10 DEF JoinReturns, Drained, Close
<1>11. CASE ScriptCloses
  BY <1>1, <1>11, RunSessionAssumption DEF ScriptCloses, Next
<1>12. CASE UNCHANGED allVars
  BY <1>1, <1>12 DEF allVars
<1> QED
  BY <1>2, <1>3, <1>4, <1>5, <1>6, <1>7, <1>8, <1>9, <1>10, <1>11, <1>12 DEF SessionNext, Calling

\* What the theorems rest on: the worker's invariants and the session's, step by step.
LEMMA SessionKept ==
    ASSUME SessionInv, TypeOK, Ownership, [SessionNext]_allVars
    PROVE  SessionInv' /\ EndsStay
<1>1. CASE UNCHANGED allVars
  <2>1. SessionInv'
    BY <1>1 DEF allVars, sessionVars, recordVars, lifeVars, vars, loopVars, jobVars, queueVars,
                SessionInv, SessionTypes, HandIsKept, Unopened, StopIsNotTakenBack, Facts,
                PostsAreTrue, PostIsTrue, RecordsAreTrue, WaitersFindAParkedBench, LinesAreTrue,
                ParksAreTrue, EndInTime, Waiting, recorded, ended, terminal, Post
  <2> QED
    BY <1>1, <2>1 DEF EndsStay, allVars, sessionVars, recordVars
<1>2. CASE WorkerStep
  BY <1>2, WorkerKeeps
<1>3. CASE LoopThread
  BY <1>3, CallbackKeeps, OpenKeeps, StopToldKeeps, CallsKeep DEF LoopThread
<1>4. ASSUME NEW j \in Jobs, SubmitRun(j) PROVE SessionInv' /\ EndsStay
  BY <1>4, SubmitKeeps
<1>5. ASSUME NEW j \in Jobs, NEW mode \in StopModes, StopAccepted(j, mode)
      PROVE  SessionInv' /\ EndsStay
  BY <1>5, AcceptKeeps
<1>6. ASSUME NEW c \in Callers, CancelTold(c) PROVE SessionInv' /\ EndsStay
  BY <1>6, CancelKeeps
<1> QED
  BY <1>1, <1>2, <1>3, <1>4, <1>5, <1>6, CallsKeep DEF SessionNext, Calling

\* At the start nothing is known of any run.
LEMMA SessionAtStart ==
    ASSUME SessionInit
    PROVE  SessionInv /\ TypeOK /\ Ownership
<1> USE RunWorkerAssumption, RunSessionAssumption
<1>1. TypeOK /\ Ownership
  BY TypesAtStart, OwnersAtStart DEF SessionInit
<1>2. SessionTypes
  <2>1. NoRecord \in Records /\ NoHand \in Hands /\ <<>> \in Seq(Posts)
    BY DEF NoRecord, Records, NoHand, Hands
  <2> QED
    BY <2>1 DEF SessionInit, SessionTypes
<1>3. \A j \in Jobs : /\ record[j] = NoRecord /\ ~recorded(j) /\ ~ended(j) /\ state[j] = "new"
                      /\ ~terminal(j) /\ ~parked[j]
  BY DEF SessionInit, Init, NoRecord, recorded, ended, terminal, TERMINAL
<1>4. posted = <<>> /\ hand = NoHand /\ life = "serving" /\ ~inTime /\ ~released
      /\ stopping = FALSE /\ pc = "wait"
  BY DEF SessionInit, Init
<1>5. HandIsKept /\ Unopened /\ StopIsNotTakenBack
  BY <1>3, <1>4 DEF HandIsKept, Unopened, StopIsNotTakenBack, NoHand, NoRecord
<1>6. Facts /\ LinesAreTrue
  BY <1>3, <1>4 DEF Facts, PostsAreTrue, RecordsAreTrue, WaitersFindAParkedBench, LinesAreTrue,
                    NoRecord
<1>7. ParksAreTrue /\ EndInTime
  BY <1>3, <1>4 DEF ParksAreTrue, EndInTime, NoHand
<1> QED
  BY <1>1, <1>2, <1>5, <1>6, <1>7 DEF SessionInv

\* The session keeps its invariant, and the worker underneath keeps its own.
LEMMA SessionInvariant == SessionSpec => [](SessionInv /\ TypeOK /\ Ownership)
<1>1. SessionInit => SessionInv /\ TypeOK /\ Ownership
  BY SessionAtStart
<1>2. SessionInv /\ TypeOK /\ Ownership /\ [SessionNext]_allVars
        => (SessionInv /\ TypeOK /\ Ownership)'
  BY SessionKept, WorkerUnderneath
<1> HIDE DEF SessionInv, TypeOK, Ownership, SessionInit, SessionNext, allVars
<1> QED
  BY <1>1, <1>2, PTL DEF SessionSpec

\* Session.submit and Session.stop against the worker's reports: nothing is told of a run
\* before RunQueued, and no report takes an accepted stop back to a start, for any number of
\* runs, callers and posts under way, with a loop attached or without.
THEOREM RecordFollows == SessionSpec => []RecordFollowsTheRun
<1>1. SessionInv => RecordFollowsTheRun
  <2> SUFFICES ASSUME SessionInv PROVE NothingToldBeforeRunQueued
    BY DEF SessionInv, RecordFollowsTheRun
  <2> QED
    BY DEF SessionInv, Facts, PostsAreTrue, PostIsTrue, Unopened, NothingToldBeforeRunQueued
<1> QED
  BY <1>1, SessionInvariant, PTL

\* wait_run and Bench.close: whoever waits for a run wakes on a bench whose park was
\* attempted, and reads the outcome; the instruments are closed when no job can use them.
\* Whatever escapes a job.
THEOREM WaitersAreRight ==
    SessionSpec => [](WaitersFindAParkedBench /\ ReleasedBenchIsIdle)
<1>1. SessionInv /\ TypeOK => WaitersFindAParkedBench /\ ReleasedBenchIsIdle
  BY DEF SessionInv, Facts, EndInTime, ReleasedBenchIsIdle, TypeOK
<1> QED
  BY <1>1, SessionInvariant, PTL

\* The lifespan's end: shutdown, the drain and Session.close.  Where no BaseException
\* escapes a job, a worker that ended within the first timeout leaves a journal with the
\* outcome of every run, and the park of every run that was executed.
THEOREM OrderlyEnd == ~MayCrash => (SessionSpec => []EndIsOrderly)
<1>1. ASSUME ~MayCrash, SessionInv, TypeOK PROVE EndIsOrderly
  BY <1>1 DEF EndIsOrderly, JournalCompleteInTime, SessionInv, Facts, EndInTime,
              ReleasedBenchIsIdle, TypeOK
<1> SUFFICES ASSUME ~MayCrash PROVE SessionSpec => []EndIsOrderly
  OBVIOUS
<1>2. SessionInv /\ TypeOK => EndIsOrderly
  BY <1>1
<1> QED
  BY <1>2, SessionInvariant, PTL

\* _apply_state behind the loop's callbacks: a record that shows an outcome shows it for
\* good, whatever was posted after it and whoever stops the run again.
THEOREM OutcomesStayShown == SessionSpec => RecordsStayEnded
<1>1. SessionInv /\ TypeOK /\ Ownership /\ [SessionNext]_allVars => [EndsStay]_allVars
  BY SessionKept
<1>2. [EndsStay]_allVars =>
        [\A j \in Jobs : (attached /\ ended(j)) => record'[j].state = record[j].state]_allVars
  BY DEF EndsStay
<1> HIDE DEF SessionInv, TypeOK, Ownership, SessionNext, allVars, EndsStay
<1> QED
  BY <1>1, <1>2, SessionInvariant, PTL DEF SessionSpec, RecordsStayEnded
=============================================================================
