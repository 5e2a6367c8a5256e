------------------------------ MODULE RunWorker ------------------------------
(***************************************************************************)
(* The bench worker of bace/service/worker.py: one thread that executes    *)
(* jobs in FIFO order, the Job object the session's threads talk to, and   *)
(* the bus lock it shares with a temperature monitor.  A job's generator   *)
(* is the pipeline executor (executor.py) seen from the worker: what it    *)
(* yields, where it waits for the operator and how it answers a stop.      *)
(***************************************************************************)
EXTENDS Naturals, FiniteSets

CONSTANTS Jobs,         \* Job objects; each is submitted at most once
          Runs,         \* the jobs of kind "run"; the others are bench actions
          Callers,      \* threads that call the worker: the loop, thread pool
          None,
          MaxYields,    \* bound: plain events of one generator
          MaxPauses,    \* bound: NeedsOperator events of one generator
          MayCrash      \* a BaseException may escape a job, once

ASSUME RunWorkerAssumption ==
    /\ Runs \subseteq Jobs
    /\ None \notin Jobs \cup {"after_shot", "abort"}
    /\ MaxYields \in Nat
    /\ MaxPauses \in Nat
    /\ MayCrash \in BOOLEAN

VARIABLES
    queue, ticket, submitted,              \* RunWorker._queue, in ticket order
    current, stopping, bus,                \* RunWorker.current, _stopping, bus
    state, stopMode, paused, detail, parked,   \* Job.state .. Job.parked
    pauseNo,                               \* pauses each job has opened
    pc, gen, ev, answer, outcome, said, left,  \* locals of _loop and _execute
    aborts,                                \* RunAborted events of the current job
    crashed,
    call                                   \* what each caller is in the middle of

queueVars == <<queue, ticket, submitted>>
loopVars  == <<queueVars, current, stopping, bus, crashed, call>>
pauseVars == <<paused, detail, pauseNo>>
jobVars   == <<state, stopMode, pauseVars, parked>>
genVars   == <<gen, ev, answer, left>>
endVars   == <<outcome, said, aborts>>
execVars  == <<genVars, endVars>>
workVars  == <<current, bus, pc, execVars, crashed>>
vars == <<loopVars, jobVars, pc, execVars>>

TERMINAL == {"done", "stopped", "aborted", "failed", "blocked", "cancelled"}
States == TERMINAL \cup {"new", "queued", "preflight", "running", "paused", "stopping"}
StopModes == {"after_shot", "abort"}
Pauses == 0 .. MaxPauses
\* How wait_for_operator ends; `asked` is the pause the operator was looking at,
\* `got` the pause that was open when the reply arrived.
Answers == [how : {"none", "abort", "after_shot", "reply"}, asked : Pauses, got : Pauses]
Answer(how) == [how |-> how, asked |-> 0, got |-> 0]
NoAnswer == Answer("none")
Replies == [how : {"reply"}, asked : Pauses, got : Pauses]
InCall(op, js, cur, asked) == [op |-> op, jobs |-> js, cur |-> cur, asked |-> asked]
Idle == InCall("none", {}, None, 0)
Calls == [op : {"none", "cancel", "stop_runs", "shutdown", "resume"},
          jobs : SUBSET Jobs, cur : Jobs \cup {None}, asked : Pauses]

terminal(j) == state[j] \in TERMINAL

Init ==
    /\ queue = {} /\ ticket = [j \in Jobs |-> 0] /\ submitted = 0
    /\ current = None /\ stopping = FALSE /\ bus = "free"
    /\ state = [j \in Jobs |-> "new"]
    /\ stopMode = [j \in Jobs |-> None]
    /\ paused = [j \in Jobs |-> FALSE]
    /\ detail = [j \in Jobs |-> None]
    /\ parked = [j \in Jobs |-> FALSE]
    /\ pauseNo = [j \in Jobs |-> 0]
    /\ pc = "wait" /\ gen = "none" /\ ev = "none" /\ answer = NoAnswer
    /\ outcome = "done" /\ said = {} /\ left = 0 /\ aborts = 0
    /\ crashed = FALSE
    /\ call = [c \in Callers |-> Idle]

\* The locals of _execute before its generator exists and after it is gone.
ResetLocals ==
    /\ gen' = "none" /\ ev' = "none" /\ answer' = NoAnswer /\ left' = 0
    /\ outcome' = "done" /\ said' = {} /\ aborts' = 0

-----------------------------------------------------------------------------
(* The callers' side.                                                      *)

\* The end of the deque that popleft takes.
Newest(j, S) == \A i \in S : ticket[j] >= ticket[i]   \* mutant: deque.pop()
Oldest(j, S) == \A i \in S : ticket[j] <= ticket[i]

\* RunWorker.submit: refused while shutting down.
Submit(j) ==
    /\ state[j] = "new" /\ ~stopping
    /\ queue' = queue \cup {j}
    /\ submitted' = submitted + 1
    /\ ticket' = [ticket EXCEPT ![j] = submitted + 1]
    /\ state' = [state EXCEPT ![j] = "queued"]
    /\ UNCHANGED <<pauseVars, workVars, stopping, stopMode, parked, call>>

\* Jobs leave the deque under the worker's lock.
DequeueLater(S) == queue' = queue               \* mutant: not under the lock
Dequeue(S) == queue' = queue \ S

\* What cancel finds: a job still waiting.
RemovableOrCurrent(j) == j \in queue \cup {current}   \* mutant: finds current too
Removable(j) == j \in queue

\* The locked part of cancel: only a job still in the queue can be removed.
Cancel(c, j) ==
    /\ call[c].op = "none" /\ Removable(j)
    /\ Dequeue({j})
    /\ call' = [call EXCEPT ![c] = InCall("cancel", {j}, None, 0)]
    /\ UNCHANGED <<jobVars, workVars, ticket, submitted, stopping>>

\* The locked part of stop_runs: the queued runs and the current job, together.
StopRuns(c) ==
    /\ call[c].op = "none"
    /\ Dequeue(Runs)
    /\ call' = [call EXCEPT ![c] =
                    InCall("stop_runs", queue \cap Runs,
                           IF current \in Runs THEN current ELSE None, 0)]
    /\ UNCHANGED <<jobVars, workVars, ticket, submitted, stopping>>

\* The locked part of shutdown.
Shutdown(c) ==
    /\ call[c].op = "none"
    /\ stopping' = TRUE
    /\ Dequeue(queue)
    /\ call' = [call EXCEPT ![c] = InCall("shutdown", queue, current, 0)]
    /\ UNCHANGED <<jobVars, workVars, ticket, submitted>>

\* The jobs a call has taken out of the queue and has yet to cancel.
Withdrawing(c) == IF call[c].op \in {"cancel", "stop_runs", "shutdown"}
                  THEN call[c].jobs ELSE {}

\* RunWorker._cancel, outside the lock, oldest job first.
MarkCancelled(c) ==
    /\ \E j \in Withdrawing(c) :
          /\ Oldest(j, Withdrawing(c))
          /\ state' = [state EXCEPT ![j] = "cancelled"]
          /\ call' = [call EXCEPT ![c] = InCall(@.op, @.jobs \ {j}, @.cur, 0)]
    /\ UNCHANGED <<queueVars, pauseVars, workVars, stopping, stopMode, parked>>

\* The tail of cancel, stop_runs and shutdown: the job that was current when
\* the lock was held is aborted unless it has finished meanwhile.
AbortsOnlyRuns(c) ==                           \* mutant: shutdown forgets it
    call[c].op = "stop_runs" /\ call[c].cur \in Jobs /\ ~terminal(call[c].cur)
AbortsCurrent(c) == call[c].cur \in Jobs /\ ~terminal(call[c].cur)

Return(c) ==
    /\ call[c].op \in {"cancel", "stop_runs", "shutdown"} /\ call[c].jobs = {}
    /\ stopMode' = IF AbortsCurrent(c)
                   THEN [stopMode EXCEPT ![call[c].cur] = "abort"]
                   ELSE stopMode
    /\ call' = [call EXCEPT ![c] = Idle]
    /\ UNCHANGED <<queueVars, pauseVars, workVars, stopping, state, parked>>

\* Job.request_stop, in one lock; an abort is never downgraded.  Sessions stop runs.
RequestStop(j, mode) ==
    /\ j \in Runs /\ state[j] # "new"
    /\ stopMode' = [stopMode EXCEPT ![j] = IF @ = "abort" THEN @ ELSE mode]
    /\ UNCHANGED <<pauseVars, execVars, loopVars, state, parked, pc>>

\* An operator who sees NeedsOperator sends a resume: a request in flight.
SendResume(c, j) ==
    /\ call[c].op = "none" /\ pauseNo[j] > 0
    /\ paused[j] \/ state[j] = "paused"
    /\ call' = [call EXCEPT ![c] = InCall("resume", {j}, None, pauseNo[j])]
    /\ UNCHANGED <<queueVars, jobVars, workVars, stopping>>

\* Job.resume: kept only while the job is paused, and the last one wins.
Resume(c) ==
    /\ call[c].op = "resume"
    /\ detail' = [j \in Jobs |->
                    IF j \in call[c].jobs /\ paused[j]
                    THEN [how |-> "reply", asked |-> call[c].asked, got |-> pauseNo[j]]
                    ELSE detail[j]]
    /\ call' = [call EXCEPT ![c] = Idle]
    /\ UNCHANGED <<queueVars, workVars, stopping, state, stopMode, paused,
                   pauseNo, parked>>

-----------------------------------------------------------------------------
(* The worker thread: _loop and _execute.                                  *)

SetState(s) == state' = [state EXCEPT ![current] = s]

Take ==
    /\ pc = "wait" /\ ~stopping
    /\ \E j \in queue :
          /\ Oldest(j, queue)
          /\ Dequeue({j})
          /\ current' = j
    /\ pc' = "bus"
    /\ UNCHANGED <<jobVars, execVars, ticket, submitted, stopping, bus,
                   crashed, call>>

LeaveLoop ==
    /\ pc = "wait" /\ stopping
    /\ pc' = "ended"
    /\ UNCHANGED <<jobVars, execVars, loopVars>>

BusIgnored == TRUE                             \* mutant: no lock
BusIsFree == bus = "free"

\* `with self.bus`, blocking, then the preflight state.
AcquireBus ==
    /\ pc = "bus" /\ BusIsFree
    /\ bus' = "worker"
    /\ SetState("preflight")
    /\ pc' = "make"
    /\ UNCHANGED <<queueVars, pauseVars, execVars, current, stopping,
                   stopMode, parked, crashed, call>>

\* make(job) returns a generator.
MakeReturns ==
    /\ pc = "make"
    /\ SetState("running")
    /\ gen' = "work" /\ left' = MaxYields /\ ev' = "none" /\ answer' = NoAnswer
    /\ outcome' = "done" /\ said' = {} /\ aborts' = 0
    /\ pc' = "next"
    /\ UNCHANGED <<pauseVars, loopVars, stopMode, parked>>

\* Leaves the turn for _finish with this outcome.
EndWith(o) == outcome' = o /\ pc' = "finish"

\* make(job) raises Blocked or another exception.
MakeRaises ==
    /\ pc = "make"
    /\ \E o \in {"blocked", "failed"} : EndWith(o)
    /\ said' = {"RunFailed"}
    /\ UNCHANGED <<jobVars, genVars, loopVars, aborts>>

-----------------------------------------------------------------------------
(* next(gen): the generator runs on the worker thread.  Only a run's       *)
(* executor pauses, polls abort_check or reports a failing module; a bench *)
(* action's generator yields its events and ends.                          *)

Yield(e) == /\ pc = "next" /\ ev' = e /\ pc' = "handle"

\* Progress, StepDone, NodeStarted, NodeDone, readings and verdicts.
YieldEvent ==
    /\ Yield("event")
    /\ gen \in {"work", "unwinding"} /\ left > 0
    /\ left' = left - 1
    /\ UNCHANGED <<jobVars, endVars, loopVars, gen, answer>>

ArmPause == paused' = [paused EXCEPT ![current] = TRUE]

\* The pause is armed before the event is published.
YieldNeedsOperator ==
    /\ Yield("NeedsOperator")
    /\ gen = "work" /\ current \in Runs /\ pauseNo[current] < MaxPauses
    /\ gen' = "pausing"
    /\ pauseNo' = [pauseNo EXCEPT ![current] = @ + 1]
    /\ ArmPause
    /\ UNCHANGED <<endVars, loopVars, state, stopMode, detail, parked, answer, left>>

YieldResumed ==
    /\ Yield("OperatorResumed")
    /\ gen = "resumed" /\ gen' = "work"
    /\ UNCHANGED <<jobVars, endVars, loopVars, answer, left>>

\* The generator polls abort_check and ends itself.
YieldRunAborted ==
    /\ Yield("RunAborted")
    /\ gen = "stopped" \/ (gen = "work" /\ stopMode[current] # None)
    /\ current \in Runs
    /\ gen' = "unwinding"
    /\ aborts' = aborts + 1
    /\ UNCHANGED <<jobVars, loopVars, answer, left, outcome, said>>

\* A failing module: the executor yields RunFailed, then raises.
YieldRunFailed ==
    /\ Yield("RunFailed")
    /\ gen = "work" /\ current \in Runs
    /\ gen' = "failing"
    /\ UNCHANGED <<jobVars, endVars, loopVars, answer, left>>

StopIteration ==
    /\ pc = "next" /\ gen \in {"work", "unwinding"}
    /\ gen' = "closed" /\ pc' = "finish"
    /\ UNCHANGED <<jobVars, endVars, loopVars, ev, answer, left>>

GeneratorRaises ==
    /\ pc = "next" /\ gen \in {"work", "unwinding", "failing"}
    /\ gen' = "closed" /\ EndWith("failed")
    /\ said' = said \cup {"RunFailed"}
    /\ UNCHANGED <<jobVars, loopVars, ev, answer, left, aborts>>

\* _synthetic_abort, unless the generator's own RunAborted was seen.
AlwaysSynthetic ==                             \* mutant: tells it again
    /\ said' = said \cup {"RunAborted"}
    /\ aborts' = aborts + 1
SyntheticAbort ==
    /\ said' = said \cup {"RunAborted"}
    /\ aborts' = IF "RunAborted" \in said THEN aborts ELSE aborts + 1

\* AbortNow: out of wait_for_operator, or out of a settling temperature loop.
AbortNowRaised ==
    /\ pc = "next"
    /\ gen = "aborting" \/ (gen = "work" /\ stopMode[current] = "abort")
    /\ current \in Runs
    /\ gen' = "closed" /\ EndWith("aborted")
    /\ SyntheticAbort
    /\ UNCHANGED <<jobVars, loopVars, ev, answer, left>>

-----------------------------------------------------------------------------
(* Job.wait_for_operator, inside next(gen).                                *)

EnterWait ==
    /\ pc = "next" /\ gen = "pausing"
    /\ gen' = "waiting"
    /\ paused' = [paused EXCEPT ![current] = TRUE]
    /\ UNCHANGED <<endVars, loopVars, state, stopMode, detail, pauseNo,
                   parked, pc, ev, answer, left>>

IgnoresAfterShot ==                            \* mutant: only abort or a reply
    stopMode[current] = "abort" \/ detail[current] # None
_ready == stopMode[current] # None \/ detail[current] # None

\* _ready holds: abort first, then after_shot, then the operator's reply.
WaitReady ==
    /\ pc = "next" /\ gen = "waiting"
    /\ _ready
    /\ IF stopMode[current] # None
       THEN answer' = Answer(stopMode[current]) /\ detail' = detail
       ELSE answer' = detail[current] /\ detail' = [detail EXCEPT ![current] = None]
    /\ gen' = "leaving"
    /\ UNCHANGED <<endVars, loopVars, state, stopMode, paused, pauseNo,
                   parked, pc, ev, left>>

\* The finally clause: the pause closes and a reply left over is dropped.
KeepReply ==                                   \* mutant: the reply survives
    paused' = [paused EXCEPT ![current] = FALSE] /\ UNCHANGED detail
ClosePause ==
    /\ paused' = [paused EXCEPT ![current] = FALSE]
    /\ detail' = [detail EXCEPT ![current] = None]

LeaveWait ==
    /\ pc = "next" /\ gen = "leaving"
    /\ gen' = IF answer.how = "abort" THEN "aborting"
              ELSE IF answer.how = "after_shot" THEN "stopped" ELSE "resumed"
    /\ ClosePause
    /\ UNCHANGED <<endVars, loopVars, state, stopMode, pauseNo, parked, pc,
                   ev, answer, left>>

-----------------------------------------------------------------------------
(* The rest of one turn of _execute, and _finish.                          *)

AlwaysAborted == "aborted"                     \* mutant: ignores the mode
StoppedOutcome == IF stopMode[current] = "abort" THEN "aborted" ELSE "stopped"

\* The bookkeeping of the event in hand.
HandleEvent ==
    /\ pc = "handle"
    /\ outcome' = IF ev = "RunFailed" THEN "failed"
                  ELSE IF ev # "RunAborted" THEN outcome
                  ELSE StoppedOutcome
    /\ said' = said \cup ({ev} \cap {"RunAborted", "RunFailed"})
    /\ state' = IF ev = "NeedsOperator" THEN [state EXCEPT ![current] = "paused"]
                ELSE IF ev = "OperatorResumed" THEN [state EXCEPT ![current] = "running"]
                ELSE state
    /\ paused' = IF ev = "NeedsOperator"
                 THEN [paused EXCEPT ![current] = TRUE] ELSE paused
    /\ pc' = "check"
    /\ UNCHANGED <<genVars, loopVars, stopMode, detail, pauseNo, parked, aborts>>

\* The first yield after an abort request closes the generator.
CloseOnAbort ==
    /\ pc = "check" /\ stopMode[current] = "abort"
    /\ gen' = "closed" /\ EndWith("aborted")
    /\ SyntheticAbort
    /\ UNCHANGED <<jobVars, loopVars, ev, answer, left>>

Continue ==
    /\ pc = "check" /\ stopMode[current] # "abort"
    /\ IF stopMode[current] = "after_shot" /\ said \cap {"stopping", "RunAborted"} = {}
       THEN said' = said \cup {"stopping"} /\ SetState("stopping")
       ELSE UNCHANGED <<said, state>>
    /\ pc' = "next"
    /\ UNCHANGED <<pauseVars, genVars, loopVars, stopMode, parked, outcome, aborts>>

\* _finish: the terminal state is reported before the park ...
Finish ==
    /\ pc = "finish"
    /\ SetState(outcome)
    /\ gen' = "none"
    /\ pc' = "park"
    /\ UNCHANGED <<pauseVars, endVars, loopVars, stopMode, parked, ev, answer, left>>

\* ... and `parked` after it.
Park ==
    /\ pc = "park"
    /\ parked' = [parked EXCEPT ![current] = TRUE]
    /\ pc' = IF bus = "worker" THEN "release" ELSE "clear"
    /\ UNCHANGED <<pauseVars, execVars, loopVars, state, stopMode>>

ReleaseBus ==
    /\ pc = "release"
    /\ bus' = "free"
    /\ pc' = "clear"
    /\ UNCHANGED <<queueVars, jobVars, execVars, current, stopping, crashed, call>>

\* The end of a turn of _loop.
ForgetsCurrent == pc' = "wait" /\ UNCHANGED current   \* mutant: no reset
ThreadDies == current' = None /\ pc' = "ended"        \* mutant: one job per thread
NextTurn == current' = None /\ pc' = "wait"

ClearCurrent ==
    /\ pc = "clear"
    /\ NextTurn
    /\ ResetLocals
    /\ UNCHANGED <<jobVars, queueVars, stopping, bus, crashed, call>>

\* The except clause of _loop.
CatchEscape == IF terminal(current) THEN pc' = "clear" /\ outcome' = outcome
               ELSE EndWith("failed")

\* A BaseException leaves `with self.bus` before _loop catches it; the handler
\* finishes the job only when it is not terminal yet.
BaseExceptionEscapes ==
    /\ MayCrash /\ ~crashed
    /\ pc = "make" \/ (pc = "next" /\ gen = "work") \/ pc = "park"
    /\ crashed' = TRUE
    /\ bus' = "free"
    /\ gen' = IF pc = "next" THEN "closed" ELSE gen
    /\ CatchEscape
    /\ UNCHANGED <<queueVars, jobVars, current, stopping, ev, answer, left,
                   said, aborts, call>>

-----------------------------------------------------------------------------
(* A GPIB temperature monitor: Monitor._loop with the worker's bus lock.   *)

MonitorAcquire ==
    /\ BusIsFree
    /\ bus' = "monitor"
    /\ UNCHANGED <<queueVars, jobVars, execVars, current, stopping, pc,
                   crashed, call>>

MonitorRelease ==
    /\ bus = "monitor"
    /\ bus' = "free"
    /\ UNCHANGED <<queueVars, jobVars, execVars, current, stopping, pc,
                   crashed, call>>

-----------------------------------------------------------------------------
Generator == \/ YieldEvent \/ YieldNeedsOperator \/ YieldResumed \/ YieldRunAborted
             \/ YieldRunFailed \/ StopIteration \/ GeneratorRaises \/ AbortNowRaised
             \/ EnterWait \/ WaitReady \/ LeaveWait

Worker == \/ Take \/ LeaveLoop \/ AcquireBus \/ MakeReturns \/ MakeRaises
          \/ Generator \/ HandleEvent \/ CloseOnAbort \/ Continue
          \/ Finish \/ Park \/ ReleaseBus \/ ClearCurrent \/ BaseExceptionEscapes

\* What a thread does once its call is under way.
Proceed(c) == MarkCancelled(c) \/ Return(c) \/ Resume(c)

Next ==
    \/ Worker
    \/ MonitorAcquire \/ MonitorRelease
    \/ \E j \in Jobs : Submit(j)
    \/ \E j \in Jobs, mode \in StopModes : RequestStop(j, mode)
    \/ \E c \in Callers : \/ \E j \in Jobs : Cancel(c, j) \/ SendResume(c, j)
                          \/ StopRuns(c) \/ Shutdown(c) \/ Proceed(c)

Spec == Init /\ [][Next]_vars

(* Threads run when they can.  A waiter on the bus lock is woken: the      *)
(* monitor sleeps interval_s between its nonblocking attempts, so the lock *)
(* is free again and again while the worker blocks on it.                  *)
Fairness ==
    /\ WF_vars(Worker) /\ SF_vars(AcquireBus) /\ WF_vars(MonitorRelease)
    /\ \A c \in Callers : WF_vars(Proceed(c))

FairSpec == Spec /\ Fairness
-----------------------------------------------------------------------------
(* Properties.                                                             *)

PCs == {"wait", "bus", "make", "next", "handle", "check", "finish", "park",
        "release", "clear", "ended"}
Gens == {"none", "work", "pausing", "waiting", "leaving", "aborting", "stopped",
         "resumed", "unwinding", "failing", "closed"}
Events == {"none", "event", "NeedsOperator", "OperatorResumed", "RunAborted", "RunFailed"}
OnBench == {"make", "next", "handle", "check", "finish", "park"}

\* Every variable keeps its type, and `current` is a job exactly while the
\* thread is between popping one and clearing it.
TypeOK ==
    /\ queue \subseteq Jobs /\ ticket \in [Jobs -> Nat] /\ submitted \in Nat
    /\ current \in Jobs \cup {None}
    /\ (current = None) <=> (pc \in {"wait", "ended"})
    /\ stopping \in BOOLEAN /\ crashed \in BOOLEAN
    /\ bus \in {"free", "worker", "monitor"}
    /\ state \in [Jobs -> States]
    /\ stopMode \in [Jobs -> StopModes \cup {None}]
    /\ paused \in [Jobs -> BOOLEAN] /\ parked \in [Jobs -> BOOLEAN]
    /\ detail \in [Jobs -> Replies \cup {None}]
    /\ pauseNo \in [Jobs -> Pauses]
    /\ pc \in PCs /\ gen \in Gens /\ ev \in Events
    /\ answer \in Answers
    /\ outcome \in TERMINAL \ {"cancelled"}
    /\ said \subseteq {"RunAborted", "RunFailed", "stopping"}
    /\ left \in 0 .. MaxYields /\ aborts \in Nat
    /\ call \in [Callers -> Calls]

\* A queued job is owned once: by the queue, by the worker that popped it, or by
\* the one call that withdrew it.  Only so can no job be both cancelled and
\* executed when cancel, stop_runs, shutdown and the pop race for it.
QueuedJobHasOneOwner ==
    \A j \in Jobs :
        /\ j \in queue => (state[j] = "queued" /\ j # current)
        /\ \A c \in Callers : j \in Withdrawing(c) =>
              /\ state[j] = "queued" /\ j # current /\ j \notin queue
              /\ \A d \in Callers \ {c} : j \notin Withdrawing(d)
        /\ state[j] = "queued" =>
              \/ j \in queue \/ j = current
              \/ \E c \in Callers : j \in Withdrawing(c)

\* Where the current job's state stands at each point of _loop and _execute, and
\* that a job nobody submitted is nowhere.  With the two invariants above and below
\* this is inductive.
CurrentStateFollowsThread ==
    /\ pc = "bus" => state[current] = "queued"
    /\ pc = "make" => state[current] = "preflight"
    /\ pc \in {"next", "handle", "check"} =>
         state[current] \in {"running", "paused", "stopping"}
    /\ pc = "finish" => state[current] \in {"preflight", "running", "paused", "stopping"}
    /\ pc \in {"park", "release", "clear"} => state[current] \in TERMINAL \ {"cancelled"}
    /\ \A j \in Jobs : state[j] = "new" => (j # current /\ j \notin queue)

\* Only the current job is between preflight and parked: one job holds the bench.
OnlyCurrentExecutes ==
    \A j \in Jobs : state[j] \in {"preflight", "running", "paused", "stopping"}
                      => j = current

\* cancel, stop_runs, shutdown and the pop race for the same job: it is cancelled or
\* executed, never both and never neither, and one job at a time holds the bench.
Ownership == QueuedJobHasOneOwner /\ CurrentStateFollowsThread /\ OnlyCurrentExecutes

\* The monitor's multi-query read never overlaps a job, its generator's unwinding
\* or its park: the bus lock spans all of them.
MonitorNeverOverlapsJob == bus = "monitor" => pc \notin OnBench

\* A run ends stopped or aborted only when somebody asked for that stop, and shows
\* `stopping` only then.
NobodyStopsUnasked ==
    \A j \in Jobs :
        /\ state[j] \in {"stopping", "stopped"} => stopMode[j] # None
        /\ state[j] = "aborted" => stopMode[j] = "abort"

\* A run that ended stopped or aborted told exactly one RunAborted, whether its
\* generator yielded it or the worker made it up, and no run tells two.
RunAbortedToldOnce ==
    /\ aborts <= 1
    /\ (pc = "park" /\ state[current] \in {"stopped", "aborted"}) => aborts = 1

\* What is told of a stop is what happened: nothing stops by itself, and every run that was
\* stopped says so once.
StopsAreTold == NobodyStopsUnasked /\ RunAbortedToldOnce

\* From the moment NeedsOperator is published until the wait takes its answer the
\* job accepts a reply: an operator who answers at once is not refused.
OpenPauseAcceptsReply == gen \in {"pausing", "waiting"} => paused[current]

\* A reply accepted during one pause is used by that pause or by none.
ReplyStaysInItsPause ==
    /\ \A j \in Jobs :
          (detail[j] # None /\ ~terminal(j)) => detail[j].got = pauseNo[j]
    /\ (gen \in {"leaving", "resumed"} /\ answer.how = "reply")
          => answer.got = pauseNo[current]

\* The pause flag of a live job is up only while its generator is at a pause, and a
\* reply is kept only behind that flag: what ReplyStaysInItsPause rests on.
FlagFollowsPause ==
    /\ pc \in {"wait", "bus", "make", "ended"} => gen = "none"
    /\ (pc = "handle" /\ ev = "NeedsOperator") => gen = "pausing"
    /\ gen = "leaving" => paused[current]
    /\ \A j \in Jobs : (paused[j] /\ ~terminal(j)) =>
          j = current /\ gen \in {"pausing", "waiting", "leaving", "closed"}
    /\ \A j \in Jobs : (detail[j] # None /\ ~terminal(j)) => paused[j]

\* The operator's reply goes to the pause it was given in: an open pause accepts it,
\* the pause uses it or drops it, and no later pause sees it.
PauseProtocol == OpenPauseAcceptsReply /\ ReplyStaysInItsPause /\ FlagFollowsPause

\* What a caller was told stays true: a terminal state is never left, and a job
\* that was taken off the queue before it started is never on the bench.
TerminalIsFinal ==
    [][\A j \in Jobs : /\ terminal(j) => state'[j] = state[j]
                       /\ parked[j] => parked'[j]]_vars

\* A stop accepted for the executing job ends it, paused or not: the pause cannot
\* swallow it and the generator cannot outlive it.
StopEndsCurrentJob ==
    \A j \in Jobs : (current = j /\ stopMode[j] # None) ~> terminal(j)

\* shutdown drains everything: the thread ends and no submitted job is left
\* queued or executing, whatever submit, cancel or a pause it raced with.
ShutdownDrains ==
    stopping ~> (pc = "ended" /\ \A j \in Jobs : state[j] = "new" \/ terminal(j))

\* A queued job leaves the queue, unless the job ahead waits for the operator: the
\* worker is never asleep beside work.
QueueMoves ==
    \A j \in Jobs : state[j] = "queued" ~>
        (state[j] # "queued" \/
         (gen = "waiting" /\ stopMode[current] = None /\ detail[current] = None))

\* Whatever is asked of the worker comes to an end: a stop, a shutdown, a place in the queue.
AskedIsDone == StopEndsCurrentJob /\ ShutdownDrains /\ QueueMoves
-----------------------------------------------------------------------------
(* The abstract specification.                                             *)

\* A job withdrawn by a caller counts as cancelled from the moment it left the
\* queue, though its state says so only once the caller gets to it.
Withdrawn == UNION {Withdrawing(c) : c \in Callers}
Phase == [j \in Jobs |-> IF j \in Withdrawn THEN "cancelled" ELSE state[j]]

\* The deque's order is the order of the tickets.
AheadOf == [j \in Jobs |-> IF j \in queue THEN {i \in queue : ticket[i] < ticket[j]} ELSE {}]

Promise == INSTANCE JobQueue WITH
    MayEscape <- MayCrash,
    waiting <- queue,
    ahead   <- AheadOf,
    active  <- current,
    phase   <- Phase,
    parked  <- {j \in Jobs : parked[j]}

\* The worker implements the queue its callers are promised: submission order, one
\* job on the bench, the arrows of the run-state diagram, park before the next job.
ImplementsJobQueue == Promise!Spec
=============================================================================
