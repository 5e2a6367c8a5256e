---------------------------- MODULE BenchActions -----------------------------
(***************************************************************************)
(* Explicit bench actions and read-backs (bench_action, bench_read, _await *)
(* and run_active of bace/service/session.py): pool threads that check for *)
(* an active run, queue a job of their own and wait for it, beside runs    *)
(* that come and go.  The worker is the job queue that RunWorker           *)
(* implements; a client's job carries the client's name.                   *)
(***************************************************************************)
CONSTANTS RunJobs, Clients, Unset

\* What a caller can be told.
Answers == {"busy", "refused", "pending", "ran", "failed", "cancelled", "late"}

ASSUME BenchActionsAssumption ==
    RunJobs \cap Clients = {} /\ Unset \notin RunJobs \cup Clients \cup Answers

VARIABLES
    waiting, ahead, active, phase, parked,   \* the job queue
    stopping,    \* RunWorker._stopping
    asked,       \* jobs whose abort was requested
    lock,        \* Session._lock
    at,          \* where each client is in its call
    kind,        \* what it asked for
    saw,         \* the run its run_active found
    jobDone,     \* Session._job_done: the clients with an event registered
    done,        \* the events that are set
    answer       \* how each call ended

clientVars == <<at, kind, saw, answer>>
eventVars  == <<jobDone, done>>
queueVars  == <<waiting, ahead, active, phase, parked>>
workerVars == <<queueVars, stopping, asked>>
callsVars == <<workerVars, lock, clientVars, eventVars>>

Jobs == RunJobs \cup Clients
Queue == INSTANCE JobQueue WITH None <- Unset, MayEscape <- FALSE

terminal(j) == phase[j] \in Queue!Ended
Kinds == {"park", "action", "readback"}

CallsInit ==
    /\ Queue!Init
    /\ stopping = FALSE /\ asked = {} /\ lock = Unset
    /\ at = [c \in Clients |-> "idle"]
    /\ kind = [c \in Clients |-> Unset]
    /\ saw = [c \in Clients |-> Unset]
    /\ answer = [c \in Clients |-> Unset]
    /\ jobDone = {} /\ done = {}

-----------------------------------------------------------------------------
(* The worker.                                                             *)

\* _on_state of an action or a read-back: its terminal state wakes _await.
WakesEarly(S) == done' = done \cup ({active} \cap jobDone)  \* mutant: any state report wakes
Wake(S) == done' = done \cup (S \cap jobDone)

StartJob ==
    /\ ~stopping /\ Queue!Start
    /\ UNCHANGED <<stopping, asked, lock, clientVars, eventVars>>

\* An action's generator neither pauses nor polls for a stop; an abort closes it.
ActionStates == {"preflight", "running", "done", "failed", "aborted"}
Advance ==
    /\ Queue!Advance
    /\ active \in Clients => phase'[active] \in ActionStates
    /\ phase'[active] = "aborted" => active \in asked
    /\ Wake({j \in Clients : phase'[j] \in Queue!Ended})
    /\ UNCHANGED <<stopping, asked, lock, clientVars, jobDone>>

Finish ==
    /\ Queue!Park \/ Queue!Retire
    /\ UNCHANGED <<stopping, asked, lock, clientVars, eventVars>>

\* Jobs taken off the queue are cancelled, and their waiters told.
Withdraw(S) ==
    /\ Queue!Withdraw(S)
    /\ Wake(S \cap Clients)

\* worker.shutdown.
Shutdown ==
    /\ ~stopping /\ stopping' = TRUE
    /\ Withdraw(waiting)
    /\ asked' = asked \cup ({active} \cap {j \in Jobs : ~terminal(j)})
    /\ UNCHANGED <<lock, clientVars, jobDone>>

-----------------------------------------------------------------------------
(* Session.submit, seen from here, and the stop of a run.                  *)

LockFree == lock = Unset

SubmitRun(r) ==
    /\ LockFree /\ ~stopping
    /\ Queue!Enqueue(r)
    /\ UNCHANGED <<stopping, asked, lock, clientVars, eventVars>>

-----------------------------------------------------------------------------
(* bench_action and bench_read.                                            *)

NeverUnlocks == lock' = lock                    \* mutant: a way out that keeps the lock
Unlocks == lock' = Unset

Step(c, from, to) == at[c] = from /\ at' = [at EXCEPT ![c] = to]

Request(c, k) ==
    /\ lock = Unset
    /\ Step(c, "idle", "current")
    /\ kind' = [kind EXCEPT ![c] = k]
    /\ lock' = c
    /\ UNCHANGED <<workerVars, saw, answer, eventVars>>

\* run_active reads worker.current without the worker's lock ...
ReadCurrent(c) ==
    /\ Step(c, "current", "queued")
    /\ saw' = [saw EXCEPT ![c] = IF active \in RunJobs /\ ~terminal(active)
                                 THEN active ELSE Unset]
    /\ UNCHANGED <<workerVars, lock, kind, answer, eventVars>>

\* ... and then worker.queued with it.
ReadQueued(c) ==
    /\ Step(c, "queued", "decide")
    /\ \/ saw[c] = Unset /\ \E r \in RunJobs \cap waiting :
             ahead[r] \cap RunJobs = {} /\ saw' = [saw EXCEPT ![c] = r]
       \/ (saw[c] # Unset \/ RunJobs \cap waiting = {}) /\ saw' = saw
    /\ UNCHANGED <<workerVars, lock, kind, answer, eventVars>>

\* A run is active: every request but park is refused.
Refuse(c) ==
    /\ saw[c] # Unset /\ kind[c] # "park"
    /\ Step(c, "decide", "answered")
    /\ answer' = [answer EXCEPT ![c] = "busy"]
    /\ Unlocks
    /\ UNCHANGED <<workerVars, kind, saw, eventVars>>

\* The runs that park stops: stop_runs reads them under one lock.
OnlyQueued == RunJobs \cap waiting                \* mutant: forgets the current run
RunsToStop == RunJobs \cap (waiting \cup {active})

StopRuns(c) ==
    /\ saw[c] # Unset /\ kind[c] = "park"
    /\ Step(c, "decide", "register")
    /\ Withdraw(RunsToStop \cap waiting)
    /\ asked' = asked \cup ({active} \cap {r \in RunsToStop : ~terminal(r)})
    /\ UNCHANGED <<stopping, lock, kind, saw, answer, jobDone>>

NoActiveRun(c) ==
    /\ saw[c] = Unset
    /\ Step(c, "decide", "register")
    /\ UNCHANGED <<workerVars, lock, kind, saw, answer, eventVars>>

\* _new_job_id: the event exists before the job does.
LateEvent(c) == jobDone' = jobDone             \* mutant: not registered yet
NewEvent(c) == jobDone' = jobDone \cup {c}
Register(c) ==
    /\ Step(c, "register", "submit")
    /\ NewEvent(c)
    /\ UNCHANGED <<workerVars, lock, kind, saw, answer, done>>

SubmitAction(c) ==
    /\ ~stopping
    /\ Step(c, "submit", "wait")
    /\ Queue!Enqueue(c)
    /\ Unlocks
    /\ UNCHANGED <<stopping, asked, kind, saw, answer, eventVars>>

\* The worker refuses the job while shutting down: the call fails.
SubmitRefused(c) ==
    /\ stopping
    /\ Step(c, "submit", "answered")
    /\ answer' = [answer EXCEPT ![c] = "refused"]
    /\ Unlocks
    /\ UNCHANGED <<workerVars, kind, saw, eventVars>>

-----------------------------------------------------------------------------
(* _await.                                                                 *)

Answer(c, a) == answer' = [answer EXCEPT ![c] = a] /\ jobDone' = jobDone \ {c}

Finished(c) ==
    /\ c \in done
    /\ Step(c, "wait", "answered")
    /\ Answer(c, IF phase[c] = "failed" THEN "failed" ELSE "ran")
    /\ UNCHANGED <<workerVars, lock, kind, saw, done>>

\* The wait is over before the job is: park stays queued, anything else is given up.
Timeout(c) ==
    /\ c \notin done
    /\ Step(c, "wait", IF kind[c] = "park" THEN "answered" ELSE "late")
    /\ Answer(c, IF kind[c] = "park" THEN "pending" ELSE Unset)
    /\ UNCHANGED <<workerVars, lock, kind, saw, done>>

\* worker.cancel of the late job: only a job still queued can be cancelled.
CancelAnything(c) == TRUE                      \* mutant: reports it cancelled
CanCancel(c) == c \in waiting

CancelLate(c) ==
    /\ Step(c, "late", "answered")
    /\ Withdraw({c} \cap waiting)
    /\ answer' = [answer EXCEPT ![c] = IF CanCancel(c) THEN "cancelled" ELSE "late"]
    /\ UNCHANGED <<stopping, asked, lock, kind, saw, jobDone>>

-----------------------------------------------------------------------------
Calling(c) ==
    \/ ReadCurrent(c) \/ ReadQueued(c) \/ Refuse(c) \/ StopRuns(c) \/ NoActiveRun(c)
    \/ Register(c) \/ SubmitAction(c) \/ SubmitRefused(c)
    \/ Finished(c) \/ CancelLate(c)

CallsNext ==
    \/ StartJob \/ Advance \/ Finish \/ Shutdown
    \/ \E r \in RunJobs : SubmitRun(r)
    \/ \E c \in Clients : \/ Calling(c) \/ Timeout(c)
                          \/ \E k \in Kinds : Request(c, k)

CallsSpec == CallsInit /\ [][CallsNext]_callsVars

(* The worker's thread and the pool threads run; a run that was asked to   *)
(* stop, and every action, ends (StopEndsCurrentJob of RunWorker).         *)
EndsJob == Advance /\ active \in Clients \cup asked /\ phase'[active] \in Queue!Ended
Begins == Advance /\ phase[active] \in {"queued", "preflight"}
FairSpec ==
    /\ CallsSpec
    /\ WF_callsVars(StartJob) /\ WF_callsVars(Begins)
    /\ SF_callsVars(EndsJob) /\ WF_callsVars(Finish)
    /\ \A c \in Clients : WF_callsVars(Calling(c))
-----------------------------------------------------------------------------
(* Properties.                                                             *)

Phases == Queue!Ended \cup {"new", "queued", "preflight", "running", "paused", "stopping"}
Places == {"idle", "current", "queued", "decide", "register", "submit", "wait",
           "late", "answered"}

\* Every variable keeps its type, and the session's lock is held exactly by the
\* client between its check and its submit.
TypeOK ==
    /\ waiting \subseteq Jobs /\ ahead \in [Jobs -> SUBSET waiting]
    /\ active \in Jobs \cup {Unset} /\ phase \in [Jobs -> Phases] /\ parked \subseteq Jobs
    /\ stopping \in BOOLEAN /\ lock \in Clients \cup {Unset}
    /\ asked \subseteq Jobs /\ jobDone \subseteq Clients /\ done \subseteq Clients
    /\ at \in [Clients -> Places]
    /\ kind \in [Clients -> Kinds \cup {Unset}]
    /\ saw \in [Clients -> RunJobs \cup {Unset}]
    /\ answer \in [Clients -> Answers \cup {Unset}]
    /\ \A c \in Clients : lock = c <=>
          at[c] \in {"current", "queued", "decide", "register", "submit"}

\* The runs ahead of a client's job: those queued before it and the active one.
Ahead(c) == {r \in RunJobs : r \in ahead[c] \/ (r = active /\ c \in waiting)}

\* A park that found a run active waits for no run that was not told to abort: its
\* stop_runs and its submit leave no gap a run could enter by.
ParkClearsTheWay ==
    \A c \in Clients : (kind[c] = "park" /\ saw[c] # Unset /\ at[c] \in {"wait", "answered"}) =>
        \A r \in Ahead(c) : r \in asked \/ terminal(r)

\* A client that was told its action was cancelled, refused or turned away never
\* sees it happen afterwards.
GivenUpNeverRuns ==
    \A c \in Clients : answer[c] \in {"cancelled", "refused", "busy"} =>
        phase[c] \in {"new", "cancelled"} /\ active # c

\* A client that waits for a job that has ended has been woken: its event was
\* registered before the worker could finish the job.
NoLostWake ==
    \A c \in Clients : (at[c] = "wait" /\ terminal(c)) => c \in done

\* While the service is not shutting down, an action answered as run was run.
AnsweredActionRan ==
    \A c \in Clients : (answer[c] = "ran" /\ ~stopping) => phase[c] = "done"

\* Park is a safety action: once it has told the runs to abort it reaches the bench,
\* even when its caller has stopped waiting, unless the service shuts down first.
ParkReachesTheBench ==
    \A c \in Clients :
        (kind[c] = "park" /\ saw[c] # Unset /\ at[c] = "wait") ~>
            (phase[c] \in {"done", "failed"} \/ stopping)

\* What a caller is told of its action is so: what it gave up never runs, what was answered
\* as run did run, and it is woken.
CallersAreAnswered == GivenUpNeverRuns /\ NoLostWake /\ AnsweredActionRan
=============================================================================
