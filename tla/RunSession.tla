----------------------------- MODULE RunSession ------------------------------
(***************************************************************************)
(* The session around the bench worker (bace/service/session.py): the run  *)
(* records, the path that carries the worker's reports to them, and the    *)
(* calls that submit, stop, resume, park and shut down.  With an event     *)
(* loop attached a report made on another thread is posted to the loop's   *)
(* callbacks; without one (scripts, tests) it is applied where it is made. *)
(* The worker is RunWorker itself, without the temperature monitor.        *)
(***************************************************************************)
EXTENDS RunWorker, Sequences

CONSTANTS Loop,         \* the caller that is the loop's thread (or the script's)
          Attachments   \* whether Session.attach_loop was called: served, scripted

ASSUME RunSessionAssumption ==
    /\ Loop \in Callers /\ Callers \cap {None, "worker"} = {}
    /\ Attachments \subseteq BOOLEAN

VARIABLES
    attached,   \* the event loop is attached; it never changes
    record,     \* Session._records: what the console shows of each run
    posted,     \* call_soon_threadsafe: the loop's callbacks, oldest first
    lock,       \* Session._lock: the caller holding it across worker calls
    hand,       \* Session.stop under way on the loop's thread
    life,       \* how far the end of the application has come
    inTime,     \* the worker ended within the first shutdown's timeout
    journal,    \* the outcome lines written for each run
    released    \* Bench.close was called

recordVars  == <<record, journal>>
lifeVars    == <<attached, life, inTime, released>>
sessionVars == <<recordVars, posted, lock, hand, lifeVars>>
allVars == <<vars, sessionVars>>

NoRecord == [state |-> "none", stopping |-> FALSE, pending |-> FALSE,
             parked |-> FALSE, ended |-> FALSE]
Opened == [NoRecord EXCEPT !.state = "queued"]
NoHand == [op |-> "idle", job |-> None, mode |-> None, first |-> FALSE]
Hand(op, j, mode, first) == [op |-> op, job |-> j, mode |-> mode, first |-> first]

recorded(j) == record[j].state # "none"
ended(j) == record[j].state \in TERMINAL

SessionInit ==
    /\ Init
    /\ attached \in Attachments
    /\ record = [j \in Jobs |-> NoRecord]
    /\ posted = <<>> /\ lock = None /\ hand = NoHand
    /\ life = "serving" /\ inTime = FALSE /\ released = FALSE
    /\ journal = [j \in Jobs |-> {}]

-----------------------------------------------------------------------------
(* The event path.                                                         *)

\* _apply_state: preflight and running do not replace an accepted stop.
NeverOvertaken(r, what) == FALSE               \* mutant: the check is gone
Overtaken(r, what) == r.stopping /\ what \in {"preflight", "running"}

\* What wakes wait_run.
WakesOnOutcome(what) == what \in TERMINAL      \* mutant: before the park
WakesOnParked(what) == what = "parked"         \* mutant: a cancelled run never wakes
Wakes(what) == what \in {"parked", "cancelled"}

\* _apply and _apply_state: one report applied to a record.
Apply(r, what) ==
    IF r.state = "none" \/ Overtaken(r, what) THEN r
    ELSE IF what = "parked" THEN [r EXCEPT !.parked = TRUE, !.ended = @ \/ Wakes(what)]
    ELSE IF what = "NeedsOperator" THEN [r EXCEPT !.pending = TRUE]
    ELSE IF what = "OperatorResumed" THEN [r EXCEPT !.pending = FALSE]
    ELSE [r EXCEPT !.state = what,
                   !.pending = @ /\ what \notin TERMINAL,
                   !.ended = @ \/ Wakes(what)]

\* What reports make of the record of one run, applied in order.
After(r, j, reports) ==
    LET told[n \in 0..Len(reports)] ==
            IF n = 0 THEN r
            ELSE IF reports[n].job = j THEN Apply(told[n - 1], reports[n].what)
            ELSE told[n - 1]
    IN  told[Len(reports)]

\* _ingest: the journal line, then the record.
Ingest(reports) ==
    /\ record' = [j \in Jobs |-> After(record[j], j, reports)]
    /\ journal' = [j \in Jobs |->
          journal[j] \cup
             (IF life = "closed" THEN {}
              ELSE {e.what : e \in {reports[i] : i \in DOMAIN reports}
                               \cap [job : {j}, what : TERMINAL \cup {"parked"}]})]

\* _dispatch: posted to the loop from any other thread, applied in place on the
\* loop's own thread or without a loop.
PostedFirst(thread, reports) ==                \* mutant: jumps the queue
    IF attached /\ thread # Loop
    THEN posted' = reports \o posted /\ UNCHANGED recordVars
    ELSE Ingest(reports) /\ UNCHANGED posted
Dispatch(thread, reports) ==
    IF attached /\ thread # Loop
    THEN posted' = posted \o reports /\ UNCHANGED recordVars
    ELSE Ingest(reports) /\ UNCHANGED posted

\* What the worker's step tells the session about the current job.  Session.stop
\* has already said `stopping`.
Said(what) == [i \in DOMAIN what |-> [job |-> current, what |-> what[i]]]
Reports ==
    IF pc = "handle" /\ ev = "NeedsOperator" THEN Said(<<"NeedsOperator", "paused">>)
    ELSE IF pc = "handle" /\ ev = "OperatorResumed" THEN Said(<<"OperatorResumed", "running">>)
    ELSE IF current # None /\ parked' # parked THEN Said(<<"parked">>)
    ELSE IF current = None \/ state' = state THEN <<>>
    ELSE IF state'[current] = "stopping" /\ record[current].stopping THEN <<>>
    ELSE Said(<<state'[current]>>)

\* _on_event and _on_state take the session's lock.
WorkerStep ==
    /\ Worker
    /\ Reports # <<>> => lock = None
    /\ Dispatch("worker", Reports)
    /\ UNCHANGED <<lock, hand, lifeVars>>

\* The loop's thread is free to run a callback or a request.
LoopIdle == hand.op = "idle" /\ call[Loop].op = "none"

RunCallback ==
    /\ LoopIdle /\ lock = None /\ posted # <<>>
    /\ Ingest(<<Head(posted)>>)
    /\ posted' = Tail(posted)
    /\ UNCHANGED <<vars, lock, hand, lifeVars>>

-----------------------------------------------------------------------------
(* The calls.                                                              *)

Request == LoopIdle /\ life = "serving" /\ lock = None

\* Session.submit: queued first, then the record and RunQueued, under one lock.
LockFree(c) == lock' = None                    \* mutant: submit without the lock
HoldLock(c) == lock' = c
SubmitRun(j) ==
    /\ Request /\ j \in Runs
    /\ Submit(j)
    /\ HoldLock(Loop)
    /\ hand' = Hand("submit", j, None, FALSE)
    /\ UNCHANGED <<recordVars, posted, lifeVars>>

OpenRecord ==
    /\ hand.op = "submit"
    /\ record' = [record EXCEPT ![hand.job] = Opened]
    /\ lock' = None /\ hand' = NoHand
    /\ UNCHANGED <<vars, journal, posted, lifeVars>>

\* Session.stop of a job still in the queue.
StopQueued(j) ==
    /\ Request /\ recorded(j) /\ state[j] = "queued"
    /\ Cancel(Loop, j)
    /\ UNCHANGED sessionVars

\* Session.stop of any other live run: the record's flag first ...
StopAccepted(j, mode) ==
    /\ Request /\ recorded(j)
    /\ state[j] = "queued" => ~Removable(j)
    /\ ~terminal(j) /\ ~ended(j)
    /\ record' = [record EXCEPT ![j].stopping = TRUE]
    /\ hand' = Hand("request", j, mode, ~record[j].stopping)
    /\ UNCHANGED <<vars, journal, posted, lock, lifeVars>>

\* ... then the job's ...
StopRequested ==
    /\ hand.op = "request"
    /\ RequestStop(hand.job, hand.mode)
    /\ hand' = [hand EXCEPT !.op = "tell"]
    /\ UNCHANGED <<recordVars, posted, lock, lifeVars>>

\* ... and the acceptance is told at once, the first time.
StopTold ==
    /\ hand.op = "tell" /\ lock = None
    /\ IF hand.first
       THEN Dispatch(Loop, <<[job |-> hand.job, what |-> "stopping"]>>)
       ELSE UNCHANGED <<recordVars, posted>>
    /\ hand' = NoHand
    /\ UNCHANGED <<vars, lock, lifeVars>>

\* A console sends a resume; Session.resume refuses it once the record has ended.
SendReply(c, j) ==
    /\ c # Loop /\ life = "serving"
    /\ SendResume(c, j)
    /\ UNCHANGED sessionVars

Answered(c) ==
    /\ LoopIdle /\ call[c].op = "resume"
    /\ IF \E j \in call[c].jobs : ended(j)
       THEN call' = [call EXCEPT ![c] = Idle]
            /\ UNCHANGED <<queueVars, jobVars, workVars, stopping>>
       ELSE Resume(c)
    /\ UNCHANGED sessionVars

\* bench_action("park") on a pool thread, up to its stop_runs, under the lock.
ParkRequested(c) ==
    /\ c # Loop /\ life = "serving" /\ lock = None
    /\ StopRuns(c)
    /\ HoldLock(c)
    /\ UNCHANGED <<recordVars, posted, hand, lifeVars>>

\* RunWorker._cancel reports on the thread that called it.
CancelTold(c) ==
    /\ lock \in {None, c}
    /\ MarkCancelled(c)
    /\ \E j \in Withdrawing(c) :
          /\ state'[j] # state[j]
          /\ Dispatch(c, <<[job |-> j, what |-> "cancelled"]>>)
    /\ UNCHANGED <<lock, hand, lifeVars>>

StillHeld(c) == lock                           \* mutant: never unlocked
Unlocked(c) == IF lock = c THEN None ELSE lock
Returned(c) ==
    /\ Return(c)
    /\ lock' = Unlocked(c)
    /\ UNCHANGED <<recordVars, posted, hand, lifeVars>>

-----------------------------------------------------------------------------
(* The end of the application: app.py's lifespan and Session.close.        *)

\* The server has stopped accepting; the pool thread calls worker.shutdown.
BeginShutdown(c) ==
    /\ attached /\ c # Loop /\ life = "serving" /\ hand.op = "idle" /\ lock = None
    /\ Shutdown(c)
    /\ life' = "joining"
    /\ UNCHANGED <<attached, recordVars, posted, lock, hand, inTime, released>>

\* A script has no lifespan: its own thread enters Session.close.
ScriptCloses ==
    /\ ~attached /\ Request
    /\ Shutdown(Loop)
    /\ life' = "closing"
    /\ UNCHANGED <<attached, recordVars, posted, lock, hand, inTime, released>>

\* Its join returns: the thread ended, or the timeout passed.
JoinReturns ==
    /\ life = "joining" /\ \A c \in Callers : call[c].op = "none"
    /\ inTime' = (pc = "ended")
    /\ life' = "draining"
    /\ UNCHANGED <<attached, vars, recordVars, posted, lock, hand, released>>

\* SHUTDOWN_DRAIN_S on the loop: the callbacks already posted run.
NoDrain == TRUE                                \* mutant: no sleep
DrainDone == posted = <<>>
Drained ==
    /\ life = "draining" /\ DrainDone
    /\ life' = "closing"
    /\ UNCHANGED <<attached, vars, recordVars, posted, lock, hand, inTime, released>>

\* Session.close on a pool thread: a second shutdown and a longer join, either of
\* which may time out; the bench is closed only when the thread ended.
ReleaseAnyway == TRUE                          \* mutant: parks beside the job
MayRelease == pc = "ended"
Close ==
    /\ life = "closing" /\ \A c \in Callers : call[c].op = "none"
    /\ released' = MayRelease
    /\ life' = "closed"
    /\ UNCHANGED <<attached, vars, recordVars, posted, lock, hand, inTime>>

-----------------------------------------------------------------------------
LoopThread ==
    \/ RunCallback \/ OpenRecord \/ StopRequested \/ StopTold

Calling(c) == CancelTold(c) \/ Returned(c) \/ Answered(c)

SessionNext ==
    \/ WorkerStep
    \/ LoopThread
    \/ \E j \in Jobs : \/ SubmitRun(j) \/ StopQueued(j)
                       \/ \E mode \in StopModes : StopAccepted(j, mode)
    \/ \E c \in Callers : \/ Calling(c) \/ ParkRequested(c) \/ BeginShutdown(c)
                          \/ \E j \in Jobs : SendReply(c, j)
    \/ JoinReturns \/ Drained \/ ScriptCloses \/ Close

SessionSpec == SessionInit /\ [][SessionNext]_allVars

(* Threads run when they can: the worker, the loop, and a pool thread      *)
(* inside a call.  A thread that waits for the session's lock gets it: each *)
(* call holds it briefly, and parks are asked for by a person.  Nobody has *)
(* to send a request.                                                      *)
FairSessionSpec ==
    /\ SessionSpec
    /\ SF_allVars(WorkerStep) /\ SF_allVars(LoopThread)
    /\ \A c \in Callers : SF_allVars(Calling(c))
-----------------------------------------------------------------------------
(* Properties.                                                             *)

RecordStates == States \cup {"none"}

\* Every session variable keeps its type, and the lock is held only inside a call.
SessionTypeOK ==
    /\ attached \in BOOLEAN
    /\ record \in [Jobs -> [state : RecordStates \ {"new"}, stopping : BOOLEAN,
                            pending : BOOLEAN, parked : BOOLEAN, ended : BOOLEAN]]
    /\ \A i \in DOMAIN posted : posted[i].job \in Jobs
    /\ lock \in Callers \cup {None}
    /\ lock # None => (hand.op = "submit" \/ call[lock].op = "stop_runs")
    /\ hand.op \in {"idle", "submit", "request", "tell"}
    /\ life \in {"serving", "joining", "draining", "closing", "closed"}
    /\ journal \in [Jobs -> SUBSET (TERMINAL \cup {"parked"})]

\* The run record retains the terminal state: whatever was posted or told after it,
\* a record that has ended never shows another state.  It takes the loop: a script's
\* stop may overwrite an outcome (RecordRetainsTheOutcome in MCRunSession).
RecordsStayEnded ==
    [][\A j \in Jobs : (attached /\ ended(j)) => record'[j].state = record[j].state]_allVars

\* Once a stop was answered, the frames of a run that was just starting do not
\* take the record back to preflight or running.
StopIsNotTakenBack ==
    \A j \in Jobs : (record[j].stopping /\ hand.job # j)
                       => record[j].state \notin {"queued", "preflight", "running"}

\* RunQueued comes first: the worker, which may pop the job before submit returns,
\* tells nothing about a run whose record does not exist yet.
NothingToldBeforeRunQueued ==
    \A j \in Jobs : ~recorded(j) =>
        /\ state[j] \in {"new", "queued"}
        /\ \A i \in DOMAIN posted : posted[i].job # j

\* A script that waits for a run wakes on a bench whose park has been attempted, or
\* for a run that never touched it, and then reads the outcome in the record.
WaitersFindAParkedBench ==
    \A j \in Jobs : record[j].ended =>
        /\ parked[j] \/ state[j] = "cancelled"
        /\ attached => record[j].state = state[j]

\* When the worker ends within the first shutdown's timeout, the journal holds the
\* outcome of every run, and `parked` of every run that was executed.
JournalCompleteInTime ==
    (life = "closed" /\ inTime) =>
        \A j \in Jobs : recorded(j) =>
            /\ state[j] \in journal[j]
            /\ state[j] # "cancelled" => "parked" \in journal[j]

\* Another thread closes the instruments only when no job can use them any more.
ReleasedBenchIsIdle == released => (current = None /\ pc = "ended")

\* Every outcome reaches the record that the loop keeps, and wakes its waiters.
OutcomeIsRecorded ==
    \A j \in Jobs : (attached /\ terminal(j) /\ recorded(j)) ~>
                        (record[j].state = state[j] /\ record[j].ended)

\* A stop that was accepted ends the run, the park and the wait for it.
AcceptedStopEndsRun == \A j \in Jobs : record[j].stopping ~> record[j].ended

\* What the record says of a run is what the worker has told, in order: nothing before
\* RunQueued, and no start after an accepted stop.
RecordFollowsTheRun == NothingToldBeforeRunQueued /\ StopIsNotTakenBack

\* Whoever waits is let go on a bench that is at rest: the script that waits for a run, the
\* journal that is closed, the thread that closes the instruments.
EndIsOrderly == WaitersFindAParkedBench /\ JournalCompleteInTime /\ ReleasedBenchIsIdle

\* Whatever ends a run, a stop that was accepted among it, reaches the record in the end.
EndsAreRecorded == OutcomeIsRecorded /\ AcceptedStopEndsRun
=============================================================================
