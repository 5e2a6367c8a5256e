------------------------------ MODULE PageStore -------------------------------
(***************************************************************************)
(* Two folds of one event stream: the session's run records and bench      *)
(* snapshot (session.py), and the page's store with the answers it fetches *)
(* beside the stream (ui/lib/store.js, ui/lib/watch.js, ui/app.js).  The   *)
(* stream between them is EventStream's; a script is the history of the    *)
(* events one service process ingests.                                     *)
(***************************************************************************)
EXTENDS EventStream

CONSTANTS
    Runs,
    Scripts,           \* the histories: sequences of MaxSeq events
    LateClear,         \* a snapshot may fall between `parked' and the worker's clearing
    MaxMishaps         \* bound: restarts, connections lost and fetches that fail, all told

ASSUME PageStoreAssumption ==
    /\ None \notin Runs /\ LateClear \in BOOLEAN /\ MaxMishaps \in Nat
    /\ \A s \in Scripts : Len(s) = MaxSeq /\ \A n \in 1..MaxSeq : s[n].run \in Runs

VARIABLES
    script,            \* the history of this process
    records,           \* Session._records: what its frames have made of each run
    snapshot,          \* the bench in the Hello of the connection
    page,              \* the store's state
    booting,           \* where boot() is: at the bench, at the record, or past both
    wanted, fetch,     \* the watch: a refetch is wanted; the one in flight
    hydrating,         \* the run record in flight
    fails

sessionVars == <<script, records, snapshot>>
watchVars == <<wanted, fetch, fails>>
storeVars == <<page, booting, hydrating>>
allVars == <<vars, sessionVars, storeVars, watchVars>>

TERMINAL == {"done", "stopped", "aborted", "failed", "blocked", "cancelled"}
Starting == {"preflight", "running"}
\* The timestamp of a frame is its number; 0 stands for none.
Later(a, b) == IF a > b THEN a ELSE b

-----------------------------------------------------------------------------
(* The session: _apply and _apply_state; rec.stopping is set with the state.  *)

EmptyRecord == [state |-> "none", pending |-> 0, kept |-> 0, axis |-> FALSE]
ApplyState(r, s) ==
    IF s = "parked" \/ (r.state = "stopping" /\ s \in Starting) THEN r
    ELSE [r EXCEPT !.state = s, !.pending = IF s \in TERMINAL THEN 0 ELSE @]
Apply(r, n, e) ==
    CASE e.type = "state"   -> ApplyState(r, e.state)
      [] e.type = "needs"   -> [r EXCEPT !.pending = n]
      [] e.type = "resumed" -> [r EXCEPT !.pending = 0]
      [] e.type \in {"shot", "curve"} -> [r EXCEPT !.kept = @ + 1]
      [] e.type = "axis"    -> [r EXCEPT !.axis = TRUE]
      [] e.type = "node"    -> r

\* The run in the worker once n events are out: from its preflight to its parked.
Says(n, r, states) == script[n].type = "state" /\ script[n].run = r /\ script[n].state \in states
InWorker(n) ==
    LET started == {r \in Runs : \E i \in 1..n : Says(i, r, {"preflight"})}
        parked  == {r \in Runs : \E i \in 1..n : Says(i, r, {"parked"})}
    IN  IF started \subseteq parked THEN None ELSE CHOOSE r \in started \ parked : TRUE
\* worker.current is not a record: the worker may be an event ahead of what is ingested.
Currents ==
    {InWorker(seq), InWorker(IF seq < MaxSeq THEN seq + 1 ELSE seq)}
    \cup IF LateClear /\ seq > 0 /\ InWorker(seq) = None
         THEN {r \in Runs : Says(seq, r, {"parked"})} ELSE {}

BenchState(s) == IF s \in {"preflight", "running", "paused", "stopping"} THEN s
                 ELSE IF s \in {"queued", "none"} THEN "preflight" ELSE "stopping"
\* bench_snapshot, without I/O.
Snapshot(current) ==
    [session |-> session, at |-> seq, run |-> current,
     state   |-> IF current = None THEN "idle" ELSE BenchState(records[current].state),
     queue   |-> {r \in Runs : records[r].state = "queued"} \ {current},
     record  |-> IF current = None THEN EmptyRecord ELSE records[current]]

-----------------------------------------------------------------------------
(* The store.                                                              *)

EmptyRun == [state |-> "none", prompt |-> 0, resumed |-> 0, parked |-> FALSE,
             shots |-> {}, curves |-> 0, kept |-> 0, axis |-> FALSE]
EmptyPage == [bench |-> "idle", active |-> None, queue |-> {}, base |-> None,
              runs |-> [r \in Runs |-> EmptyRun]]

\* adoptPending.  A snapshot is authoritative, a record is not.
AdoptsClosed(run, since) == FALSE                    \* mutant: an answered pause comes back
Answered(run, since) == run.resumed >= since
AdoptPending(run, since, authoritative) ==
    IF run.parked \/ run.state \in TERMINAL THEN run
    ELSE IF since = 0 THEN [run EXCEPT !.prompt = IF authoritative THEN 0 ELSE @]
    ELSE IF (run.prompt > 0 /\ run.prompt >= since) \/ Answered(run, since) THEN run
    ELSE [run EXCEPT !.prompt = since]

\* applyBench: with readBack only the base, else the bench whole.
ReadBackBench(p, snap) == [p EXCEPT !.base = [session |-> snap.session, at |-> snap.at]]
ApplyBench(p, snap) ==
    LET run(r) == IF r # snap.run THEN p.runs[r]
                  ELSE AdoptPending([p.runs[r] EXCEPT !.state = snap.record.state],
                                    snap.record.pending, TRUE)
    IN  [ReadBackBench(p, snap) EXCEPT
            !.queue = snap.queue, !.bench = snap.state, !.active = snap.run,
            !.runs = [r \in Runs |-> run(r)]]

\* applyRunRecord and applyRunData: hydration fills what the stream has not said.
Hydrate(run, record) ==
    [AdoptPending([run EXCEPT !.state = IF @ = "none" THEN record.state ELSE @],
                  record.pending, FALSE)
        EXCEPT !.axis = @ \/ record.axis, !.kept = Later(@, record.kept)]

\* fold.  A stopping run is not moved back by the worker's start; `parked' is no outcome.
FoldParked(p, r) ==
    [p EXCEPT !.runs[r].parked = TRUE, !.runs[r].prompt = 0,
              !.runs[r].state = IF @ \in TERMINAL THEN @ ELSE "parked",
              !.active = IF @ = r THEN None ELSE @,
              !.bench = IF p.active = r THEN "idle" ELSE @]
FoldEnd(p, r, s) ==
    [p EXCEPT !.runs[r].state = s, !.runs[r].prompt = 0, !.queue = @ \ {r},
              !.bench = IF p.active = r /\ s # "cancelled" THEN BenchState(s) ELSE @]
FoldState(p, r, s) ==
    IF s = "parked" THEN FoldParked(p, r)
    ELSE IF p.runs[r].state = "stopping" /\ s \in Starting THEN p
    ELSE IF s \in TERMINAL THEN FoldEnd(p, r, s)
    ELSE IF s = "queued" THEN [p EXCEPT !.runs[r].state = s, !.queue = @ \cup {r}]
    ELSE [p EXCEPT !.runs[r].state = s, !.queue = @ \ {r}, !.active = r,
                   !.bench = BenchState(s)]
\* A shot has a key, its node, loop and index; a curve is pushed.
FoldShot(run, n) == [run EXCEPT !.shots = @ \cup {n},
                                !.kept = Later(@, Cardinality(run.shots \cup {n}))]
ShotsBefore(r, n) == Cardinality({i \in 1..n : script[i].type = "shot" /\ script[i].run = r})
Fold(p, n, e) ==
    CASE e.type = "state"   -> FoldState(p, e.run, e.state)
      [] e.type = "needs"   -> [p EXCEPT !.runs[e.run].prompt = n]
      [] e.type = "resumed" -> [p EXCEPT !.runs[e.run].prompt = 0,
                                         !.runs[e.run].resumed = Later(@, n)]
      [] e.type = "shot"    -> [p EXCEPT !.runs[e.run] = FoldShot(@, n)]
      [] e.type = "curve"   -> [p EXCEPT !.runs[e.run].curves = @ + 1,
                                         !.runs[e.run].kept = p.runs[e.run].curves + 1]
      [] e.type = "axis"    -> [p EXCEPT !.runs[e.run].axis = TRUE]
      [] e.type = "node"    -> [p EXCEPT !.runs[e.run].kept = ShotsBefore(e.run, n)]

-----------------------------------------------------------------------------
(* The steps: the stream's, each with what it does to the session's        *)
(* records or to the store.                                                *)

PageInit ==
    /\ Init
    /\ script \in Scripts /\ records = [r \in Runs |-> EmptyRecord] /\ snapshot = None
    /\ page = EmptyPage /\ booting = "bench" /\ hydrating = None
    /\ wanted = FALSE /\ fetch = None /\ fails = 0

Ingest ==
    /\ Publish
    /\ LET e == script[seq'] IN
       records' = [records EXCEPT ![e.run] = Apply(@, seq', e)]
    /\ UNCHANGED <<script, snapshot, storeVars, watchVars>>

\* boot: the bench whole, the record of its run, then the stream from 0; or nothing.
Ask(r) == hydrating' = [run |-> r, session |-> session, record |-> None]
BootBench ==
    /\ booting = "bench"
    /\ \/ \E current \in Currents :
            /\ page' = ApplyBench(page, Snapshot(current))
            /\ IF current = None THEN booting' = "done" /\ UNCHANGED hydrating
               ELSE booting' = "record" /\ Ask(current)
       \/ booting' = "done" /\ UNCHANGED <<page, hydrating>>
    /\ UNCHANGED <<vars, sessionVars, watchVars>>
BootRecord ==
    /\ booting = "record" /\ hydrating = None /\ booting' = "done"
    /\ UNCHANGED <<vars, sessionVars, page, hydrating, watchVars>>

\* Hello carries the bench as it is when the socket is opened.
Greet ==
    /\ Connect /\ booting = "done"
    /\ \E current \in Currents : snapshot' = Snapshot(current)
    /\ UNCHANGED <<script, records, storeVars, watchVars>>
SendFrames == (ReadReplay \/ SendReplay \/ StartPump \/ Pump)
              /\ UNCHANGED <<sessionVars, storeVars, watchVars>>

TakeHello ==
    /\ ReceiveHello /\ page' = ApplyBench(page, snapshot)
    /\ UNCHANGED <<sessionVars, booting, hydrating, watchVars>>
\* onSessionChange: reset, and a refetch.
Reset ==
    /\ SessionChange /\ page' = EmptyPage /\ wanted' = TRUE
    /\ UNCHANGED <<sessionVars, booting, hydrating, fetch, fails>>

\* A frame, then afterFrame: a gap under a run without its axis asks for the record, and
\* a frame that moves the bench for a refetch.
Moves(e) == e.type = "node" \/ (e.type = "state" /\ e.state = "parked")
TakeFrame ==
    /\ ReceiveFrame
    /\ LET n == Head(wire).seq
           e == script[n]
       IN  IF n <= cursor THEN UNCHANGED <<page, hydrating, wanted>>
           ELSE /\ page' = Fold(page, n, e)
                /\ wanted' = (wanted \/ Moves(e))
                /\ IF n > cursor + 1 /\ page'.active # None /\ hydrating = None
                      /\ ~page'.runs[page'.active].axis
                   THEN Ask(page'.active) ELSE UNCHANGED hydrating
    /\ UNCHANGED <<sessionVars, booting, fetch, fails>>
\* Live frames, which the store keeps nothing of, are left to EventStream.
TakeRest ==
    /\ ReceiveNotice \/ ReceiveClose
    /\ UNCHANGED <<sessionVars, storeVars, watchVars>>

\* hydrate: the record as it is when the service answers.  A run id is of one process:
\* another knows no such run.
AnswerRecord ==
    /\ hydrating # None /\ hydrating.record = None
    /\ hydrating' = IF hydrating.session = session
                    THEN [hydrating EXCEPT !.record = records[hydrating.run]] ELSE None
    /\ UNCHANGED <<vars, sessionVars, page, booting, watchVars>>
LandRecord ==
    /\ hydrating # None /\ hydrating.record # None
    /\ hydrating' = None
    /\ page' = IF hydrating.session = session
               THEN [page EXCEPT !.runs[hydrating.run] = Hydrate(@, hydrating.record)] ELSE page
    /\ UNCHANGED <<vars, sessionVars, booting, watchVars>>

\* The watch: one request at a time; what is wanted meanwhile is kept for the next.
Asked == [session |-> 0, at |-> 0]               \* sent and not yet answered
ForgetsWants == wanted' = FALSE /\ fetch' = None     \* mutant: a landing clears the want
KeepsWants == UNCHANGED wanted /\ fetch' = None
StartFetch ==
    /\ wanted /\ fetch = None
    /\ wanted' = FALSE /\ fetch' = Asked
    /\ UNCHANGED <<vars, sessionVars, storeVars, fails>>
AnswerFetch ==
    /\ fetch = Asked
    /\ fetch' = [session |-> session, at |-> seq]
    /\ UNCHANGED <<vars, sessionVars, storeVars, wanted, fails>>
LandFetch ==
    /\ fetch \notin {None, Asked}
    /\ page' = ReadBackBench(page, fetch) /\ KeepsWants
    /\ UNCHANGED <<vars, sessionVars, booting, hydrating, fails>>
Spared == session - 1 + fails + losses < MaxMishaps
FailFetch ==
    /\ fetch = Asked /\ Spared
    /\ fails' = fails + 1 /\ KeepsWants
    /\ UNCHANGED <<vars, sessionVars, storeVars>>

LoseSocket == Lose /\ Spared /\ UNCHANGED <<sessionVars, storeVars, watchVars>>
\* The next process has runs of its own: Runs names those of the running one, with a
\* history of the same shape.
RestartService ==
    /\ Restart /\ Spared
    /\ records' = [r \in Runs |-> EmptyRecord]
    /\ page' = [page EXCEPT !.runs = EmptyPage.runs]
    /\ UNCHANGED <<script, snapshot, booting, hydrating, watchVars>>

-----------------------------------------------------------------------------
Boot == BootBench \/ BootRecord
Answer == AnswerRecord \/ AnswerFetch
Land == LandRecord \/ LandFetch
PageNext ==
    \/ Ingest \/ Boot \/ Greet \/ SendFrames
    \/ TakeHello \/ Reset \/ TakeFrame \/ TakeRest
    \/ Answer \/ Land \/ StartFetch \/ FailFetch \/ LoseSocket \/ RestartService
PageSpec == PageInit /\ [][PageNext]_allVars

\* The event loop, the browser and the network get on with whatever is under way.
Delivery == Boot \/ Greet \/ SendFrames \/ TakeHello \/ Reset \/ TakeFrame \/ TakeRest
            \/ Answer \/ Land \/ StartFetch
FairPageSpec == PageSpec /\ WF_allVars(Delivery)

-----------------------------------------------------------------------------
\* A page that has taken every frame shows the bench the service holds: the same run in
\* the worker, in the same state and with the same open pause, however often it was
\* dropped, cut off or answered late, and never more shots than were taken (store.js,
\* applyBench and adoptPending; app.py, _hello before the replay).
CaughtUp == /\ who = session /\ handler = "pump" /\ subscribed
            /\ queue = <<>> /\ wire = <<>> /\ cursor = seq
Shows(current) ==
    /\ page.active = current
    /\ page.bench = Snapshot(current).state
    /\ current # None =>
          /\ page.runs[current].prompt = records[current].pending
          /\ page.runs[current].kept <= records[current].kept
PageAgrees == CaughtUp => \E current \in Currents : Shows(current)

\* A watch at rest holds a bench of the running process, no older than the last frame it
\* was handed that moved the bench, unless a fetch failed: no refetch is lost behind
\* another or behind a restart (watch.js, want and pump).  Of a frame the ring had lost
\* it may be older: an answer that lands after a newer Hello is not compared with it.
AtRest == CaughtUp /\ ~wanted /\ fetch = None /\ fails = 0
Moving == {n \in got : Moves(script[n])}
RailFollows ==
    AtRest => /\ page.base # None => page.base.session = session
              /\ \A n \in Moving : page.base.at >= n

\* What holds of the stream under it: the queue is bounded, a socket in order, and only
\* what the ring had lost is missed.
StreamKeeps == QueueBounded /\ SocketIsOrdered /\ NothingMissed

\* However often it was dropped, cut off or moved, the page takes the last frame in the
\* end and comes to rest, with nothing asked for and not answered.
PageCatchesUp == <>[](CaughtUp /\ ~wanted /\ fetch = None /\ hydrating = None)

\* The page and its rail show the bench that the service holds.
ShowsTheBench == PageAgrees /\ RailFollows
=============================================================================
