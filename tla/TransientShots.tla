---------------------------- MODULE TransientShots ----------------------------
(***************************************************************************)
(* The scan of run_transient_scan (experiment/transient.py) between the    *)
(* digitiser and the light: the trigger calibration, then for every loop   *)
(* and point a light and a dark trace, the dark one first on even loops,   *)
(* both under the range that was set on a light trace of that point.  The  *)
(* signal may change between loops; an acquisition may fail, and queries   *)
(* of its autorange may go unanswered.                                     *)
(***************************************************************************)
EXTENDS Digitizer, FiniteSets

CONSTANTS
    Steps, Loops,    \* axis points and loops
    LightTraces,     \* what the light trace of a point may span
    DarkTrace, Sync, \* what the dark trace and the Sync span
    SyncStart,       \* SYNC_START_RANGE_V about SYNC_START_OFFSET_V
    Found,           \* windows the current channel may be found in
    Alternates,      \* alternate_order of the configurations run
    Sweep,           \* config.trigger_sweep; the Sync is on CHAN3
    Captures,        \* what a person may capture by hand: [channel, window, on]
    MaxMishaps,      \* bound: resets that fail and counts that do not answer
    MaxUnread        \* bound: ranges and offsets that are asked and not answered

\* Windows and traces are intervals; what is found and what is applied is no wider than the
\* instrument's widest range.
ASSUME ScanAssumption ==
    /\ Steps \in Nat \ {0} /\ Loops \in Nat /\ MaxMishaps \in Nat /\ MaxUnread \in Nat
    /\ \A trace \in LightTraces \cup {DarkTrace, Sync} :
           trace \in Int \X Int /\ trace[1] <= trace[2]
    /\ SyncStart \in Int \X Int
    /\ \A w \in Found : w \in Int \X Int /\ Size(w) <= Ceiling
    /\ Sweep \in {"AUTO", "TRIG"} /\ Alternates \subseteq BOOLEAN
    /\ Captures \subseteq [channel : Channels, window : Int \X Int, on : Channels \cup {None}]
    /\ None \notin Int \X Int

VARIABLES
    at,            \* where the worker is
    shot,          \* loop, step, dark_first and the window carried to the dark trace
    scope,         \* the digitiser and its driver
    shutter,       \* "open" or "shut"
    lightWindows,  \* light_windows
    traces,        \* the traces of this shot
    done,          \* the last StepDone
    alternate,     \* config.alternate_order
    mishaps, unread,   \* counted up to their bounds; at its bound a kind happens no more
    set            \* history: the light signal each range was set on, and whether it was
                   \* judged by a window that had been read back

scanVars == <<at, shot, scope, shutter, lightWindows, traces, done, alternate, mishaps, unread,
              set>>

NoTraces == [light |-> None, dark |-> None, clipped |-> None]
NoWindows == [s \in 1..Steps |-> None]
FirstShot == [loop |-> 1, step |-> 1, darkFirst |-> FALSE]

ScanInit ==
    /\ at = "idle" /\ shot = FirstShot /\ shutter = "shut"
    /\ mishaps \in {0, MaxMishaps} /\ unread \in {0, MaxUnread}
    /\ scope \in {Powered(w, Sync) : w \in Found}
    /\ lightWindows = NoWindows /\ traces = NoTraces /\ done = None
    /\ alternate = FALSE /\ set = NoWindows

Tag(which) == [of |-> which, loop |-> shot.loop, step |-> shot.step]

\* The queries of an autorange that may go unanswered.
Silences(autorange) ==
    IF autorange /\ unread < MaxUnread
    THEN {q \in SUBSET Queries : Cardinality(q) <= MaxUnread - unread} ELSE {{}}

\* Whether a reset works, and whether a count is answered.
Works == IF mishaps < MaxMishaps THEN BOOLEAN ELSE {TRUE}

\* One acquisition, with the resets, the average counts and the queries that may go wrong.
Takes(s, source, signal, tag, autorange, window) ==
    {[result |-> Acquire(framed.scope, source, signal, tag, emptied, counted),
      faults |-> (IF emptied THEN 0 ELSE 1) + (IF counted THEN 0 ELSE 1),
      silent |-> framed.silent] :
        framed \in {[scope |-> Windowed(Running(s, tag), source, signal, tag, autorange, window,
                                        silent),
                     silent |-> silent] : silent \in Silences(autorange)},
        emptied \in Works, counted \in Works}

\* The scope after it; an error ends the run.
Taken(take, next) ==
    /\ mishaps' = mishaps + take.faults /\ mishaps' <= MaxMishaps
    /\ unread' = unread + Cardinality(take.silent)
    /\ scope' = take.result.scope
    /\ at' = IF take.result.ok THEN next ELSE "cleanup"

-----------------------------------------------------------------------------
\* The setup frames the record, enables the bias output at the first levels and sets the
\* trigger, which a calibration does before its own record and again after it; the shutter
\* is the caller's.
TriggerUntouched(s) == s                     \* mutant: a calibration alone sets the trigger
OnSync(s) == Triggered(s, "CHAN3", Sweep)

Begin ==
    /\ at = "idle"
    /\ at' \in {"calibrate", "next"}        \* config.calibrate_trigger
    /\ alternate' \in Alternates
    /\ shot' = FirstShot /\ lightWindows' = NoWindows /\ traces' = NoTraces
    /\ done' = None /\ set' = NoWindows
    /\ shutter' \in {"open", "shut"}
    /\ scope' = OnSync(Framed(scope))
    /\ UNCHANGED <<mishaps, unread>>

\* The bench action capture_scope.  It refuses while a run is active (BenchActions).
Capture ==
    /\ at = "idle"
    /\ \E c \in Captures, took \in BOOLEAN :
           scope' = Captured(scope, c.channel, c.window, c.on, took)
    /\ UNCHANGED <<at, shot, shutter, lightWindows, traces, done, alternate, mishaps, unread, set>>

\* The Sync channel is put in a window that holds any Sync, then acquired with
\* autorange_first.
Calibrate ==
    /\ at = "calibrate"
    /\ \E take \in Takes(Configured(scope, "CHAN3", SyncStart), "CHAN3", Sync, Tag("sync"),
                         TRUE, None) : Taken(take, "next")
    /\ UNCHANGED <<shot, shutter, lightWindows, traces, done, alternate, set>>

\* The order of this shot: the dark trace first only where a light trace of this point
\* has set a range.
DarkFirst == alternate /\ shot.loop % 2 = 0 /\ lightWindows[shot.step] # None

\* The flag the shot will carry is the one stored with the window it will use.
DriversFlag == scope.clipped                 \* mutant: the flag of the last range set
CarriedFlag == lightWindows[shot.step][2]

NextShot ==
    /\ at = "next"
    /\ shot' = [shot EXCEPT !.darkFirst = DarkFirst]
    /\ traces' = IF DarkFirst THEN [NoTraces EXCEPT !.clipped = CarriedFlag]
                 ELSE NoTraces
    /\ at' = IF DarkFirst THEN "dark settle" ELSE "light settle"
    /\ shutter' = IF DarkFirst THEN "shut" ELSE "open"
    /\ UNCHANGED <<scope, lightWindows, done, alternate, mishaps, unread, set>>

\* light_part after its settle and the meter: take("light", autorange).
LightTaken(trace) ==
    /\ IF shot.darkFirst
       THEN traces' = [traces EXCEPT !.light = trace] /\ UNCHANGED <<lightWindows, set>>
       ELSE /\ traces' = [traces EXCEPT !.light = trace, !.clipped = scope'.clipped]
            /\ lightWindows' = [lightWindows EXCEPT ![shot.step] =
                                    <<scope'.window, scope'.clipped>>]
            /\ set' = [set EXCEPT ![shot.step] =
                           [signal |-> trace.signal, read |-> scope'.read]]

AcquireLight ==
    /\ at = "acquire light"
    /\ \E signal \in LightTraces :
       \E take \in Takes(scope, "CHAN2", signal, Tag("light"), ~shot.darkFirst, None) :
           /\ Taken(take, IF shot.darkFirst THEN "process" ELSE "dark settle")
           /\ IF take.result.ok THEN LightTaken(take.result.trace)
              ELSE UNCHANGED <<traces, lightWindows, set>>
    /\ shutter' = IF shot.darkFirst THEN shutter ELSE "shut"
    /\ UNCHANGED <<shot, done, alternate>>

\* dark_part: take("dark", autorange=False, window).
RangesToo == TRUE                            \* mutant: the dark trace sets its own range
DarkAutorange == FALSE
DarkWindow == IF shot.darkFirst THEN lightWindows[shot.step][1] ELSE None

DarkTaken(trace) ==
    /\ traces' = [traces EXCEPT !.dark = trace]
    /\ UNCHANGED <<lightWindows, set>>

AcquireDark ==
    /\ at = "acquire dark"
    /\ \E take \in Takes(scope, "CHAN2", DarkTrace, Tag("dark"), DarkAutorange, DarkWindow) :
           /\ Taken(take, IF shot.darkFirst THEN "light settle" ELSE "process")
           /\ IF take.result.ok THEN DarkTaken(take.result.trace)
              ELSE UNCHANGED <<traces, lightWindows, set>>
    /\ shutter' = IF shot.darkFirst THEN "open" ELSE shutter
    /\ UNCHANGED <<shot, done, alternate>>

\* The StepDone, and the next point or loop.
Process ==
    /\ at = "process"
    /\ done' = [shot |-> shot, light |-> traces.light, dark |-> traces.dark,
                clipped |-> traces.clipped, set |-> set[shot.step]]
    /\ shot' = IF shot.step < Steps THEN [shot EXCEPT !.step = @ + 1]
               ELSE [shot EXCEPT !.step = 1, !.loop = @ + 1]
    /\ at' = IF shot'.loop > Loops THEN "cleanup" ELSE "next"
    /\ traces' = NoTraces
    /\ UNCHANGED <<scope, shutter, lightWindows, alternate, mishaps, unread, set>>

\* Any call to an instrument may raise, a stop is asked for, an abort closes it: cleanup.
Ends ==
    /\ at \notin {"idle", "cleanup"}
    /\ at' = "cleanup"
    /\ UNCHANGED <<shot, scope, shutter, lightWindows, traces, done, alternate, mishaps, unread, set>>

Cleanup ==
    /\ at = "cleanup"
    /\ at' = "idle" /\ shutter' = "shut"
    /\ shot' = FirstShot /\ lightWindows' = NoWindows /\ traces' = NoTraces
    /\ done' = None /\ set' = NoWindows
    /\ UNCHANGED <<scope, alternate, mishaps, unread>>

\* The settles, in which the worker sleeps.
Settled ==
    /\ at \in {"light settle", "dark settle"}
    /\ at' = IF at = "light settle" THEN "acquire light" ELSE "acquire dark"
    /\ UNCHANGED <<shot, scope, shutter, lightWindows, traces, done, alternate, mishaps, unread, set>>

ScanNext ==
    \/ Calibrate \/ NextShot \/ AcquireLight \/ AcquireDark \/ Process \/ Cleanup

-----------------------------------------------------------------------------
\* A stored trace averages its own acquisitions only: nothing of the light is folded into
\* the dark trace, and nothing of an earlier shot, calibration or run into either, though
\* the instrument keeps its averages until they are emptied (infiniium.py:20-27).
TracesArePure ==
    done # None =>
        /\ \A which \in {"light", "dark"} : done[which].folded =
               {[of |-> which, loop |-> done.shot.loop, step |-> done.shot.step]}

\* The two traces of a shot were taken in one window, whichever came first and whatever
\* other points were ranged in between (transient.py:752-764).
TracesShareTheRange == done # None => done.light.window = done.dark.window

\* A light trace that is not flagged as clipped lies inside its window, as long as the
\* signal of that point has not changed since the range was set on it, in a loop earlier
\* or now, and the last pass that set it was judged by a window the instrument had told:
\* ranges that went unanswered before are made good by one that is answered
\* (transient.py:643-646, infiniium.py:336-352).
UnflaggedTracesFit ==
    done # None =>
        (~done.clipped /\ done.set.read /\ done.light.signal = done.set.signal =>
             Fits(done.set.signal, done.light.window))

\* The same of a range the instrument did not tell: "Read-back is required after growth"
\* (infiniium.py:336).  The code goes on without one.
ClippingIsFlagged ==
    done # None =>
        (~done.clipped /\ done.light.signal = done.set.signal =>
             Fits(done.set.signal, done.light.window))

\* Both are averages, on the run's timebase and its trigger, whatever a person has captured
\* by hand before the run (infiniium.py:448: the next run sets them again).
TracesAreTheRuns ==
    done # None => \A which \in {"light", "dark"} :
        done[which].under = [average |-> TRUE, frame |-> "run", source |-> "CHAN3",
                             sweep |-> Sweep]

\* A shot's traces are its own: no fetch of another, one window for both, no clipping that
\* is not flagged, and nothing of a capture by hand.
TracesAreWhole ==
    TracesArePure /\ TracesShareTheRange /\ UnflaggedTracesFit /\ TracesAreTheRuns

\* Calibrating the trigger leaves the window of the current channel alone: "Only the light
\* trace ranges" (infiniium.py:233-262).
CalibrationSparesTheCurrent ==
    [][at = "calibrate" /\ at' = "next" => scope'.chan["CHAN2"] = scope.chan["CHAN2"]]_scanVars
=============================================================================
