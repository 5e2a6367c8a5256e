# BACE: a formal model of the bench service

BACE drives a solar-cell bench (source-measure unit, pulse generators, oscilloscope, relays, shutter,
temperature controller, power meter) from a Python service, `src/bace/service`, that a browser console,
scripts and an agent endpoint use. This directory holds TLA+ modules translated from that code, TLC
configurations that model-check them on small instances, and proofs that hold for every value of the
constants.

`PROJECT.json` gives, for every definition that models code, the source lines it stands for; below is
the same correspondence in words. Paths without a directory are under `src/bace/service/`.

## 1. The system

### 1.1 Components

| Component | State it keeps | What makes it correct | Here |
|---|---|---|---|
| Bench worker (`worker.py`) | queue, current job, `bus` lock; per job: state, stop mode, pause flag, `parked` | one job on the bench, submission order, park before the next job, a stop always ends the job, a reply answers its own pause, an outcome is final | `RunWorker`, `JobQueue` |
| Session records and event path (`session.py`) | run records, session lock, callbacks posted to the event loop, journal | the record ends with the worker's outcome, waiters wake on a parked bench, an accepted stop stays visible | `RunSession`, `RunRecords` |
| Bench actions (`session.py`) | `_job_done` events, session lock | a park stops the runs it saw, a cancelled action never runs, no lost wake-up | `BenchActions` |
| Cards and queued recipes (`session.py`, `modules.py`, `../params.py`) | layers of values, the copy a run was queued with | a queued run measures what it was queued with; what nobody chose follows the file | `TriggerChain` |
| Event stream (`session.py`, `app.py`, `src/ui/lib/stream.js`) | ring, subscriber queues, the client's cursor and incarnation | bounded memory, every frame in order on a socket, nothing lost but what the ring discarded | `EventStream` |
| Page store (`src/ui/lib/store.js`, `watch.js`) | bench, runs, pause, rail, requests in flight | a page that has every frame shows the bench, whatever landed late | `PageStore` |
| Experiment plans (`plans.py`) | plans, decisions, charges | no envelope overspent; a person approves what the page showed | `PlanBook` |
| Trees, schedules, cost (`pipeline.py`, `modules.py`, `journal.py`) | none (pure) | a bace takes its V_oc from the right J-V; an accepted tree is not refused half way; cost and time left agree | `Pipeline`, `Estimates` |
| Executor (`executor.py`) | place in the schedule, open loops, labels, providers, tally | nodes open and close in pairs, labels are true, one last word | `Executor` |
| Temperature loop (`temperature.py`) | dwell, misses, deadline, pause | settles only after the dwell, writes once, every silence ends | `TemperatureLoop` |
| Monitors and watchdog (`monitors.py`, `rigs.py`, `../drivers/lakeshore331`) | fault count, last reading | a lasting fault turns the heater off; a verdict is that of its own watts | `Observers` |
| Journal (`journal.py`) | JSON-lines file, next sequence, run count | a crash costs one line, ids are never reused, an ended run is answered | `Journal` |
| Bench, relay, shutter, measurements, checkout (`../experiment`, `../drivers`, `rigs.py`, `../bench`) | outputs, lines, each driver's memory of them | no relay moves under a source, labels tell the light, a parked run leaves the device dark | `Bench`, `Measurements` |
| Live overlay (`live.py`) | inferred shutter, relay, outputs | true whenever something is measured | `LiveOverlay` |
| Oscilloscope and scan (`../drivers/infiniium.py`, `../experiment/transient.py`) | window, averager, clipping flag, windows per point | a trace averages its own acquisitions, both traces of a shot share a range | `Digitizer`, `TransientShots` |
| Storage (`../storage`) | accumulators, files | what was measured reaches the file; one fault never costs both files of a J-V | `RunFiles` |
| Keithley console (`src/examples/keithley_console`) | job queue of the bus thread, panel, output as last read | compliance before level, a queued output-off is written, the page sees the output | `SourcePanel` |

`PROJECT.json` lists the rest (wire formats, MCP and assistant, launcher, simulated bench, two small
tools) with the reason it is not modelled.

### 1.2 How they interact

* **Calls.** HTTP handlers run on the event loop's thread and call `Session.submit`, `stop`, `resume` and
  the plan operations. Bench actions, read-backs, the shutdown and `close` run in a thread pool. All of
  them call into the worker, which has a lock of its own; `Session._lock` is held across some of those
  calls (`submit`, `bench_action` up to its submit) and not across others (`stop`, `resume`).
* **Callbacks.** The worker reports events and states to `Session._on_event` and `_on_state` on its own
  thread. With an event loop attached the report is posted with `call_soon_threadsafe` and applied
  later; without one it is applied in place.
* **Generators.** A run is a generator the worker drives: the executor walks a schedule and delegates to
  modules, which delegate to the measurements. At every yield the worker may close all of them.
* **Shared locks.** `worker.bus` is the GPIB bus: the worker holds it for the whole of a job and its
  park, a monitor takes it with a nonblocking attempt. The power meter has a lock of its own.
* **Messages.** Frames are numbered in `_ingest`, journalled, kept in a ring, and put on each
  subscriber's queue; the WebSocket handler replays the ring and then pumps the queue; the client
  deduplicates by number, folds frames into its store and fetches records and bench beside the stream.
* **Memory of hardware.** Each driver remembers what it last wrote; interlocks ask that memory, not the
  instrument.

### 1.3 What is hard here

Two threads that race for a queued job; a reply that crosses into a later pause; reports applied after
the state they report has changed; waiting with a timeout for a job that may be popped at that moment; a
slow reader dropped while its replay is under way; answers that land behind the frames that outdate
them; a driver's memory that a failed call or a front panel makes wrong; any call of a measurement that
raises between light and dark; a fault count fed by two threads; a disk that refuses a line or a process
that dies within one. `hazards` in `PROJECT.json` lists each at its line with the properties that would
catch it.

## 2. The modules

**`RunWorker`** is the concurrent core. One action is one atomic step of a thread: what happens under a
lock, or between two points where another thread can be seen.

| Code | Actions |
|---|---|
| `submit`, `cancel`, `stop_runs`, `shutdown` | `Submit`; `Cancel`, `StopRuns`, `Shutdown` are the locked parts; `MarkCancelled` (one job at a time, outside the lock) and `Return` (the abort of the job that was current) are their tails |
| `Job.request_stop`, `Job.resume` | `RequestStop`; `SendResume` is the request leaving the console and `Resume` its arrival, so a request may be late or sent twice |
| `_loop` | `Take`, `LeaveLoop`, `AcquireBus`, `ReleaseBus`, `ClearCurrent`, `BaseExceptionEscapes` |
| `_execute` | `MakeReturns`, `MakeRaises`, the generator's steps, `HandleEvent`, `CloseOnAbort`, `Continue` |
| `wait_for_operator` | `EnterWait`, `WaitReady`, `LeaveWait` |
| `_finish` | `Finish` (the outcome is reported first), `Park` (then `parked`) |

**`JobQueue`** is the abstract specification: the waiting jobs, for each the jobs submitted before it
(`ahead`), one active job on the arrows of the run-state diagram, park before retirement. `RunWorker`
implements it (`ImplementsJobQueue`, in the same module): a job's `Phase` is its state, except that a
withdrawn job counts as cancelled from the moment it left the queue, and `AheadOf` reads the order off
the tickets.
`MayEscape` lets a job retire unparked, which the code does only when an exception escapes the park. The
diagram of `docs/service-contract.md` has no arrow from `stopping` to `paused`; the code takes it.

**`RunSession`** EXTENDS `RunWorker`: every worker step is conjoined with the reports it makes.
`Dispatch` posts them or applies them; `RunCallback` is the loop running one callback, and `After` what
a report makes of a record. `Session.submit`
is `SubmitRun`, `OpenRecord` under one lock; `stop` is `StopQueued`, or `StopAccepted`, `StopRequested`,
`StopTold`; `SendReply`/`Answered` is resume; `ParkRequested`, `CancelTold` and `Returned` are
`bench_action("park")` and the tails. The lifespan's end is `BeginShutdown`, `JoinReturns`, `Drained` and
`Close`; a script's is `ScriptCloses`. `attached` tells the two ways of running the session apart.

**`BenchActions`** composes `JobQueue`, which `RunWorker` implements, with pool threads inside
`bench_action`, `bench_read` and `_await`: `Request` takes the lock, `ReadCurrent` and `ReadQueued` are the
two reads of `run_active`, `Refuse`, `StopRuns` or `NoActiveRun` decide, `Register` makes the event,
`SubmitAction` or `SubmitRefused` leave the lock, `Finished`, `Timeout`, `CancelLate` are `_await`.

**`EventStream`** is `_fan_out` with its two limits (`Publish`, `PublishLive`), the handler (`Connect`,
`ReadReplay`, `SendReplay`, `StartPump`, `Pump`) and the client (`ReceiveHello`, `SessionChange`,
`ReceiveFrame`, `ReceiveNotice`, `ReceiveClose`, `Lose`). `Restart` is a new process. **`PageStore`**
EXTENDS it with what the frames say: `Ingest` folds one event of a `script` into the session's records,
`TakeFrame` into the page's; `Boot`, `Answer` and `Land` are the HTTP answers, `StartFetch`/`FailFetch`
the watcher's refetch. `Snapshot` is GET /bench, at each instant the worker may be in.

**`PlanBook`**: `Propose`, `Show` (a page loads a plan), `Approve` with the content the page had,
`Reject`, `Close`, `Submit` (check and charge), `Tick`, and `Restart`, after which the same ids are given
again. A fingerprint is the content itself, since it is a hash of it. `FromWire` says which envelopes are
accepted and `Fits` which trees an envelope lets run; `AxisFits` and `ScanAllowed` hold the points of a scan.

**`Pipeline`** is `pipeline.py` as operators: `WellFormed` trees, `Resolve` into a schedule, `VocSource`
for each bace, and `Valid`, the checks that refuse. **`Estimates`** is the cost (`Estimate`) and the time
left (`EtaFrom`), two code paths over one schedule. **`Executor`** EXTENDS **`TemperatureLoop`** and walks
such a schedule: `Enter`, `Entered`, `Exit`, `StartModule`, `Build`, `Complete`, `Raise`,
`StopInModule`, `StopAtNode`, `CloseOne`, `TellEnd`, `Return`; a temperature loop runs the settle
(`Begin`, `Read`, `Write`, `Judge`, `OpenPause`, `Resume`, `Leave`). `MCExecutor` composes them: every
tree of a small grammar that `Valid` accepts is resolved and run. `Nest` names the iterations a step lies
in, and `Paired` says that a schedule's entries and exits match, which is what the executor asks of one.

**`Bench`** interprets programs: a program is a sequence of driver calls with the code's `try`/`finally`
scopes, and any call may raise, having taken effect or not, and any yield may be the last. It keeps the real
outputs and lines beside each driver's flag and cache, `BiasRouter` (`Route`), explicit moves (`Move`),
the read-back before a run (`StartRun`), front panels and crashes. **`Measurements`** holds the programs
of the code: J-V, bace, light, park, intensity series, the bench actions, the checkout stages.
**`LiveOverlay`** folds the yields (`Tell`) and is held against the bench.

**`Digitizer`** is the scope driver as operators (`Autoranged`, `Windowed`, `Running`, `Acquire`, `Captured`), with the
settings each acquisition was taken `under`, and the queries that it leaves unanswered (`silent`);
**`TransientShots`** the scan around it (`Calibrate`, `NextShot`, `AcquireLight`, `AcquireDark`, `Process`,
`Cleanup`); **`Observers`** EXTENDS it with a capture by hand between runs (`CaptureScope`) and the threads
beside: `MonitorTick`, `WorkerPoll`, `Count` and `Cut` of the watchdog, `ReadPower`, `LookAtLast`, `Report` of
the power readings; `fitted` tells a bench that has them from one that has not.

**`TriggerChain`**: `EditParams`, `ResetParams`, `SetSample`, `Submit` (the recipe keeps its `Context`),
`Start` (read-back and verdicts), `DriveLed`, `SetUp`, `EndStep`, `ParkBench`, three bench actions and
`Restart` with another run.toml.

**`RunFiles`** is the recorder and the J-V recorder step by step (`Shot`, `Point`, `Open`, `Fill`,
`Refuse`, `Crash`). **`RunRecords`** EXTENDS it with everyone who counts: executor tally, worker,
session, registry, journal reduction, accumulator, and the files read back after `Evict`.

**`Journal`**: `OpenFile` (a resumed session, or a new one that `Begin` gives its header), `Submit`, `TellState`,
`RunRefused`, `CloseFile`, each append kept, refused by the disk, or cut by a crash; a process whose header
is refused does not come up. `Answer` is what the run index says.

**`SourcePanel`**: handlers (`Submit`, `TimesOut`, `SetPoll`, `AskState`), the bus thread (`TakeJob`,
`Ticks`, `AskOutput`, `SetOutput`, `BeginSource`, `Write`, `Applied`), `Seal`, `Stop`, `Joined`; `Hand` is
the operator at the OUTPUT key.

The `MC` modules give the constants their small values and hold the properties that speak of the
instance, or of a composition made there.

## 3. Model checking

| Run | Instance | What it shows | Properties |
|---|---|---|---|
| `worker_live` | a run with a pause, a bench action, one caller, one escaping exception | who owns a queued job, the pause protocol, one RunAborted and only for a stop somebody asked for, final outcomes, `JobQueue` implemented; a stop ends the job, a shutdown drains, the queue moves | `Ownership`, `PauseProtocol`, `StopsAreTold`, `TerminalIsFinal`, `ImplementsJobQueue`, `AskedIsDone` |
| `session_served` | a run with a pause, the loop's thread and a pool thread, both ways of attaching | record, waiters, journal and the release of the bench, for every order of reports and calls; an ended job reaches the record and its waiters | `RecordFollowsTheRun`, `EndIsOrderly`, `RecordsStayEnded`, `EndsAreRecorded` |
| `bench_calls` | a run, two clients, each with any of three requests | park clears the way and reaches the bench; no client is told the wrong thing or sleeps through its wake-up | `ParkClearsTheWay`, `CallersAreAnswered`, `ParkReachesTheBench` |
| `page_follows` | five histories of four events over two runs, ring, backlog and wire of one, one mishap (restart, lost connection or failed fetch) | the stream is bounded, ordered and complete up to the ring; the page takes the last frame and then shows the bench | `ShowsTheBench`, `StreamKeeps`, `PageCatchesUp` |
| `plans_person` | two sound envelopes and two refused, trees on both sides of each bound, two recipes, two ids, four instants, costs up to a whole budget | budgets, approval of what was shown, expiry, scans within what was approved whatever the layers add, final decisions | `BudgetHolds`, `ApprovalHolds`, `DecisionsAreFinal` |
| `executor_walk` | the accepted ones of 110 trees, three benches, two temperatures | nodes closed and labels in force, one last word, the V_oc of the right J-V, cost and time left, no refusal half way, each settle written once, held and judged in time, an end | `NodesAreTrue`, `OneLastWord`, `ScheduleIsKept`, `SettleKept`, `ComesToAnEnd` |
| `relay_bench` | seven runs, the bench actions and close, six checkout stages, panel presses, crashes, any failing call | cold relay, the right source driven, dark after park, true labels, true overlay while measuring | `ColdRelay`, `DeviceIsSpared`, `MeasuredAsSaid` |
| `journal_crash` | two sessions, seven lines, one refusal, two crashes | one line per crash, rising numbers, run ids apart, outcomes answered | `FilesStayUsable`, `RunsAreRemembered` |
| `panel_console` | one handler, three requests, one mishap (key press or fault) | limits, order of writes, output-off never lost, display true | `DeviceWithinLimits`, `SwitchesAsMeant`, `DrawnAsItIs` |
| `files_interrupted` | two points, two loops, J-V curves, trees of up to three modules, a refused write, a lost line, a crash anywhere | what was measured reaches the file; registry, journal, memory and files agree | `ShotsReachTheFile`, `CurvesAreWhole`, `OneStory` |
| `observed_scan` | two points, two loops, a capture by hand before the scan; with a 331 and a meter, a scan that reads the meter, limit 2, one silence, one refusal; without them, one lost reset or count and one unanswered range or offset | whole traces on one range, what is not flagged inside it; the cut at the limit; no reader judges another's watts; a lasting fault ends the heat | `TracesAreWhole`, `ObserversAgree`, `FaultEndsTheHeat` |
| `queued_recipe` | two run.toml files, two runs, two edits, the file's sample and one named by hand, one restart | extraction at light off, verdicts and file true, recipe and sample as queued, choices only remembered | `ChainIsTold`, `ChoicesHold` |

**Composite properties.** Several properties are conjunctions of named parts, each with a comment of its own; a part
can be checked by itself by naming it in the cfg.

**Bounds.** `MaxPauses`: one pause is enough for what `worker_live` asks, since `PauseProtocol` and
`Ownership` are proved for any number of pauses and callers. `MaxYields = 1` lets a stop arrive before, at and
after a yield. One run and one action are the least at which a job waits behind another. `page_follows` takes
the ring, the backlog and the wire at one so that eviction, drops and replay happen within four events. Two
loops and two points are the least at which a range or an average can come from the wrong one; alternation
needs the second loop. Two crashes let a torn line meet a resumed file twice. A mishap bound of one lets each
fault happen anywhere, alone; two faults may cost a J-V run both its files, and `CurvesSurviveOneFault` says
so. One capture by hand, of one channel, changes the scope's set-up, which a scan then has to undo. `MaxUnread
= 1` leaves an autorange without its first range or offset or without one read-back after a growth. `Volt` is
wider than the range a sane trace needs and narrower than the one the run finds, so that a range that is not
told may be believed too wide or too narrow. The scope fails only on a bench without observers (`Together =
FALSE`), since nothing of the scope's troubles reaches them; the proofs make no such choice. `Limit = 2`
stands for the three bad polls of the code and is the least at which two threads share the count. Deadlock is
not checked: each of these systems may stop, by a shutdown, with every call answered, or with the bounds used
up.

TLC also evaluates the assumptions: among them `ScheduleAssumption`, that all 110 trees resolve into paired
schedules, and `NoLabelOutlivesItsLoop`, a hypothesis of `NodesStayTrue`.

**Fairness.** The worker's thread, a pool thread inside a call, the WebSocket handler, the browser's
callbacks and the console's threads are scheduled (WF). Strong fairness is used where a lock is
contended. A thread blocked on the bus lock gets it, because the monitor sleeps between nonblocking
attempts; in `RunSession` a thread waiting for the session's lock gets it, every holder being inside a
short call; in `Observers` the meter's lock comes free between ticks a second apart. In `BenchActions`
the end of a job that was asked to stop is strongly fair, because the step contends with the job's other
transitions; that it ends is `StopEndsCurrentJob` of `RunWorker`. In `PageStore` one WF on all deliveries
suffices, since the deliveries that can follow one another are finitely many. `Observers` assumes that a
scan leaves each place it reaches (`[]<>(at # place)`): its steps wait for nobody. Nobody has to submit,
stop, resume, ask, press or reconnect by hand.

Each property is also run against a mutated definition (`mutants` in `PROJECT.json`; the mutated operators
stand beside the originals, marked `mutant`), and fails there.

## 4. Proofs

Each holds for every value of the constants that satisfies the named assumptions.

* **`RunSessionProofs`**, the worker. `TypeCorrect`. `OwnershipInvariant`: `TypeOK /\ Ownership` is inductive, neither
  part alone: that a queued job is not the current one needs the state of the current job at each point of
  the thread (`CurrentStateFollowsThread`), and that needs the owner of a queued job.
  `MonitorExclusion`: without an escaping `BaseException` the bus is the worker's exactly from `make` to the
  release (`BusFollowsThread`), so no monitor's read overlaps a job. `OutcomesAreFinal` follows from
  `Ownership`: only the current job and withdrawn jobs change state. `PauseCorrect`: the
  inductive invariant adds `FlagFollowsPause`, the flag is up only while the generator is at a pause, and
  a reply is kept only behind the flag. `StopsTold`: the inductive invariant `Told` adds
  `StopsAreAsked`, whose stop it is in the outcome, the event in hand, the pause's answer and the
  generator's way out of it, and `OneAbort`, what `said` knows of the RunAborted told.
  `WorkerImplementsQueue`: every action is a step or a stutter of `JobQueue`. A stopping thread cancels a job
  it withdrew earlier, which is why `Withdrawn` is part of the mapping; that the job popped is ahead of all
  that wait follows from the order of tickets, that it is active alone from `Ownership`.
* **`RunSessionProofs`**, the session. `SessionInv` says of every post under way that it is true of the worker and which
  posts of the same run come before it (`PostsAreTrue`): a record lags behind, but what is still to be
  applied brings it level (`RecordsAreTrue`). What the loop's thread holds in a half-done submit or stop
  (`HandIsKept`), who was asked to stop (`StopIsNotTakenBack`) and what the journal lacks (`LinesAreTrue`,
  `ParksAreTrue`, `EndInTime`) are parts of it, since each is used by a later report. `RecordFollows`,
  `WaitersAreRight` and `OutcomesStayShown` hold whatever escapes; `OrderlyEnd` assumes `~MayCrash`, since
  an exception that escapes the park leaves a run without `parked`.
* **`ObserversProofs`.** `TracesStayWhole`: `ScanInv` follows each setting of the scope from where it is written
  to the trace it governs. It assumes `OneAtATime`, that no one acquisition loses both its reset and the
  read-back of its count, which the code does not survive; `OneMishapIsNoticed` discharges it for
  `MaxMishaps <= 1`. The autorange is recursion over passes; what it returns is proved by the least pass that
  would differ (`RangedFits`: a window that was told is the one in force, for any queries that go unanswered and however
  many; so what is judged by it and not flagged fits). `CutComesAtTheLimit`: `WatchInv`, the count is the run of bad polls
  unless a thread is inside the watchdog, and the thread that reached the limit is about to cut. `ObserversStayTrue`
  adds `ReadingsKeptApart` by `MeterInv`: whose watts the meter holds while each of the two readers is between its two looks,
  a scan that reads the meter without the lock included (`ScanCameBetween`).
* **`PlanBookProofs`.** `Book` (types, budgets, runs within the approval, `DecidedInTime`: what a decided
  plan remembers of who saw it and when, and `RanFits`) is inductive, assuming whole numbers in envelopes
  and natural costs. `BudgetTheorem`, `ShownTheorem`, `ApprovalTheorem`, `FinalTheorem` follow.
  `SweptTheorem` needs the lemma `AxisHoldsScan`: a range holds every point between two ends it holds, for
  any step the layers give (`RangeHoldsScan`), and discrete choices were compared point by point.
  `PlanHeldTheorem` joins three of them.
* **`ExecutorProofs`.** First one settle: `Inductive` is types and `Clock`, which relates the dwell, the run
  of good polls, the misses and the elapsed time to the place in the loop; from it `SettledMeansHeldAlways`,
  `DeadlineAlwaysHolds`, `SetpointLabelIsLast`, `WrittenAtMostOnce`, and `SettleSound` for all four. The lemma
  `RefinesSettle`: what the executor does with the settles is one settle after another, every other step being
  a stutter, from `Place` (the loop is idle unless a temperature node is being entered); `NodesAreHeld`
  carries `SettleSound` over. `OneLastWordAlways`: from `Words`, which says what has been told at each place.
  Then the walk: `WalkInv` adds `Tree` (the open iterations are exactly `Nest`, so an exit finds its own
  innermost), `Account` (nodes told and not done are those and the running module), `Dated` and `LabelsHold`.
  `NodesAreAccounted` holds for any paired schedule. `NodesStayTrue` (`NodesAreTrue`) needs
  `KeepsItsSetpoint`: no measurement comes back to a label after another setpoint. In a schedule that does the
  property can fail (`Stale`, section 5); TLC evaluates the hypothesis for every schedule of the run.
* **`BenchProofs`.** `FlagsKnow`: in a run or action that no exception has stopped, a driving source has its
  flag up or was never read in this job, whatever the programs. `RelayMovesCold` (`ColdRelay`) follows,
  with what the lines can be (`LinesStay`) and that only the router moves the relay (`Movers`). It
  assumes of the programs what `BenchAssumption` names and TLC evaluates on those of the code: no
  suppressed ON, no relay move in a `finally`.
* **`BenchProofs`**, the callers. `CallsInv` is inductive: `Ordered` (of two waiting jobs one is ahead), `Placed`
  (where a caller stands tells whether its job and its event exist), `EndedAsTold` and `Cleared`. `ParkIsClear`
  needs the last for the whole span between stopping the runs and submitting the park: nothing can be
  queued there, because the lock is held. `CallersHeard` needs that the event was made before the submit.
* **`StorageProofs`**, the files. `CurvesTheorem` (`CurvesAreWhole`): `SweepInv` joins what is in memory with what is
  still to be written. `SweepStands` says that the curves finished and the one begun are the sweep so far,
  each under its light; `FlushStands` and `FlushTodo` what the last flush holds and which files it has not reached
  yet; `CurvesOnDisk` what a file holds at each of those places, a crash or one refusal included.
  `ShotsTheorem` (`ShotsReachTheFile`): `ShotsInv` adds that the shots taken are the first n of the scan, loop by loop
  (`ShotsInOrder`), and that each cell of the average holds the loops shot at its step (`ShotsRecorded`), so that the file's
  rows are the means of all of them. Both hold for one recorder and, by `RecordsAreFiles`, for the
  several of a tree in `RunRecords`. `NothingAssumption` only says that the value that stands for no file is not one.
* **`StorageProofs`**, the session's file. `CrashesTheorem` (`OneLinePerCrash`): `CrashesPay` counts the accepted
  lines that are hurt, which can no longer be read or end without a newline, and the files that end so; every step
  that adds one is a crash, or takes a file off (`Pays`). `FilesTheorem` (`FilesStayUsable`): `Numbers` says that
  the numbers rise on disk and will once each process has flushed, for a file is always a `Thin` copy of what was
  written. `MemoryTheorem` (`RunsAreRemembered`): `Memory` joins five parts. A file without a newline at its end has a
  torn last line (`Torned`), so nothing known is lost to the next; the run ids in a file are exactly 1 to n, which
  is why the number of ids seen may serve as the last id given (`RunsInStep`); a process's own runs are numbered apart
  from the others' (`Given`); after an outcome only `parked` follows (`Stories`); and what was accepted of a run is in
  the memory of the process that has it (`Remembered`). The last two theorems assume `[]OneWriter`, that no two
  processes that are up have one file: two would number and count past each other, and nothing in the code
  locks the file. One process satisfies it, as in `journal_crash`.
* **`TriggerChainProofs`.** `ChainStaysTold` and `ChoicesStay` are all of what `queued_recipe` checks, for any
  layers that the registry accepts (`RecipeAssumption`: every layer is coerced as it is filled). `ChainInv`
  keeps, at each place of a step, what the recipe has had written so far (`Lit`, `Written`), that the
  verdicts are those of the read-back (`Told`) and, for the first step, which of what was read is not going
  to be written (`Unwritten`): without it a verdict of the read-back says nothing of the shots. That the last
  run's choices exist takes the least distance from the end of the list (`LastIsLayer`).
* **`SourcePanelProofs`.** `DeviceStaysWithinLimits`, in two parts. That the closing off is last needs
  `WayOut`: a sealed queue holds wakes and the closing off only. That a level never stands under a looser
  compliance needs to know what the writes still to come leave (`Left`: narrow before the level, widen after
  it) and that the change asked the output before it wrote (`Asked`). `FunctionStaysPut` and
  `ReadingStaysTrue` follow from the same `PanelInv`: between changes the panel is what the 2400 was
  set to (`Standing`).

Only model-checked: every liveness property (fairness and ENABLED are outside the prover), with the parts
of `DrawnAsItIs` and `SwitchesAsMeant` that are not named above; `ScheduleIsKept`, which speaks of what `Resolve`
computes; `OneStory`, which reads the tree that `RunRecords` resolves; and the properties of `PageStore`,
and of `Bench` all but `ColdRelay`. `Pipeline`, `RunRecords` and `Estimates` compute by recursion over data, whose
induction the prover cannot do. To state a theorem for any data a proof needs a recursive function and an
argument by least counterexample, as in `ObserversProofs` and
`TriggerChainProofs`.

## 5. Where the code and its documentation part

Each of these is confirmed by TLC: name the property in a cfg in place of the run's own, with the constant given here. Four
configurations are kept for that: `MCExecutor_promise`, `MCRunFiles_stop`, `MCJournal_torn` and
`MCTriggerChain_file`, all violated.

**Worker, session, stream.**
* `ParkWaitsForNoRun`, `BusyWhileARunIsActive` (`session.py:1221`): `run_active` reads `current` and then
  `queued`; a run popped in between is in neither, so a park is queued behind it without stopping it, and
  an action is let in instead of answering Busy.
* `AwaitTrueMeansItRan` (`session.py:1377`): an action cancelled by the shutdown wakes its caller, and
  `_await` answers True.
* `AcceptedStopStaysShown` (`session.py:1782`): a pause that was opening when a stop was accepted takes the
  record from `stopping` to `paused`.
* `JournalHoldsEveryOutcome` (`session.py:634`): a worker that outlives the first join and ends inside
  `close` posts its outcome after the drain. `RecordRetainsTheOutcome`: without an event loop a stop being
  accepted may say `stopping` after the outcome.
* `DuplicateNeverAnswersLaterPause` (`worker.py:209`): a duplicate reply in flight when the next pause
  opens answers it. `NoReplyAcceptedAfterTheEnd`: a job aborted at NeedsOperator keeps its flag.
* `StoppingLeadsToAnOutcome`: `stopping` may be followed by `paused`. `BusHeldThroughoutJob`: after a
  `BaseException` the park is outside the bus lock.
* `NoFrameTwice` (`src/ui/lib/stream.js:142`): a client dropped while its Hello is sent is replayed past the
  drop; the notice then moves its cursor back.
* `IdleOnceCleared` with `LateClear = TRUE` (`worker.py:387`): a snapshot taken after `parked` is out and before `current` is
  cleared shows the ended run as stopping, and no later frame corrects it.

**Trees, executor, files.**
* `NamedAxisStaysWithin` (`plans.py:119`): a tree that sets `axis_name` and neither end sweeps that parameter over
  the layers' ends, which no bound of the plan is compared with.
* `ReadIsOfThisNode` with `LateLabels` (`executor.py:425`): a node after a temperature loop keeps the label of an earlier
  read. `SettledIsInForce` with `Stale`: a temperature module's setting survives, as a label, a loop that
  moved the controller since.
* `PromisesAreMeasured` with `Unkept` (`pipeline.py:849`): a typed `led_v` is scheduled as a level that
  the J-V does not measure. `VocOfThisIteration` with `SameTwice`: two iterations at the same
  temperature have one name.
* `RefusedForLackOfVoc` with `Nothing`: a light with nothing to set, an integration width of zero, a negative
  pinned delay pass the checks and are refused half way (`modules.py:1316`).
* `EveryExitFlushes` (`../storage/recorder.py:222`): a scan stopped in its first loop cannot be averaged and
  is not written. `FlushedIsReadable` (`journal.py:154`): the first line after a torn one is lost with it.
  `RunsStayApartAlways` (`session.py:540`): after a lost `RunQueued` a resumed session can give its id again.
* `CardExpectsRecipe` (`session.py:936`): the bench card compares with the recipe of the last
  run, or the file's, and not with the one the card holds.
* `FileSaysTheLed` (`modules.py:1434`): the state read after the writes does not pass through the recorder,
  so that the file has the LED polarity found at the start of the run, and not the one the run wrote, where
  `tests/test_acceptance_20260902.py:182` calls `/config/resolved` a readback.

**Bench, drivers, console.**
* `EnabledWhereRead` (`../bench/sync.py:281`): the relay is read, its handle closed, which drives the line
  low, and the output enabled on the strength of the reading; `_walk_dio_states` does likewise.
* `RelayFollowsPosition` with `Bridged = TRUE` (`../drivers/win32bridge/server.py:44`): through the helper
  both lines share one handle, and a relay move drives the shutter.
* `ReadingsAreWhole` (`../experiment/transient.py:726`): a scan that reads the meter itself, as it does by default,
  does not take the meter's lock, so that the monitor may judge its own watts by the scan's status.
* `ClippingIsFlagged` (`../drivers/infiniium.py:336`): "Read-back is required after growth", but when
  `:CHAN2:RANG?` is not answered the range asked for is believed in force and the ceiling is not looked for; before
  the first pass 1 V about 0 V is believed. A trace can then be clipped and not flagged, which is why `UnflaggedTracesFit`
  asks that the last pass had a window that was told.
* `CalibrationSparesTheCurrent` (`../drivers/infiniium.py:668`): calibrating
  on the Sync ranges channel 2, which carries the current. `OnlyWellHeatersReset`
  (`../drivers/lakeshore331/controller.py:184`): a poll whose heater query was not answered resets the count.
* `HandIsNoticed` (`panel.py:829`): with the display running and no panel applied yet the OUTPUT key goes
  unseen. `DisplayAsShown`: two handlers may set the page's field in one order and the bus's in the other.

**Seen while modelling, too fine for the models to tell.** With `trigger_slope_positive = False` the card
expects INV of every recipe (`rigs.py:1040`) though the run writes NORM (`modules.py:1414`). The overlay shows the
shutter shut while lit in a bace after `jv_bace`, and open though shut with `light_shutter="shut"`; it
shows the relay at the amplifier during `measure_dc`. After an early end module totals differ: a J-V
stopped in its second curve is 1/1 in the journal and k/2 in the registry.

## 6. What the models leave out

* **Everywhere**: payloads, names, formatting, logging, HTTP parsing.
* **`RunWorker`, `RunSession`**: the temperature monitor touches no record; the session's worker has no
  escaping `BaseException`. `EventStream` has one client, whose old handler is removed when the new socket
  opens; the ring of traces is left out.
* **`PageStore`**: the worker is at most one event ahead of the ingestion; record and data are fetched
  as one answer; timestamps are frame numbers; live frames are left to `EventStream`. `RailFollows`
  exempts a failed fetch, which is retried only at the next frame that moves the bench, and an answer
  older than Hello.
* **`PlanBook`**: a monotone clock; whole units; defaults of a proposal; a value of the wrong type (refused by the
  code); points within 1e-9 of a choice; what a tree costs is a choice, and so is the rest of its validation.
* **`Pipeline`, `Estimates`, `Executor`**: advisory checks; intensity pins; times are whole units with
  fixed hold and LED settle, one unit per J-V point, three journal histories. The listed trees leave out those
  of section 5.
* **`Bench`**: levels, ranges and analysis; front panels are pressed between jobs; a direct DIO write does
  not fail; an ON is refused only by the 81150A. The intensity series is started as a service run though
  only scripts drive it. `LiveOverlay` leaves out levels, frequencies and the LED's mode.
* **`Digitizer`, `Observers`**: the growth of 1.8 is 2, extrema are exact, equal within the deadband is equal;
  a query of the autorange may go unanswered, but its late answer does not reach the next query; an
  acquisition that raises part way is one that raises before it begins; a bench has both a 331 and a power
  meter or neither; a monitor's tick is atomic under the bus; its period is not kept; starting the threads and
  stopping them at close are left out. A capture by hand also writes the trigger level, which no run writes.
* **`TriggerChain`**: of a recipe only arming, edge and polarity; one transient module;
  `inverted_output` FALSE; levels and frequency left out.
* **`RunFiles`, `RunRecords`**: light stands for the traces averaged alike and sync for the four optional
  ones; two J-V curves in one direction; events are ingested as told; means are sets of loops; intensity,
  verdicts and timestamps left out. `storage/series.py` is not used by the service.
* **`Journal`**: a session is resumed only when its id is given again; a refused write keeps or drops
  bytes; a whole line without its newline counts as dropped (`dropped`), after which `RunsAreRemembered` says nothing.
* **`SourcePanel`**: integration times, ranges and the watch's throttle; a hand on keys other than OUTPUT; a
  write and its confirmation are one step; a hang is a call that never returns, and the process exits saying so.
* **Not modelled**: wire formats (pure), MCP, assistant and launcher (translation and process start), the
  simulated bench (a test double), shutter console and scan tool (one thread each), floating-point analysis
  (outside TLC), the browser's views.

To check a run: `tlc -config MCRunWorker_live.cfg MCRunWorker`. To check proofs: `tlapm BenchProofs.tla`.
