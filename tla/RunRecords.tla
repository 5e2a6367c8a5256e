------------------------------ MODULE RunRecords ------------------------------
(***************************************************************************)
(* What is remembered of a run, and by whom.  The modules of a run are     *)
(* walked in order; the events each yields are counted by the executor     *)
(* (_Tally), by the worker, by the session on the worker's side (_track),  *)
(* by the registry record that answers for a run of this session, by the   *)
(* journal's reduction, which answers for every other, and by the module's *)
(* own accumulator, whose arrays /runs/{id}/data serves from memory until  *)
(* they are evicted and from the files RunFiles writes afterwards.         *)
(*                                                                         *)
(* A node's path is its place in the tree; node 0 is the loop around the   *)
(* modules of a pipeline.  A mean is the set of loops it is taken over, a  *)
(* J-V curve its number of points.  Events are ingested as they are told   *)
(* (RunSession has the delay); a journal append may fail and lose a line.  *)
(***************************************************************************)
EXTENDS RunFiles

CONSTANTS
    Trees,       \* [kind |-> "module" or "pipeline", modules |-> Seq of programs]
    MaxLost      \* bound on journal lines lost

VARIABLES
    run,        \* the tree being run
    at,         \* the node being run, 0 before the first
    stage,      \* "walk", "module", "closing" or "ended"
    why,        \* how the module's generator ended: None, "ok", "stopped", "failed", "aborted"
    owed,       \* events still to be told, in order
    tally,      \* executor._Tally of the node, and modules_done
    worker,     \* last_progress, shots_done, aborted_reported, outcome
    track,      \* RunRecord.open_nodes and tally
    rec,        \* the rest of RunRecord
    filed,      \* journal._Run of the lines that reached the file
    lost,       \* lines that did not
    acc,        \* _BaceData or _JVData of the node
    memory,     \* Session._data of this run
    evicted,    \* RunRecord.evicted
    archive     \* the files of the nodes that are over

records == <<run, at, stage, why, owed, tally, worker, track, rec, filed, lost, acc, memory,
             evicted, archive>>
files == <<program, pc, stop, scan, sweep, finished, todo, opened, disk, refusals, shots,
           flushed, light>>

Nodes == 0..Len(run.modules)
Module(node) == run.modules[node]
Counted(node) == node > 0 /\ Module(node) # "power"

-----------------------------------------------------------------------------
\* Events, with the fields somebody counts.
Event(type, node) == [type |-> type, node |-> node]
Started(node, total) == [type |-> "Started", node |-> node, total |-> total]
Progress(node, done, total) ==
    [type |-> "Progress", node |-> node, done |-> done, total |-> total]
Aborted(done, total) == [type |-> "RunAborted", node |-> at, done |-> done, total |-> total]
State(state) == [type |-> "State", node |-> 0, state |-> state]
NodeDone(node, outcome, detail) ==
    [type |-> "NodeDone", node |-> node, outcome |-> outcome, detail |-> detail]

\* NodeDone.detail, and the one of a node that is no module.
Detail(module, kept, requested, folder) ==
    [module |-> module, kept |-> kept, requested |-> requested, folder |-> folder]
NoDetail == Detail(None, None, None, None)

\* journal.axis_result, loop_result, finished_result, add_curve, jv_result, count_shot:
\* the reducers the registry and the journal share.
NoResult == [axis |-> FALSE, means |-> None, running |-> None, curves |-> None, shots |-> 0]
AddsEveryCurve(old, curves) == (IF old = None THEN << >> ELSE old) \o curves   \* mutant
JvResult(old, curves) == curves
Reduced(r, e) ==
    CASE e.type = "AxisResolved" -> [r EXCEPT !.axis = TRUE]
      [] e.type \in {"LoopDone", "RunFinished"} -> [r EXCEPT !.means = e.means]
      [] e.type = "StepDone" ->
            LET seen == IF r.running = None THEN [s \in 1..Steps |-> {}] ELSE r.running
            IN  [r EXCEPT !.shots = @ + 1, !.running = [seen EXCEPT ![e.step] = e.mean]]
      [] e.type = "JVCurveDone" ->
            [r EXCEPT !.curves = Append(IF @ = None THEN << >> ELSE @, e.curve)]
      [] e.type = "JVFinished" -> [r EXCEPT !.curves = JvResult(@, e.curves)]
      [] OTHER -> r

\* journal.node_record: the latest running statistics when no loop was completed.
NodeRecord(outcome, detail, r) ==
    [detail |-> detail, outcome |-> outcome, axis |-> r.axis, curves |-> r.curves,
     shots |-> r.shots, means |-> IF r.means = None THEN r.running ELSE r.means]

Plus(a, b) == IF a = None THEN b ELSE a + b

-----------------------------------------------------------------------------
\* executor._Tally.handle.
NewTally == [kept |-> None, requested |-> None, aborted |-> FALSE, finished |-> FALSE,
             folder |-> None]
Tallied(t, e) ==
    CASE e.type = "Started" -> [t EXCEPT !.requested = e.total, !.kept = 0, !.folder = e.node]
      [] e.type \in {"StepDone", "JVCurveDone"} -> [t EXCEPT !.kept = @ + 1]
      [] e.type = "RunFinished" -> [t EXCEPT !.kept = t.requested, !.finished = TRUE]
      [] e.type = "JVFinished" -> [t EXCEPT !.finished = TRUE]
      [] e.type = "RunAborted" ->
            [t EXCEPT !.aborted = TRUE, !.kept = e.done, !.requested = e.total]
      [] OTHER -> t

\* worker: the counts of its own RunAborted, and the outcome it will report.
Working(w, e) ==
    CASE e.type = "Progress" /\ e.node > 0 ->
            [w EXCEPT !.done = e.done, !.total = e.total]
      [] e.type = "Started" -> [w EXCEPT !.shots = 0, !.done = 0, !.total = 0]
      [] e.type \in {"StepDone", "JVCurveDone"} -> [w EXCEPT !.shots = @ + 1]
      [] e.type = "RunAborted" -> [w EXCEPT !.told = TRUE, !.outcome = "stopped"]
      [] e.type = "RunFailed" -> [w EXCEPT !.outcome = "failed"]
      [] OTHER -> w

\* Session._track.
ForgetsCurves(e) == e.type = "StepDone"     \* mutant: only shots are counted
CountsForTrack(e) == e.type \in {"StepDone", "JVCurveDone"}
Tracked(t, e) ==
    CASE e.type = "NodeStarted" ->
            [t EXCEPT !.open = Append(@, e.node),
                      !.tally[e.node] = IF e.node > 0
                                        THEN Detail(Module(e.node), None, None, None) ELSE @]
      [] e.type = "NodeDone" -> [t EXCEPT !.open = SelectSeq(@, LAMBDA n : n # e.node)]
      [] e.type = "Started" -> [t EXCEPT !.tally[e.node].requested = e.total,
                                         !.tally[e.node].kept = 0,
                                         !.tally[e.node].folder = e.node]
      [] CountsForTrack(e) -> [t EXCEPT !.tally[e.node].kept = @ + 1]
      [] OTHER -> t

\* Session._apply, _apply_state.
Applied(r, e) ==
    LET r1 == [r EXCEPT !.results[e.node] = Reduced(@, e)]
    IN  CASE e.type = "State" ->
                IF e.state = "parked" THEN [r EXCEPT !.parked = TRUE]
                ELSE [r EXCEPT !.state = e.state,
                               !.nodes = [n \in DOMAIN @ |->
                                            IF @[n] # None /\ @[n].outcome = None
                                            THEN [@[n] EXCEPT !.outcome = e.state] ELSE @[n]]]
          [] e.type = "NodeStarted" ->
                [r EXCEPT !.nodes[e.node] = [outcome |-> None, detail |-> NoDetail]]
          [] e.type = "NodeDone" ->
                [r EXCEPT !.nodes[e.node] = [outcome |-> e.outcome, detail |-> e.detail],
                          !.kept = IF e.detail.kept = None THEN @ ELSE Plus(@, e.detail.kept),
                          !.requested = IF e.detail.kept = None THEN @
                                        ELSE Plus(@, e.detail.requested),
                          !.folders = IF e.detail.folder = None THEN @
                                      ELSE Append(@, e.detail.folder)]
          [] OTHER -> r1

\* journal._Run.apply; a pipeline's counts are summed over its modules.
SumOfTheLast(sum, detail) == <<detail.kept, detail.requested>>    \* mutant: no sum
Summed(sum, detail) == <<Plus(sum[1], detail.kept), Plus(sum[2], detail.requested)>>
Journalled(f, e) ==
    LET f1 == [f EXCEPT !.results[e.node] = Reduced(@, e)]
    IN  CASE e.type = "State" ->
                IF e.state = "parked" THEN [f EXCEPT !.parked = TRUE]
                ELSE [f EXCEPT !.state = e.state]
          [] e.type = "Progress" ->
                IF e.node = 0 THEN f ELSE [f EXCEPT !.kept = e.done, !.requested = e.total]
          [] e.type = "RunAborted" -> [f EXCEPT !.kept = e.done, !.requested = e.total]
          [] e.type = "RunFinished" ->
                [f1 EXCEPT !.kept = IF f.requested # None THEN f.requested ELSE @]
          [] e.type = "NodeDone" /\ e.detail.module # None ->
                [f EXCEPT !.nodes[e.node] = NodeRecord(e.outcome, e.detail, f.results[e.node]),
                          !.sum = IF e.detail.kept = None THEN @ ELSE Summed(@, e.detail),
                          !.folders = IF e.detail.folder = None THEN @
                                      ELSE Append(@, e.detail.folder)]
          [] OTHER -> f1

\* _BaceData.handle, _JVData.handle.
AveragedByShot(a, e) ==                      \* mutant: the running mean counts all shots
    LET seen == IF a.light = None THEN [s \in 1..Steps |-> None] ELSE a.light
    IN  [seen EXCEPT ![e.step] = Averaged(@, a.kept + 1, e.loop)]
AveragedInto(a, e) ==
    LET seen == IF a.light = None THEN [s \in 1..Steps |-> None] ELSE a.light
    IN  [seen EXCEPT ![e.step] = Averaged(@, e.loop, e.loop)]
NewAcc == [started |-> FALSE, kept |-> 0, q |-> {}, light |-> None, curves |-> << >>]
Accumulated(a, e) ==
    CASE e.type = "Started" -> [a EXCEPT !.started = TRUE]
      [] e.type = "StepDone" ->
            [a EXCEPT !.kept = @ + 1, !.q = @ \cup {<<e.loop, e.step>>},
                      !.light = AveragedInto(a, e)]
      [] e.type = "JVCurveDone" ->
            [a EXCEPT !.kept = @ + 1, !.curves = Append(@, e.curve)]
      [] OTHER -> a

-----------------------------------------------------------------------------
\* submit: the record is queued with every node of the schedule known.
RecordsInit ==
    /\ Init /\ program = "scan"
    /\ run \in Trees /\ at = 0 /\ stage = "walk" /\ why = None
    /\ owed = IF run.kind = "pipeline"
              THEN <<Event("NodeStarted", 0), Progress(0, 0, 1)>> ELSE << >>
    /\ tally = [node |-> NewTally, done |-> 0]
    /\ worker = [done |-> 0, total |-> 0, shots |-> 0, told |-> FALSE, outcome |-> "done"]
    /\ track = [open |-> << >>, tally |-> [n \in Nodes |-> NoDetail]]
    /\ rec = [state |-> "running", parked |-> FALSE, kept |-> None, requested |-> None,
              nodes |-> [n \in Nodes |-> None], results |-> [n \in Nodes |-> NoResult],
              folders |-> << >>]
    /\ filed = [state |-> "running", parked |-> FALSE, kept |-> None, requested |-> None,
                nodes |-> [n \in Nodes |-> None], results |-> [n \in Nodes |-> NoResult],
                folders |-> << >>, sum |-> <<None, None>>]
    /\ lost = 0 /\ acc = NewAcc
    /\ memory = [n \in Nodes |-> None] /\ evicted = FALSE
    /\ archive = [n \in Nodes |-> None]

\* Session._on_event and _ingest of the next event; the append of its line may fail.
Ingest(e) ==
    /\ track' = Tracked(track, e)
    /\ rec' = Applied(rec, e)
    /\ \/ filed' = Journalled(filed, e) /\ lost' = lost
       \/ lost < MaxLost /\ filed' = filed /\ lost' = lost + 1

\* What the executor does at its own end: the loop around a pipeline is closed.
CloseOpen(outcome) ==
    IF run.kind = "pipeline" THEN <<NodeDone(0, outcome, NoDetail)>> ELSE << >>

\* One event is told.  The worker then looks at the stop mode, and may close the generator
\* at this yield: what it had not yielded yet is never told.
Tell ==
    /\ stage \in {"walk", "module"} /\ owed # << >> /\ pc \notin {"write", "raised", "dead"}
    /\ LET e == Head(owed) IN
       /\ Ingest(e)
       /\ tally' = IF stage = "module" THEN [tally EXCEPT !.node = Tallied(@, e)] ELSE tally
       /\ acc' = IF stage = "module" THEN Accumulated(acc, e) ELSE acc
       /\ \/ owed' = Tail(owed) /\ worker' = Working(worker, e) /\ UNCHANGED <<why, stage>>
          \/ /\ owed' = << >> /\ why' = "aborted"
             /\ worker' = [Working(worker, e) EXCEPT !.outcome = "aborted"]
             /\ stage' = IF stage = "module" THEN stage ELSE "closing"
    /\ UNCHANGED <<run, at, memory, evicted, archive>> /\ UNCHANGED files

\* _walk, _module: the next node, unless a stop was asked for between two.
EnterModule ==
    /\ stage = "walk" /\ owed = << >> /\ why = None /\ ~stop /\ at < Len(run.modules)
    /\ at' = at + 1 /\ stage' = "module" /\ tally' = [tally EXCEPT !.node = NewTally]
    /\ acc' = NewAcc
    /\ owed' = <<Event("NodeStarted", at')>>
               \o (IF Module(at') = "sweep" THEN <<Started(at', Len(Curves))>> ELSE << >>)
    /\ program' = Module(at') /\ pc' = IF program' = "power" THEN "over" ELSE "run"
    /\ finished' = FALSE /\ scan' = EmptyScan /\ sweep' = EmptySweep
    /\ todo' = << >> /\ opened' = FALSE /\ disk' = [f \in Files |-> None]
    /\ shots' = {} /\ flushed' = << >> /\ light' = << >>
    /\ why' = IF program' = "power" THEN "ok" ELSE None
    /\ UNCHANGED <<run, worker, track, rec, filed, lost, memory, evicted, archive, stop,
                   refusals>>

StopBetween ==
    /\ stage = "walk" /\ owed = << >> /\ why = None /\ stop /\ at < Len(run.modules)
    /\ why' = "stopped"
    /\ owed' = CloseOpen("stopped") \o <<Aborted(tally.done, Len(run.modules))>>
    /\ UNCHANGED <<run, at, stage, tally, worker, track, rec, filed, lost, acc, memory,
                   evicted, archive>>
    /\ UNCHANGED files

WalkEnds ==
    /\ stage = "walk" /\ owed = << >> /\ why = None /\ at = Len(run.modules)
    /\ why' = "ok"
    /\ owed' = IF run.kind = "pipeline"
               THEN <<Progress(0, 1, 1), NodeDone(0, "ok", NoDetail)>> ELSE << >>
    /\ UNCHANGED <<run, at, stage, tally, worker, track, rec, filed, lost, acc, memory,
                   evicted, archive>>
    /\ UNCHANGED files

-----------------------------------------------------------------------------
\* The steps of RunFiles inside a module, and the events they yield.
Measuring == stage = "module" /\ why = None /\ owed = << >>
Yields(events) ==
    /\ owed' = events
    /\ UNCHANGED <<run, at, stage, why, tally, worker, track, rec, filed, lost, acc, memory,
                   evicted, archive>>
AllShots == Steps * Loops

TellScanStarts ==
    /\ Measuring /\ ScanStarts
    /\ Yields(IF scan.started THEN <<Event("AxisResolved", at)>>
              ELSE <<Started(at, AllShots)>>)

\* Means over the loops of these shots.
Means(q) == [s \in 1..Steps |-> {e[1] : e \in {x \in q : x[2] = s}}]
TellShot ==
    /\ Measuring /\ Shot
    /\ LET loop == At[1]  step == At[2]  done == Cardinality(shots')
           means == Means(scan'.q)

       IN  Yields(<<[type |-> "StepDone", node |-> at, loop |-> loop, step |-> step,
                     mean |-> means[step]], Progress(at, done, AllShots)>>
                  \o (IF step = Steps THEN <<[type |-> "LoopDone", node |-> at,
                                              means |-> means]>> ELSE << >>)
                  \o (IF done = AllShots THEN <<[type |-> "RunFinished", node |-> at,
                                                 means |-> means]>> ELSE << >>))

TellStop == AskStop /\ stage \in {"walk", "module"} /\ UNCHANGED records

TellShutter == Measuring /\ SetShutter /\ Yields(<< >>)
TellPoint == Measuring /\ Point /\ Yields(<< >>)

\* The curve's event reaches the worker once the flush it causes has returned.
TellCurve ==
    /\ Measuring /\ CurveDone
    /\ LET n == Len(sweep'.curves)
       IN  Yields(<<[type |-> "JVCurveDone", node |-> at, curve |-> Points],
                    Progress(at, n, Len(Curves))>>
                  \o (IF n = Len(Curves)
                      THEN <<[type |-> "JVFinished", node |-> at, curves |-> sweep'.curves]>>
                      ELSE << >>))

\* A stopped scan says so; a stopped J-V run only returns.
ScanStops ==
    /\ Measuring /\ pc = "run" /\ program = "scan" /\ stop
    /\ scan.axis /\ Cardinality(shots) < AllShots
    /\ why' = "stopped"
    /\ owed' = <<Aborted(Cardinality(shots), AllShots)>>
    /\ UNCHANGED <<run, at, stage, tally, worker, track, rec, filed, lost, acc, memory,
                   evicted, archive>>
    /\ UNCHANGED files

SweepStopped ==
    /\ program = "sweep" /\ stop
    /\ \/ sweep.partial > 0
       \/ Len(light) = Len(sweep.curves) /\ Len(light) < Len(Curves)
AllDone ==
    IF program = "scan" THEN scan.axis /\ Cardinality(shots) = AllShots
    ELSE Len(sweep.curves) = Len(Curves)

\* How the generator of the module ends, and with it the files of RunFiles: nothing left to
\* do, a stop, an abort at a yield, or whatever an instrument or the disk raised.
Unwind ==
    /\ stage = "module" /\ Finish
    /\ why' \in CASE why # None -> {why}
                  [] pc = "raised" -> {"failed"}
                  [] owed # << >> -> IF Head(owed).type = "Started" THEN {"failed"} ELSE {}
                  [] SweepStopped -> {"stopped"}
                  [] AllDone -> {"ok"}
                  [] OTHER -> {"failed"}
    /\ why = "stopped" => owed = << >>
    /\ owed' = << >>
    /\ UNCHANGED <<run, at, stage, tally, worker, track, rec, filed, lost, acc, memory,
                   evicted, archive>>

\* A write that raises while finish is called fails a run that was not being closed; the
\* HDF5 file of a scan may be refused without anybody being told.
Writes ==
    /\ stage = "module" /\ (Open \/ Fill)
    /\ UNCHANGED records
WriteRaises ==
    /\ stage = "module" /\ (Refuse \/ Mismatch)
    /\ why' = IF finished /\ why # "aborted" /\ Head(todo).file # "run.h5" THEN "failed"
              ELSE why
    /\ UNCHANGED <<run, at, stage, owed, tally, worker, track, rec, filed, lost, acc, memory,
                   evicted, archive>>

\* Catalogue.build's finally: the arrays go to the session, whatever happened.
Sunk == IF acc.started
        THEN [memory EXCEPT ![at] = [kept |-> acc.kept, q |-> acc.q, light |-> acc.light,
                                     curves |-> acc.curves]]
        ELSE memory

\* _module after its generator: NodeDone with the tally, the loops closed on a stop or a
\* failure, and a J-V run's stop reported by the executor itself.
EndModule ==
    /\ stage = "module" /\ pc = "over" /\ owed = << >>
    /\ memory' = Sunk /\ archive' = [archive EXCEPT ![at] = disk]
    /\ tally' = [tally EXCEPT !.done = @ + 1]
    /\ LET detail == Detail(program, tally.node.kept, tally.node.requested, tally.node.folder)
       IN  CASE why = "ok" ->
                    /\ owed' = <<NodeDone(at, "ok", detail)>>
                    /\ stage' = "walk" /\ why' = None
             [] why = "stopped" ->
                    /\ owed' = <<NodeDone(at, "stopped", detail)>> \o CloseOpen("stopped")
                               \o (IF tally.node.aborted THEN << >>
                                   ELSE <<Aborted(tally'.done, Len(run.modules))>>)
                    /\ stage' = "walk" /\ why' = why
             [] why = "failed" ->
                    /\ owed' = <<NodeDone(at, "failed", detail)>> \o CloseOpen("failed")
                               \o <<Event("RunFailed", at)>>
                    /\ stage' = "walk" /\ why' = why
             [] OTHER -> owed' = << >> /\ stage' = "closing" /\ why' = why
    /\ UNCHANGED <<run, at, worker, track, rec, filed, lost, acc, evicted>>
    /\ UNCHANGED files

-----------------------------------------------------------------------------
\* Session._on_state at a terminal state: a NodeDone for every node still open, innermost
\* first, with the counts of _track.
Synthesized ==
    LET n == Len(track.open)
    IN  [i \in 1..n |-> LET node == track.open[n + 1 - i]
                        IN  NodeDone(node, worker.outcome, track.tally[node])]

\* worker._run_job after its loop: a synthetic RunAborted, then the outcome, then parked.
Close ==
    /\ stage = "closing" \/ (stage = "walk" /\ owed = << >> /\ why # None)
    /\ stage' = "ended"
    /\ LET more == IF worker.shots > worker.done THEN worker.shots ELSE worker.done
       IN  owed' = (IF worker.outcome = "aborted" /\ ~worker.told
                    THEN <<Aborted(more, worker.total)>> ELSE << >>)
                   \o Synthesized \o <<State(worker.outcome), State("parked")>>
    /\ UNCHANGED <<run, at, why, tally, worker, track, rec, filed, lost, acc, memory, evicted,
                   archive>>
    /\ UNCHANGED files

TellEnd ==
    /\ stage = "ended" /\ owed # << >>
    /\ Ingest(Head(owed)) /\ owed' = Tail(owed)
    /\ UNCHANGED <<run, at, stage, why, tally, worker, acc, memory, evicted, archive>>
    /\ UNCHANGED files

\* Session._data_sink of later runs pushes this one out.
Evict ==
    /\ rec.parked /\ ~evicted /\ \E n \in Nodes : memory[n] # None
    /\ evicted' = TRUE
    /\ UNCHANGED <<run, at, stage, why, owed, tally, worker, track, rec, filed, lost, acc,
                   memory, archive>>
    /\ UNCHANGED files

Dies == stage = "module" /\ Crash /\ UNCHANGED records

RecordsNext ==
    \/ Tell \/ EnterModule \/ StopBetween \/ WalkEnds
    \/ TellScanStarts \/ TellShot \/ TellStop \/ TellShutter \/ TellPoint \/ TellCurve
    \/ ScanStops \/ Unwind \/ Writes \/ WriteRaises \/ EndModule
    \/ Close \/ TellEnd \/ Evict \/ Dies

RecordsSpec == RecordsInit /\ [][RecordsNext]_<<files, records>>

-----------------------------------------------------------------------------
\* RunRecord.nodes_wire: the finished modules, reduced as the journal reduces them.
NodesWire == {n \in Nodes : /\ rec.nodes[n] # None /\ rec.nodes[n].outcome # None
                            /\ rec.nodes[n].detail.module # None}
Wired(n) == NodeRecord(rec.nodes[n].outcome, rec.nodes[n].detail, rec.results[n])
JournalNodes == {n \in Nodes : filed.nodes[n] # None}

\* _Run.summary: a pipeline sums its modules, a module run keeps its last counts.
Summary == IF run.kind = "pipeline" /\ filed.sum[1] # None
           THEN filed.sum ELSE <<filed.kept, filed.requested>>

\* Session._data_from_file and bace_arrays_from_file of a node of this record.
NoData == [kept |-> None, q |-> {}, light |-> None, curves |-> << >>]
FromScan(node) ==
    LET saved == archive[node]["run.h5"]
    IN  [kept |-> Cardinality(saved.q), q |-> saved.q, light |-> saved.light,
         curves |-> << >>]
FromFile(node, record) ==
    LET file == IF record.detail.module = "sweep" THEN "jv.h5" ELSE "run.h5"
    IN  IF record.detail.folder = None \/ record.detail.module = "power" THEN NoData
        ELSE IF archive[node][file] \in {None, Torn} THEN NoData
        ELSE IF file = "run.h5" THEN FromScan(node)
        ELSE LET curves == archive[node][file].curves
             IN  [kept |-> Len(curves), q |-> {}, light |-> None, curves |-> curves]

Over == stage = "ended" /\ owed = << >>

\* A finished run looks the same in the session that ran it and in every later one: if no
\* line was lost, the registry's nodes are the journal's, with the same counts, means,
\* curves and folders, and a pipeline has the same totals.  A module run has them too unless
\* it ended early, when its journal totals are the last counts some event carried.  A lost
\* line may cost the journal a node, never change what another says of its outcome and counts
\* (session.py:319, journal.py:615; the contract's "byte for byte").
RecordsAgree ==
    Over =>
      /\ \A n \in JournalNodes : /\ n \in NodesWire
                                 /\ filed.nodes[n].detail = rec.nodes[n].detail
                                 /\ filed.nodes[n].outcome = rec.nodes[n].outcome
      /\ lost = 0 =>
        /\ NodesWire = JournalNodes
        /\ \A n \in NodesWire : Wired(n) = filed.nodes[n]
        /\ rec.folders = filed.folders /\ rec.state = filed.state /\ filed.parked
        /\ (run.kind = "pipeline" /\ filed.sum[1] # None) \/ rec.state = "done"
              => Summary = <<rec.kept, rec.requested>>

\* However a module ended, its node says what was measured: the shots or curves it kept are
\* those its result lists and those whose arrays were put in memory, and its means are over
\* the completed loops (an abort may keep the last of them from being summed up), or over
\* the shots there are when none was completed (session.py:1558, executor.py:141,
\* journal.py:744).
NodesAreOfTheirShots ==
    Over => \A n \in NodesWire :
        LET node == Wired(n)  loops == {l \in 1..Loops : \A s \in 1..Steps :
                                             <<l, s>> \in memory[n].q}
        IN  IF ~Counted(n) \/ memory[n] = None THEN node.detail.kept = None
            ELSE /\ node.detail.kept = memory[n].kept
                 /\ CASE Module(n) = "sweep" ->
                            memory[n].curves = (IF node.curves = None THEN << >>
                                                ELSE node.curves)
                      [] memory[n].q = {} -> node.means = None
                      [] loops = {} -> node.means = Means(memory[n].q)
                      [] OTHER -> \A s \in 1..Steps :
                            /\ node.means[s] \subseteq Means(memory[n].q)[s]
                            /\ Cardinality(loops \ node.means[s]) <= 1 /\ node.means[s] # {}

\* Once evicted, or asked of another session, a node's arrays come from its files: without a
\* refused write those of a completed node are the ones memory had, and those of any other
\* are never fewer (session.py:1172, modules.py:1774).
DataComesBack ==
    Over /\ evicted /\ refusals = 0 =>
        \A n \in NodesWire : Counted(n) /\ memory[n] # None =>
            LET again == FromFile(n, rec.nodes[n])
            IN  /\ rec.nodes[n].outcome = "ok" => again = memory[n]
                /\ again # NoData => again.kept >= memory[n].kept
                /\ lost = 0 => FromFile(n, filed.nodes[n]) = again

\* Registry, journal, memory and files tell one story of a run.
OneStory == RecordsAgree /\ NodesAreOfTheirShots /\ DataComesBack
=============================================================================
