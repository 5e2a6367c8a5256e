------------------------------- MODULE RunFiles -------------------------------
(***************************************************************************)
(* What a run leaves on disk.  A transient scan feeds storage/recorder.py, *)
(* which keeps everything in memory and writes it when the scan's          *)
(* generator ends, however it ends; a J-V run feeds storage/jv.py, which   *)
(* rewrites all its files after every curve and every FLUSH_S during one.  *)
(* Instruments fail, the worker closes a generator at a yield, the disk    *)
(* refuses a write, the process dies between any two steps.                *)
(*                                                                         *)
(* A trace is the loop it was taken in; an average is the weight it gives  *)
(* each loop, in units of 1/Whole.  Of the traces averaged alike, light    *)
(* stands for dark and photocurrent, sync for the four optional ones.      *)
(***************************************************************************)
EXTENDS Naturals, Sequences, FiniteSets

CONSTANTS
    Steps, Loops,    \* numbers of axis points and of loops of a scan
    Whole,           \* a multiple of every number up to Loops
    Points,          \* readings of one J-V curve
    MaxRefusals,     \* bound on writes the disk refuses
    None, Torn       \* NaN or no file; a file cut short

ASSUME ScanAssumption ==
    /\ Steps \in Nat \ {0} /\ Loops \in Nat \ {0} /\ Points \in Nat \ {0}
    /\ Whole \in Nat /\ \A n \in 1..Loops : Whole % n = 0

\* None is no average and no row of averages; neither None nor Torn is what a file holds.
ASSUME NothingAssumption ==
    /\ None \notin [1..Loops -> Nat] /\ None \notin [1..Steps -> [1..Loops -> Nat] \cup {None}]
    /\ {None, Torn} \cap [curves : Seq(Nat), states : Seq({"shut", "open"})] = {}

VARIABLES
    program,    \* "scan" or "sweep"
    pc,         \* "run", "write", "raised", "over" or "dead"
    stop,       \* an after-shot stop was asked for
    scan,       \* RunRecorder: started, axis, q, setpoints, light, sync, fetched
    sweep,      \* JVRecorder: curves, states, partial, resolved
    finished,   \* _finished
    todo,       \* the files this flush has yet to write, with their contents
    opened,     \* whether the first of them has been opened, and so emptied
    disk,       \* the contents of every file
    refusals,
    shots,      \* history: the StepDone events yielded
    flushed,    \* history: the curves of the last flush that returned
    light       \* history: the shutter while each curve was swept

vars == <<program, pc, stop, scan, sweep, finished, todo, opened, disk, refusals,
          shots, flushed, light>>

\* averages_q, all_loops_q, the trace matrices and HDF5; the J-V pair and HDF5.
Files == {"averages_q", "all_loops_q", "traces", "run.h5", "data", "parameters", "jv.h5"}
Curves == <<"shut", "open">>          \* a dark curve, then a light one

EmptyScan == [started |-> FALSE, axis |-> FALSE, q |-> {}, setpoints |-> {},
              light |-> None, sync |-> [s \in 1..Steps |-> None],
              fetched |-> [s \in 1..Steps |-> 0]]
EmptySweep == [curves |-> << >>, states |-> << >>, partial |-> 0, resolved |-> None]

Init ==
    /\ program \in {"scan", "sweep"} /\ pc = "run" /\ stop = FALSE /\ finished = FALSE
    /\ scan = EmptyScan /\ sweep = EmptySweep
    /\ todo = << >> /\ opened = FALSE /\ disk = [f \in Files |-> None] /\ refusals = 0
    /\ shots = {} /\ flushed = << >> /\ light = << >>

-----------------------------------------------------------------------------
\* core.process.RunningAverage.update: trace number n at this point, taken in a loop.
Only(loop) == [l \in 1..Loops |-> IF l = loop THEN Whole ELSE 0]
Averaged(average, n, loop) ==
    IF n = 1 THEN Only(loop)
    ELSE IF average = None THEN None
    ELSE [l \in 1..Loops |-> (Only(loop)[l] + (n - 1) * average[l]) \div n]

\* The mean a reader expects of the traces of these loops.
Mean(loops) == IF loops = {} THEN None
               ELSE [l \in 1..Loops |-> IF l \in loops THEN Whole \div Cardinality(loops) ELSE 0]

\* The shot the scan is at: loops outside, points inside.
At == LET n == Cardinality(shots) IN <<1 + (n \div Steps), 1 + (n % Steps)>>

\* RunRecorder._sync: each optional trace counts the fetches that arrived.
SyncedByLoop(rec, loop, step) ==             \* mutant: weighs it by the loop number
    [rec EXCEPT !.fetched[step] = loop, !.sync[step] = Averaged(@, loop, loop)]
Synced(rec, loop, step) ==
    LET n == rec.fetched[step] + 1
    IN  [rec EXCEPT !.fetched[step] = n, !.sync[step] = Averaged(@, n, loop)]

\* RunRecorder._step.
Stepped(rec, loop, step) ==
    LET seen == IF rec.light = None THEN [s \in 1..Steps |-> None] ELSE rec.light
    IN  [rec EXCEPT !.light = [seen EXCEPT ![step] = Averaged(@, loop, loop)],
                    !.q = @ \cup {<<loop, step>>}, !.setpoints = @ \cup {step}]

-----------------------------------------------------------------------------
\* recorder.finish: what it writes, in order; nothing before the first shot.
ScanFiles ==
    LET whole == [q |-> scan.q, light |-> scan.light, sync |-> scan.sync]
    IN  IF scan.light = None \/ ~scan.axis THEN << >>
        ELSE <<[file |-> "averages_q", text |-> whole],
               [file |-> "all_loops_q", text |-> whole],
               [file |-> "traces", text |-> whole],
               [file |-> "run.h5", text |-> whole]>>

\* jv.JVRecorder._all and the states flush passes with it: one snapshot a curve.
All == sweep.curves \o (IF sweep.partial > 0 THEN <<sweep.partial>> ELSE << >>)
StatesShared ==                              \* mutant: every curve refers to resolved itself
    [i \in 1..Len(All) |-> sweep.resolved]
States == sweep.states \o (IF sweep.partial > 0 THEN <<sweep.resolved>> ELSE << >>)
SweepFiles ==
    IF All = << >> THEN << >>
    ELSE <<[file |-> "data", text |-> [curves |-> All, states |-> << >>]],
           [file |-> "parameters", text |-> [curves |-> All, states |-> << >>]],
           [file |-> "jv.h5", text |-> [curves |-> All, states |-> States]]>>

\* The events this recorder handles come before the consumer sees them; scanning and
\* sweeping stop at "write" while files are written.
Running == pc = "run"
Kept == UNCHANGED <<program, finished, disk, refusals, opened>>

\* RunStarted makes the folder, AxisResolved the axis; the disk may refuse the folder.
ScanStarts ==
    /\ Running /\ program = "scan" /\ ~scan.axis
    /\ scan' = IF scan.started THEN [scan EXCEPT !.axis = TRUE]
               ELSE [scan EXCEPT !.started = TRUE]
    /\ UNCHANGED <<pc, stop, sweep, todo, shots, flushed, light>> /\ Kept

\* One shot: its StepDone is recorded.  The sync fetch beside it may fail.
Shot ==
    /\ Running /\ program = "scan" /\ scan.axis /\ ~stop
    /\ Cardinality(shots) < Steps * Loops
    /\ LET loop == At[1]  step == At[2]
       IN  \E sync \in BOOLEAN :
             /\ shots' = shots \cup {[loop |-> loop, step |-> step, sync |-> sync]}
             /\ scan' = Stepped(IF sync THEN Synced(scan, loop, step) ELSE scan, loop, step)
    /\ UNCHANGED <<pc, stop, sweep, todo, flushed, light>> /\ Kept

\* Session.stop: a scan looks at the flag before its next shot, a J-V run before a curve
\* and after every point.
AskStop ==
    /\ Running /\ ~stop
    /\ stop' = TRUE
    /\ UNCHANGED <<pc, scan, sweep, todo, shots, flushed, light>> /\ Kept

\* run_jv: the shutter is set and told before the first reading of a curve.
SetShutter ==
    /\ Running /\ program = "sweep" /\ ~stop
    /\ Len(light) = Len(sweep.curves) /\ Len(light) < Len(Curves)
    /\ light' = Append(light, Curves[Len(light) + 1])
    /\ sweep' = [sweep EXCEPT !.resolved = Curves[Len(light) + 1]]
    /\ UNCHANGED <<pc, stop, scan, todo, shots, flushed>> /\ Kept

\* JVRecorder.handle of a JVPoint: perhaps FLUSH_S have passed.
Point ==
    /\ Running /\ program = "sweep" /\ todo = << >>
    /\ Len(light) > Len(sweep.curves) /\ sweep.partial < Points
    /\ sweep.partial > 0 => ~stop
    /\ sweep' = [sweep EXCEPT !.partial = @ + 1]
    /\ pc' \in {"run", "write"}
    /\ todo' = IF pc' = "write" THEN SweepFiles' ELSE << >>
    /\ UNCHANGED <<stop, scan, shots, flushed, light>> /\ Kept

\* ... and of a JVCurveDone, which always flushes.
CurveDone ==
    /\ Running /\ program = "sweep" /\ sweep.partial = Points /\ ~stop
    /\ sweep' = [sweep EXCEPT !.curves = Append(@, Points), !.partial = 0,
                              !.states = Append(@, sweep.resolved)]
    /\ pc' = "write" /\ todo' = SweepFiles'
    /\ UNCHANGED <<stop, scan, shots, flushed, light>> /\ Kept

\* record's finally: the generator ran out, was stopped, raised, or was closed by an
\* abort, or the recorder's own handle raised.  finish writes at most once.
Finish ==
    /\ pc \in {"run", "raised"} /\ ~finished
    /\ finished' = TRUE
    /\ todo' = IF program = "scan" THEN ScanFiles ELSE SweepFiles
    /\ pc' = IF todo' = << >> THEN "over" ELSE "write"
    /\ opened' = FALSE
    /\ UNCHANGED <<program, stop, scan, sweep, disk, refusals, shots, flushed, light>>

-----------------------------------------------------------------------------
\* legacy_dat.render_matrix: its data must have a column for every label.
Renders(file) == file \in {"all_loops_q", "traces"} => Cardinality(scan.setpoints) = Steps

\* open(path, "w") empties the file before anything is written to it.
ClearedBefore ==                             \* mutant: the old files are removed first
    [f \in Files |-> IF \E i \in 1..Len(todo) : todo[i].file = f THEN Torn ELSE disk[f]]
Opened == [disk EXCEPT ![Head(todo).file] = Torn]

Open ==
    /\ pc = "write" /\ ~opened /\ Renders(Head(todo).file)
    /\ opened' = TRUE
    /\ disk' = Opened
    /\ UNCHANGED <<program, pc, stop, scan, sweep, finished, todo, refusals, shots, flushed,
                   light>>

Fill ==
    /\ pc = "write" /\ opened
    /\ disk' = [disk EXCEPT ![Head(todo).file] = Head(todo).text]
    /\ opened' = FALSE /\ todo' = Tail(todo)
    /\ pc' = IF todo' # << >> THEN "write" ELSE IF finished THEN "over" ELSE "run"
    /\ flushed' = IF todo' = << >> /\ program = "sweep" THEN All ELSE flushed
    /\ UNCHANGED <<program, stop, scan, sweep, finished, refusals, shots, light>>

\* A write that raises ends the flush; a refused HDF5 of a scan is the last write anyhow
\* and is only noted (hdf5_error).  Out of handle it ends the run, by way of record's
\* finally; out of finish it is the run's error.
AfterRaise ==
    /\ todo' = << >>
    /\ pc' = IF finished THEN "over" ELSE "raised"

Refuse ==
    /\ pc = "write" /\ refusals < MaxRefusals
    /\ refusals' = refusals + 1 /\ opened' = FALSE
    /\ AfterRaise
    /\ UNCHANGED <<program, stop, scan, sweep, finished, disk, shots, flushed, light>>

Mismatch ==
    /\ pc = "write" /\ ~opened /\ ~Renders(Head(todo).file)
    /\ AfterRaise
    /\ UNCHANGED <<program, stop, scan, sweep, finished, opened, disk, refusals, shots,
                   flushed, light>>

Crash ==
    /\ pc \notin {"over", "dead"}
    /\ pc' = "dead"
    /\ UNCHANGED <<program, stop, scan, sweep, finished, todo, opened, disk, refusals, shots,
                   flushed, light>>

Next ==
    \/ ScanStarts \/ Shot \/ AskStop \/ SetShutter \/ Point \/ CurveDone
    \/ Finish \/ Open \/ Fill \/ Refuse \/ Mismatch \/ Crash

Spec == Init /\ [][Next]_vars

-----------------------------------------------------------------------------
\* What a reader of the HDF5 file of these shots should find.
Expected ==
    LET LoopsAt(step, kept) == {e.loop : e \in {x \in kept : x.step = step}}
    IN  [q |-> {<<e.loop, e.step>> : e \in shots},
         light |-> [s \in 1..Steps |-> Mean(LoopsAt(s, shots))],
         sync |-> [s \in 1..Steps |-> Mean(LoopsAt(s, {e \in shots : e.sync}))]]
Ended == pc = "over" /\ program = "scan" /\ refusals = 0

\* However a scan ends once every point has been measured, its HDF5 file holds exactly the
\* shots that were yielded, and every average in it is the plain mean of the traces that
\* arrived, a failed fetch in any loop notwithstanding (recorder.py:126, 155).
ShotsReachTheFile ==
    Ended /\ {e.step : e \in shots} = 1..Steps => disk["run.h5"] = Expected

\* The same of every exit, as the recorder's own description has it (recorder.py:6).
EveryExitFlushes == Ended /\ shots # {} => disk["run.h5"] = Expected

\* One fault, a refused write or the death of the process in the middle of a rewrite, leaves
\* what the last flush saved whole in the table or in the HDF5 file: the rewrites never
\* endanger both at once.  Without a fault both hold every point that was read
\* (jv.py:299, 360-385).
Covers(file, curves) ==
    /\ disk[file] \notin {None, Torn}
    /\ Len(curves) <= Len(disk[file].curves)
    /\ \A i \in 1..Len(curves) : disk[file].curves[i] >= curves[i]
Faults == refusals + (IF pc = "dead" THEN 1 ELSE 0)
CurvesSurviveOneFault ==
    pc \in {"over", "dead"} =>
        /\ Faults <= 1 /\ flushed # << >> => Covers("data", flushed) \/ Covers("jv.h5", flushed)
        /\ Faults = 0 /\ All # << >> => Covers("data", All) /\ Covers("jv.h5", All)

\* Every curve of the HDF5 file, the unfinished one too, carries the shutter position it
\* was swept under, not that of a later curve (jv.py:350).
CurveKeepsItsShutter ==
    disk["jv.h5"] \notin {None, Torn} =>
        LET saved == disk["jv.h5"] IN
        /\ Len(saved.states) = Len(saved.curves)
        /\ \A i \in 1..Len(saved.curves) : saved.states[i] = light[i]

\* What a J-V run leaves behind can be used, whatever ended it.
CurvesAreWhole == CurvesSurviveOneFault /\ CurveKeepsItsShutter
=============================================================================
