------------------------------ MODULE Estimates ------------------------------
(***************************************************************************)
(* What a schedule will take: the cost a person is shown before a run      *)
(* (pipeline.py, estimate) and the time left that a running executor tells *)
(* (executor.py, eta_s), from the module estimates of the catalogue and    *)
(* from what the journals of this bench have seen.                         *)
(*                                                                         *)
(* A journal is a record of its bench mode, the settles seen at each       *)
(* setpoint, and its runs with the gaps between their shots.  Times are    *)
(* whole units.                                                            *)
(***************************************************************************)
EXTENDS Integers, Sequences, SequencesExt, FiniteSets, TLC

CONSTANTS None,
          Mode,            \* this process's bench, real or simulated
          ShotDefault,     \* a shot when no journal has one
          PointOverhead,   \* a J-V point beside its settle
          LedSettle, Hold  \* what a loop waits unless its node says otherwise

Median(samples) ==
    LET s == SortSeq(samples, <)
        n == Len(s)
    IN  (s[(n + 1) \div 2] + s[n \div 2 + 1]) \div 2

\* journal.py: the journals of another bench teach nothing.
SameBench(journal) == journal.mode = Mode
Ours(journals) == SelectSeq(journals, SameBench)
SettleHistory(journals, k) ==
    FlattenSeq([i \in DOMAIN Ours(journals) |-> Ours(journals)[i].settle[k]])
SettleSeconds(journals, k) ==
    IF SettleHistory(journals, k) = <<>> THEN None ELSE Median(SettleHistory(journals, k))

\* The newest run that came to a good end and took two shots or more.
Timed(run) == run.state \in {"done", "stopped"} /\ run.gaps # <<>>
ShotSeconds(journals) ==
    LET timed == FlattenSeq([i \in DOMAIN Ours(journals) |->
                                SelectSeq(Ours(journals)[i].runs, Timed)])
    IN  IF timed = <<>> THEN None ELSE Median(Last(timed).gaps)
ShotTime(journals) ==
    LET t == ShotSeconds(journals) IN IF t = None \/ t <= 0 THEN ShotDefault ELSE t

\* Catalogue._estimate.
Sweep(n, curves, settle, led) == curves * (n * settle + n * PointOverhead + led)
ModuleSeconds(step, journals) ==
    CASE step.name = "bace" -> step.loops * step.points * ShotTime(journals)
      [] step.name = "jv" -> Sweep(step.points, step.curves, step.settle, 0)
      [] step.name = "jv_bace" -> Sweep(step.points, step.curves, step.settle, LedSettle)
      [] step.name = "temperature" -> Hold
      [] OTHER -> 1

-----------------------------------------------------------------------------
\* estimate(): one pass over the schedule.
NoCost == [measuring |-> 0, waiting |-> 0, lower |-> FALSE]
Costed(step, journals, cost) ==
    IF step.kind = "module"
    THEN [cost EXCEPT !.measuring = @ + ModuleSeconds(step, journals)]
    ELSE IF step.kind = "loop-enter" /\ step.name = "illumination"
    THEN [cost EXCEPT !.measuring = @ + LedSettle]
    ELSE IF step.kind = "loop-enter" /\ step.name = "temperature"
    THEN LET settle == SettleSeconds(journals, step.value)
         IN [cost EXCEPT !.lower = @ \/ settle = None,
                         !.waiting = @ + Hold + (IF settle = None THEN 0 ELSE settle)]
    ELSE cost
Estimate(steps, journals) == FoldLeft(LAMBDA c, s : Costed(s, journals, c), NoCost, steps)
Total(steps, journals) ==
    LET cost == Estimate(steps, journals) IN cost.measuring + cost.waiting

\* eta_s(): the steps from i on.  seen gives the durations of this run's modules by name,
\* settles those of its temperatures; both supersede the schedule.
StepLeftNoHold(step, journals, seen, settles) ==       \* mutant: the dwell is forgotten
    IF step.kind # "loop-enter" \/ step.name # "temperature" THEN 0
    ELSE IF settles # <<>> THEN Median(settles) ELSE 0
StepLeft(step, journals, seen, settles) ==
    IF step.kind = "module"
    THEN IF seen[step.name] # <<>> THEN Median(seen[step.name])
         ELSE ModuleSeconds(step, journals)
    ELSE IF step.kind = "loop-enter" /\ step.name = "temperature"
    THEN LET known == SettleSeconds(journals, step.value)
         IN Hold + (IF settles # <<>> THEN Median(settles)
                    ELSE IF known = None THEN 0 ELSE known)
    ELSE IF step.kind = "loop-enter" /\ step.name = "illumination" THEN LedSettle
    ELSE 0
EtaFrom(steps, i, journals, seen, settles) ==
    FoldLeft(LAMBDA t, s : t + StepLeft(s, journals, seen, settles), 0,
             SubSeq(steps, i, Len(steps)))
=============================================================================
