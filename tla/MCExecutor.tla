------------------------------ MODULE MCExecutor -------------------------------
(***************************************************************************)
(* Executor over schedules that Pipeline resolves from trees of a small    *)
(* grammar; only trees that validate() accepts are run.                    *)
(***************************************************************************)
EXTENDS Executor, Integers

CONSTANTS Fine, Threshold, Ceiling, RecordEnd, Baseline,
          Mode, ShotDefault, PointOverhead, LedSettle, Hold

P == INSTANCE Pipeline
C == INSTANCE Estimates

Jv       == P!Module("jv", << >>)
JvBace   == P!Module("jv_bace", << >>)
JvRange  == P!Module("jv_bace", [led_start_v |-> 10, led_stop_v |-> 12, led_step_v |-> 2])
JvTyped  == P!Module("jv_bace", [led_v |-> 12])
Bace     == P!Module("bace", << >>)
BaceDc   == P!Module("bace", [measure_dc |-> TRUE])
BaceTyped == P!Module("bace", [voc |-> 1])
BacePinned == P!Module("bace", [axis_name |-> "delay", centre_on_voc |-> TRUE])
BaceDelays == P!Module("bace", [axis_name |-> "delay", axis_stop |-> 10, axis_step |-> 5,
                                n_loops |-> 2])
BaceStuck == P!Module("bace", [axis_name |-> "delay", axis_stop |-> 10])
BaceOver == P!Module("bace", [measure_dc |-> TRUE, smu_a |-> Ceiling + 1])
BaceIdle == P!Module("bace", [smu_a |-> Ceiling + 1, voc |-> 1])
BaceEmpty == P!Module("bace", [voc |-> 1, t_int_width |-> 0])
BaceEarly == P!Module("bace", [axis_name |-> "delay", axis_stop |-> 10, axis_step |-> 5,
                               delay_ns |-> -1])
JvStuck  == P!Module("jv", [step_v |-> 0])
LightOn  == P!Module("light", [shutter |-> "open", led_mode |-> "dc"])
LightNone == P!Module("light", << >>)
Power    == P!Module("power", << >>)
SetTo(k) == P!Module("temperature", [setpoint_k |-> k])

Repeat(n, c) == P!Loop("repeat", [i \in 1..n |-> i], c)
Levels(c)    == P!Loop("illumination", <<10, 12>>, c)
Kelvin(v, c) == P!Loop("temperature", v, c)

\* What a J-V at two levels, in a range, or in a loop around or beside its users gives.
Sides == {JvBace, JvRange, Bace, BaceDc}
Insides == {Levels(<<JvBace, Bace>>), Levels(<<Bace>>), Levels(<<Bace, JvBace>>),
            Repeat(2, <<JvBace, Bace>>), Repeat(2, <<Bace>>)}
Pairs == {Repeat(1, <<a, b>>) : a, b \in Sides \cup Insides}
Triples == {Repeat(1, <<a, b, Bace>>) : a \in {JvRange, Jv}, b \in Insides}
Others == {BaceDelays, BaceStuck, BaceOver, BaceIdle, JvStuck, Repeat(1, << >>), Bace, BaceTyped, BacePinned, JvRange,
           Repeat(1, <<Jv, LightOn, Power, BaceTyped>>), Levels(<<JvBace, Repeat(2, <<Bace>>)>>), Repeat(2, <<JvBace, Bace>>)}
Hot == {Kelvin(<<1, 3>>, <<JvBace, Bace>>), Kelvin(<<3>>, <<JvRange, Levels(<<Bace>>)>>),
        Repeat(1, <<JvBace, Kelvin(<<1>>, <<Bace>>)>>),
        Repeat(1, <<SetTo(3), Jv>>), Repeat(1, <<SetTo(1), Kelvin(<<3>>, <<Jv>>)>>), Repeat(1, <<Jv, SetTo(1), BaceTyped>>)}
Trees == Pairs \cup Triples \cup Others \cup Hot

\* The bench as read before the run: whole, without a SourceMeter, with a live output.
Quiet == [bias |-> "off", smu |-> "off"]
Benches == {[unavailable |-> {}, output |-> Quiet], [unavailable |-> {"smu"}, output |-> Quiet],
            [unavailable |-> {}, output |-> [Quiet EXCEPT !.smu = "on"]]}
Whole == [unavailable |-> {}, output |-> Quiet]
Sessions == {None, 10, 12}

\* What the executor asks of a step beside what resolve() put there.
Prepared(step, bench) ==
    LET module == step.kind = "module"
        isBace == step.name = "bace"
    IN [kind |-> step.kind, name |-> step.name, path |-> step.path, voc |-> step.voc,
        value |-> IF step.name = "temperature" /\ module THEN step.values.setpoint_k ELSE step.value,
        levels |-> IF step.name = "jv_bace" THEN P!LightLevels(step.values) ELSE << >>,
        level |-> IF isBace THEN step.values.led_v ELSE None,
        promised |-> IF step.name = "jv_bace" THEN P!Registered(step.values) ELSE << >>,
        needs |-> isBace /\ P!NeedsVoc(step.values),
        dc |-> isBace /\ step.values.measure_dc,
        refused |-> module /\ P!BuildRefuses(step, bench),
        loops |-> IF isBace THEN step.values.n_loops ELSE 0, settle |-> 1,
        curves |-> IF step.name = "jv_bace" THEN 1 + Len(P!LightLevels(step.values)) ELSE 1,
        points |-> IF isBace THEN P!AxisPoints(step.values)
                   ELSE IF step.name \in {"jv", "jv_bace"} THEN P!SweepPoints(step.values) ELSE 0]
Scheduled(tree, session, bench) ==
    LET steps == P!Resolve(tree, session)
    IN IF P!Valid(tree, steps, bench) THEN {[i \in DOMAIN steps |-> Prepared(steps[i], bench)]}
       ELSE {}
Runs(trees, sessions, benches) ==
    UNION {Scheduled(t, s, b) : t \in trees, s \in sessions, b \in benches}
AllRuns == Runs(Trees, {None}, {Whole}) \cup Runs({Bace, Repeat(1, <<Jv, Bace>>)}, Sessions, Benches)

\* Trees that validate() accepts although a node of theirs gets another label, another
\* V_oc or no V_oc at run time.
LateLabels == Runs({Repeat(1, <<Jv, Kelvin(<<3>>, <<Jv>>), Jv>>)}, {None}, {Whole})
Unkept == Runs({Repeat(1, <<JvTyped, Bace>>)}, {None}, {Whole})
SameTwice == Runs({Kelvin(<<1, 3, 1>>, <<JvBace, Bace>>)}, {None}, {Whole})
Stale == Runs({Repeat(1, <<SetTo(3), Kelvin(<<1>>, <<Jv>>), Jv>>)}, {None}, {Whole})
Nothing == Runs({Repeat(1, <<LightNone, Jv>>), BaceEmpty, BaceEarly}, {None}, {Whole})

\* None of the schedules that run comes back to a label after another setpoint.
ASSUME NoLabelOutlivesItsLoop == \A s \in AllRuns : KeepsItsSetpoint(s)

\* executor.py, _lookup against resolve(): the J-V that a centred bace takes its V_oc from,
\* said without scopes: the last one before it that promised its level, in loops that are
\* all still open, and with no temperature reached in between.
Enclosing(steps, i) ==
    {j \in 1..(i - 1) : steps[j].kind = "loop-enter"
        /\ ~\E k \in (j + 1)..(i - 1) : steps[k].kind = "loop-exit" /\ steps[k].path = steps[j].path}
Temperatures(steps, i) == {j \in Enclosing(steps, i) : steps[j].name = "temperature"}
Promised(steps, i) ==
    {j \in 1..(i - 1) :
        /\ steps[j].kind = "module" /\ \E n \in DOMAIN steps[j].promised :
                                          steps[j].promised[n] = steps[i].level
        /\ Enclosing(steps, j) \subseteq Enclosing(steps, i)
        /\ Temperatures(steps, i) \subseteq Enclosing(steps, j)}
Latest(js) == CHOOSE j \in js : \A k \in js : k <= j

\* pipeline.py, _voc, _register and _lookup: what resolve() schedules for a bace is the
\* latest promise, and nothing when there is none.
ResolveAgrees ==
    (pc = "told" /\ Here.name = "bace") =>
        LET js == Promised(Steps, pos)
        IN IF js = {} THEN Here.voc.how # "jv_bace"
           ELSE Here.voc = [how |-> "jv_bace", path |-> Steps[Latest(js)].path, level |-> Here.level]

\* What the journals may hold: nothing, one setpoint only, or another bench's as well.
Seen(mode, at1, at3, gaps) ==
    [mode |-> mode, settle |-> [k \in {1, 3} |-> IF k = 1 THEN at1 ELSE at3],
     runs |-> <<[state |-> "failed", gaps |-> <<9>>], [state |-> "done", gaps |-> gaps]>>]
Histories == { << >>, <<Seen(Mode, <<4, 6>>, << >>, <<2, 3, 7>>)>>,
               <<Seen(Mode, <<4>>, <<5, 1>>, <<2>>), Seen("other", <<9>>, <<9>>, <<9>>)>> }
NothingSeen == [m \in {"jv", "jv_bace", "bace", "light", "power", "temperature"} |-> << >>]

\* executor.py, eta_s against pipeline.py, estimate: until a run has measured anything
\* itself, what is behind it and what it says is left make up the cost that was shown,
\* at every step; the cost is a floor exactly when a temperature has no history, and a
\* settle measured on the way only raises a floor.
EtaKeepsTheCost ==
    pc = "step" => \A journals \in Histories :
        LET left == C!EtaFrom(Steps, pos, journals, NothingSeen, << >>)
            kelvins == {i \in DOMAIN Steps : Steps[i].kind = "loop-enter"
                                             /\ Steps[i].name = "temperature"}
            unknown == {i \in kelvins : C!SettleSeconds(journals, Steps[i].value) = None}
        IN  /\ C!Total(SubSeq(Steps, 1, pos - 1), journals) + left = C!Total(Steps, journals)
            /\ C!Estimate(Steps, journals).lower = (unknown # {})
            /\ unknown = kelvins => C!EtaFrom(Steps, pos, journals, NothingSeen, <<2>>) >= left

\* Both: what was shown before the run is what the run goes by.
AsShown == ResolveAgrees /\ EtaKeepsTheCost

\* executor.py, _lookup: the V_oc a bace is centred on was measured by that very J-V, in
\* this iteration and at this temperature, never by an earlier one of the same name.
VocOfThisIteration ==
    (pc = "running" /\ Here.name = "bace" /\ bound.at > 0) =>
        bound.at \in Promised(Steps, pos) /\ \A j \in Promised(Steps, pos) : j <= bound.at

\* pipeline.py, validate: the builder refuses a node of an accepted tree only because the
\* J-V it depends on found no V_oc at its level.
RefusedForLackOfVoc ==
    refused => Here.name = "bace" /\ Here.voc.how = "jv_bace" /\ bound = NoVoc

\* The contract of section 4, centring, at run time: the right V_oc, or a refusal that says
\* there is none.
VocKept == VocOfThisIteration /\ RefusedForLackOfVoc

\* A person starts a run on what was resolved and costed: the run keeps to it, or refuses a
\* node of it for the one reason that no schedule can foresee.
ScheduleIsKept == AsShown /\ VocKept

\* pipeline.py, light_levels: a J-V measures every level it is scheduled to provide.
PromisesAreMeasured ==
    (pc = "told" /\ Here.name = "jv_bace") =>
        \A n \in DOMAIN Here.promised : \E i \in DOMAIN Here.levels :
            Here.levels[i] = Here.promised[n]
=============================================================================
