------------------------------- MODULE Pipeline --------------------------------
(***************************************************************************)
(* bace/service/pipeline.py as operators: a tree of loops and modules, the *)
(* schedule resolve() flattens it into, the source of V_oc each node gets, *)
(* and the checks that refuse a tree.  Levels are whole steps of Fine per  *)
(* millivolt, so that two levels may share the text of a node path.        *)
(***************************************************************************)
EXTENDS Integers, Sequences, SequencesExt, FiniteSets, TLC

CONSTANTS None,
          Fine,        \* drive levels that round to one path token
          Threshold,   \* rig.led_threshold_v
          Ceiling,     \* rig.max_current_compliance_a
          RecordEnd,   \* the end of the record after the trigger, in samples
          Baseline     \* AFTER_WINDOW_MIN_SAMPLES

Loop(kind, values, children) ==
    [kind |-> "loop", name |-> kind, values |-> values, params |-> << >>, children |-> children]
Module(name, params) ==
    [kind |-> "module", name |-> name, values |-> << >>, params |-> params, children |-> << >>]

-----------------------------------------------------------------------------
\* The parts of the module catalogue that resolution and the checks consult.
Relay(name) ==
    IF name \in {"jv", "jv_bace"} THEN "dc" ELSE IF name = "bace" THEN "transient" ELSE None
LedParams(name) ==
    IF name = "jv_bace" THEN {"led_v", "led_start_v", "led_stop_v", "led_step_v", "led_low_v"}
    ELSE IF name \in {"bace", "light"} THEN {"led_v", "led_low_v"} ELSE {}
Sweep == [start_v |-> 0, stop_v |-> 2, step_v |-> 1, smu_a |-> 1]
Defaults(name) ==
    IF name = "jv" THEN Sweep
    ELSE IF name = "jv_bace"
    THEN Sweep @@ [led_v |-> None, led_start_v |-> Threshold, led_stop_v |-> Threshold,
          led_step_v |-> 1, led_low_v |-> 0]
    ELSE IF name = "bace"
    THEN [led_v |-> Threshold, led_low_v |-> 0, axis_name |-> "vpre", centre_on_voc |-> TRUE,
          vpre_on_voc |-> FALSE, voc |-> None, measure_dc |-> FALSE,
          axis_start |-> 0, axis_stop |-> 0, axis_step |-> 0, delay_ns |-> 9, n_loops |-> 1,
          t_int_width |-> 1, smu_a |-> 1]
    ELSE IF name = "light"
    THEN [shutter |-> "leave", led_mode |-> "leave", led_v |-> Threshold, led_low_v |-> 0]
    ELSE << >>

\* ParamSet._resolve_one: the highest layer that has the name.  The catalogue's edits
\* and recipe are part of Defaults; a node's own values are the edited layer.
Layered(derived, inherited, edited, defaults) == derived @@ inherited @@ edited @@ defaults

\* range_values: both ends, the count rounded from the span.
Distance(a, b) == IF a < b THEN b - a ELSE a - b
RangeCountTruncated(span, step) == span \div step + 1       \* mutant
RangeCount(span, step) == (2 * span + step) \div (2 * step) + 1
RangeValues(start, end, step) ==
    IF start = end THEN <<start>>
    ELSE LET n == RangeCount(Distance(start, end), step)
         IN [i \in 1..n |-> IF start < end
                            THEN start + ((end - start) * (i - 1)) \div (n - 1)
                            ELSE start - ((start - end) * (i - 1)) \div (n - 1)]

AxisPoints(v) ==
    IF v.axis_start = v.axis_stop THEN 1
    ELSE RangeCount(Distance(v.axis_start, v.axis_stop), v.axis_step)
SweepPoints(v) == RangeCount(Distance(v.start_v, v.stop_v), v.step_v)

\* light_levels of a module that provides V_oc: one level, or its range.
LightLevels(values) ==
    IF values.led_v # None THEN <<values.led_v>>
    ELSE RangeValues(values.led_start_v, values.led_stop_v, values.led_step_v)
\* modules.py _jv_levels is what the node measures; light_levels is what resolve registers,
\* and it looks at the range before led_v.
Registered(values) ==
    RangeValues(values.led_start_v, values.led_stop_v, values.led_step_v)

\* voc_flags: each flag counts for one side of axis_name only.
NeedsVocAnyFlag(values) == values.centre_on_voc \/ values.vpre_on_voc    \* mutant
NeedsVoc(values) ==
    IF values.axis_name = "vpre" THEN values.centre_on_voc ELSE values.vpre_on_voc

-----------------------------------------------------------------------------
\* Node paths.  iteration_token keeps three decimals of a level; siblings of one name
\* are told apart by their ordinal.
LevelToken(v) == (2 * v + Fine) \div (2 * Fine)
Token(loop, v, nth) ==
    <<loop, IF loop = "illumination" THEN LevelToken(v) ELSE v, nth>>
Nth(children, i) == Cardinality({j \in 1..i : children[j].name = children[i].name})

\* _Ctx: what a loop gives its children.  scopes is a chain of sets of providers,
\* innermost last.
Scope == {}
TopCtx == [led |-> None, inLed |-> FALSE, inKelvin |-> FALSE, kelvin |-> None, scopes |-> <<Scope>>]
Extended(ctx) == Append(ctx.scopes, Scope)
KeptChain(ctx) == Extended(ctx)              \* mutant: V_oc survives a new temperature
FreshChain(ctx) == <<Scope>>
Inner(loop, value, ctx) ==
    IF loop = "temperature"
    THEN [ctx EXCEPT !.inKelvin = TRUE, !.kelvin = value, !.scopes = FreshChain(ctx)]
    ELSE IF loop = "illumination"
    THEN [ctx EXCEPT !.led = value, !.inLed = TRUE, !.scopes = Extended(ctx)]
    ELSE [ctx EXCEPT !.scopes = Extended(ctx)]

\* _register and _lookup.
Register(scope, level, path) == {e \in scope : e.level # level} \cup {[level |-> level, path |-> path]}
At(scope, level) == {e \in scope : e.level = level}
LookupOuterFirst(scopes, level) ==           \* mutant: the scopes searched the other way
    LET i == SelectInSeq(scopes, LAMBDA s : At(s, level) # {})
    IN IF i = 0 THEN None ELSE (CHOOSE e \in At(scopes[i], level) : TRUE).path
Lookup(scopes, level) ==
    LET i == SelectLastInSeq(scopes, LAMBDA s : At(s, level) # {})
    IN IF i = 0 THEN None ELSE (CHOOSE e \in At(scopes[i], level) : TRUE).path

\* _inherited: the illumination binding in the module's own parameter names.
Inherited(ctx, defaults) ==
    IF ctx.inLed
    THEN [n \in {"led_v", "led_start_v", "led_stop_v"} \cap DOMAIN defaults |-> ctx.led]
    ELSE << >>

\* _voc: a J-V in scope at this level, the node's own DC measurement, a typed value, the
\* session's V_oc outside the loops that change the light or the temperature.
NoSource == [how |-> None, path |-> << >>, level |-> None]
Source(how, path, level) == [how |-> how, path |-> path, level |-> level]
VocSource(values, path, ctx, session) ==
    LET hit == Lookup(ctx.scopes, values.led_v)
    IN IF hit # None THEN Source("jv_bace", hit, values.led_v)
       ELSE IF values.measure_dc THEN Source("measure_dc", path, values.led_v)
       ELSE IF values.voc # None THEN Source("typed", path, None)
       ELSE IF session # None /\ ~ctx.inLed /\ ~ctx.inKelvin /\ session = values.led_v
       THEN Source("session", << >>, session)
       ELSE NoSource
\* _voc's second value: a session V_oc of another level, left for voc.coupling to refuse.
VocRejected(values, ctx, session) ==
    /\ Lookup(ctx.scopes, values.led_v) = None /\ ~values.measure_dc /\ values.voc = None
    /\ session # None /\ ~ctx.inLed /\ ~ctx.inKelvin /\ session # values.led_v

-----------------------------------------------------------------------------
\* Steps of a schedule.
LoopStep(kind, node, i, path) ==
    [kind |-> kind, name |-> node.name, path |-> path, value |-> node.values[i],
     values |-> << >>, voc |-> NoSource, rejected |-> FALSE, transition |-> FALSE,
     index |-> i - 1, count |-> Len(node.values)]

\* _module: the layers, the V_oc source, what it provides, the relay it needs.
ModuleValues(node, ctx) ==
    LET defaults == Defaults(node.name)
    IN Layered(<< >>, Inherited(ctx, defaults), node.params, defaults)
Provides(acc, node, values, path) ==
    IF node.name # "jv_bace" THEN acc.scopes
    ELSE LET inner == Len(acc.scopes)
         IN [acc.scopes EXCEPT ![inner] =
               FoldLeft(LAMBDA s, v : Register(s, v, path), @, Registered(values))]
ModuleStep(node, path, ctx, acc, session) ==
    LET here == [ctx EXCEPT !.scopes = acc.scopes]
        values == ModuleValues(node, ctx)
        centred == node.name = "bace" /\ NeedsVoc(values)
        step ==
          [kind |-> "module", name |-> node.name, path |-> path, value |-> None,
           values |-> values,
           voc |-> IF node.name = "bace" THEN VocSource(values, path, here, session) ELSE NoSource,
           rejected |-> node.name = "bace" /\ centred /\ VocRejected(values, here, session),
           transition |-> Relay(node.name) # None /\ acc.relay # None
                          /\ Relay(node.name) # acc.relay,
           index |-> 0, count |-> 1]
    IN [steps  |-> Append(acc.steps, step),
        scopes |-> Provides(acc, node, values, path),
        relay  |-> IF Relay(node.name) = None THEN acc.relay ELSE Relay(node.name)]

\* _loop and _children: every value in order, and under each its children in order.
RECURSIVE Resolved(_, _, _, _, _, _)
Iteration(node, i, prefix, nth, ctx, acc, session) ==
    LET path == Append(prefix, Token(node.name, node.values[i], nth))
        inner == Inner(node.name, node.values[i], ctx)
        entered == [acc EXCEPT !.steps = Append(@, LoopStep("loop-enter", node, i, path)),
                               !.scopes = inner.scopes]
        after == FoldLeft(LAMBDA a, c :
                            Resolved(node.children[c], path, Nth(node.children, c), inner, a, session),
                          entered, [c \in DOMAIN node.children |-> c])
    IN [after EXCEPT !.steps = Append(@, LoopStep("loop-exit", node, i, path)),
                     !.scopes = acc.scopes]
Resolved(node, prefix, nth, ctx, acc, session) ==
    IF node.kind = "module"
    THEN ModuleStep(node, Append(prefix, <<node.name, nth>>), ctx, acc, session)
    ELSE FoldLeft(LAMBDA a, i : Iteration(node, i, prefix, nth,
                                          [ctx EXCEPT !.scopes = acc.scopes], a, session),
                  acc, [i \in DOMAIN node.values |-> i])

Resolve(tree, session) ==
    Resolved(tree, << >>, 1, TopCtx, [steps |-> << >>, scopes |-> <<Scope>>, relay |-> None],
             session).steps
Modules(steps) == SelectSeq(steps, LAMBDA s : s.kind = "module")

-----------------------------------------------------------------------------
\* The checks that refuse a tree (a level of invalid or crit).  bench is the snapshot:
\* the roles that are unavailable and the outputs that were read.
RECURSIVE Walk(_, _)
Walk(node, ancestors) ==
    {<<node, ancestors>>} \cup
    UNION {Walk(node.children[i], ancestors \cup {node.name}) : i \in DOMAIN node.children}

OwnedParam(tree) ==
    \E w \in Walk(tree, {}) :
        /\ w[1].kind = "module" /\ "illumination" \in w[2]
        /\ LedParams(w[1].name) \cap DOMAIN w[1].params # {}
LightUndoneByPark(steps) == {m.name : m \in ToSet(Modules(steps))} = {"light"}
VocMissingSilent(steps) == FALSE             \* mutant: the check is skipped
VocMissing(steps) ==
    \E m \in ToSet(Modules(steps)) :
        m.name = "bace" /\ NeedsVoc(m.values) /\ m.voc = NoSource /\ ~m.rejected
VocCoupling(steps) ==
    \E m \in ToSet(Modules(steps)) :
        \/ m.rejected
        \/ /\ m.name = "bace" /\ NeedsVoc(m.values)
           /\ m.voc.level # None /\ m.voc.level # m.values.led_v

\* core.illumination.LedDrive, and led.levels over the levels each module drives.
BadDrive(level, low) == low >= Threshold \/ level < Threshold \/ level <= low
LevelsDriven(m) ==
    IF m.name = "light" /\ m.values.led_mode \notin {"dc", "pulse"} THEN {}
    ELSE IF m.name \in {"light", "bace"} THEN {m.values.led_v}
    ELSE IF m.name = "jv_bace" THEN ToSet(LightLevels(m.values)) ELSE {}
LedLevels(steps) ==
    \E m \in ToSet(Modules(steps)) : \E level \in LevelsDriven(m) :
        BadDrive(level, IF m.name = "light" /\ m.values.led_mode = "dc" THEN 0
                        ELSE m.values.led_low_v)

\* Catalogue.needs, without what is advisory.
Needs(m) ==
    IF m.name = "bace"
    THEN {"scope", "bias", "shutter", "led"}
         \cup (IF m.values.measure_dc THEN {"smu", "relay"} ELSE {})
    ELSE IF m.name = "jv" THEN {"smu"}
    ELSE IF m.name = "jv_bace" THEN {"smu", "led", "shutter"}
    ELSE IF m.name = "light"
    THEN (IF m.values.led_mode # "leave" THEN {"led"} ELSE {})
         \cup (IF m.values.shutter # "leave" THEN {"shutter"} ELSE {})
    ELSE IF m.name = "power" THEN {"power"} ELSE {}
BenchInstrument(steps, bench) ==
    \E m \in ToSet(Modules(steps)) : Needs(m) \cap bench.unavailable # {}
LiveSources(bench) == {s \in {"bias", "smu"} : bench.output[s] = "on"}
RelayInterlock(steps, bench) ==
    /\ Cardinality({Relay(m.name) : m \in ToSet(Modules(steps))} \ {None}) > 1
    /\ "relay" \in bench.unavailable \/ LiveSources(bench) # {}
LiveAtStart(bench) == LiveSources(bench) # {}

\* axis.geometry: the axis and the window of a transient, the sweep of a J-V.
BadAxis(v) == v.axis_start # v.axis_stop /\ v.axis_step <= 0
Delays(v) ==
    IF v.axis_name = "delay" THEN {v.axis_start, v.axis_stop} ELSE {v.delay_ns}
AfterWindow(v) == {RecordEnd - (d + v.t_int_width) : d \in Delays(v)}
BadLevels(v) ==
    v.led_v = None /\ v.led_step_v <= 0 /\ v.led_start_v # v.led_stop_v
AxisGeometry(steps) ==
    \E m \in ToSet(Modules(steps)) :
        \/ /\ m.name = "bace"
           /\ \/ BadAxis(m.values)
              \/ \E d \in Delays(m.values) : d < 0
              \/ \E left \in AfterWindow(m.values) : left < Baseline
        \/ m.name \in {"jv", "jv_bace"} /\ m.values.step_v <= 0
        \/ m.name = "jv_bace" /\ BadLevels(m.values)

\* smu.ceiling: a bace uses the SourceMeter under measure_dc only.
SmuCeiling(steps) ==
    \E m \in ToSet(Modules(steps)) :
        /\ m.name \in {"jv", "jv_bace"} \/ (m.name = "bace" /\ m.values.measure_dc)
        /\ m.values.smu_a > Ceiling

\* The tree parses: no loop over nothing, no loop around nothing.
WellFormed(tree) ==
    \A w \in Walk(tree, {}) :
        w[1].kind = "loop" => w[1].values # << >> /\ w[1].children # << >>

Valid(tree, steps, bench) ==
    /\ WellFormed(tree) /\ ~AxisGeometry(steps) /\ ~SmuCeiling(steps)
    /\ ~OwnedParam(tree) /\ ~LightUndoneByPark(steps)
    /\ ~VocMissing(steps) /\ ~VocCoupling(steps) /\ ~LedLevels(steps)
    /\ ~BenchInstrument(steps, bench)
    /\ ~RelayInterlock(steps, bench) /\ ~LiveAtStart(bench)

\* What Catalogue.build refuses before it touches an instrument, whatever V_oc is bound.
BuildRefuses(m, bench) ==
    \/ /\ m.name \in {"jv", "jv_bace"}
       /\ "smu" \in bench.unavailable \/ m.values.step_v <= 0 \/ m.values.smu_a > Ceiling
    \/ m.name = "jv_bace" /\ BadLevels(m.values)
    \/ m.name \in {"jv_bace", "bace"} /\ "led" \in bench.unavailable
    \/ m.name = "bace" /\ BadDrive(m.values.led_v, m.values.led_low_v)
    \/ /\ m.name = "bace"
       /\ BadAxis(m.values) \/ m.values.delay_ns < 0 \/ m.values.t_int_width <= 0
    \/ m.name = "bace" /\ m.values.measure_dc /\ m.values.smu_a > Ceiling
    \/ m.name = "bace" /\ m.values.measure_dc /\ {"smu", "relay"} \cap bench.unavailable # {}
    \/ m.name = "power" /\ "power" \in bench.unavailable
    \/ /\ m.name = "light"
       /\ \/ m.values.shutter # "leave" /\ "shutter" \in bench.unavailable
          \/ m.values.led_mode # "leave" /\ "led" \in bench.unavailable
          \/ m.values.shutter = "leave" /\ m.values.led_mode = "leave"
          \/ m.values.led_mode = "pulse" /\ BadDrive(m.values.led_v, m.values.led_low_v)
=============================================================================
