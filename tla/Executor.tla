------------------------------- MODULE Executor --------------------------------
(***************************************************************************)
(* bace/service/executor.py: one generator walks a flat schedule, opens    *)
(* and closes loops, settles temperatures, builds and runs modules, hands  *)
(* each one its V_oc and its temperature label, and unwinds on a stop, a   *)
(* failure or the worker's close.  The schedule is whatever Pipeline       *)
(* resolved; a step's derived facts (levels, needs, refused) come with it. *)
(***************************************************************************)
EXTENDS TemperatureLoop, Sequences, FiniteSets

CONSTANT Schedules     \* a set of schedules, each a sequence of steps

Front1(s) == SubSeq(s, 1, Len(s) - 1)
Top(s) == s[Len(s)]

\* pipeline.py, _loop and _children: which iterations a step lies in, as the steps that
\* enter them, outermost first.
Nest(steps) ==
    LET nest[i \in 1..(Len(steps) + 1)] ==
          IF i = 1 THEN << >>
          ELSE IF steps[i - 1].kind = "loop-enter" THEN Append(nest[i - 1], i - 1)
          ELSE IF steps[i - 1].kind = "loop-exit" THEN Front1(nest[i - 1])
          ELSE nest[i - 1]
    IN nest

\* _loop appends an iteration's exit after its children: entries and exits pair, under
\* one path each.
Paired(steps) ==
    LET nest == Nest(steps)
    IN /\ nest[Len(steps) + 1] = << >>
       /\ \A i \in 1..Len(steps) :
             steps[i].kind = "loop-exit" =>
                 nest[i] # << >> /\ steps[Top(nest[i])].path = steps[i].path

ASSUME ScheduleAssumption ==
    /\ None \notin {"ok", "stopped", "failed", "aborted"}
    /\ \A s \in Schedules :
          /\ Len(s) \in Nat /\ Paired(s)
          /\ \A i \in 1..Len(s) : s[i].kind \in {"loop-enter", "module", "loop-exit"}
          /\ \A i \in 1..Len(s) : (s[i].kind # "loop-exit" /\ s[i].name = "temperature") =>
                                       s[i].value \in Setpoints

VARIABLES
    job,         \* the schedule that runs
    pos,         \* index of its current step
    pc,          \* where the generator is
    open,        \* self.open: path and temperature label of each open iteration
    root,        \* self.root's label
    providers,   \* self.providers, in order of measurement
    bound,       \* ctx.voc of the current module
    label,       \* ctx's temperature of the current module
    tally,       \* _Tally: curves so far
    told,        \* nodes started and not yet done, outermost first
    ends,        \* RunAborted and RunFailed events yielded
    outcome,     \* how the generator ended
    refused      \* the current module was refused by its builder

walkVars == <<pos, pc, open, root, providers, bound, label, tally, told, ends, outcome, refused>>
execVars == <<job, walkVars, tempVars>>

Steps == job
Here == Steps[pos]
Measurements == {"jv", "jv_bace", "bace"}

NoLabel == [k |-> None, how |-> "", at |-> 0]
NoVoc == [path |-> << >>, level |-> None, at |-> 0]
Idle == [curves |-> 0]

ExecTypeOK ==
    /\ pos \in 1..(Len(Steps) + 1)
    /\ pc \in {"step", "settling", "told", "running", "stopping", "stopped", "failing", "ended"}
    /\ outcome \in {None, "ok", "stopped", "failed", "aborted"}
    /\ refused \in BOOLEAN
    /\ tally.curves \in Nat
    /\ \A i \in DOMAIN ends : ends[i] \in {"aborted", "failed"}

Init ==
    /\ TempInit
    /\ job \in Schedules /\ pos = 1 /\ pc = "step"
    /\ open = << >> /\ root = NoLabel /\ providers = << >>
    /\ bound = NoVoc /\ label = NoLabel /\ tally = Idle
    /\ told = << >> /\ ends = << >> /\ outcome = None /\ refused = FALSE

-----------------------------------------------------------------------------
\* _context: the innermost temperature label, the root's when no loop has one.
Holders == <<root>> \o [i \in 1..Len(open) |-> open[i].label]
Labelled == {i \in 1..Len(Holders) : Holders[i].k # None}
OuterContext ==                              \* mutant: the outermost label wins
    IF Labelled = {} THEN NoLabel
    ELSE Holders[CHOOSE i \in Labelled : \A j \in Labelled : i <= j]
Context ==
    IF Labelled = {} THEN NoLabel
    ELSE Holders[CHOOSE i \in Labelled : \A j \in Labelled : j <= i]

\* _lookup: the last source the named provider measured at this level.
Sources(path, level) == {i \in DOMAIN providers :
                            providers[i].path = path /\ providers[i].level = level}
SourceOf(path, level) ==
    LET found == Sources(path, level)
    IN IF found = {} THEN NoVoc
       ELSE providers[CHOOSE i \in found : \A j \in found : j <= i]

\* _bind: a scheduled J-V is looked up; the session's V_oc is always reconstructed;
\* a typed value and measure_dc leave ctx.voc empty.
Bind(step) ==
    IF step.voc.how = "jv_bace" THEN SourceOf(step.voc.path, step.voc.level)
    ELSE IF step.voc.how = "session" THEN [NoVoc EXCEPT !.level = step.voc.level]
    ELSE NoVoc

\* Catalogue.build: what it refuses before an instrument is touched.  needs and dc are
\* the step's V_oc flags, refused what the bench and the values alone decide.
Refuses(step, voc) ==
    \/ step.refused
    \/ /\ step.needs /\ ~step.dc /\ step.voc.how # "typed"
       /\ voc.level # step.level

-----------------------------------------------------------------------------
\* run(): before a loop iteration or a module the stop flag is looked at.
AtStep(kind) == pc = "step" /\ pos <= Len(Steps) /\ Here.kind = kind
StopAtNode ==
    /\ pc = "step" /\ pos <= Len(Steps) /\ Here.kind # "loop-exit" /\ stop # "none"
    /\ pc' = "stopping"
    /\ UNCHANGED <<job, pos, open, root, providers, bound, label, tally, told, ends,
                   outcome, refused, tempVars>>

\* _enter: NodeStarted and Progress, then the iteration is open under the outer label;
\* a temperature is labelled with its setpoint and settled.
Enter ==
    /\ AtStep("loop-enter") /\ stop = "none"
    /\ told' = Append(told, Here.path)
    /\ IF Here.name = "temperature"
       THEN /\ open' = Append(open, [path |-> Here.path,
                                     label |-> [k |-> Here.value, how |-> "setpoint", at |-> pos]])
            /\ pc' = "settling" /\ UNCHANGED pos
            /\ Begin(Here.value)
       ELSE /\ open' = Append(open, [path |-> Here.path, label |-> Context])
            /\ pos' = pos + 1 /\ UNCHANGED <<pc, tempVars>>
    /\ UNCHANGED <<job, root, providers, bound, label, tally, ends, outcome, refused>>

\* _enter after settle: a stop closes the tree, a temperature relabels the iteration.
Relabelled(old) ==
    IF result.k = None THEN old ELSE [k |-> result.k, how |-> result.how, at |-> pos]
Entered ==
    /\ pc = "settling" /\ phase = "done"
    /\ IF result.how = "stopped"
       THEN pc' = "stopping" /\ UNCHANGED <<pos, open>>
       ELSE /\ open' = Append(Front1(open), [path |-> Top(open).path,
                                             label |-> Relabelled(Top(open).label)])
            /\ pc' = "step" /\ pos' = pos + 1
    /\ Leave
    /\ UNCHANGED <<job, root, providers, bound, label, tally, told, ends, outcome, refused>>

\* AbortNow, raised in a settle, propagates through run().
AbortRaised ==
    /\ pc \in {"settling", "running"} /\ phase = "aborted"
    /\ pc' = "ended" /\ outcome' = "aborted"
    /\ UNCHANGED <<job, pos, open, root, providers, bound, label, tally, told, ends, refused,
                   tempVars>>

\* _exit: Progress and NodeDone of the innermost iteration.
ExitKeepsLoop ==                             \* mutant: the iteration stays open
    /\ AtStep("loop-exit")
    /\ told' = Front1(told)
    /\ pos' = pos + 1
    /\ UNCHANGED <<job, pc, open, root, providers, bound, label, tally, ends, outcome, refused, tempVars>>
Exit ==
    /\ AtStep("loop-exit")
    /\ open' = Front1(open) /\ told' = Front1(told)
    /\ pos' = pos + 1
    /\ UNCHANGED <<job, pc, root, providers, bound, label, tally, ends, outcome, refused, tempVars>>

\* The schedule is done: the generator returns.
Return ==
    /\ pc = "step" /\ pos > Len(Steps)
    /\ pc' = "ended" /\ outcome' = "ok"
    /\ UNCHANGED <<job, pos, open, root, providers, bound, label, tally, told, ends, refused,
                   tempVars>>

-----------------------------------------------------------------------------
\* _module: NodeStarted and the relay notice.
StartModule ==
    /\ AtStep("module") /\ stop = "none"
    /\ told' = Append(told, Here.path)
    /\ pc' = "told" /\ tally' = Idle /\ bound' = NoVoc /\ label' = NoLabel
    /\ UNCHANGED <<job, pos, open, root, providers, ends, outcome, refused, tempVars>>

\* _bind and the builder.  A refusal fails the node; a measurement without a label reads
\* the controller once (_bind_temperature); a temperature module enters settle.
ReadAsFound ==
    IF Here.name \in Measurements /\ Context.k = None /\ attached
    THEN \/ label' = NoLabel
         \/ \E k \in Kelvins : label' = [k |-> k, how |-> "read", at |-> pos]
    ELSE label' = Context
Build ==
    /\ pc = "told"
    /\ bound' = Bind(Here)
    /\ refused' = Refuses(Here, bound')
    /\ IF refused'
       THEN /\ pc' = "failing" /\ told' = Front1(told) /\ label' = Context
            /\ UNCHANGED tempVars
       ELSE /\ pc' = "running" /\ UNCHANGED told
            /\ ReadAsFound
            /\ IF Here.name = "temperature" THEN Begin(Here.value) ELSE UNCHANGED tempVars
    /\ UNCHANGED <<job, pos, open, root, providers, tally, ends, outcome>>

\* JVCurveDone of a jv_bace level.  _capture takes its V_oc only when the curve is known
\* to be lit and crosses zero.
Curve ==
    /\ pc = "running" /\ Here.name = "jv_bace" /\ tally.curves < Len(Here.levels)
    /\ tally' = [tally EXCEPT !.curves = @ + 1]
    /\ \/ providers' = Append(providers, [path |-> Here.path,
                                          level |-> Here.levels[tally.curves + 1], at |-> pos])
       \/ UNCHANGED providers
    /\ UNCHANGED <<job, pos, pc, open, root, bound, label, told, ends, outcome, refused, tempVars>>

\* A stopped node closes the tree; RunAborted is left to the module that yielded it.
ClosingAlways(ab) == "stopping"              \* mutant: the executor says it again
Closing(ab) == IF ab THEN "stopped" ELSE "stopping"

\* The tail of _module: a label that differs from the bound one is spread over root and
\* every open iteration, then NodeDone; a stopped node closes the tree.  ab: RunAborted
\* was yielded; fin: a completion event or a utility's normal end.
EndModule(mine, ab, fin) ==
    LET spread == mine.k # None /\ mine # Context
        isStopped == ab \/ (stop # "none" /\ Here.name \in Measurements /\ ~fin)
    IN /\ root' = IF spread THEN mine ELSE root
       /\ open' = IF spread
                  THEN [i \in 1..Len(open) |-> [path |-> open[i].path, label |-> mine]]
                  ELSE open
       /\ label' = NoLabel /\ bound' = NoVoc /\ tally' = Idle
       /\ told' = Front1(told)
       /\ pc' = IF isStopped THEN Closing(ab) ELSE "step"
       /\ pos' = IF isStopped THEN pos ELSE pos + 1
       /\ ends' = IF ab THEN Append(ends, "aborted") ELSE ends
       /\ UNCHANGED <<job, providers, outcome, refused>>

\* RunFinished, JVFinished, or a utility that ends.
Complete ==
    /\ pc = "running" /\ Here.name # "temperature"
    /\ Here.name = "jv_bace" => tally.curves = Len(Here.levels)
    /\ EndModule(label, FALSE, TRUE)
    /\ UNCHANGED tempVars
\* run_transient_scan sees the flag before a shot and yields RunAborted; run_jv returns.
StopInModule ==
    /\ pc = "running" /\ Here.name \in Measurements /\ stop # "none"
    /\ EndModule(label, Here.name = "bace", FALSE)
    /\ UNCHANGED tempVars
\* The temperature module: a stopped settle yields RunAborted, any other binds ctx.
TemperatureSet ==
    /\ pc = "running" /\ Here.name = "temperature" /\ phase = "done"
    /\ EndModule(Relabelled(label), result.how = "stopped", TRUE)
    /\ Leave

\* An exception in the module: NodeDone failed, then the open iterations, then RunFailed.
Raise ==
    /\ pc = "running" /\ Here.name # "temperature"
    /\ pc' = "failing" /\ told' = Front1(told)
    /\ UNCHANGED <<job, pos, open, root, providers, bound, label, tally, ends, outcome,
                   refused, tempVars>>

\* The recorder's last flush fails after the module has yielded RunAborted.
RaiseAfterStop ==
    /\ pc = "running" /\ Here.name = "bace" /\ stop # "none"
    /\ pc' = "failing" /\ told' = Front1(told) /\ ends' = Append(ends, "aborted")
    /\ UNCHANGED <<job, pos, open, root, providers, bound, label, tally, outcome, refused,
                   tempVars>>

-----------------------------------------------------------------------------
\* _close_open, one NodeDone at a time, innermost first.
CloseOne ==
    /\ pc \in {"stopping", "stopped", "failing"} /\ open # << >>
    /\ open' = Front1(open) /\ told' = Front1(told)
    /\ UNCHANGED <<job, pos, pc, root, providers, bound, label, tally, ends, outcome,
                   refused, tempVars>>

\* RunAborted unless the module yielded it, RunFailed for a failure; then it is over.
TellEndEarly ==                              \* mutant: the open nodes are forgotten
    /\ pc \in {"stopping", "stopped", "failing"}
    /\ pc' = "ended"
    /\ outcome' = IF pc = "failing" THEN "failed" ELSE "stopped"
    /\ ends' = IF pc = "stopped" THEN ends
               ELSE Append(ends, IF pc = "failing" THEN "failed" ELSE "aborted")
    /\ UNCHANGED <<job, pos, open, root, providers, bound, label, tally, told, refused, tempVars>>
TellEnd ==
    /\ pc \in {"stopping", "stopped", "failing"} /\ open = << >>
    /\ pc' = "ended"
    /\ outcome' = IF pc = "failing" THEN "failed" ELSE "stopped"
    /\ ends' = IF pc = "stopped" THEN ends
               ELSE Append(ends, IF pc = "failing" THEN "failed" ELSE "aborted")
    /\ UNCHANGED <<job, pos, open, root, providers, bound, label, tally, told, refused, tempVars>>

\* The worker sees the abort after an event and closes the generator where it stands.
WorkerCloses ==
    /\ stop = "abort"
    /\ \/ pc \in {"told", "running", "stopping", "stopped", "failing"}
       \/ pc = "step" /\ pos > 1
       \/ pc = "settling" /\ phase = "done"
    /\ pc' = "ended" /\ outcome' = "aborted"
    /\ UNCHANGED <<job, pos, open, root, providers, bound, label, tally, told, ends, refused,
                   tempVars>>

LoopStep1 == StopAtNode \/ Enter \/ Entered \/ AbortRaised \/ Exit \/ Return
ModuleStep1 == StartModule \/ Build \/ Curve \/ Complete \/ StopInModule \/ TemperatureSet \/ Raise
               \/ RaiseAfterStop
CloseStep == CloseOne \/ TellEnd \/ WorkerCloses
Settling ==
    /\ pc = "settling" \/ (pc = "running" /\ Here.name = "temperature")
    /\ SettleStep \/ PauseStep
    /\ UNCHANGED <<job, walkVars>>
Operator ==
    /\ pc \in {"settling", "running"}
    /\ PollWhilePaused \/ Resume
    /\ UNCHANGED <<job, walkVars>>
Stopping ==
    /\ pc # "ended"
    /\ \E mode \in {"after_shot", "abort"} : RequestStop(mode)
    /\ UNCHANGED <<job, walkVars>>

Walk1 == LoopStep1 \/ ModuleStep1 \/ CloseStep
ExecNext == Walk1 \/ Settling \/ Operator \/ Stopping
ExecSpec == Init /\ [][ExecNext]_execVars
\* The worker thread keeps iterating the generator; nobody has to answer a pause.
FairExecSpec == ExecSpec /\ WF_execVars(Walk1) /\ WF_execVars(Settling)

-----------------------------------------------------------------------------
\* executor.py, _exit and _close_open: at a loop-exit the innermost open iteration is
\* the step's own, and the nodes told but not done are exactly the open iterations and
\* the module that runs.
LoopsPair ==
    /\ (pc = "step" /\ pos <= Len(Steps) /\ Here.kind = "loop-exit") =>
          open # << >> /\ Top(open).path = Here.path
    /\ pc # "ended" =>
          told = [i \in 1..Len(open) |-> open[i].path]
                 \o (IF pc \in {"told", "running"} THEN <<Here.path>> ELSE << >>)

\* executor.py, _close_open, "an early run end must leave no open node": only a
\* generator closed by an abort leaves nodes that were started and are not done.
NodesClosed == outcome \in {"ok", "stopped", "failed"} => told = << >> /\ open = << >>

\* Both together.
NodesAccounted == LoopsPair /\ NodesClosed

\* executor.py, _module and _stop: a stopped run says RunAborted once whoever says it, a
\* failed one says RunFailed last, and a completed one with neither.
OneLastWord == pc = "ended" =>
    /\ outcome = "ok" => ends = << >>
    /\ outcome = "stopped" => ends = <<"aborted">>
    /\ outcome = "failed" => ends # << >> /\ Top(ends) = "failed"

\* service-contract.md section 7: while a node runs under a settled label the controller
\* still holds the setpoint it settled at.
SettledIsInForce ==
    (pc = "running" /\ Here.name \in Measurements /\ label.how = "settled") =>
        inForce # None /\ label.k <= inForce + Tolerance /\ inForce <= label.k + Tolerance

\* The schedules in which no measurement comes after a temperature loop that has ended,
\* unless it lies in a later one: a label outlives the loop that changed the setpoint.
IsHot(step) == step.kind = "loop-enter" /\ step.name = "temperature"
KeepsItsSetpoint(steps) ==
    \A i \in 1..Len(steps) :
        (steps[i].kind = "module" /\ steps[i].name \in Measurements
            /\ \E j \in 1..(i - 1) : IsHot(steps[j])) =>
          LET nest == Nest(steps)[i]
          IN \E e \in DOMAIN nest :
                /\ IsHot(steps[nest[e]])
                /\ \A j \in 1..(i - 1) : IsHot(steps[j]) => j <= nest[e]

\* What the record says of a node is so: it is closed when it has ended, and settled only
\* while its setpoint is in force.
NodesAreTrue == NodesAccounted /\ SettledIsInForce

\* service-contract.md section 7, temperature_how: a node labelled read was read as it
\* started.
ReadIsOfThisNode == (pc = "running" /\ label.how = "read") => label.at = pos

\* executor.py, run(): a requested stop of either mode ends the generator, whatever it
\* was waiting for.
StopEnds == (stop # "none") ~> (pc = "ended")

\* The executor comes to an end by itself or waits for the operator.
EndsOrAsks == []<>(pc = "ended" \/ phase = "wait")

\* Both: no node and no settle can hang but in a pause that nobody stops.
ComesToAnEnd == StopEnds /\ EndsOrAsks

\* What the walk does with the settles is what one settle after another may do, so that
\* what is proved of a settle by itself holds of the nodes of a run.
ImplementsSettle == Spec
=============================================================================
