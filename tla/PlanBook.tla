------------------------------- MODULE PlanBook -------------------------------
(***************************************************************************)
(* Experiment plans (bace/service/plans.py and the session operations that *)
(* use them): an agent proposes an envelope, a person who has seen it      *)
(* approves it by its fingerprint, and submissions are held to it.  Every  *)
(* operation runs on the event loop's thread, so a submission's check and  *)
(* its charge are one step.  A restart forgets the plans and may give      *)
(* their ids again; a page that was open shows the old ones.               *)
(***************************************************************************)
EXTENDS Integers, FiniteSets

CONSTANTS
    Contents,      \* what agents propose: title, goal, envelope; the fingerprint is the whole
    Trees,         \* trees agents submit, each the set of its nodes
    Catalogue,     \* module -> the parameters it has
    Layers,        \* what the layers may give the parameters of a scan
    Costs,         \* cost estimates of trees, in seconds
    MAX_EXPIRES_S, \* the longest an approval may last
    MaxPlans,      \* bound: plans of one process
    MaxTime,       \* bound: the clock
    AutoApprove,   \* [plans] auto_approve
    None

ASSUME PlanBookAssumption ==
    /\ \A c \in Contents :
          c.max_runs \in Int /\ c.max_total_s \in Int /\ c.expires_s \in Int
    /\ Costs \subseteq Nat /\ MaxPlans \in Nat /\ MaxTime \in Nat
    /\ AutoApprove \in BOOLEAN /\ None \notin Contents /\ None \notin (1..MaxPlans) \X Trees

\* Ends, steps and bounds of a scan are whole units.
ASSUME ScanAssumption ==
    /\ \A t \in Trees : \A node \in t :
          \A p \in {"axis_start", "axis_stop", "axis_step"} \cap DOMAIN node.params :
              node.params[p] \in Int
    /\ \A layer \in Layers :
          /\ DOMAIN layer =
                {"axis_name", "axis_start", "axis_stop", "axis_step", "centre_on_voc"}
          /\ layer.axis_start \in Int /\ layer.axis_stop \in Int /\ layer.axis_step \in Int
    /\ \A c \in Contents : \A m \in DOMAIN c.modules : \A p \in DOMAIN c.modules[m] :
          \A side \in {"min", "max"} \cap DOMAIN c.modules[m][p] : c.modules[m][p][side] \in Int

VARIABLES
    content,    \* plan id -> what was proposed, None while the id is free
    state,      \* plan id -> Plan.state
    decided,    \* plan id -> Plan.decided_at
    runs,       \* plan id -> len(Plan.runs)
    spent,      \* plan id -> Plan.spent_s
    lastRun,    \* plan id -> when its last run was submitted
    ran,        \* the last run accepted under a plan: <<plan id, tree>>
    seen,       \* <<id, content>> pairs some open page shows
    now         \* the clock

Ids == 1..MaxPlans
plan == <<content, state, decided, runs, spent, lastRun, ran>>
vars == <<plan, seen, now>>

STATES == {"proposed", "approved", "rejected", "closed"}
Blank ==
    /\ content = [i \in Ids |-> None]
    /\ state = [i \in Ids |-> "proposed"]
    /\ decided = [i \in Ids |-> 0] /\ lastRun = [i \in Ids |-> 0]
    /\ runs = [i \in Ids |-> 0] /\ spent = [i \in Ids |-> 0]
    /\ ran = None

Init == Blank /\ seen = {} /\ now = 0

-----------------------------------------------------------------------------
(* Envelopes.  A module node sets parameters, each to one value; a loop    *)
(* carries a set of values (a repeat its count) and parameters.            *)

\* plans.py _bound: non-empty choices, or a range that is not empty.
SoundBound(b) ==
    IF "choices" \in DOMAIN b THEN b.choices # {} /\ DOMAIN b = {"choices"}
    ELSE /\ DOMAIN b # {} /\ DOMAIN b \subseteq {"min", "max"}
         /\ {"min", "max"} \subseteq DOMAIN b => b.min <= b.max

\* _within, of one value; _within of a list is each of its values.
Keeps(v, b) ==
    IF "choices" \in DOMAIN b THEN v \in b.choices
    ELSE /\ "min" \in DOMAIN b => b.min <= v
         /\ "max" \in DOMAIN b => v <= b.max

LoopKey == [temperature |-> "values_k", illumination |-> "levels_v", repeat |-> "count"]

\* Envelope.from_wire.
FromWire(e) ==
    /\ DOMAIN e.modules # {} /\ DOMAIN e.modules \subseteq DOMAIN Catalogue
    /\ \A m \in DOMAIN e.modules :
          /\ DOMAIN e.modules[m] \subseteq Catalogue[m]
          /\ \A p \in DOMAIN e.modules[m] : SoundBound(e.modules[m][p])
    /\ DOMAIN e.loops \subseteq DOMAIN LoopKey
    /\ \A l \in DOMAIN e.loops : \A p \in DOMAIN e.loops[l] : SoundBound(e.loops[l][p])
    /\ e.max_runs >= 1 /\ e.max_total_s > 0
    /\ 0 < e.expires_s /\ e.expires_s <= MAX_EXPIRES_S

\* Axis.n_points less one, and Axis.values.  Point k of n intervals lies at
\* start + (stop - start) * k / n; it is compared n times enlarged.
Distance(a, b) == IF a < b THEN b - a ELSE a - b
Intervals(a, b, step) == IF a = b THEN 0 ELSE (2 * Distance(a, b) + step) \div (2 * step)
PointKeeps(a, b, n, k, bound) ==
    LET point == a * n + (b - a) * k
    IN IF "choices" \in DOMAIN bound THEN \E c \in bound.choices : c * n = point
       ELSE /\ "min" \in DOMAIN bound => bound.min * n <= point
            /\ "max" \in DOMAIN bound => point <= bound.max * n
ScanKeeps(a, b, step, bound) ==
    LET n == Intervals(a, b, step)
    IN IF n = 0 THEN Keeps(a, bound) ELSE \A k \in 0..n : PointKeeps(a, b, n, k, bound)

AXIS_ENDS == {"axis_start", "axis_stop"}
Ends(node) == AXIS_ENDS \cap DOMAIN node.params
Sets(node, p) == p \in DOMAIN node.params

\* _axis_violations, of both ends: a range holds what lies between two values of it, of
\* discrete choices every point must be one.
EndsOfScanAllowed(node, bound) ==              \* mutant: the ends of discrete choices only
    \A p \in AXIS_ENDS : Keeps(node.params[p], bound)
ScanAllowed(node, bound) ==
    LET a == node.params.axis_start
        b == node.params.axis_stop
        step == IF Sets(node, "axis_step") THEN node.params.axis_step ELSE 0
    IN IF "choices" \notin DOMAIN bound THEN Keeps(a, bound) /\ Keeps(b, bound)
       ELSE /\ a # b => Sets(node, "axis_step") /\ step > 0
            /\ Intervals(a, b, step) < Cardinality(bound.choices)
            /\ ScanKeeps(a, b, step, bound)

\* _axis_violations: a tree that sets an end names the axis, which the plan lets be set,
\* and sets both; a vpre axis says whether its ends are offsets from V_oc.
AxisFits(node, allowed) ==
    Ends(node) # {} =>
        /\ Sets(node, "axis_name")
        /\ node.params.axis_name = "vpre" => Sets(node, "centre_on_voc")
        /\ \/ node.params.axis_name = "vpre" /\ node.params.centre_on_voc
           \/ /\ node.params.axis_name \in DOMAIN allowed
              /\ Ends(node) = AXIS_ENDS
              /\ ScanAllowed(node, allowed[node.params.axis_name])

ParamsFit(node, allowed) ==
    \A p \in DOMAIN node.params : p \in DOMAIN allowed /\ Keeps(node.params[p], allowed[p])

\* Envelope.violations is empty.
Fits(e, tree) ==
    \A node \in tree :
        IF node.kind = "module"
        THEN /\ node.name \in DOMAIN e.modules
             /\ ParamsFit(node, e.modules[node.name]) /\ AxisFits(node, e.modules[node.name])
        ELSE /\ node.name \in DOMAIN e.loops
             /\ LET allowed == e.loops[node.name]
                IN /\ LoopKey[node.name] \in DOMAIN allowed
                   /\ \A v \in node.values : Keeps(v, allowed[LoopKey[node.name]])
                   /\ ParamsFit(node, allowed)

-----------------------------------------------------------------------------
\* The next free number within the session.
NextId(i) == content[i] = None /\ \A k \in Ids : k < i => content[k] # None

Propose(i, c) ==
    /\ NextId(i) /\ FromWire(c)
    /\ content' = [content EXCEPT ![i] = c]
    /\ IF AutoApprove
       THEN state' = [state EXCEPT ![i] = "approved"] /\ decided' = [decided EXCEPT ![i] = now]
       ELSE UNCHANGED <<state, decided>>
    /\ UNCHANGED <<runs, spent, lastRun, ran, seen, now>>

\* A page loads the plan.
Show(i) ==
    /\ content[i] # None
    /\ seen' = seen \cup {<<i, content[i]>>}
    /\ UNCHANGED <<plan, now>>

AnyFingerprint(i, c) == TRUE                   \* mutant: whatever was on the page
SameFingerprint(i, c) == c = content[i]

DecidesAnything(i) == state[i] # "closed"      \* mutant: a decision may be repeated
Decidable(i) == state[i] = "proposed"

Approve(i, c) ==
    /\ <<i, c>> \in seen
    /\ content[i] # None /\ Decidable(i) /\ SameFingerprint(i, c)
    /\ state' = [state EXCEPT ![i] = "approved"]
    /\ decided' = [decided EXCEPT ![i] = now]
    /\ UNCHANGED <<content, runs, spent, lastRun, ran, seen, now>>

Reject(i) ==
    /\ content[i] # None /\ Decidable(i)
    /\ state' = [state EXCEPT ![i] = "rejected"]
    /\ decided' = [decided EXCEPT ![i] = now]
    /\ UNCHANGED <<content, runs, spent, lastRun, ran, seen, now>>

\* close keeps decided_at, and with it the end of the approval.
Close(i) ==
    /\ content[i] # None /\ state[i] = "approved"
    /\ state' = [state EXCEPT ![i] = "closed"]
    /\ UNCHANGED <<content, decided, runs, spent, lastRun, ran, seen, now>>

NeverExpires(i) == state[i] = "approved" /\ runs[i] < content[i].max_runs  \* mutant
ExtraRun(i) == state[i] = "approved" /\ runs[i] <= content[i].max_runs     \* mutant: off by one
Open(i) ==
    /\ state[i] = "approved"
    /\ now <= decided[i] + content[i].expires_s
    /\ runs[i] < content[i].max_runs

Affordable(i, cost) == spent[i] + cost <= content[i].max_total_s

\* Session.submit under a plan: the tree fits, the worker takes the job, and the plan is
\* charged.  A refusal changes nothing here.
Submit(i, cost, tree) ==
    /\ content[i] # None
    /\ Open(i) /\ Affordable(i, cost) /\ Fits(content[i], tree)
    /\ runs' = [runs EXCEPT ![i] = @ + 1]
    /\ spent' = [spent EXCEPT ![i] = @ + cost]
    /\ lastRun' = [lastRun EXCEPT ![i] = now]
    /\ ran' = <<i, tree>>
    /\ UNCHANGED <<content, state, decided, seen, now>>

Tick ==
    /\ now < MaxTime
    /\ now' = now + 1
    /\ UNCHANGED <<plan, seen>>

ForgetsNames ==                                \* mutant: the charges stay behind
    content' = [i \in Ids |-> None] /\ UNCHANGED <<state, decided, runs, spent, lastRun, ran>>
Forgets ==
    /\ content' = [i \in Ids |-> None]
    /\ state' = [i \in Ids |-> "proposed"]
    /\ decided' = [i \in Ids |-> 0] /\ lastRun' = [i \in Ids |-> 0]
    /\ runs' = [i \in Ids |-> 0] /\ spent' = [i \in Ids |-> 0]
    /\ ran' = None

Restart ==
    /\ Forgets
    /\ UNCHANGED <<seen, now>>

Next ==
    \/ \E i \in Ids :
          \/ \E c \in Contents : Propose(i, c) \/ Approve(i, c)
          \/ Show(i) \/ Reject(i) \/ Close(i)
          \/ \E cost \in Costs, tree \in Trees : Submit(i, cost, tree)
    \/ Tick \/ Restart

Spec == Init /\ [][Next]_vars
-----------------------------------------------------------------------------
(* Properties.                                                             *)

\* Every variable keeps its type, and an id that is free is charged with nothing.
TypeOK ==
    /\ content \in [Ids -> Contents \cup {None}]
    /\ state \in [Ids -> STATES]
    /\ decided \in [Ids -> Nat] /\ lastRun \in [Ids -> Nat]
    /\ runs \in [Ids -> Nat] /\ spent \in [Ids -> Nat]
    /\ ran \in (Ids \X Trees) \cup {None}
    /\ seen \subseteq Ids \X Contents
    /\ now \in Nat
    /\ \A i \in Ids : content[i] = None =>
          state[i] = "proposed" /\ runs[i] = 0 /\ spent[i] = 0
    /\ ran # None => content[ran[1]] # None

\* However submissions, decisions and restarts follow one another, no plan is charged
\* with more runs or more time than its envelope has.
BudgetHolds ==
    \A i \in Ids : content[i] # None =>
        runs[i] <= content[i].max_runs /\ spent[i] <= content[i].max_total_s

\* A plan that was not approved by rig.toml and under which a run was submitted is the
\* plan some page showed: an approval sent from a page of an earlier process, or for an
\* id that was given again, does not reach another plan.
ApprovedAsShown ==
    \A i \in Ids : (~AutoApprove /\ runs[i] > 0) => <<i, content[i]>> \in seen

\* Every run under a plan was submitted between its approval and the approval's end.
RunsWhileApproved ==
    \A i \in Ids : runs[i] > 0 =>
        /\ state[i] \in {"approved", "closed"}
        /\ decided[i] <= lastRun[i] /\ lastRun[i] <= decided[i] + content[i].expires_s

\* What a node measures with: its own values over those of the layers (run.toml, the card).
Effective(node, layer) ==
    [p \in DOMAIN layer |-> IF Sets(node, p) THEN node.params[p] ELSE layer[p]]
SweepsWithin(node, layer, allowed) ==
    LET scan == Effective(node, layer)
    IN \/ scan.axis_name = "vpre" /\ scan.centre_on_voc
       \/ scan.axis_start # scan.axis_stop /\ scan.axis_step <= 0
       \/ /\ scan.axis_name \in DOMAIN allowed
          /\ ScanKeeps(scan.axis_start, scan.axis_stop, scan.axis_step,
                       allowed[scan.axis_name])

\* Whatever the layers give to what a tree leaves out, a scan whose ends were submitted
\* under a plan takes the swept parameter, at every point, to values of that plan.  An
\* axis centred on V_oc has offsets for ends; one without a step is refused before it runs.
SweptAsApproved ==
    ran # None =>
        \A node \in ran[2] : (node.kind = "module" /\ Ends(node) # {}) =>
            \A layer \in Layers :
                SweepsWithin(node, layer, content[ran[1]].modules[node.name])

\* The same of a tree that names the axis and leaves the ends to the layers.
NamedAxisStaysWithin ==
    ran # None =>
        \A node \in ran[2] : (node.kind = "module" /\ Sets(node, "axis_name")) =>
            \A layer \in Layers :
                SweepsWithin(node, layer, content[ran[1]].modules[node.name])

\* A run under a plan that no rule of the rig approved was seen, approved, in time, and
\* sweeps what was approved.
ApprovalHolds == ApprovedAsShown /\ RunsWhileApproved /\ SweptAsApproved

\* A decision is final within one process: a rejected or closed plan never takes a run,
\* and no plan goes back to proposed while it has its id.
DecisionsAreFinal ==
    [][\A i \in Ids : (content[i] # None /\ content'[i] # None) =>
          /\ state'[i] = "proposed" => state[i] = "proposed"
          /\ state[i] \in {"rejected", "closed"} =>
                state'[i] = state[i] /\ runs'[i] = runs[i]]_vars
-----------------------------------------------------------------------------
(* Why they hold: what a decided plan remembers.                           *)

\* Only a decided plan is approved, and a person decides on what a page showed.
DecidedInTime ==
    \A i \in Ids :
        /\ decided[i] <= now
        /\ (~AutoApprove /\ content[i] # None /\ state[i] \in {"approved", "closed"}) =>
              <<i, content[i]>> \in seen

\* The last accepted tree fits the plan it ran under.
RanFits == ran # None => Fits(content[ran[1]], ran[2])

Book == TypeOK /\ BudgetHolds /\ RunsWhileApproved /\ DecidedInTime /\ RanFits
=============================================================================
