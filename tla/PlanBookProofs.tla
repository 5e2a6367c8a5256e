---------------------------- MODULE PlanBookProofs ----------------------------
(***************************************************************************)
(* What PlanBook promises for every set of envelopes, costs and decisions. *)
(* The inductive invariant Book says of each plan what it was charged,     *)
(* when, and who had seen it.                                              *)
(***************************************************************************)
EXTENDS PlanBook, TLAPS

\* A new process begins with blank plans: Book holds in the initial state.
LEMMA InitBook == Init => Book
  BY PlanBookAssumption
  DEF Init, Blank, Book, TypeOK, BudgetHolds, RunsWhileApproved, DecidedInTime, RanFits, STATES, Ids

\* The invariant is kept by every operation on the plans.
LEMMA NextBook == Book /\ [Next]_vars => Book'
<1> SUFFICES ASSUME Book, [Next]_vars PROVE Book'
  OBVIOUS
<1> USE PlanBookAssumption DEF Book, TypeOK, BudgetHolds, RunsWhileApproved, DecidedInTime, RanFits
<1>1. ASSUME NEW i \in Ids, NEW c \in Contents, Propose(i, c) PROVE Book'
  <2>1. /\ content[i] = None /\ runs[i] = 0 /\ spent[i] = 0 /\ c # None
        /\ content' = [content EXCEPT ![i] = c]
        /\ UNCHANGED <<runs, spent, lastRun, ran, seen, now>>
        /\ c.max_runs >= 0 /\ c.max_total_s >= 0
    BY <1>1 DEF Propose, NextId, FromWire
  <2>2. \/ /\ AutoApprove
           /\ state' = [state EXCEPT ![i] = "approved"]
           /\ decided' = [decided EXCEPT ![i] = now]
        \/ UNCHANGED <<state, decided>>
    BY <1>1 DEF Propose
  <2>3. TypeOK'
    BY <2>1, <2>2 DEF STATES
  <2>4. BudgetHolds'
    BY <2>1
  <2>5. RunsWhileApproved'
    BY <2>1, <2>2
  <2>6. DecidedInTime'
    <3>1. ASSUME NEW k \in Ids PROVE decided'[k] <= now'
      <4>1. decided'[k] = decided[k] \/ decided'[k] = now
        BY <2>2
      <4>2. decided[k] <= now /\ now \in Nat /\ now' = now
        BY <2>1
      <4> QED
        BY <4>1, <4>2
    <3>2. ASSUME ~AutoApprove, NEW k \in Ids, content'[k] # None,
                 state'[k] \in {"approved", "closed"}
          PROVE  <<k, content'[k]>> \in seen'
      <4>1. UNCHANGED <<state, decided>> /\ state[i] = "proposed"
        BY <2>1, <2>2, <3>2
      <4>2. k # i
        BY <3>2, <4>1
      <4> QED
        BY <2>1, <3>2, <4>1, <4>2
    <3> QED
      BY <3>1, <3>2
  <2>7. RanFits'
    BY <2>1
  <2> QED
    BY <2>3, <2>4, <2>5, <2>6, <2>7
<1>2. ASSUME NEW i \in Ids, NEW c \in Contents, Approve(i, c) PROVE Book'
  BY <1>2 DEF Approve, Decidable, SameFingerprint, STATES
<1>3. ASSUME NEW i \in Ids, Show(i) PROVE Book'
  BY <1>3 DEF Show, plan
<1>4. ASSUME NEW i \in Ids, Reject(i) PROVE Book'
  BY <1>4 DEF Reject, Decidable, STATES
<1>5. ASSUME NEW i \in Ids, Close(i) PROVE Book'
  BY <1>5 DEF Close, STATES
<1>6. ASSUME NEW i \in Ids, NEW cost \in Costs, NEW tree \in Trees, Submit(i, cost, tree)
      PROVE  Book'
  <2>1. /\ content[i] \in Contents /\ cost \in Nat /\ state[i] = "approved"
        /\ now <= decided[i] + content[i].expires_s /\ decided[i] <= now
        /\ runs[i] + 1 <= content[i].max_runs
        /\ spent[i] + cost <= content[i].max_total_s
    <3>1. content[i] \in Contents /\ cost \in Nat /\ decided[i] <= now
      BY <1>6 DEF Submit
    <3>2. /\ state[i] = "approved" /\ now <= decided[i] + content[i].expires_s
          /\ runs[i] < content[i].max_runs
          /\ spent[i] + cost <= content[i].max_total_s
      BY <1>6 DEF Submit, Open, Affordable
    <3>3. runs[i] \in Nat /\ content[i].max_runs \in Int
      BY <3>1
    <3>4. runs[i] + 1 <= content[i].max_runs
      BY <3>2, <3>3
    <3> QED
      BY <3>1, <3>2, <3>4
  <2>2. /\ runs' = [runs EXCEPT ![i] = runs[i] + 1]
        /\ spent' = [spent EXCEPT ![i] = spent[i] + cost]
        /\ lastRun' = [lastRun EXCEPT ![i] = now]
        /\ ran' = <<i, tree>> /\ content[i] # None /\ Fits(content[i], tree)
        /\ UNCHANGED <<content, state, decided, seen, now>>
    BY <1>6 DEF Submit
  <2>3. TypeOK'
    BY <2>1, <2>2
  <2>4. BudgetHolds'
    BY <2>1, <2>2
  <2>5. RunsWhileApproved'
    BY <2>1, <2>2
  <2>6. DecidedInTime'
    BY <2>2
  <2>7. RanFits'
    BY <2>2
  <2> QED
    BY <2>3, <2>4, <2>5, <2>6, <2>7
<1>7. ASSUME Tick PROVE Book'
  BY <1>7 DEF Tick, plan
<1>8. ASSUME Restart PROVE Book'
  BY <1>8 DEF Restart, Forgets, STATES
<1>9. ASSUME UNCHANGED vars PROVE Book'
  BY <1>9 DEF vars, plan
<1> QED
  BY <1>1, <1>2, <1>3, <1>4, <1>5, <1>6, <1>7, <1>8, <1>9 DEF Next

\* Book holds in every reachable state.
THEOREM BookTheorem == Spec => []Book
  BY InitBook, NextBook, PTL DEF Spec

\* No plan is charged beyond its envelope (PlanBook.check and charge).
THEOREM BudgetTheorem == Spec => []BudgetHolds
<1>1. Book => BudgetHolds
  BY DEF Book
<1> QED
  BY <1>1, BookTheorem, PTL

\* A run under a plan nobody approved by configuration: a page showed that plan.
THEOREM ShownTheorem == Spec => []ApprovedAsShown
<1>1. Book => ApprovedAsShown
  BY DEF Book, TypeOK, RunsWhileApproved, DecidedInTime, ApprovedAsShown
<1> QED
  BY <1>1, BookTheorem, PTL

\* A run under a plan is submitted between its approval and the approval's end.
THEOREM ApprovalTheorem == Spec => []RunsWhileApproved
<1>1. Book => RunsWhileApproved
  BY DEF Book
<1> QED
  BY <1>1, BookTheorem, PTL

\* Between two ends that keep to a bound, every point of a scan does: point k of n is the
\* ends' mean with weights n - k and k.
LEMMA BetweenEnds ==
  ASSUME NEW a \in Int, NEW b \in Int, NEW lo \in Int, NEW n \in Nat, NEW k \in 0..n,
         lo <= a, lo <= b
  PROVE  lo * n <= a * n + (b - a) * k
<1>1. lo * (n - k) <= a * (n - k) /\ lo * k <= b * k
  OBVIOUS
<1>2. a * n + (b - a) * k = a * (n - k) + b * k
  OBVIOUS
<1>3. lo * n = lo * (n - k) + lo * k
  OBVIOUS
<1> QED
  BY <1>1, <1>2, <1>3

LEMMA BelowEnds ==
  ASSUME NEW a \in Int, NEW b \in Int, NEW hi \in Int, NEW n \in Nat, NEW k \in 0..n,
         a <= hi, b <= hi
  PROVE  a * n + (b - a) * k <= hi * n
<1>1. a * (n - k) <= hi * (n - k) /\ b * k <= hi * k
  OBVIOUS
<1>2. a * n + (b - a) * k = a * (n - k) + b * k
  OBVIOUS
<1>3. hi * n = hi * (n - k) + hi * k
  OBVIOUS
<1> QED
  BY <1>1, <1>2, <1>3

\* Axis.n_points is a count: a scan with a positive step has a natural number of intervals.
LEMMA IntervalsNat ==
  ASSUME NEW a \in Int, NEW b \in Int, NEW step \in Int, a = b \/ step > 0
  PROVE  Intervals(a, b, step) \in Nat
<1>1. CASE a = b
  BY <1>1 DEF Intervals
<1>2. CASE a # b
  <2>1. Distance(a, b) \in Nat /\ step > 0
    BY <1>2 DEF Distance
  <2>2. (2 * Distance(a, b) + step) \div (2 * step) \in Nat
    <3> DEFINE num == 2 * Distance(a, b) + step
               den == 2 * step
    <3>1. num \in Nat /\ den \in Nat /\ den > 0
      BY <2>1
    <3> HIDE DEF num, den
    <3>2. num \div den \in Nat
      BY <3>1
    <3> QED
      BY <3>2 DEF num, den
  <2> QED
    BY <1>2, <2>2 DEF Intervals
<1> QED
  BY <1>1, <1>2

\* A range holds a scan whose ends it holds, for any step.
LEMMA RangeHoldsScan ==
  ASSUME NEW a \in Int, NEW b \in Int, NEW step \in Int, a = b \/ step > 0,
         NEW bound, "choices" \notin DOMAIN bound,
         \A side \in {"min", "max"} \cap DOMAIN bound : bound[side] \in Int,
         Keeps(a, bound), Keeps(b, bound)
  PROVE  ScanKeeps(a, b, step, bound)
<1> DEFINE n == Intervals(a, b, step)
<1>1. n \in Nat
  BY IntervalsNat
<1> HIDE DEF n
<1>2. ASSUME NEW k \in 0..n PROVE PointKeeps(a, b, n, k, bound)
  <2>1. ASSUME "min" \in DOMAIN bound PROVE bound.min * n <= a * n + (b - a) * k
    <3>1. bound.min \in Int /\ bound.min <= a /\ bound.min <= b
      BY <2>1 DEF Keeps
    <3> QED
      BY <1>1, <3>1, BetweenEnds
  <2>2. ASSUME "max" \in DOMAIN bound PROVE a * n + (b - a) * k <= bound.max * n
    <3>1. bound.max \in Int /\ a <= bound.max /\ b <= bound.max
      BY <2>2 DEF Keeps
    <3> QED
      BY <1>1, <3>1, BelowEnds
  <2> QED
    BY <2>1, <2>2 DEF PointKeeps
<1>3. (n = 0 /\ Keeps(a, bound)) \/ \A k \in 0..n : PointKeeps(a, b, n, k, bound)
  BY <1>2
<1> QED
  BY <1>2 DEF ScanKeeps, n

\* _axis_violations holds a scan to the swept parameter's bound, whatever the layers give.
LEMMA AxisHoldsScan ==
  ASSUME NEW t \in Trees, NEW node \in t, NEW c \in Contents, NEW layer \in Layers,
         node.kind = "module", Ends(node) # {}, Fits(c, t)
  PROVE  SweepsWithin(node, layer, c.modules[node.name])
<1> DEFINE allowed == c.modules[node.name]
           scan == Effective(node, layer)
           axis == node.params.axis_name
<1>1. node.name \in DOMAIN c.modules /\ AxisFits(node, allowed)
  BY DEF Fits
<1>2. /\ Sets(node, "axis_name")
      /\ axis = "vpre" => Sets(node, "centre_on_voc")
      /\ \/ axis = "vpre" /\ node.params.centre_on_voc
         \/ /\ axis \in DOMAIN allowed /\ Ends(node) = AXIS_ENDS
            /\ ScanAllowed(node, allowed[axis])
  BY <1>1 DEF AxisFits
<1>3. scan.axis_name = axis
  BY <1>2, ScanAssumption DEF Effective
<1>4. CASE axis = "vpre" /\ node.params.centre_on_voc
  <2>1. scan.centre_on_voc = node.params.centre_on_voc
    BY <1>2, <1>4, ScanAssumption DEF Effective
  <2> QED
    BY <1>3, <1>4, <2>1 DEF SweepsWithin
<1>5. CASE axis \in DOMAIN allowed /\ Ends(node) = AXIS_ENDS /\ ScanAllowed(node, allowed[axis])
  <2> DEFINE a == node.params.axis_start
             b == node.params.axis_stop
             bound == allowed[axis]
  <2>1. "axis_start" \in DOMAIN node.params /\ "axis_stop" \in DOMAIN node.params
    BY <1>5 DEF Ends, AXIS_ENDS
  <2>2. a \in Int /\ b \in Int
    BY <2>1, ScanAssumption
  <2>3. scan.axis_start = a /\ scan.axis_stop = b
    BY <2>1, ScanAssumption DEF Effective, Sets
  <2>4. /\ scan.axis_step \in Int
        /\ Sets(node, "axis_step") => scan.axis_step = node.params.axis_step
    BY ScanAssumption DEF Effective, Sets
  <2>5. \A side \in {"min", "max"} \cap DOMAIN bound : bound[side] \in Int
    BY <1>1, <1>5, ScanAssumption
  <2>6. SUFFICES ASSUME ~(a # b /\ scan.axis_step <= 0)
                 PROVE  ScanKeeps(a, b, scan.axis_step, bound)
    BY <1>3, <1>5, <2>3 DEF SweepsWithin
  <2>7. a = b \/ scan.axis_step > 0
    BY <2>2, <2>4, <2>6
  <2>8. CASE "choices" \notin DOMAIN bound
    <3>1. Keeps(a, bound) /\ Keeps(b, bound)
      BY <1>5, <2>8 DEF ScanAllowed
    <3> HIDE DEF scan, a, b, bound
    <3> QED
      BY <2>2, <2>4, <2>5, <2>7, <2>8, <3>1, RangeHoldsScan
  <2>9. CASE "choices" \in DOMAIN bound
    <3> DEFINE step == IF Sets(node, "axis_step") THEN node.params.axis_step ELSE 0
    <3>1. (a # b => Sets(node, "axis_step")) /\ ScanKeeps(a, b, step, bound)
      BY <1>5, <2>9 DEF ScanAllowed
    <3>2. CASE a # b
      BY <2>4, <3>1, <3>2
    <3>3. CASE a = b
      BY <3>1, <3>3 DEF ScanKeeps, Intervals
    <3> QED
      BY <3>2, <3>3
  <2> QED
    BY <2>8, <2>9
<1> QED
  BY <1>2, <1>4, <1>5

\* A scan submitted under a plan stays within it, for every envelope, tree and recipe.
THEOREM SweptTheorem == Spec => []SweptAsApproved
<1>1. Book => SweptAsApproved
  <2> SUFFICES ASSUME Book, ran # None, NEW node \in ran[2], node.kind = "module",
                      Ends(node) # {}, NEW layer \in Layers
               PROVE  SweepsWithin(node, layer, content[ran[1]].modules[node.name])
    BY DEF SweptAsApproved
  <2>1. /\ ran[2] \in Trees /\ content[ran[1]] \in Contents
        /\ Fits(content[ran[1]], ran[2])
    BY DEF Book, TypeOK, RanFits
  <2> QED
    BY <2>1, AxisHoldsScan
<1> QED
  BY <1>1, BookTheorem, PTL

\* All three: a run under a plan was seen, approved, in time, and sweeps what was approved.
THEOREM PlanHeldTheorem == Spec => []ApprovalHolds
  BY ShownTheorem, ApprovalTheorem, SweptTheorem, PTL DEF ApprovalHolds

\* A decision is final while the plan has its id.
LEMMA NextFinal ==
  Book /\ [Next]_vars =>
    [\A i \in Ids : (content[i] # None /\ content'[i] # None) =>
          /\ state'[i] = "proposed" => state[i] = "proposed"
          /\ state[i] \in {"rejected", "closed"} =>
                state'[i] = state[i] /\ runs'[i] = runs[i]]_vars
<1> SUFFICES ASSUME Book, [Next]_vars, NEW k \in Ids, content[k] # None, content'[k] # None
             PROVE  /\ state'[k] = "proposed" => state[k] = "proposed"
                    /\ state[k] \in {"rejected", "closed"} =>
                          state'[k] = state[k] /\ runs'[k] = runs[k]
  OBVIOUS
<1> USE PlanBookAssumption DEF Book, TypeOK
<1>1. ASSUME NEW i \in Ids, NEW c \in Contents, Propose(i, c) PROVE state'[k] = state[k] /\ runs'[k] = runs[k]
  BY <1>1 DEF Propose, NextId
<1>2. ASSUME NEW i \in Ids, NEW c \in Contents, Approve(i, c)
      PROVE i = k => state[k] = "proposed" /\ state'[k] = "approved"
  BY <1>2 DEF Approve, Decidable
<1>3. ASSUME NEW i \in Ids, NEW c \in Contents, Approve(i, c), i # k
      PROVE state'[k] = state[k]
  BY <1>3 DEF Approve
<1>4. ASSUME NEW i \in Ids, Reject(i)
      PROVE /\ i = k => state[k] = "proposed" /\ state'[k] = "rejected"
            /\ i # k => state'[k] = state[k]
            /\ runs'[k] = runs[k]
  BY <1>4 DEF Reject, Decidable
<1>5. ASSUME NEW i \in Ids, Close(i)
      PROVE /\ i = k => state[k] = "approved" /\ state'[k] = "closed"
            /\ i # k => state'[k] = state[k]
            /\ runs'[k] = runs[k]
  BY <1>5 DEF Close
<1>6. ASSUME NEW i \in Ids, NEW cost \in Costs, NEW tree \in Trees, Submit(i, cost, tree)
      PROVE /\ state'[k] = state[k]
            /\ i = k => state[k] = "approved"
            /\ i # k => runs'[k] = runs[k]
  BY <1>6 DEF Submit, Open
<1>7. ASSUME NEW i \in Ids, NEW c \in Contents, Approve(i, c) PROVE runs'[k] = runs[k]
  BY <1>7 DEF Approve
<1>8. ASSUME \/ \E i \in Ids : Show(i)
             \/ Tick
             \/ UNCHANGED vars
      PROVE state'[k] = state[k] /\ runs'[k] = runs[k]
  BY <1>8 DEF Show, Tick, plan, vars
<1>9. ~Restart
  BY DEF Restart, Forgets
<1> QED
  BY <1>1, <1>2, <1>3, <1>4, <1>5, <1>6, <1>7, <1>8, <1>9 DEF Next

\* The action property, from the invariant.
THEOREM FinalTheorem == Spec => DecisionsAreFinal
  BY BookTheorem, NextFinal, PTL DEF Spec, DecisionsAreFinal
=============================================================================
