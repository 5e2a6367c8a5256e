------------------------------ MODULE MCPlanBook ------------------------------
(***************************************************************************)
(* PlanBook for TLC: a plan with discrete choices and one with ranges, two *)
(* envelopes that are refused, and trees on either side of each bound.     *)
(***************************************************************************)
EXTENDS PlanBook

CONSTANTS narrow, wide

From(lo, hi) == [min |-> lo, max |-> hi]
OneOf(S) == [choices |-> S]

BaceParams == {"vcoll", "axis_name", "axis_start", "axis_stop", "axis_step", "centre_on_voc"}
SomeCatalogue == [bace |-> BaceParams, jv |-> {"step_v"}]

\* Loose bounds on the ends: only the swept parameter's own bound holds a scan.
Bace(vcoll) ==
    [bace |-> [vcoll |-> vcoll, axis_name |-> OneOf({"vcoll", "vpre"}),
               axis_start |-> From(-9, 9), axis_stop |-> From(-9, 9),
               axis_step |-> From(0, 9), centre_on_voc |-> OneOf(BOOLEAN)]]
Envelope(title, modules, n, s, e) ==
    [title |-> title, modules |-> modules, loops |-> [repeat |-> [count |-> [max |-> 2]]],
     max_runs |-> n, max_total_s |-> s, expires_s |-> e]
SomeContents ==
    {Envelope(narrow, Bace(OneOf({-4, -2, -1})), 1, 2, 1),
     Envelope(wide, Bace(From(-4, -1)), 2, 3, 2),
     Envelope(narrow, Bace(From(-1, -4)), 1, 2, 1),
     Envelope(wide, Bace(From(-4, -1)), 0, 3, 2)}

Node(params) == [kind |-> "module", name |-> "bace", params |-> params]
Scan(axis, a, b, step) ==
    Node([axis_name |-> axis, axis_start |-> a, axis_stop |-> b, axis_step |-> step])
Repeat(n) == [kind |-> "loop", name |-> "repeat", values |-> {n}, params |-> << >>]
NamesOnly == Node([axis_name |-> "vcoll"])     \* its ends are left to the layers

\* The first fits both plans, the second the ranges only, the rest neither.
SomeTrees ==
    {{Node([vcoll |-> -2]), Repeat(2), NamesOnly, Scan("vcoll", -4, -1, 3),
      Node([axis_name |-> "vpre", axis_start |-> -1, axis_stop |-> 1, axis_step |-> 1,
            centre_on_voc |-> TRUE])},
     {Scan("vcoll", -1, -4, 1),              \* through -3
      Node([axis_name |-> "vcoll", axis_start |-> -4, axis_stop |-> -1])},
     {Scan("vcoll", -6, -1, 5)}, {Scan("vcoll", -1, -6, 5)},     \* an end outside
     {Scan("vpre", -1, -1, 0)},              \* does not say whether it is centred
     {Node([axis_name |-> "vcoll", axis_start |-> -4])},
     {Node([axis_start |-> -4, axis_stop |-> -1, axis_step |-> 3])},
     {Repeat(3)},
     {[kind |-> "module", name |-> "jv", params |-> << >>]}}

\* run.toml centres a vpre axis; a card may hold another scan.
SomeLayers ==
    {[axis_name |-> "vpre", axis_start |-> -1, axis_stop |-> 1, axis_step |-> 1,
      centre_on_voc |-> TRUE],
     [axis_name |-> "vcoll", axis_start |-> -4, axis_stop |-> 3, axis_step |-> 2,
      centre_on_voc |-> FALSE]}
SomeCosts == {0, 1, 2}
=============================================================================
