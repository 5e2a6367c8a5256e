-------------------------- MODULE TriggerChainProofs --------------------------
(***************************************************************************)
(* Theorems about a recipe's way from the card to the two generators, for  *)
(* any run.toml, edits, nodes and queued runs, and whatever an action, a   *)
(* failed run or a restart left on the generators.                         *)
(***************************************************************************)
EXTENDS TriggerChain, TLAPS, WellFoundedInduction

Steps == Seq(Recipes)
States == {"queued", "running", "done", "stopped", "failed", "aborted"}
Devices == Names \cup {Filed, None}
Runs == [kind : {"manual", "pipeline"}, steps : Steps, params : Partial,
         sample : Devices, state : States]

Types ==
    /\ file \in Partial /\ edited \in Partial /\ sample \in Devices
    /\ runs \in Seq(Runs)
    /\ pc \in {"idle", "led", "chain", "measuring", "park"}
    /\ led \in [out : BOOLEAN, pol : {"NORM", "INV"}]
    /\ bias \in [out : BOOLEAN, pol : {"NORM", "INV"}, arm : {"EXT", "IMM"},
                 slope : {"POS", "NEG"}]

\* A run that waits has steps, and while one is on the bench there is a step of it.
OnTheBench ==
    /\ \A r \in 1..Len(runs) : runs[r].state = "queued" => Len(runs[r].steps) # 0
    /\ pc # "idle" => at \in 1..Len(runs)
    /\ pc \in {"led", "chain", "measuring"} => step \in 1..Len(runs[at].steps)

\* What a step has written of its recipe so far, and what its file will say of it.
Lit == pc \in {"chain", "measuring"} =>
          /\ led.out = TRUE
          /\ Recipe.arm = "EXT" => ((Recipe.slope = "POS") <=> (led.pol = "INV"))
Written == pc = "measuring" =>
          /\ bias.arm = Recipe.arm
          /\ Recipe.arm = "EXT" => bias.slope = Recipe.slope
          /\ Instruction(Recipe) \in {"leave", bias.pol}
          /\ wrote.arm \in {bias.arm, "?"} /\ wrote.slope \in {bias.slope, "?"}
          /\ wrote.pol \in {bias.pol, "?"} /\ wrote.sample = runs[at].sample

\* What the run was told is the verdict on what was read; and what its first step does not
\* write still is as it was read.
Told == pc \in {"led", "chain", "measuring"} =>
          /\ told = Verdicts(seen, runs[at].steps)
          /\ DOMAIN seen = {"led", "arm", "slope", "pol"}
          /\ seen.pol \in {"NORM", "INV", "?"}
Unwritten == (pc \in {"led", "chain", "measuring"} /\ step = 1) =>
          /\ (pc = "led" \/ Recipe.arm = "IMM") => seen.led \in {led.pol, "?"}
          /\ (pc # "measuring" \/ Recipe.arm = "IMM") => seen.slope \in {bias.slope, "?"}

\* Only a choice is edited, and only choices are left for the next run.
OnlyChoices ==
    /\ DOMAIN edited \subseteq chosen
    /\ \A r \in 1..Len(runs) : DOMAIN runs[r].params \subseteq chosen

ChainInv == Types /\ OnTheBench /\ Lit /\ Written /\ Told /\ Unwritten /\ OnlyChoices

-----------------------------------------------------------------------------
(* Layers. *)

\* A layer is a function on parameters to values of theirs.
LEMMA LayerParts ==
    ASSUME NEW f \in Partial
    PROVE  /\ DOMAIN f \subseteq Params /\ f = [p \in DOMAIN f |-> f[p]]
           /\ \A p \in DOMAIN f : f[p] \in Values[p]
BY DEF Partial

\* And every such function is one.
LEMMA IsLayer ==
    ASSUME NEW D \in SUBSET Params, NEW f, f = [p \in D |-> f[p]],
           \A p \in D : f[p] \in Values[p]
    PROVE  f \in Partial /\ DOMAIN f = D
<1> DEFINE V == UNION {Values[p] : p \in Params}
<1>1. \A p \in D : f[p] \in V
  OBVIOUS
<1>2. f \in [D -> V] /\ DOMAIN f = D
  BY <1>1
<1> QED
  BY <1>2 DEF Partial

\* The empty layer.
LEMMA EmptyLayer == <<>> \in Partial /\ DOMAIN <<>> = {}
<1>1. <<>> = [p \in {} |-> <<>>[p]] /\ DOMAIN <<>> = {}
  OBVIOUS
<1> QED
  BY <1>1, IsLayer

\* One layer over another is a layer of what either has.
LEMMA OverIsLayer ==
    ASSUME NEW u \in Partial, NEW l \in Partial
    PROVE  Over(u, l) \in Partial /\ DOMAIN Over(u, l) = DOMAIN u \cup DOMAIN l
<1> DEFINE D == DOMAIN u \cup DOMAIN l
           f == [p \in D |-> IF p \in DOMAIN u THEN u[p] ELSE l[p]]
<1>1. D \in SUBSET Params
  BY LayerParts
<1>2. f = [p \in D |-> f[p]]
  OBVIOUS
<1>3. \A p \in D : f[p] \in Values[p]
  BY LayerParts
<1> HIDE DEF D, f
<1>4. f \in Partial /\ DOMAIN f = D
  BY <1>1, <1>2, <1>3, IsLayer
<1> QED
  BY <1>4 DEF Over, f, D

\* The three parameters.
LEMMA TheParams == /\ Params = {"arm", "slope", "pol"}
                   /\ Values["arm"] = {"EXT", "IMM"} /\ Values["slope"] = {"POS", "NEG"}
                   /\ Values["pol"] = {"auto", "INV", "leave"}
BY DEF Params, Values

\* The defaults are a recipe.
LEMMA DefaultIsRecipe == Default \in Recipes
<1>1. Default = [p \in {"arm", "slope", "pol"} |-> Default[p]]
  BY DEF Default
<1>2. \A p \in Params : Default[p] \in Values[p]
  BY TheParams DEF Default
<1>3. Default \in Partial /\ DOMAIN Default = Params
  BY <1>1, <1>2, TheParams, IsLayer
<1> QED
  BY <1>3 DEF Recipes

\* A layer over a recipe is a recipe.
LEMMA OverRecipe ==
    ASSUME NEW u \in Partial, NEW r \in Recipes
    PROVE  Over(u, r) \in Recipes
BY OverIsLayer, LayerParts DEF Recipes

\* What a recipe says.
LEMMA RecipeParts ==
    ASSUME NEW r \in Recipes
    PROVE  /\ r.arm \in {"EXT", "IMM"} /\ r.slope \in {"POS", "NEG"}
           /\ r.pol \in {"auto", "INV", "leave"}
           /\ Instruction(r) \in {"NORM", "INV", "leave"}
<1>1. r \in Partial /\ DOMAIN r = {"arm", "slope", "pol"}
  BY TheParams DEF Recipes
<1>2. /\ r["arm"] \in {"EXT", "IMM"} /\ r["slope"] \in {"POS", "NEG"}
      /\ r["pol"] \in {"auto", "INV", "leave"}
  BY <1>1, LayerParts, TheParams
<1>3. /\ r.arm \in {"EXT", "IMM"} /\ r.slope \in {"POS", "NEG"}
      /\ r.pol \in {"auto", "INV", "leave"}
  BY <1>2
<1> QED
  BY <1>3 DEF Instruction

\* The choices a new run starts from were left by a run, if there are any.
LEMMA LastIsLayer ==
    ASSUME Types
    PROVE  /\ LastUsed \in Partial
           /\ LastUsed = <<>> \/ \E r \in 1..Len(runs) : LastUsed = runs[r].params
<1> DEFINE good == {r \in DOMAIN runs : runs[r].kind = "manual"
                                        /\ runs[r].state \in {"done", "stopped"}}
           last == CHOOSE r \in good : \A q \in good : q <= r
<1>0. runs \in Seq(Runs) /\ Len(runs) \in Nat /\ DOMAIN runs = 1..Len(runs)
  BY DEF Types
<1>1. CASE good = {}
  BY <1>1, EmptyLayer DEF LastUsed
<1>2. CASE good # {}
  <2> DEFINE T == {n \in Nat : \E r \in good : n = Len(runs) - r}
  <2>1. good \subseteq 1..Len(runs)
    BY <1>0
  <2>2. T # {} /\ T \subseteq Nat
    <3>1. PICK r \in good : TRUE
      BY <1>2
    <3>2. Len(runs) - r \in Nat
      BY <1>0, <2>1, <3>1
    <3> QED
      BY <3>1, <3>2
  <2> HIDE DEF good
  <2>3. PICK n \in T : \A k \in T : ~(<<k, n>> \in OpToRel(<, Nat))
    BY <2>2, WFMin, NatLessThanWellFounded
  <2>4. n \in Nat /\ \A k \in T : ~(k < n)
    BY <2>2, <2>3 DEF OpToRel
  <2>5. PICK r \in good : n = Len(runs) - r
    BY <2>3
  <2>6. \A q \in good : q <= r
    <3> SUFFICES ASSUME NEW q \in good PROVE q <= r
      OBVIOUS
    <3>1. q \in 1..Len(runs) /\ r \in 1..Len(runs)
      BY <2>1, <2>5
    <3> DEFINE m == Len(runs)
    <3>2. m \in Nat /\ q \in 1..m /\ r \in 1..m /\ n = m - r
      BY <1>0, <2>5, <3>1
    <3> HIDE DEF m
    <3>3. m - q \in Nat
      BY <3>2
    <3>4. m - q \in T
      BY <3>3 DEF m
    <3>5. ~(m - q < m - r)
      BY <2>4, <3>2, <3>4
    <3> QED
      BY <3>2, <3>5
  <2>7. last \in good
    BY <2>6
  <2>8. last \in 1..Len(runs)
    BY <2>1, <2>7
  <2> HIDE DEF last
  <2>9. runs[last].params \in Partial
    <3>1. runs[last] \in Runs
      BY <1>0, <2>8
    <3> QED
      BY <3>1 DEF Runs
  <2>10. LastUsed = runs[last].params
    BY <1>2 DEF LastUsed, good, last
  <2> QED
    BY <2>8, <2>9, <2>10
<1> QED
  BY <1>1, <1>2

\* Every node is resolved to a recipe.
LEMMA ResolvedIsRecipe ==
    ASSUME Types, NEW node \in Partial
    PROVE  Resolved(node) \in Recipes
<1>1. Over(file, Default) \in Recipes
  BY DefaultIsRecipe, OverRecipe DEF Types
<1>2. Over(LastUsed, Over(file, Default)) \in Recipes
  BY <1>1, LastIsLayer, OverRecipe
<1>3. Layers \in Recipes
  BY <1>2, OverRecipe DEF Types, Layers
<1> QED
  BY <1>3, OverRecipe DEF Resolved

-----------------------------------------------------------------------------
(* The run on the bench. *)

\* A function on 1 .. n is a sequence.
LEMMA IsSeq ==
    ASSUME NEW S, NEW n \in Nat, NEW f, f = [i \in 1..n |-> f[i]], \A i \in 1..n : f[i] \in S
    PROVE  f \in Seq(S) /\ Len(f) = n /\ DOMAIN f = 1..n
<1>1. f \in [1..n -> S]
  OBVIOUS
<1> QED
  BY <1>1

\* A recorded run.
LEMMA RunParts ==
    ASSUME Types, NEW r \in 1..Len(runs)
    PROVE  /\ runs[r] \in Runs /\ runs[r].steps \in Steps /\ runs[r].params \in Partial
           /\ runs[r].sample \in Devices /\ runs[r].state \in States
           /\ Len(runs[r].steps) \in Nat
<1>1. runs[r] \in Runs
  BY DEF Types
<1> QED
  BY <1>1 DEF Runs, Steps

\* A step on the bench has a recipe.
LEMMA StepParts ==
    ASSUME Types, OnTheBench, pc \in {"led", "chain", "measuring"}
    PROVE  /\ at \in 1..Len(runs) /\ step \in 1..Len(runs[at].steps)
           /\ Recipe \in Recipes /\ runs[at].steps[step] = Recipe
<1>1. at \in 1..Len(runs) /\ step \in 1..Len(runs[at].steps)
  BY DEF OnTheBench
<1>2. runs[at].steps \in Seq(Recipes)
  BY <1>1, RunParts DEF Steps
<1> QED
  BY <1>1, <1>2 DEF Recipe, StepsOf

\* With no step on the bench there is nothing to say of one.
LEMMA NoStep ==
    ASSUME Types', OnTheBench', OnlyChoices', pc' \in {"idle", "park"}
    PROVE  ChainInv'
BY DEF ChainInv, Lit, Written, Told, Unwritten

\* A run that ends keeps what it leaves for the next.
LEMMA RunEnds ==
    ASSUME ChainInv, pc \in {"led", "chain", "measuring"},
           NEW end \in {"done", "stopped", "failed"}, EndRun(end), UNCHANGED card,
           led' \in [out : BOOLEAN, pol : {"NORM", "INV"}],
           bias' \in [out : BOOLEAN, pol : {"NORM", "INV"}, arm : {"EXT", "IMM"},
                      slope : {"POS", "NEG"}]
    PROVE  ChainInv'
<1> DEFINE x == [runs[at] EXCEPT !.state = end, !.steps = <<>>, !.sample = None]
<1>1. Types /\ OnTheBench /\ OnlyChoices
  BY DEF ChainInv
<1>2. at \in 1..Len(runs) /\ runs[at] \in Runs /\ runs \in Seq(Runs) /\ Len(runs) \in Nat
  BY <1>1, StepParts, RunParts DEF Types
<1>3. /\ x \in Runs /\ x.state = end /\ x.params = runs[at].params
  <2>1. <<>> \in Steps /\ None \in Devices /\ end \in States
    BY DEF Steps, Devices, States
  <2> QED
    BY <1>2, <2>1 DEF Runs
<1> HIDE DEF x
<1>4. runs' = [i \in 1..Len(runs) |-> IF i = at THEN x ELSE runs[i]]
  <2>1. DOMAIN runs = 1..Len(runs) /\ runs = [i \in 1..Len(runs) |-> runs[i]]
    BY <1>2
  <2>2. runs' = [runs EXCEPT ![at].state = end, ![at].steps = <<>>, ![at].sample = None]
    BY DEF EndRun
  <2>3. runs' = [runs EXCEPT ![at] = x]
    BY <1>2, <2>1, <2>2 DEF x, Runs
  <2> QED
    BY <2>1, <2>3
<1>5. /\ runs' = [i \in 1..Len(runs) |-> runs'[i]]
      /\ \A i \in 1..Len(runs) : runs'[i] \in Runs
  BY <1>2, <1>3, <1>4
<1>6. runs' \in Seq(Runs) /\ Len(runs') = Len(runs)
  BY <1>2, <1>5, IsSeq
<1>7. Types'
  BY <1>1, <1>6 DEF Types, EndRun, card
<1>8. OnTheBench'
  BY <1>1, <1>2, <1>3, <1>4, <1>6 DEF OnTheBench, EndRun
<1>9. OnlyChoices'
  BY <1>1, <1>2, <1>3, <1>4, <1>6 DEF OnlyChoices, card
<1> QED
  BY <1>7, <1>8, <1>9, NoStep DEF EndRun

-----------------------------------------------------------------------------
(* Every step keeps the invariant. *)

\* Before anything is queued nothing is chosen.
LEMMA ChainInit == Init => ChainInv
<1> SUFFICES ASSUME Init PROVE ChainInv
  OBVIOUS
<1>1. Types
  <2>1. runs \in Seq(Runs) /\ edited \in Partial
    BY EmptyLayer DEF Init
  <2>2. file \in Partial /\ sample \in Devices /\ pc = "idle"
    BY RecipeAssumption DEF Init, Devices
  <2>3. /\ led \in [out : BOOLEAN, pol : {"NORM", "INV"}]
        /\ bias \in [out : BOOLEAN, pol : {"NORM", "INV"}, arm : {"EXT", "IMM"},
                      slope : {"POS", "NEG"}]
    <3>1. PICK pol \in {"NORM", "INV"} : led = [out |-> FALSE, pol |-> pol]
      BY DEF Init
    <3>2. led \in [out : BOOLEAN, pol : {"NORM", "INV"}]
      BY <3>1
    <3>3. \/ bias = [out |-> FALSE, pol |-> "NORM", arm |-> "IMM", slope |-> "POS"]
          \/ bias = [out |-> FALSE, pol |-> "INV", arm |-> "EXT", slope |-> "NEG"]
      BY DEF Init
    <3>4. bias \in [out : BOOLEAN, pol : {"NORM", "INV"}, arm : {"EXT", "IMM"},
                     slope : {"POS", "NEG"}]
      <4>1. CASE bias = [out |-> FALSE, pol |-> "NORM", arm |-> "IMM", slope |-> "POS"]
        BY <4>1
      <4>2. CASE bias = [out |-> FALSE, pol |-> "INV", arm |-> "EXT", slope |-> "NEG"]
        BY <4>2
      <4> QED
        BY <3>3, <4>1, <4>2
    <3> QED
      BY <3>2, <3>4
  <2> QED
    BY <2>1, <2>2, <2>3 DEF Types
<1>2. OnTheBench /\ OnlyChoices
  BY EmptyLayer DEF Init, OnTheBench, OnlyChoices
<1> QED
  BY <1>1, <1>2 DEF Init, ChainInv, Lit, Written, Told, Unwritten

\* The card is edited while a run is on the bench, which does not look at it.
LEMMA CardKeeps ==
    ASSUME ChainInv, UNCHANGED <<file, runs, Place, Bench>>, edited' \in Partial,
           sample' \in Devices, chosen \subseteq chosen', DOMAIN edited' \subseteq chosen'
    PROVE  ChainInv'
<1> USE DEF ChainInv, Place, Bench
<1>1. Types'
  BY DEF Types
<1>2. OnTheBench'
  BY DEF OnTheBench
<1>3. OnlyChoices'
  BY DEF OnlyChoices
<1>4. Lit' /\ Written'
  BY DEF Lit, Written, Recipe, StepsOf
<1>5. Told' /\ Unwritten'
  BY DEF Told, Unwritten, Recipe, StepsOf
<1> QED
  BY <1>1, <1>2, <1>3, <1>4, <1>5

\* An edit that is accepted leaves a layer of what was there and what was chosen.
LEMMA EditKeeps == ASSUME ChainInv, EditParams PROVE ChainInv'
<1> PICK patch \in Patches :
        /\ ~Refuses(patch)
        /\ edited' = Over(Sets(patch), Without(edited, DOMAIN patch))
        /\ chosen' = chosen \cup DOMAIN Sets(patch)
  BY DEF EditParams
<1>1. Sets(patch) \in Partial
  <2> DEFINE D == {q \in DOMAIN patch : patch[q] # None}
             f == [p \in D |-> patch[p]]
  <2>1. D \in SUBSET Params /\ \A p \in D : f[p] \in Values[p]
    BY DEF Refuses
  <2>2. f = [p \in D |-> f[p]]
    OBVIOUS
  <2> HIDE DEF D, f
  <2>3. f \in Partial
    BY <2>1, <2>2, IsLayer
  <2> QED
    BY <2>3 DEF Sets, f, D
<1>2. /\ Without(edited, DOMAIN patch) \in Partial
      /\ DOMAIN Without(edited, DOMAIN patch) \subseteq chosen
  <2> DEFINE D == DOMAIN edited \ DOMAIN patch
             f == [p \in D |-> edited[p]]
  <2>1. edited \in Partial /\ D \subseteq chosen
    BY DEF ChainInv, Types, OnlyChoices
  <2>2. D \in SUBSET Params /\ \A p \in D : f[p] \in Values[p]
    BY <2>1, LayerParts
  <2>3. f = [p \in D |-> f[p]]
    OBVIOUS
  <2> HIDE DEF D, f
  <2>4. f \in Partial /\ DOMAIN f = D
    BY <2>2, <2>3, IsLayer
  <2> QED
    BY <2>1, <2>4 DEF Without, f, D
<1>3. edited' \in Partial /\ DOMAIN edited' \subseteq chosen'
  BY <1>1, <1>2, OverIsLayer
<1>4. UNCHANGED <<file, runs, Place, Bench>> /\ sample' \in Devices
  BY DEF EditParams, ChainInv, Types
<1> QED
  BY <1>3, <1>4, CardKeeps

\* A queued run has a recipe for every step, and leaves what was chosen.
LEMMA SubmitKeeps == ASSUME ChainInv, Submit PROVE ChainInv'
<1> PICK nodes \in Overrides :
        /\ runs' = Append(runs,
              [kind |-> IF Len(nodes) = 1 THEN "manual" ELSE "pipeline",
               steps |-> [i \in DOMAIN nodes |-> Resolved(nodes[i])],
               params |-> IF Len(nodes) = 1 THEN Choices(nodes[1]) ELSE <<>>,
               sample |-> sample, state |-> "queued"])
        /\ chosen' = chosen \cup UNION {DOMAIN nodes[i] : i \in DOMAIN nodes}
  BY DEF Submit
<1> DEFINE steps == [i \in DOMAIN nodes |-> Resolved(nodes[i])]
           params == IF Len(nodes) = 1 THEN Choices(nodes[1]) ELSE <<>>
           new == [kind |-> IF Len(nodes) = 1 THEN "manual" ELSE "pipeline",
                   steps |-> steps, params |-> params, sample |-> sample, state |-> "queued"]
<1>1. Types /\ OnTheBench /\ OnlyChoices
  BY DEF ChainInv
<1>2. /\ nodes \in Seq(Partial) /\ DOMAIN nodes = 1..Len(nodes)
      /\ Len(nodes) \in Nat /\ Len(nodes) # 0
  BY RecipeAssumption
<1>3. steps \in Steps /\ Len(steps) = Len(nodes)
  <2>1. \A i \in 1..Len(nodes) : nodes[i] \in Partial
    BY <1>2
  <2>2. steps = [i \in 1..Len(nodes) |-> steps[i]]
    BY <1>2
  <2>3. \A i \in 1..Len(nodes) : steps[i] \in Recipes
    BY <1>1, <1>2, <2>1, ResolvedIsRecipe
  <2> HIDE DEF steps
  <2> QED
    BY <1>2, <2>2, <2>3, IsSeq DEF Steps
<1>4. params \in Partial /\ DOMAIN params \subseteq chosen'
  <2>1. CASE Len(nodes) # 1
    BY <2>1, EmptyLayer
  <2>2. CASE Len(nodes) = 1
    <3> DEFINE mine == DOMAIN nodes[1] \cup DOMAIN edited \cup DOMAIN LastUsed
               f == [p \in mine |-> Resolved(nodes[1])[p]]
    <3>1. nodes[1] \in Partial /\ DOMAIN nodes[1] \subseteq chosen'
      BY <1>2, <2>2
    <3>2. DOMAIN edited \subseteq chosen' /\ edited \in Partial
      BY <1>1 DEF OnlyChoices, Types
    <3>3. DOMAIN LastUsed \subseteq chosen' /\ LastUsed \in Partial
      BY <1>1, LastIsLayer, EmptyLayer DEF OnlyChoices
    <3>4. mine \in SUBSET Params /\ mine \subseteq chosen'
      BY <3>1, <3>2, <3>3, LayerParts
    <3>5. Resolved(nodes[1]) \in Recipes
      BY <1>1, <3>1, ResolvedIsRecipe
    <3>6. \A p \in mine : f[p] \in Values[p]
      BY <3>4, <3>5, LayerParts DEF Recipes
    <3>7. f = [p \in mine |-> f[p]]
      OBVIOUS
    <3>8. params = f
      BY <2>2 DEF Choices
    <3> HIDE DEF mine, f, params
    <3>9. f \in Partial /\ DOMAIN f = mine
      BY <3>4, <3>6, <3>7, IsLayer
    <3> QED
      BY <3>4, <3>8, <3>9
  <2> QED
    BY <2>1, <2>2
<1> HIDE DEF steps, params
<1>5. new \in Runs
  BY <1>1, <1>3, <1>4 DEF Runs, States, Types
<1>6. new.params = params /\ new.steps = steps
  OBVIOUS
<1>7. runs' = Append(runs, new) /\ runs \in Seq(Runs)
  BY <1>1 DEF Types, steps, params
<1> HIDE DEF new
<1>8. /\ runs' \in Seq(Runs) /\ Len(runs) \in Nat /\ Len(runs') = Len(runs) + 1
      /\ \A r \in 1..Len(runs) : runs'[r] = runs[r]
      /\ runs'[Len(runs) + 1] = new
  BY <1>5, <1>7
<1>9. Types'
  BY <1>1, <1>8 DEF Types, Submit, Place, Bench
<1>10. \A r \in 1..Len(runs)' : r \in 1..Len(runs) \/ r = Len(runs) + 1
  BY <1>8
<1>11. OnTheBench'
  BY <1>1, <1>2, <1>3, <1>6, <1>8, <1>10 DEF OnTheBench, Submit, Place
<1>12. OnlyChoices'
  BY <1>1, <1>4, <1>6, <1>8, <1>10 DEF OnlyChoices, Submit
<1>13. ASSUME pc \in {"led", "chain", "measuring"}
       PROVE  runs'[at] = runs[at] /\ Recipe' = Recipe
  BY <1>1, <1>8, <1>13 DEF OnTheBench, Recipe, StepsOf, Submit, Place
<1>14. UNCHANGED <<at, step, pc, led, bias, seen, told, wrote>>
  BY DEF Submit, Place, Bench
<1>15. Lit' /\ Written'
  BY <1>13, <1>14 DEF ChainInv, Lit, Written
<1>16. Told' /\ Unwritten'
  BY <1>13, <1>14 DEF ChainInv, Told, Unwritten
<1> QED
  BY <1>9, <1>11, <1>12, <1>15, <1>16 DEF ChainInv

\* The run that starts is told what was read.
LEMMA StartKeeps == ASSUME ChainInv, Start PROVE ChainInv'
<1> PICK r \in DOMAIN runs, mute \in SUBSET {"led", "bias"} :
        /\ runs[r].state = "queued"
        /\ runs' = [runs EXCEPT ![r].state = "running"]
        /\ seen' = Reading(mute)
        /\ told' = Verdicts(Reading(mute), StepsOf(r))
        /\ at' = r /\ step' = 1 /\ pc' = "led"
  BY DEF Start
<1> DEFINE x == [runs[r] EXCEPT !.state = "running"]
<1>1. Types /\ OnTheBench /\ OnlyChoices
  BY DEF ChainInv
<1>2. /\ r \in 1..Len(runs) /\ runs[r] \in Runs /\ runs \in Seq(Runs) /\ Len(runs) \in Nat
      /\ runs[r].steps \in Steps /\ Len(runs[r].steps) \in Nat /\ Len(runs[r].steps) # 0
  BY <1>1, RunParts DEF Types, OnTheBench
<1>3. /\ x \in Runs /\ x.state = "running" /\ x.params = runs[r].params
      /\ x.steps = runs[r].steps
  BY <1>2 DEF Runs, States
<1>4. runs' = [i \in 1..Len(runs) |-> IF i = r THEN x ELSE runs[i]]
  <2>1. runs = [i \in 1..Len(runs) |-> runs[i]] /\ DOMAIN runs = 1..Len(runs)
    BY <1>2
  <2>2. runs' = [runs EXCEPT ![r] = x]
    BY <1>2, <2>1
  <2> HIDE DEF x
  <2> QED
    BY <2>1, <2>2
<1> HIDE DEF x
<1>5. /\ runs' = [i \in 1..Len(runs) |-> runs'[i]]
      /\ \A i \in 1..Len(runs) : runs'[i] \in Runs
  <2>1. \A i \in 1..Len(runs) : runs[i] \in Runs
    BY <1>2
  <2> QED
    BY <1>3, <1>4, <2>1
<1>6. runs' \in Seq(Runs) /\ Len(runs') = Len(runs)
  BY <1>2, <1>5, IsSeq
<1>7. UNCHANGED <<file, edited, sample, chosen, led, bias>>
  BY DEF Start, card
<1>8. Types'
  BY <1>1, <1>6, <1>7 DEF Types
<1>9. OnTheBench'
  BY <1>1, <1>2, <1>3, <1>4, <1>6 DEF OnTheBench
<1>10. OnlyChoices'
  BY <1>1, <1>2, <1>3, <1>4, <1>6, <1>7 DEF OnlyChoices
<1>11. runs'[at'].steps = StepsOf(r)
  BY <1>2, <1>3, <1>4 DEF StepsOf
<1>12. /\ DOMAIN seen' = {"led", "arm", "slope", "pol"}
       /\ seen'.led \in {led.pol, "?"} /\ seen'.slope \in {bias.slope, "?"}
       /\ seen'.pol \in {bias.pol, "?"}
  BY DEF Reading, InForce
<1>13. bias.pol \in {"NORM", "INV"}
  BY <1>1 DEF Types
<1>14. Told'
  BY <1>11, <1>12, <1>13 DEF Told
<1>15. Unwritten'
  BY <1>7, <1>12 DEF Unwritten
<1>16. Lit' /\ Written'
  BY DEF Lit, Written
<1> QED
  BY <1>8, <1>9, <1>10, <1>14, <1>15, <1>16 DEF ChainInv

\* The LED's polarity gives the edge its meaning.
LEMMA LedKeeps == ASSUME ChainInv, DriveLed PROVE ChainInv'
<1>1. Types /\ OnTheBench /\ OnlyChoices /\ pc = "led"
  BY DEF ChainInv, DriveLed
<1>2. Recipe \in Recipes
  BY <1>1, StepParts
<1>3. /\ led' \in [out : BOOLEAN, pol : {"NORM", "INV"}] /\ led'.out = TRUE
      /\ Recipe.arm = "IMM" => led'.pol = led.pol
      /\ Recipe.arm = "EXT" => led'.pol = IF Recipe.slope = "POS" THEN "INV" ELSE "NORM"
  <2>1. led.pol \in {"NORM", "INV"}
    BY <1>1 DEF Types
  <2> DEFINE pol == IF Recipe.arm = "IMM" THEN led.pol
                    ELSE IF Recipe.slope = "POS" THEN "INV" ELSE "NORM"
  <2>2. led' = [out |-> TRUE, pol |-> pol] /\ pol \in {"NORM", "INV"}
    BY <2>1 DEF DriveLed, LedPolarity
  <2>3. Recipe.arm = "EXT" => Recipe.arm # "IMM"
    OBVIOUS
  <2>4. led' \in [out : BOOLEAN, pol : {"NORM", "INV"}] /\ led'.out = TRUE /\ led'.pol = pol
    <3> HIDE DEF pol
    <3> QED
      BY <2>2
  <2> QED
    BY <2>3, <2>4
<1>4. CASE EndRun("failed")
  BY <1>1, <1>3, <1>4, RunEnds DEF DriveLed, Types
<1>5. ASSUME pc' = "chain", UNCHANGED <<runs, at, step>> PROVE ChainInv'
  <2>1. UNCHANGED <<card, bias, asked, seen, told, wrote, runs, at, step>> /\ Recipe' = Recipe
    BY <1>5 DEF DriveLed, Recipe, StepsOf
  <2>2. Types'
    BY <1>1, <1>3, <1>5, <2>1 DEF Types, card
  <2>3. OnTheBench'
    BY <1>1, <1>5 DEF OnTheBench
  <2>4. OnlyChoices'
    BY <1>1, <2>1 DEF OnlyChoices, card
  <2>5. Lit'
    BY <1>2, <1>3, <2>1 DEF Lit
  <2>6. Written'
    BY <1>5 DEF Written
  <2>7. Told' /\ Unwritten'
    BY <1>1, <1>3, <1>5, <2>1 DEF ChainInv, Told, Unwritten
  <2> QED
    BY <2>2, <2>3, <2>4, <2>5, <2>6, <2>7 DEF ChainInv
<1> QED
  BY <1>4, <1>5 DEF DriveLed

\* The set-up writes what the recipe says, and its file what is in force.
LEMMA SetUpKeeps == ASSUME ChainInv, SetUp PROVE ChainInv'
<1> PICK mute \in BOOLEAN, on \in BOOLEAN :
        LET now == Shaped(Armed(bias, Recipe), Recipe)
        IN  /\ bias' = [now EXCEPT !.out = on]
            /\ wrote' = Over(StateRead(bias, now, mute), Context)
            /\ IF on THEN pc' = "measuring" /\ UNCHANGED <<runs, at, step>>
                     ELSE EndRun("failed")
  BY DEF SetUp
<1> DEFINE armed == Armed(bias, Recipe)
           now == Shaped(armed, Recipe)
           Biases == [out : BOOLEAN, pol : {"NORM", "INV"}, arm : {"EXT", "IMM"},
                      slope : {"POS", "NEG"}]
<1>1. Types /\ OnTheBench /\ OnlyChoices /\ pc = "chain"
  BY DEF ChainInv, SetUp
<1>2. /\ Recipe \in Recipes
      /\ Recipe.arm \in {"EXT", "IMM"} /\ Recipe.slope \in {"POS", "NEG"}
      /\ Instruction(Recipe) \in {"NORM", "INV", "leave"}
  BY <1>1, StepParts, RecipeParts
<1>3. /\ armed \in Biases /\ armed.arm = Recipe.arm /\ armed.pol = bias.pol
      /\ Recipe.arm = "EXT" => armed.slope = Recipe.slope
      /\ Recipe.arm = "IMM" => armed.slope = bias.slope
  <2>1. CASE Recipe.arm = "IMM"
    <3>1. armed = [bias EXCEPT !.arm = "IMM"] /\ bias \in Biases
      BY <1>1, <2>1 DEF Armed, Types
    <3> HIDE DEF armed
    <3> QED
      BY <2>1, <3>1
  <2>2. CASE Recipe.arm = "EXT"
    <3>1. armed = [bias EXCEPT !.arm = "EXT", !.slope = Recipe.slope] /\ bias \in Biases
      BY <1>1, <2>2 DEF Armed, Types
    <3> HIDE DEF armed
    <3> QED
      BY <1>2, <2>2, <3>1
  <2> QED
    BY <1>2, <2>1, <2>2
<1> HIDE DEF armed
<1>4. /\ now \in Biases /\ now.arm = armed.arm /\ now.slope = armed.slope
      /\ Instruction(Recipe) \in {"leave", now.pol}
  BY <1>2, <1>3 DEF Shaped
<1>5. bias' = [now EXCEPT !.out = on] /\ wrote' = Over(StateRead(bias, now, mute), Context)
  BY DEF armed
<1>6. /\ UNCHANGED <<card, led, asked, seen, told>>
      /\ on = TRUE => pc' = "measuring" /\ UNCHANGED <<runs, at, step>>
      /\ on # TRUE => EndRun("failed")
  BY DEF SetUp
<1> HIDE DEF now
<1>7. /\ bias' \in Biases /\ bias'.arm = now.arm /\ bias'.slope = now.slope
      /\ bias'.pol = now.pol
  BY <1>4, <1>5
<1>8. /\ wrote'.arm \in {now.arm, "?"} /\ wrote'.slope \in {now.slope, "?"}
      /\ wrote'.pol = now.pol /\ wrote'.sample = runs[at].sample
  BY <1>5 DEF Over, StateRead, Context
<1>9. CASE on # TRUE
  <2>1. led' \in [out : BOOLEAN, pol : {"NORM", "INV"}]
    BY <1>1, <1>6 DEF Types
  <2> QED
    BY <1>1, <1>6, <1>7, <1>9, <2>1, RunEnds
<1>10. CASE on = TRUE
  <2>1. pc' = "measuring" /\ UNCHANGED <<card, led, seen, told, runs, at, step>> /\ Recipe' = Recipe
    BY <1>6, <1>10 DEF Recipe, StepsOf
  <2>2. Types'
    BY <1>1, <1>7, <2>1 DEF Types, card
  <2>3. OnTheBench'
    BY <1>1, <2>1 DEF OnTheBench
  <2>4. OnlyChoices'
    BY <1>1, <2>1 DEF OnlyChoices, card
  <2>5. Lit'
    BY <1>1, <2>1 DEF ChainInv, Lit
  <2>6. Written'
    BY <1>3, <1>4, <1>7, <1>8, <2>1 DEF Written
  <2>7. Told'
    BY <1>1, <2>1 DEF ChainInv, Told
  <2>8. Unwritten'
    BY <1>1, <1>3, <1>4, <1>7, <2>1 DEF ChainInv, Unwritten
  <2> QED
    BY <2>2, <2>3, <2>4, <2>5, <2>6, <2>7, <2>8 DEF ChainInv
<1> QED
  BY <1>9, <1>10

\* The next step writes all of its own.
LEMMA EndStepKeeps == ASSUME ChainInv, EndStep PROVE ChainInv'
<1>1. Types /\ OnTheBench /\ OnlyChoices /\ pc = "measuring"
  BY DEF ChainInv, EndStep
<1>2. /\ UNCHANGED <<card, led, asked, seen, told, wrote>>
      /\ led' \in [out : BOOLEAN, pol : {"NORM", "INV"}]
      /\ bias' \in [out : BOOLEAN, pol : {"NORM", "INV"}, arm : {"EXT", "IMM"},
                    slope : {"POS", "NEG"}]
  <2>1. bias' = [bias EXCEPT !.out = FALSE]
    BY DEF EndStep
  <2> QED
    BY <1>1, <2>1 DEF Types, EndStep
<1>3. ASSUME NEW end \in {"done", "stopped", "failed"}, EndRun(end) PROVE ChainInv'
  BY <1>1, <1>2, <1>3, RunEnds
<1>4. ASSUME step < Len(runs[at].steps), step' = step + 1, pc' = "led", UNCHANGED <<runs, at>>
      PROVE  ChainInv'
  <2>1. /\ at \in 1..Len(runs) /\ step \in 1..Len(runs[at].steps)
        /\ Len(runs[at].steps) \in Nat
    BY <1>1, StepParts, RunParts
  <2>2. step' \in 1..Len(runs[at].steps) /\ step' # 1
    BY <1>4, <2>1
  <2>3. Types'
    BY <1>1, <1>2, <1>4 DEF Types, card
  <2>4. OnTheBench'
    BY <1>1, <1>4, <2>1, <2>2 DEF OnTheBench
  <2>5. OnlyChoices'
    BY <1>1, <1>2, <1>4 DEF OnlyChoices, card
  <2>6. Lit' /\ Written' /\ Unwritten'
    BY <1>4, <2>2 DEF Lit, Written, Unwritten
  <2>7. Told'
    BY <1>1, <1>2, <1>4 DEF ChainInv, Told
  <2> QED
    BY <2>3, <2>4, <2>5, <2>6, <2>7 DEF ChainInv
<1> QED
  BY <1>3, <1>4 DEF EndStep

\* Between runs the generators are anybody's.
LEMMA IdleKeeps ==
    ASSUME ChainInv, \/ ParkBench \/ SetLedPolarity \/ ArmExternally \/ SwitchLed
    PROVE  ChainInv'
<1> DEFINE Leds == [out : BOOLEAN, pol : {"NORM", "INV"}]
           Biases == [out : BOOLEAN, pol : {"NORM", "INV"}, arm : {"EXT", "IMM"},
                      slope : {"POS", "NEG"}]
<1>1. /\ Types /\ OnTheBench /\ OnlyChoices /\ led \in Leds /\ bias \in Biases
  BY DEF ChainInv, Types
<1>2. UNCHANGED <<card, runs>> /\ pc' = "idle"
  BY DEF ParkBench, SetLedPolarity, ArmExternally, SwitchLed, Place
<1>3. led' \in Leds
  <2>1. CASE led' = led
    BY <1>1, <2>1
  <2>2. ASSUME NEW pol \in {"NORM", "INV"}, led' = [led EXCEPT !.pol = pol] PROVE led' \in Leds
    BY <1>1, <2>2
  <2>3. ASSUME NEW out \in BOOLEAN, led' = [led EXCEPT !.out = out] PROVE led' \in Leds
    BY <1>1, <2>3
  <2>4. CASE ParkBench \/ ArmExternally
    BY <2>1, <2>4 DEF ParkBench, ArmExternally
  <2>5. CASE SetLedPolarity
    BY <2>2, <2>5 DEF SetLedPolarity
  <2>6. CASE SwitchLed
    BY <2>3, <2>6 DEF SwitchLed
  <2> QED
    BY <2>4, <2>5, <2>6
<1>4. bias' \in Biases
  <2>1. CASE bias' = bias
    BY <1>1, <2>1
  <2>2. CASE bias' = [bias EXCEPT !.out = FALSE]
    BY <1>1, <2>2
  <2>3. CASE bias' = [bias EXCEPT !.arm = "EXT", !.slope = "POS"]
    BY <1>1, <2>3
  <2> QED
    BY <2>1, <2>2, <2>3 DEF ParkBench, SetLedPolarity, ArmExternally, SwitchLed
<1>5. Types'
  BY <1>1, <1>2, <1>3, <1>4 DEF Types, card
<1>6. OnTheBench' /\ OnlyChoices'
  BY <1>1, <1>2 DEF OnTheBench, OnlyChoices, card
<1> QED
  BY <1>2, <1>5, <1>6, NoStep

\* A restart ends what was queued or running, and forgets what was edited.
LEMMA RestartKeeps == ASSUME ChainInv, Restart PROVE ChainInv'
<1>1. Types /\ OnTheBench /\ OnlyChoices
  BY DEF ChainInv
<1>2. runs \in Seq(Runs) /\ Len(runs) \in Nat /\ DOMAIN runs = 1..Len(runs)
  BY <1>1 DEF Types
<1>3. runs' = [r \in 1..Len(runs) |->
                 IF runs[r].state \in {"queued", "running"}
                 THEN [runs[r] EXCEPT !.state = "aborted", !.steps = <<>>, !.sample = None]
                 ELSE runs[r]]
  BY <1>2 DEF Restart
<1>4. \A r \in 1..Len(runs) :
          /\ runs'[r] \in Runs /\ runs'[r].params = runs[r].params
          /\ runs'[r].state # "queued"
  <2> SUFFICES ASSUME NEW r \in 1..Len(runs)
               PROVE  /\ runs'[r] \in Runs /\ runs'[r].params = runs[r].params
                      /\ runs'[r].state # "queued"
    OBVIOUS
  <2>1. runs[r] \in Runs
    BY <1>2
  <2>2. CASE runs[r].state \in {"queued", "running"}
    <3> DEFINE x == [runs[r] EXCEPT !.state = "aborted", !.steps = <<>>, !.sample = None]
    <3>1. <<>> \in Steps /\ None \in Devices /\ "aborted" \in States
      BY DEF Steps, Devices, States
    <3>2. x \in Runs /\ x.params = runs[r].params /\ x.state = "aborted"
      BY <2>1, <3>1 DEF Runs
    <3>3. runs'[r] = x
      BY <1>3, <2>2
    <3> QED
      BY <3>2, <3>3
  <2>3. CASE runs[r].state \notin {"queued", "running"}
    BY <1>3, <2>1, <2>3
  <2> QED
    BY <2>2, <2>3
<1>5. runs' = [r \in 1..Len(runs) |-> runs'[r]]
  BY <1>3
<1>6. runs' \in Seq(Runs) /\ Len(runs') = Len(runs)
  BY <1>2, <1>4, <1>5, IsSeq
<1>7. /\ file' \in Partial /\ edited' \in Partial /\ DOMAIN edited' = {} /\ sample' \in Devices
      /\ pc' = "idle" /\ UNCHANGED <<chosen, led, bias>>
  BY RecipeAssumption, EmptyLayer DEF Restart, Devices
<1>8. Types'
  BY <1>1, <1>6, <1>7 DEF Types
<1>9. OnTheBench' /\ OnlyChoices'
  BY <1>1, <1>4, <1>6, <1>7 DEF OnTheBench, OnlyChoices
<1> QED
  BY <1>7, <1>8, <1>9, NoStep

\* No step breaks the invariant.
LEMMA ChainStep == ASSUME ChainInv, [Next]_vars PROVE ChainInv'
<1>1. CASE EditParams \/ Submit \/ Start \/ DriveLed \/ SetUp \/ EndStep \/ Restart
  BY <1>1, EditKeeps, SubmitKeeps, StartKeeps, LedKeeps, SetUpKeeps, EndStepKeeps, RestartKeeps
<1>2. CASE ParkBench \/ SetLedPolarity \/ ArmExternally \/ SwitchLed
  BY <1>2, IdleKeeps
<1>3. CASE ResetParams
  BY <1>3, EmptyLayer, CardKeeps DEF ResetParams, ChainInv, Types
<1>4. CASE SetSample
  BY <1>4, CardKeeps DEF SetSample, ChainInv, Types, OnlyChoices, Devices
<1>5. CASE UNCHANGED vars
  <2>1. UNCHANGED <<file, runs, Place, Bench, edited, sample, chosen>>
    BY <1>5 DEF vars, Place, Bench
  <2> QED
    BY <2>1, CardKeeps DEF ChainInv, Types, OnlyChoices
<1> QED
  BY <1>1, <1>2, <1>3, <1>4, <1>5 DEF Next

\* The inductive invariant: what a step has written of its recipe, what its run was told and
\* what its first step leaves as it was read, and that only choices stand above the file.
THEOREM ChainHolds == Spec => []ChainInv
BY ChainInit, ChainStep, PTL DEF Spec

\* At a shot the extraction is at light off.
LEMMA AtLightOff == ChainInv => ExtractsAtLightOff
<1> SUFFICES ASSUME ChainInv, Measuring, Recipe.arm = "EXT"
             PROVE  /\ led.out = TRUE /\ bias.arm = "EXT"
                    /\ (bias.slope = "POS") <=> (led.pol = "INV")
  BY DEF ExtractsAtLightOff
<1> QED
  BY DEF ChainInv, Lit, Written, Measuring

\* What was in order when it was told is what the first step measures with.
LEMMA OkIsUsed == ChainInv => ReadOkIsUsed
<1> SUFFICES ASSUME ChainInv, pc = "measuring", step = 1
             PROVE  /\ \A k \in {"arm", "slope", "pol"} :
                           told.card[k] = "ok" => InForce[k] = seen[k]
                    /\ (told.card.led = "ok" /\ Recipe.slope = "POS") => InForce.led = seen.led
                    /\ (told.arm = "ok" /\ Recipe.arm = "EXT") =>
                           InForce.arm = seen.arm /\ InForce.slope = seen.slope
                    /\ told.pol = "ok" => InForce.pol = seen.pol
  BY DEF ReadOkIsUsed, Measuring
<1> DEFINE steps == runs[at].steps
<1>1. Types /\ OnTheBench /\ at \in 1..Len(runs) /\ 1 \in 1..Len(steps) /\ steps[1] = Recipe
  BY StepParts DEF ChainInv
<1>2. /\ steps \in Seq(Recipes) /\ Head(steps) = Recipe
      /\ Len(steps) \in Nat /\ DOMAIN steps = 1..Len(steps)
  BY <1>1, RunParts DEF Steps
<1>3. /\ Recipe \in Recipes
      /\ Recipe.arm \in {"EXT", "IMM"} /\ Recipe.slope \in {"POS", "NEG"}
      /\ Instruction(Recipe) \in {"NORM", "INV", "leave"}
  BY <1>1, <1>2, RecipeParts
<1>4. /\ told = Verdicts(seen, steps) /\ DOMAIN seen = {"led", "arm", "slope", "pol"}
      /\ seen.pol \in {"NORM", "INV", "?"}
  BY DEF ChainInv, Told
<1>5. /\ bias.arm = Recipe.arm
      /\ Recipe.arm = "EXT" => bias.slope = Recipe.slope
      /\ Instruction(Recipe) \in {"leave", bias.pol}
      /\ Recipe.arm = "EXT" => ((Recipe.slope = "POS") <=> (led.pol = "INV"))
      /\ Recipe.arm = "IMM" => seen.led \in {led.pol, "?"} /\ seen.slope \in {bias.slope, "?"}
  BY DEF ChainInv, Written, Lit, Unwritten
<1>6. led.pol \in {"NORM", "INV"} /\ bias.pol \in {"NORM", "INV"}
  BY <1>1 DEF Types
<1> HIDE DEF steps
<1>7. /\ told.card = [k \in {"led", "arm", "slope", "pol"} |-> CardLevel(seen, Recipe, k)]
      /\ told.arm = TreeArm(seen, steps) /\ told.pol = TreePol(seen, steps)
  BY <1>2, <1>4 DEF Verdicts
<1>8. ASSUME NEW k \in {"led", "arm", "slope", "pol"}, told.card[k] = "ok"
      PROVE  seen[k] = Expected(Recipe)[k] /\ Expected(Recipe)[k] # "leave"
  BY <1>7, <1>8 DEF CardLevel
<1>9. ASSUME NEW k \in {"arm", "slope", "pol"}, told.card[k] = "ok" PROVE InForce[k] = seen[k]
  <2>1. seen[k] = Expected(Recipe)[k] /\ Expected(Recipe)[k] # "leave"
    BY <1>8, <1>9
  <2>2. CASE k = "arm"
    BY <1>5, <2>1, <2>2 DEF Expected, InForce
  <2>3. CASE k = "slope"
    <3>1. seen.slope = Recipe.slope
      BY <2>1, <2>3 DEF Expected
    <3>2. bias.slope = seen.slope
      BY <1>3, <1>5, <3>1
    <3> QED
      BY <2>3, <3>2 DEF InForce
  <2>4. CASE k = "pol"
    BY <1>5, <2>1, <2>4 DEF Expected, InForce
  <2> QED
    BY <2>2, <2>3, <2>4
<1>10. ASSUME told.card.led = "ok", Recipe.slope = "POS" PROVE InForce.led = seen.led
  <2>1. seen.led = "INV"
    BY <1>8, <1>10 DEF Expected
  <2>2. led.pol = "INV"
    BY <1>3, <1>5, <1>10, <2>1
  <2> QED
    BY <2>1, <2>2 DEF InForce
<1>11. ASSUME told.arm = "ok", Recipe.arm = "EXT"
       PROVE  InForce.arm = seen.arm /\ InForce.slope = seen.slope
  <2>1. 1 \in Externals(steps) /\ \A i \in Externals(steps) : i \in 1..Len(steps)
    BY <1>1, <1>2, <1>11 DEF Externals, steps
  <2>2. \A i \in Externals(steps) : 1 <= i
    BY <1>2, <2>1
  <2>3. First(Externals(steps)) \in Externals(steps) /\ First(Externals(steps)) <= 1
    BY <2>1, <2>2 DEF First
  <2>4. First(Externals(steps)) = 1
    BY <1>2, <2>1, <2>3
  <2>5. seen.arm = "EXT" /\ seen.slope = steps[First(Externals(steps))].slope
    BY <1>7, <1>11, <2>1 DEF TreeArm
  <2>6. steps[1] = Recipe
    BY <1>1 DEF steps
  <2> QED
    BY <1>5, <1>11, <2>4, <2>5, <2>6 DEF InForce
<1>12. ASSUME told.pol = "ok" PROVE InForce.pol = seen.pol
  <2>1. Instruction(Recipe) = seen.pol
    BY <1>2, <1>3, <1>4, <1>7, <1>12 DEF TreePol
  <2> QED
    BY <1>4, <1>5, <2>1 DEF InForce
<1> QED
  BY <1>9, <1>10, <1>11, <1>12

\* For any file, edits, nodes and failures, and whatever was left on the generators: a run
\* that arms externally extracts at light off, what it was told is in order is what its first
\* step measures with, and what a step's file says of the 81150A was in force.
THEOREM ChainStaysTold == Spec => []ChainIsTold
<1>1. ChainInv => FileSaysTheChain
  <2> SUFFICES ASSUME ChainInv, pc = "measuring", NEW k \in {"arm", "slope", "pol"}
               PROVE  wrote[k] \in {InForce[k], "?"}
    BY DEF FileSaysTheChain, Measuring
  <2>1. /\ wrote.arm \in {bias.arm, "?"} /\ wrote.slope \in {bias.slope, "?"}
        /\ wrote.pol \in {bias.pol, "?"}
    BY DEF ChainInv, Written
  <2>2. InForce.arm = bias.arm /\ InForce.slope = bias.slope /\ InForce.pol = bias.pol
    BY DEF InForce
  <2>3. CASE k = "arm"
    BY <2>1, <2>2, <2>3
  <2>4. CASE k = "slope"
    BY <2>1, <2>2, <2>4
  <2>5. CASE k = "pol"
    BY <2>1, <2>2, <2>5
  <2> QED
    BY <2>3, <2>4, <2>5
<1>2. ChainInv => ChainIsTold
  BY <1>1, AtLightOff, OkIsUsed DEF ChainIsTold
<1> QED
  BY <1>2, ChainHolds, PTL

\* For any of these a step measures with the recipe, and files under the device, its run was
\* queued with, and a parameter that nobody ever chose has the value of run.toml.
THEOREM ChoicesStay == Spec => []ChoicesHold
<1>1. ChainInv => RunsAsQueued
  <2> SUFFICES ASSUME ChainInv, pc = "measuring"
               PROVE  LET queued == runs[at].steps[step]
                      IN  /\ bias.arm = queued.arm
                          /\ queued.arm = "EXT" => bias.slope = queued.slope
                          /\ Instruction(queued) \in {"leave", bias.pol}
                          /\ wrote.sample = runs[at].sample
    BY DEF RunsAsQueued, Measuring
  <2>1. runs[at].steps[step] = Recipe
    BY StepParts DEF ChainInv
  <2> QED
    BY <2>1 DEF ChainInv, Written
<1>2. ChainInv => UnchosenFollowsTheFile
  <2> SUFFICES ASSUME ChainInv, NEW p \in Params \ chosen
               PROVE  Resolved(<<>>)[p] = Over(file, Default)[p]
    BY DEF UnchosenFollowsTheFile
  <2>1. Types /\ OnlyChoices
    BY DEF ChainInv
  <2>2. p \notin DOMAIN edited /\ p \notin DOMAIN LastUsed /\ p \notin DOMAIN <<>>
    BY <2>1, LastIsLayer, EmptyLayer DEF OnlyChoices
  <2>3. Over(file, Default) \in Recipes
    BY <2>1, DefaultIsRecipe, OverRecipe DEF Types
  <2> DEFINE base == Over(file, Default)
             last == Over(LastUsed, base)
             over == Over(edited, last)
  <2>4. p \in DOMAIN base
    BY <2>3 DEF Recipes
  <2> HIDE DEF base
  <2>5. last[p] = base[p] /\ p \in DOMAIN last
    BY <2>2, <2>4 DEF Over
  <2> HIDE DEF last
  <2>6. over[p] = last[p] /\ p \in DOMAIN over
    BY <2>2, <2>5 DEF Over
  <2> HIDE DEF over
  <2>7. Over(<<>>, over)[p] = over[p]
    BY <2>2, <2>6 DEF Over
  <2>8. Resolved(<<>>) = Over(<<>>, over)
    BY DEF Resolved, Layers, over, last, base
  <2> QED
    BY <2>5, <2>6, <2>7, <2>8 DEF base
<1>3. ChainInv => ChoicesHold
  BY <1>1, <1>2 DEF ChoicesHold
<1> QED
  BY <1>3, ChainHolds, PTL
=============================================================================
