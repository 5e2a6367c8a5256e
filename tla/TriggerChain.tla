---------------------------- MODULE TriggerChain ----------------------------
(***************************************************************************)
(* From the recipe on a card to the generators of a transient run.  A      *)
(* recipe is resolved in layers (params.py, modules.py), copied when a run *)
(* is queued (session.py), compared with what the instruments read when    *)
(* the run starts (rigs.py, pipeline.py), and written to the 33220A, which *)
(* drives the LED, and to the 81150A, which extracts the charge.           *)
(*                                                                         *)
(* Of the parameters of `bace`, those that decide when the extraction      *)
(* happens are kept: what arms the 81150A, on which edge of the Sync, and  *)
(* the polarity of its output.                                             *)
(***************************************************************************)
EXTENDS Naturals, Sequences

CONSTANTS None,
          Files,        \* run.toml as a process may find it: layers of values
          Patches,      \* what a person may send to the card
          Overrides,    \* the parameters of a node, over those of the card
          Filed, Names, \* the device: as run.toml has it, as a person may put it
          MaxRuns,      \* bound: runs ever queued
          MaxEdits,     \* bound: edits and resets of the card
          MaxRestarts   \* bound: restarts of the service

Values == [arm |-> {"EXT", "IMM"}, slope |-> {"POS", "NEG"},
           pol |-> {"auto", "INV", "leave"}]
Params == DOMAIN Values
\* A layer has a value for some of them; a recipe has one for each.
Partial == UNION {{f \in [D -> UNION {Values[p] : p \in Params}] :
                      \A p \in D : f[p] \in Values[p]} : D \in SUBSET Params}
Recipes == {f \in Partial : DOMAIN f = Params}

\* Every layer is coerced as it is filled, and no pipeline of transients is empty.
ASSUME RecipeAssumption ==
    /\ MaxRuns \in Nat /\ MaxEdits \in Nat /\ MaxRestarts \in Nat
    /\ Files \subseteq Partial
    /\ \A nodes \in Overrides : nodes \in Seq(Partial) /\ nodes # <<>>

\* The defaults of RunConfig; with inverted_output false, auto writes NORM.
Default == [arm |-> "EXT", slope |-> "POS", pol |-> "auto"]

VARIABLES file, edited,   \* the layers of run.toml and of the card's edits
          sample,         \* catalogue.sample: which device is in the cryostat
          runs,           \* every run queued, oldest first: journal and records
          chosen,         \* what a person has ever set, on a card or in a node
          at, step, pc,   \* the run on the bench, its step, and how far it is
          led, bias,      \* the two generators
          asked,          \* bench.run_config: what the bench card compares with
          seen, told,     \* the read-back and the verdicts of the run's start
          wrote,          \* InstrumentState of the step, as its file holds it
          edits, restarts
card == <<file, edited, sample, chosen, edits, restarts>>
vars == <<file, edited, sample, runs, chosen, at, step, pc, led, bias, asked, seen, told,
          wrote, edits, restarts>>
-----------------------------------------------------------------------------
(* Layers. *)
Over(upper, lower) ==
    [p \in DOMAIN upper \cup DOMAIN lower |-> IF p \in DOMAIN upper THEN upper[p] ELSE lower[p]]
Refuses(patch) == \E p \in DOMAIN patch : p \notin Params \/ patch[p] \notin Values[p] \cup {None}
Sets(patch) == [p \in {q \in DOMAIN patch : patch[q] # None} |-> patch[p]]
Without(layer, S) == [p \in DOMAIN layer \ S |-> layer[p]]

\* The choices of the newest single run that came to a good end.
LastUsed ==
    LET good == {r \in DOMAIN runs : runs[r].kind = "manual"
                                     /\ runs[r].state \in {"done", "stopped"}}
    IN  IF good = {} THEN <<>>
        ELSE runs[CHOOSE r \in good : \A q \in good : q <= r].params

Layers == Over(edited, Over(LastUsed, Over(file, Default)))
\* A value for every parameter, from the highest layer that has one.
Resolved(node) == Over(node, Layers)

\* What a single run leaves for the next: choices, not what a file or a default said.
Choices(node) ==
    LET mine == DOMAIN node \cup DOMAIN edited \cup DOMAIN LastUsed
    IN  [p \in mine |-> Resolved(node)[p]]

\* RunConfig.polarity_instruction.
Instruction(recipe) ==
    CASE recipe.pol = "auto" -> "NORM"
      [] recipe.pol = "INV" -> "INV"
      [] recipe.pol = "leave" -> "leave"
-----------------------------------------------------------------------------
(* The chain as it is read, and what is said of it. *)
InForce == [led |-> led.pol, arm |-> bias.arm, slope |-> bias.slope, pol |-> bias.pol]

\* Read-back; a generator in mute does not answer.
Reading(mute) ==
    [k \in DOMAIN InForce |->
        IF (IF k = "led" THEN "led" ELSE "bias") \in mute THEN "?" ELSE InForce[k]]

Expected(recipe) ==
    [led |-> "INV", arm |-> recipe.arm, slope |-> recipe.slope, pol |-> Instruction(recipe)]

\* The bench card: each item by itself, against the recipe of the first transient.
CardLevel(read, recipe, k) ==
    IF Expected(recipe)[k] = "leave" THEN "info"
    ELSE IF read[k] = Expected(recipe)[k] THEN "ok" ELSE "warn"

Externals(steps) == {i \in DOMAIN steps : steps[i].arm = "EXT"}
First(S) == CHOOSE i \in S : \A j \in S : i <= j

\* chain.led-polarity for a tree: information when every transient writes it.
TreeLed(read, steps) ==
    IF read.led = "INV" THEN "ok"
    ELSE IF Externals(steps) = DOMAIN steps THEN "info" ELSE "warn"

\* chain.bias-arm: the first transient that arms externally speaks for all.
TreeArm(read, steps) ==
    IF Externals(steps) = {} THEN "none armed"
    ELSE IF read.arm = "EXT" /\ read.slope = steps[First(Externals(steps))].slope
         THEN "ok" ELSE "warn"

\* chain.bias-polarity: the first transient speaks for all.
TreePol(read, steps) ==
    CASE Instruction(Head(steps)) = "leave" -> "info"
      [] Instruction(Head(steps)) = read.pol -> "ok"
      [] OTHER -> IF read.pol = "?" THEN "info" ELSE "warn"

Verdicts(read, steps) ==
    [led |-> TreeLed(read, steps), arm |-> TreeArm(read, steps),
     pol |-> TreePol(read, steps),
     card |-> [k \in DOMAIN read |-> CardLevel(read, Head(steps), k)]]
-----------------------------------------------------------------------------
Init ==
    /\ file \in Files /\ edited = <<>> /\ sample = Filed
    /\ runs = <<>> /\ chosen = {}
    /\ at = 0 /\ step = 0 /\ pc = "idle"
    /\ led \in [out : {FALSE}, pol : {"NORM", "INV"}]
    /\ bias \in {[out |-> FALSE, pol |-> "NORM", arm |-> "IMM", slope |-> "POS"],
                [out |-> FALSE, pol |-> "INV", arm |-> "EXT", slope |-> "NEG"]}
    /\ asked = Over(file, Default)
    /\ seen = None /\ told = None /\ wrote = None /\ edits = 0 /\ restarts = 0

Bench == <<led, bias, asked, seen, told, wrote>>
Place == <<at, step, pc>>

\* PUT /modules/bace/params: every value is accepted or none is.
EditParams ==
    /\ edits < MaxEdits /\ edits' = edits + 1
    /\ \E patch \in Patches :
        /\ ~Refuses(patch)
        /\ edited' = Over(Sets(patch), Without(edited, DOMAIN patch))
        /\ chosen' = chosen \cup DOMAIN Sets(patch)
    /\ UNCHANGED <<file, sample, restarts, runs, Place, Bench>>

ResetParams ==
    /\ edits < MaxEdits /\ edits' = edits + 1
    /\ edited' = <<>>
    /\ UNCHANGED <<file, sample, chosen, restarts, runs, Place, Bench>>

\* PUT /session/sample, also while a run is active: a name, or None for that of the file.
SetSample ==
    /\ edits < MaxEdits /\ edits' = edits + 1
    /\ \E name \in Names \cup {None} : sample' = IF name = None THEN Filed ELSE name
    /\ UNCHANGED <<file, edited, chosen, restarts, runs, Place, Bench>>

\* Session.submit: the recipe of every node, the device and the choices are copied.
Submit ==
    /\ Len(runs) < MaxRuns
    /\ \E nodes \in Overrides :
        /\ runs' = Append(runs,
              [kind |-> IF Len(nodes) = 1 THEN "manual" ELSE "pipeline",
               steps |-> [i \in DOMAIN nodes |-> Resolved(nodes[i])],
               params |-> IF Len(nodes) = 1 THEN Choices(nodes[1]) ELSE <<>>,
               sample |-> sample, state |-> "queued"])
        /\ chosen' = chosen \cup UNION {DOMAIN nodes[i] : i \in DOMAIN nodes}
    /\ UNCHANGED <<file, edited, sample, edits, restarts, Place, Bench>>

-----------------------------------------------------------------------------
(* A run on the bench. *)
ResolvedAgain(r) == [i \in DOMAIN runs[r].steps |-> Resolved(<<>>)]
StepsOf(r) == runs[r].steps
Recipe == StepsOf(at)[step]

\* A record keeps its steps and its device; nothing reads them once the run has ended.
EndRun(state) ==
    /\ runs' = [runs EXCEPT ![at].state = state, ![at].steps = <<>>,
                            ![at].sample = None]
    /\ pc' = "park" /\ UNCHANGED <<at, step>>

\* _make_run: the bench reads back; no verdict of the chain stops a run.
Start ==
    /\ pc = "idle"
    /\ \E r \in DOMAIN runs, mute \in SUBSET {"led", "bias"} :
        /\ runs[r].state = "queued" /\ \A q \in 1 .. r - 1 : runs[q].state # "queued"
        /\ runs' = [runs EXCEPT ![r].state = "running"]
        /\ asked' = Head(StepsOf(r))
        /\ seen' = Reading(mute)
        /\ told' = Verdicts(Reading(mute), StepsOf(r))
        /\ at' = r /\ step' = 1 /\ pc' = "led"
    /\ UNCHANGED <<card, led, bias, wrote>>

\* The edge the extraction follows is given its meaning here.
LedPolarity(recipe) == recipe.slope = "POS"

\* _build_bace: polarity, pulse and output of the 33220A, which may refuse them.
DriveLed ==
    /\ pc = "led"
    /\ led' = [out |-> TRUE,
               pol |-> IF Recipe.arm = "IMM" THEN led.pol
                       ELSE IF LedPolarity(Recipe) THEN "INV" ELSE "NORM"]
    /\ \/ pc' = "chain" /\ UNCHANGED <<runs, at, step>>
       \/ EndRun("failed")
    /\ UNCHANGED <<card, bias, asked, seen, told, wrote>>

\* configure_trigger: free running leaves the edge as it was.
Armed(b, recipe) ==
    IF recipe.arm = "IMM" THEN [b EXCEPT !.arm = "IMM"]
    ELSE [b EXCEPT !.arm = "EXT", !.slope = recipe.slope]
\* configure_shape: "leave" asks for the polarity and writes none.
Shaped(b, recipe) ==
    IF Instruction(recipe) = "leave" THEN b ELSE [b EXCEPT !.pol = Instruction(recipe)]

StateAsFound(was, now, mute) ==
    [arm |-> IF mute THEN "?" ELSE was.arm, slope |-> IF mute THEN "?" ELSE was.slope,
     pol |-> now.pol]
\* What the file will say: trigger_state is read back and may not answer.
StateRead(was, now, mute) ==
    [arm |-> IF mute THEN "?" ELSE now.arm, slope |-> IF mute THEN "?" ELSE now.slope,
     pol |-> now.pol]

\* The folder's device, and what the recorder is seeded with: the LED's polarity is that of
\* the read-back of the run's start.
Context == [sample |-> runs[at].sample, led |-> seen.led]

\* run_transient_scan: the set-up; a bias output that stays off ends the run.
SetUp ==
    /\ pc = "chain"
    /\ \E mute, on \in BOOLEAN :
        LET now == Shaped(Armed(bias, Recipe), Recipe)
        IN  /\ bias' = [now EXCEPT !.out = on]
            /\ wrote' = Over(StateRead(bias, now, mute), Context)
            /\ IF on THEN pc' = "measuring" /\ UNCHANGED <<runs, at, step>>
                     ELSE EndRun("failed")
    /\ UNCHANGED <<card, led, asked, seen, told>>

\* The scan ends: the next node of a pipeline, or the end, asked for or not.
EndStep ==
    /\ pc = "measuring"
    /\ bias' = [bias EXCEPT !.out = FALSE]
    /\ \/ /\ step < Len(runs[at].steps)
          /\ step' = step + 1 /\ pc' = "led" /\ UNCHANGED <<runs, at>>
       \/ step = Len(runs[at].steps) /\ EndRun("done")
       \/ \E end \in {"stopped", "failed"} : EndRun(end)
    /\ UNCHANGED <<card, led, asked, seen, told, wrote>>

\* Rig.park leaves the LED running.
ParkBench ==
    /\ pc = "park"
    /\ bias' = [bias EXCEPT !.out = FALSE]
    /\ pc' = "idle" /\ at' = 0 /\ step' = 0
    /\ seen' = None /\ told' = None /\ wrote' = None
    /\ UNCHANGED <<card, runs, led, asked>>
-----------------------------------------------------------------------------
(* Explicit bench actions, refused unless the output reads off. *)
SetLedPolarity ==
    /\ pc = "idle" /\ ~led.out
    /\ \E inverted \in BOOLEAN : led' = [led EXCEPT !.pol = IF inverted THEN "INV" ELSE "NORM"]
    /\ UNCHANGED <<card, runs, Place, bias, asked, seen, told, wrote>>

ArmExternally ==
    /\ pc = "idle" /\ ~bias.out
    /\ bias' = [bias EXCEPT !.arm = "EXT", !.slope = "POS"]
    /\ UNCHANGED <<card, runs, Place, led, asked, seen, told, wrote>>

SwitchLed ==
    /\ pc = "idle"
    /\ led' \in {[led EXCEPT !.out = FALSE], [led EXCEPT !.out = TRUE]}
    /\ UNCHANGED <<card, runs, Place, bias, asked, seen, told, wrote>>

\* The process goes and another comes: edits are lost, the journal is not.
Restart ==
    /\ restarts < MaxRestarts /\ restarts' = restarts + 1
    /\ file' \in Files /\ edited' = <<>> /\ sample' = Filed
    /\ runs' = [r \in DOMAIN runs |->
                  IF runs[r].state \in {"queued", "running"}
                  THEN [runs[r] EXCEPT !.state = "aborted", !.steps = <<>>, !.sample = None]
                  ELSE runs[r]]
    /\ asked' = Over(file', Default)
    /\ at' = 0 /\ step' = 0 /\ pc' = "idle"
    /\ seen' = None /\ told' = None /\ wrote' = None
    /\ UNCHANGED <<chosen, edits, led, bias>>

Next == \/ EditParams \/ ResetParams \/ SetSample \/ Submit
        \/ Start \/ DriveLed \/ SetUp \/ EndStep \/ ParkBench
        \/ SetLedPolarity \/ ArmExternally \/ SwitchLed \/ Restart
Spec == Init /\ [][Next]_vars
-----------------------------------------------------------------------------
Measuring == pc = "measuring"

\* A shot of a run that arms externally extracts when the light goes off: the edge of
\* the Sync the 81150A takes is the one the LED's polarity makes light off, whatever an
\* earlier run, a bench action or a restart left on the two generators (modules.py:1414
\* writes the one, transient.py:542 the other).
ExtractsAtLightOff ==
    Measuring /\ Recipe.arm = "EXT" =>
        /\ led.out /\ bias.arm = "EXT"
        /\ (bias.slope = "POS") = (led.pol = "INV")

\* A step measures with the recipe resolved when its run was queued and files under the
\* device of then, whatever was edited, renamed or finished while it waited
\* (session.py:855, session.py:986).
RunsAsQueued ==
    Measuring =>
        LET queued == runs[at].steps[step]
        IN  /\ bias.arm = queued.arm
            /\ queued.arm = "EXT" => bias.slope = queued.slope
            /\ Instruction(queued) \in {"leave", bias.pol}
            /\ wrote.sample = runs[at].sample

\* What a step's file says of the 81150A's arming and polarity was in force at its shots,
\* or says that nothing answered (transient.py:551).
FileSaysTheChain ==
    Measuring => \A k \in {"arm", "slope", "pol"} : wrote[k] \in {InForce[k], "?"}

\* What a run was told is in order when it started is what its first step measures
\* with: the writes of the set-up change nothing that read ok.  The card's item for
\* the LED is exempt when the run arms on the falling edge (rigs.py:1040 expects INV
\* of every recipe, modules.py:1414 then writes NORM).
ReadOkIsUsed ==
    Measuring /\ step = 1 =>
        /\ \A k \in {"arm", "slope", "pol"} : told.card[k] = "ok" => InForce[k] = seen[k]
        /\ told.card.led = "ok" /\ Recipe.slope = "POS" => InForce.led = seen.led
        /\ told.arm = "ok" /\ Recipe.arm = "EXT" =>
              InForce.arm = seen.arm /\ InForce.slope = seen.slope
        /\ told.pol = "ok" => InForce.pol = seen.pol

\* A parameter nobody ever set has the value run.toml gives it now: neither a run nor
\* a restart with another run.toml turns what the file said into a choice
\* (session.py:159, LAST_USED_SOURCES).
UnchosenFollowsTheFile ==
    \A p \in Params \ chosen : Resolved(<<>>)[p] = Over(file, Default)[p]

\* The extraction is at light off, the verdicts before it say what was read and written, and
\* the file after it what was in force of the 81150A.  The polarity of the LED in the file is
\* not part of it: that may be the one found before the run (FileSaysTheLed).
ChainIsTold == ExtractsAtLightOff /\ ReadOkIsUsed /\ FileSaysTheChain

\* A choice holds for what it was made for: a queued run keeps its recipe, and what nobody
\* chose stays the file's.
ChoicesHold == RunsAsQueued /\ UnchosenFollowsTheFile
=============================================================================
