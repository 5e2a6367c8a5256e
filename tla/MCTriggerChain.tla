--------------------------- MODULE MCTriggerChain ---------------------------
(***************************************************************************)
(* Two runs, one restart, two versions of run.toml; a pipeline whose       *)
(* second transient arms on the other edge.                                *)
(***************************************************************************)
EXTENDS TriggerChain

TwoFiles == {<<>>, [slope |-> "NEG"]}
SomePatches ==
    {[slope |-> "NEG"], [slope |-> None, pol |-> "leave"], [arm |-> "IMM"],
     [pol |-> "INV", arm |-> "sometimes"]}
SomeTrees == {<< [slope |-> "POS"] >>, << <<>>, [slope |-> "NEG"] >>}

\* The bench card compares with the recipe in force on the card (rigs.py:817).
CardExpectsRecipe ==
    pc = "idle" => Expected(asked) = Expected(Resolved(<<>>))

\* tests/test_acceptance_20260902.py, test of the service's file: `/config/resolved` is the
\* instrument's account of what ran.  The LED's polarity in it is that of the read-back at
\* the run's start; the run then writes the polarity, and the state it reads after that
\* passes the recorder by (modules.py:1434).
FileSaysTheLed == Measuring /\ Recipe.arm = "EXT" => wrote.led \in {InForce.led, "?"}
=============================================================================
