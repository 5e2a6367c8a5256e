------------------------------ MODULE MCRunFiles ------------------------------
(***************************************************************************)
(* RunRecords on two points, two loops and two J-V curves of two readings: *)
(* module runs of each measurement, and pipelines of two and three nodes.  *)
(***************************************************************************)
EXTENDS RunRecords

SomeTrees ==
    {[kind |-> "module", modules |-> <<"scan">>],
     [kind |-> "module", modules |-> <<"sweep">>],
     [kind |-> "pipeline", modules |-> <<"sweep", "scan">>],
     [kind |-> "pipeline", modules |-> <<"scan", "power", "sweep">>]}
=============================================================================
