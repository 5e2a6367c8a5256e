----------------------------- MODULE MCSourcePanel -----------------------------
(***************************************************************************)
(* Instances of SourcePanel: two handlers, bodies that move a level and a  *)
(* compliance against each other, and one that changes the function.       *)
(***************************************************************************)
EXTENDS SourcePanel

CONSTANTS c1, c2
TwoHandlers == {c1, c2}
OnePoller   == {c1}
OneHandler  == {c1}
TheDefaults == [fn |-> "voltage", level |-> 0, limit |-> 2]
SomeBodies  == {[fn |-> None, level |-> 2, limit |-> 1], [fn |-> "current", level |-> None, limit |-> None]}
===============================================================================
