------------------------------ MODULE MCJournal ------------------------------
(***************************************************************************)
(* Journal with one process at a time and two session ids, each process    *)
(* continuing the newest file or starting the next.                        *)
(***************************************************************************)
EXTENDS Journal
CONSTANTS p1, p2

\* Without the exemption of RunsStayApart.
RunsStayApartAlways ==
    \A s \in Sessions : \A l, k \in Readable(s) :
        l.run # Null /\ l.run = k.run => l.sub = k.sub
=============================================================================
