----------------------------- MODULE LiveOverlay ------------------------------
(***************************************************************************)
(* What GET /bench adds to the last read-back while a run lasts: nobody    *)
(* reads an instrument during a run, so the service infers relay, shutter  *)
(* and outputs from the events the run yields, and shows the inference as  *)
(* such.  Composed with the bench, an inference can be held against the    *)
(* instruments.  Levels, frequencies and the LED's mode are left out.      *)
(***************************************************************************)
EXTENDS Bench

VARIABLE live   \* the overlay: the module it is about, and what is inferred (None: nothing)

Nothing == [module |-> "none", relay |-> "none", shutter |-> None, smu |-> None, bias |-> None]
LiveInit == Init /\ live = Nothing

\* What each phase of a shot says of the shutter; the modules that leave it shut.
ShutterOpenPhases == {"light settle", "acquire light", "dark levels"}
ShutterShutPhases == {"dark settle", "acquire dark", "process"}
LightUnwound == {"bace", "jv_bace", "park"}

\* LiveState.apply, one event at a time.
NodeStarted ==
    /\ Now.event = "node"
    /\ live' = [live EXCEPT !.module = Now.module,
                            !.relay = IF Now.relay = "none" THEN @ ELSE Now.relay]
NodeDone ==
    /\ Now.event = "node done" /\ live.module # "none"
    /\ live' = [live EXCEPT !.module = "none", !.bias = FALSE, !.smu = FALSE,
                            !.shutter = IF live.module \in LightUnwound THEN FALSE ELSE @]
\* Mutant: the dark phases are left out of the list.
ShutterToldLate ==
    \/ Now.event \in {"dark settle", "acquire dark"} /\ UNCHANGED live
    \/ /\ Now.event \in ShutterOpenPhases \cup {"shutter open"}
       /\ live' = [live EXCEPT !.shutter = TRUE]
    \/ /\ Now.event \in {"process", "levels", "shutter shut"}
       /\ live' = [live EXCEPT !.shutter = FALSE]
    \/ /\ Now.event = "found"
       /\ \E read \in {LineReads("shutter"), None} : live' = [live EXCEPT !.shutter = read]
ShutterTold ==
    \/ /\ Now.event \in ShutterOpenPhases \cup {"shutter open"}
       /\ live' = [live EXCEPT !.shutter = TRUE]
    \/ /\ Now.event \in ShutterShutPhases \cup {"levels", "shutter shut"}
       /\ live' = [live EXCEPT !.shutter = FALSE]
    \/ /\ Now.event = "found"                  \* read back, or the read failed
       /\ \E read \in {LineReads("shutter"), None} : live' = [live EXCEPT !.shutter = read]
SourceTold ==
    \/ Now.event = "run started" /\ live' = [live EXCEPT !.bias = TRUE]
    \/ Now.event = "run over" /\ live' = [live EXCEPT !.bias = FALSE]
    \/ Now.event = "jv started" /\ live' = [live EXCEPT !.smu = TRUE]
    \/ Now.event = "jv finished" /\ live' = [live EXCEPT !.smu = FALSE]
Fold == NodeStarted \/ NodeDone \/ ShutterTold \/ SourceTold
\* Events it has no use for: pauses of the programs, a node it does not know, and the
\* levels of the light part of a shot that took its dark trace first.
Ignored ==
    /\ Now.event \in {"none", "light levels"} \/ (Now.event = "node done" /\ live.module = "none")
    /\ UNCHANGED live

\* The session applies an event as the run yields it; the end of the run clears all.
Tell == Pause /\ owner = "service" /\ job = "run" /\ (Fold \/ Ignored)
Finish == EndJob /\ live' = Nothing
LiveGone == (EndProcess \/ Crash) /\ live' = Nothing
Untold ==
    /\ \/ Pause /\ ~(owner = "service" /\ job = "run")
       \/ Enter \/ Leave \/ Reraise \/ Driver \/ Harness \/ Start \/ EndRun \/ PanelPress
    /\ UNCHANGED live
LiveNext == Tell \/ Finish \/ LiveGone \/ Untold
LiveSpec == LiveInit /\ [][LiveNext]_<<vars, live>>

=============================================================================
