---------------------------- MODULE MCMeasurements ----------------------------
(***************************************************************************)
(* The bench of Bench with the programs of Measurements, and what must     *)
(* hold of it: the relay, the sources, the light and the labels.           *)
(***************************************************************************)
EXTENDS LiveOverlay

M == INSTANCE Measurements

JV == M!Node("jv", "dc", M!RunJV(FALSE))
JVBace == M!Node("jv_bace", "dc", M!RunJV(TRUE))
Bace(measureDC) == M!Node("bace", "transient", M!BuildBace(measureDC))
Light(open) == M!Node("light", "none", M!BuildLight(open))
ParkNode == M!Node("park", "none", M!BuildPark)
SomeRuns == {JV, JVBace \o Bace(FALSE), Bace(TRUE), Light(TRUE) \o Bace(FALSE) \o JV,
             Light(TRUE) \o ParkNode \o JV, Light(FALSE), M!RunIntensitySeries}
SomeActions == M!BenchActions
SomeChecks == {M!StageOutputs, M!StageMeasure, M!StageDio, M!StageSync, M!StageConfigure,
               M!StageAcquire}
TheClose == M!CloseRig
ThePark == M!ParkRig
OneJV == {JVBace}
NoProgram == {}

\* What a run or an action switches on is the source the relay connects: the router's
\* memory of the relay is never wrong when a program relies on it.
DrivesTheSelected ==
    [][\A s \in Sources : owner = "service" /\ job # "idle" /\ ~out[s] /\ out'[s] =>
         line["relay"] = RelayAt(s)]_<<owner, job, out, line>>

\* A trace called light was taken under light and one called dark in the dark, a V_oc
\* under steady light, each with the relay on its instrument, and both traces of a shot
\* on the range of that step's light trace; whatever call before them failed.
LabelsAreTrue ==
    owner = "service" /\ seen # None =>
        /\ seen.relay = seen.side
        /\ seen.label \in {"light", "voc"} => seen.lit
        /\ seen.label = "dark" => ~seen.lit
        /\ seen.label = "voc" => seen.shape = "dc"
        /\ seen.step > 0 => seen.window = seen.step

\* After a run and its park no light reaches the device, whatever failed on the way.
RunsEndDark ==
    [][owner = "service" /\ job = "park" /\ job' = "idle" /\ owner' = owner =>
         ~line["shutter"]]_<<owner, job, line>>

\* Whenever a scan trace or a J-V point is taken, what the overlay shows then is so: the
\* relay on that side, the shutter where the light path has it, a source shown on told
\* to be.  What was not inferred is left to the read-back (live.py, docs/service-
\* contract.md section 4); other moments of a run may be shown late.
OverlayIsTrueWhenMeasured ==
    [][owner = "service" /\ seen' # seen /\ seen' # None
       /\ (seen'.step > 0 \/ live.smu = TRUE) =>
         /\ live.relay # "none" => (live.relay = "dc") = line["relay"]
         /\ live.shutter # None => live.shutter = line["shutter"]
         /\ \A s \in Sources : live[s] = TRUE => flag[s]]_<<owner, seen, live, line, flag>>

\* The device sees a source only where the program meant it, and no light once it is over.
DeviceIsSpared == DrivesTheSelected /\ RunsEndDark

\* What is written down of a measurement and what is shown of it meanwhile are both so.
MeasuredAsSaid == []LabelsAreTrue /\ OverlayIsTrueWhenMeasured

\* When a checkout stage puts an output back on, or takes the relay for safe, the relay is
\* where the stage read it (checks.py: the line states must be restored before outputs).
EnabledWhereRead ==
    [][\A s \in Sources : owner = "checks" /\ ~out[s] /\ out'[s]
         /\ (Head(todo).op = "turnon" \/ (s = "bias" /\ lineRead["relay"] = TRUE)) =>
             line["relay"] = lineRead["relay"]]_<<owner, out, line, lineRead>>

\* Where the router believes the relay is, there it is (routing.py, module 0 refused:
\* driving the shutter would leave the device on whichever source the relay is set to).
RelayFollowsPosition ==
    owner = "service" /\ cache["relay"] # None => line["relay"] = cache["relay"]
=============================================================================
