----------------------------- MODULE Measurements -----------------------------
(***************************************************************************)
(* The driver programs of the code: the J-V sweep, the DC measurement, the *)
(* transient scan, the light module, park, the bench actions and the       *)
(* checkout stages, each a sequence of the calls that Bench interprets.    *)
(* Waiting, files and arithmetic are left out; what may raise, what closes *)
(* a try and where a run may be stopped are all here.                      *)
(***************************************************************************)
EXTENDS Naturals, Sequences

\* One call each.  quiet: the code suppresses what it raises.
Output(dev, on)  == [op |-> "output", dev |-> dev, on |-> on, quiet |-> FALSE]
Line(l, value)   == [op |-> "line", line |-> l, value |-> value, quiet |-> FALSE]
Route(value)     == [op |-> "route", value |-> value, quiet |-> FALSE]
Shape(to)        == [op |-> "shape", to |-> to, quiet |-> FALSE]
Ask(dev)         == [op |-> "ask", dev |-> dev, quiet |-> FALSE]
Verify(dev)      == [op |-> "verify", dev |-> dev, quiet |-> FALSE]
Find             == [op |-> "find", quiet |-> FALSE]
Measure(label, side, step, ranges) ==
    [op |-> "measure", label |-> label, side |-> side, step |-> step, ranges |-> ranges,
     quiet |-> FALSE]
Quietly(call)    == [call EXCEPT !.quiet = TRUE]
\* A yield is where a run may end; what it tells, the live overlay reads.
Say(event)       == [op |-> "yield", event |-> event]
Pause            == Say("none")
Within(cleanup, body) == <<[op |-> "with", cleanup |-> cleanup]>> \o body \o <<[op |-> "done"]>>

Unblock == Line("shutter", TRUE)
Shut    == Line("shutter", FALSE)
On(dev)  == Output(dev, TRUE)
Off(dev) == Output(dev, FALSE)

-----------------------------------------------------------------------------
\* keithley2400: _prepare is a reset, which drops the output.
Prepare == <<Off("smu")>>
\* _source_voltage_measure_current and its twin: off again only if the read succeeds.
ReadOnce(label) ==
    Prepare \o <<On("smu"), Measure(label, TRUE, 0, FALSE), Off("smu")>>
MeasureDC == ReadOnce("light") \o ReadOnce("voc") \o ReadOnce("light")
\* sweep_points yields between its readings and is off when it is closed.
SweepPoints(label) ==
    Prepare \o <<On("smu")>> \o
    Within(<<Off("smu")>>,
           <<Measure(label, TRUE, 0, FALSE), Pause, Measure(label, TRUE, 0, FALSE), Pause>>)

\* routing.BiasRouter.dc and transient.
DC(body)        == <<Route(TRUE)>> \o Within(<<Quietly(Off("smu"))>>, body)
Transient(body) == <<Route(FALSE)>> \o Within(<<Quietly(Off("bias"))>>, body)
\* rig.Rig.park, the router's park inside it.
ParkRigStopsAtFirst ==                       \* mutant: a failed command ends the park
    <<Off("bias"), Off("smu"), Shut>>
ParkRig == <<Quietly(Off("bias")), Quietly(Off("smu")), Quietly(Shut),
             Quietly(Off("smu")), Quietly(Off("bias"))>>
\* rigs.Bench.close: park, then the shutter line is shut as its handle closes.
CloseRig == ParkRig \o <<Quietly(Shut)>>

-----------------------------------------------------------------------------
\* jv.run_jv.  Under manage: a dark curve behind the shutter, then a light one.
DarkCurve == <<Shut, Say("shutter shut")>> \o SweepPoints("dark")
LightCurveBeforeShutter ==                   \* mutant: the sweep before the shutter
    <<Shape("dc"), On("led"), Say("shutter open")>> \o SweepPoints("light") \o <<Unblock>>
LightCurve == <<Shape("dc"), On("led"), Unblock, Say("shutter open")>> \o SweepPoints("light")
\* Under leave: one curve, labelled by what is read back.
FoundCurve == <<Find, Say("found")>> \o SweepPoints("found")
RunJV(managed) ==
    Within(<<Quietly(Off("smu"))>> \o (IF managed THEN <<Quietly(Shut)>> ELSE << >>),
           <<Say("jv started")>>
           \o DC(IF managed THEN <<Pause>> \o DarkCurve \o <<Pause>> \o LightCurve
                 ELSE <<Pause>> \o FoundCurve)
           \o <<Say("jv finished")>>)

\* transient.run_transient_scan.  One shot: light then dark, or dark first with the range
\* of this step's light trace of the loop before.
Record(label, step, ranges) == <<Measure(label, FALSE, step, ranges), Pause>>
LightPart(step, levels, ranges) ==
    <<Say(levels), Unblock, Say("light settle"), Say("acquire light")>>
    \o Record("light", step, ranges)
DarkSettles == <<Say("dark settle"), Shut, Say("acquire dark")>>
DarkPart(step, keeps) == DarkSettles \o Record("dark", step, keeps)
Shot(step, darkFirst) ==
    <<Pause>> \o (IF darkFirst THEN <<Say("dark levels")>> \o DarkPart(step, TRUE)
                                    \o LightPart(step, "light levels", FALSE)
                  ELSE LightPart(step, "levels", TRUE) \o DarkPart(step, FALSE))
              \o <<Say("process")>>
\* Setup, the trigger calibration, then every step of every loop.
Setup == <<Say("run started"), On("bias"), Verify("bias"), Pause,
           Measure("sync", FALSE, 0, TRUE), Pause>>
RunTransientScan(alternate) ==
    Within(<<Quietly(Off("bias")), Quietly(Shut)>>,
           Setup \o Shot(1, FALSE) \o Shot(2, FALSE)
                 \o Shot(1, alternate) \o Shot(2, alternate) \o <<Say("run over")>>)

\* intensity_series.run_intensity_series: at each LED level the DC points under steady
\* light, then a scan under the pulsed light of that level.
SeriesLevel ==
    <<Pause, Shape("dc"), On("led"), Unblock, Pause>>
    \o Within(<<Shut>>, DC(MeasureDC))
    \o <<Pause, Shape("pulse"), On("led"), Pause>>
    \o Transient(RunTransientScan(FALSE)) \o <<Pause>>
RunIntensitySeries == <<Pause>> \o Within(ParkRig, SeriesLevel \o SeriesLevel)

-----------------------------------------------------------------------------
\* modules.Catalogue: bace, with or without its own DC measurement, and light.
SettleLed == <<Pause, Pause>>
BaceDC ==
    <<Shape("dc"), On("led"), Unblock>> \o Within(<<Shut>>, DC(MeasureDC)) \o <<Pause>>
BuildBace(measureDC) ==
    Within(<<Quietly(Shut)>>,
           (IF measureDC THEN BaceDC ELSE << >>)
           \o <<Shape("pulse"), On("led"), Verify("led"), Pause, Unblock>> \o SettleLed
           \o Transient(RunTransientScan(TRUE)))
BuildLight(open) ==
    (IF open THEN <<Shape("dc"), On("led"), Unblock>> ELSE <<Shut, Shape("pulse"), On("led")>>)
    \o <<Find, Say("found")>>
BuildPark == ParkRig \o <<Pause>>
\* executor: the node is announced with the relay side its spec declares, before it is
\* built, and over when its generator is closed.
Node(module, relay, body) ==
    <<[op |-> "yield", event |-> "node", module |-> module, relay |-> relay]>>
    \o body \o <<Say("node done")>>

\* rigs.Bench.action: the actions that touch an output or a line.
MoveRelay(value) ==
    <<Ask("smu"), Ask("bias")>> \o (IF value THEN DC(<< >>) ELSE Transient(<< >>))
BenchActions ==
    {MoveRelay(TRUE), MoveRelay(FALSE), ParkRig,
     <<Shape("pulse"), On("led")>>, <<Shape("dc"), On("led")>>, <<Off("led")>>,
     <<Off("bias")>>, <<Off("smu")>>, <<Unblock>>, <<Shut>>}

-----------------------------------------------------------------------------
\* bench/checks.py and bench/sync.py.
OpenLine(l) == [op |-> "open", line |-> l]
PutBack(l)  == [op |-> "putback", line |-> l, quiet |-> FALSE]
NeedOff(dev) == [op |-> "needoff", dev |-> dev]
TurnOff(dev) == [op |-> "turnoff", dev |-> dev, quiet |-> FALSE]
\* shutter.Shutter.close drives the line low before its handle closes.
Closed(l) == <<PutBack(l), Line(l, FALSE)>>
DioState(a, b) ==
    <<Line("shutter", a), Line("relay", b)>> \o ReadOnce("probe")
WalkDio ==
    <<OpenLine("shutter"), OpenLine("relay")>> \o
    Within(Closed("shutter") \o Closed("relay"),
           DioState(FALSE, FALSE) \o DioState(FALSE, TRUE)
           \o DioState(TRUE, FALSE) \o DioState(TRUE, TRUE))
StageDio ==
    <<TurnOff("bias"), TurnOff("smu")>> \o
    Within(<<[op |-> "turnon"]>>, WalkDio)
\* drive_generators as a context: what its body does while both generators run.
DriveGenerators(asked, body) ==
    <<OpenLine("relay"), Line("relay", FALSE),
      NeedOff("smu"), [op |-> "safe", asked |-> asked]>> \o
    <<[op |-> "save", dev |-> "led"]>> \o
    Within(<<Quietly(Off("bias")), [op |-> "restore", dev |-> "led", quiet |-> TRUE]>>,
           <<Shape("pulse"), On("led"), On("bias"), Pause>> \o body)
\* Report.run: whatever one check raised, the next check of the stage is run.
Then(check, next) == Within(next, check)
StageOutputs ==
    Then(Within(<<Off("bias")>>, <<On("bias")>>),
         Then(Within(<<Off("smu")>>, ReadOnce("probe")),
              Within(<<Off("led")>>, <<Shape("pulse"), On("led")>>)))
\* Settings without outputs: each instrument is refused while its output reads on.
StageConfigure ==
    Then(<<NeedOff("bias")>>,
         Then(<<NeedOff("smu")>> \o Prepare,
              <<NeedOff("led"), Shape("dc"), Shape("pulse")>>))
\* Records of the scope with nobody driving, and with both generators driven.
ScopeRecord(ranges) == <<Measure("probe", FALSE, 0, ranges)>>
StageAcquire == Then(ScopeRecord(FALSE), ScopeRecord(TRUE) \o ScopeRecord(FALSE))
StageSync == DriveGenerators(FALSE, ScopeRecord(FALSE))
StageMeasure ==
    Within(<<Quietly(Shut)>>, RunTransientScan(FALSE))
=============================================================================
