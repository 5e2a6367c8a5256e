------------------------------ MODULE Observers ------------------------------
(***************************************************************************)
(* The threads that read the bench beside a scan: the temperature monitor  *)
(* (service/monitors.py), which takes the worker's bus or skips its tick,  *)
(* the watchdog polls the worker makes in its settles (service/rigs.py),   *)
(* the watchdog itself (drivers/lakeshore331/controller.py) that both      *)
(* feed, and the power meter, whose last reading the power monitor and the *)
(* worker both look at.                                                    *)
(***************************************************************************)
EXTENDS TransientShots

CONSTANTS
    Limit,            \* max_consecutive_faults
    ReadsIntensity,   \* config.read_intensity
    MaxJobs,          \* bound: scans, captures and power readings started
    MaxSilences,      \* bound: status queries the 331 does not answer
    MaxRefusals,      \* bound: RANGE 0 writes that fail
    Together          \* bound: whether the scope fails on a bench with observers too

Watchers == {"worker", "monitor"}
Readers == {"power job", "power monitor"}

ASSUME ObserversAssumption ==
    /\ Limit \in Nat \ {0} /\ ReadsIntensity \in BOOLEAN /\ Together \in BOOLEAN
    /\ None \notin Watchers \cup Readers \cup {"scan"}

VARIABLES
    fitted,     \* rig.temperature and rig.power are on this bench, or neither is
    bus,        \* who holds the worker's bus lock
    jobs, silences, refusals,
    fault,      \* what the 331 would report: "none", "sensor", "heater"
    heater,     \* "on" or "off"
    faults,     \* _faults
    watch,      \* what each thread is doing in _watch: [at, bad, read]
    meter,      \* _METER_LOCK: who holds it
    last,       \* meter.last: whose reading it is
    reading,    \* [watts, verdict] of each reader's power_reading
    streak      \* history: bad polls since a clean one or a cut

watchVars == <<fitted, jobs, silences, refusals, fault, heater, faults, watch, streak>>
meterVars == <<meter, last, reading>>
vars == <<scanVars, bus, watchVars, meterVars>>

With(place) == [at |-> place, bad |-> FALSE, read |-> 0]
Away == With("away")
Unread == [watts |-> None, verdict |-> None]

\* With Together FALSE a bench with observers starts with the scope's mishaps used up.
Init ==
    /\ ScanInit
    /\ fitted \in BOOLEAN
    /\ \/ Together
       \/ fitted /\ mishaps = MaxMishaps /\ unread = MaxUnread
       \/ ~fitted /\ mishaps = 0 /\ unread = 0
    /\ bus = None /\ jobs = 0 /\ silences = 0 /\ refusals = 0
    /\ fault = "none" /\ heater = "on" /\ faults = 0 /\ streak = 0
    /\ watch = [w \in Watchers |-> Away]
    /\ meter = None /\ last = None /\ reading = [r \in Readers |-> Unread]

-----------------------------------------------------------------------------
\* A poll.  `read' (the monitor) takes an unanswered HTRST? for no fault and leaves the
\* watchdog alone when RDGST? fails; `poll_faults' (the worker) leaves it alone either way.
SensorOnly(f, heard) == f = "sensor"         \* mutant: a working sensor is enough
Bad(f, heard) == f = "sensor" \/ (f = "heater" /\ heard)

Judge(w, bad) ==
    /\ watch' = [watch EXCEPT ![w] = [at |-> "count", bad |-> bad, read |-> faults]]
    /\ streak' = IF bad THEN streak + 1 ELSE 0

Poll(w) ==
    \/ Judge(w, Bad(fault, TRUE)) /\ UNCHANGED silences
    \/ /\ silences < MaxSilences /\ silences' = silences + 1
       /\ \/ w = "monitor" /\ fault # "sensor" /\ Judge(w, Bad(fault, FALSE))
          \/ w = "worker" /\ UNCHANGED <<watch, streak>>
          \/ /\ w = "monitor"
             /\ watch' = [watch EXCEPT ![w] = With("done")]
             /\ UNCHANGED streak

\* A tick of the temperature monitor: the bus without waiting, and the read.
WhateverTheJob == TRUE                       \* mutant: the bus is not asked for
BusIsFree == bus = None

MonitorTick ==
    /\ fitted /\ watch["monitor"] = Away /\ BusIsFree
    /\ bus' = IF bus = None THEN "monitor" ELSE bus
    /\ Poll("monitor")
    /\ UNCHANGED <<scanVars, fitted, jobs, refusals, fault, heater, faults, meterVars>>

\* The sleep of a settle feeds the watchdog when its poll is due.
WorkerPoll ==
    /\ fitted /\ at \in {"light settle", "dark settle"} /\ watch["worker"] = Away
    /\ Poll("worker")
    /\ UNCHANGED <<scanVars, fitted, bus, jobs, refusals, fault, heater, faults, meterVars>>

\* _watch: the count, and at the limit the heater is cut and the count begins again.
Count(w) ==
    /\ watch[w].at = "count"
    /\ LET n == IF watch[w].bad THEN watch[w].read + 1 ELSE 0
           next == IF n >= Limit THEN "cut" ELSE IF w = "monitor" THEN "done" ELSE "away"
       IN  /\ faults' = IF n >= Limit THEN 0 ELSE n
           /\ watch' = [watch EXCEPT ![w] = With(next)]
    /\ UNCHANGED <<scanVars, fitted, bus, jobs, silences, refusals, fault, heater,
                   meterVars, streak>>

Cut(w) ==
    /\ watch[w].at = "cut"
    /\ \/ heater' = "off" /\ UNCHANGED refusals
       \/ refusals < MaxRefusals /\ refusals' = refusals + 1 /\ UNCHANGED heater
    /\ watch' = [watch EXCEPT ![w] = With(IF w = "monitor" THEN "done" ELSE "away")]
    /\ streak' = 0
    /\ UNCHANGED <<scanVars, fitted, bus, jobs, silences, fault, faults, meterVars>>

MonitorReleases ==
    /\ watch["monitor"].at = "done"
    /\ watch' = [watch EXCEPT !["monitor"] = Away]
    /\ bus' = IF bus = "monitor" THEN None ELSE bus
    /\ UNCHANGED <<scanVars, fitted, jobs, silences, refusals, fault, heater, faults,
                   meterVars, streak>>

\* The cryostat: a fault appears, changes or is repaired.
Cryostat ==
    /\ fitted /\ fault' \in {"none", "sensor", "heater"} \ {fault}
    /\ UNCHANGED <<scanVars, fitted, bus, jobs, silences, refusals, heater, faults, watch,
                   streak, meterVars>>

-----------------------------------------------------------------------------
\* power_reading: the reading under the meter's lock, and the driver's last reading for
\* its verdict before the lock is let go.
NoLock == TRUE                               \* mutant: no lock around the two
LockIsFree == meter = None

ReadPower(r) ==
    /\ LockIsFree /\ reading[r] = Unread
    /\ meter' = r /\ last' = r
    /\ reading' = [reading EXCEPT ![r] = [watts |-> r, verdict |-> None]]

LookAtLast(r) ==
    /\ reading[r].watts = r /\ reading[r].verdict = None
    /\ reading' = [reading EXCEPT ![r].verdict = last]
    /\ meter' = IF meter = r THEN None ELSE meter
    /\ UNCHANGED last

Report(r) ==
    /\ reading[r].verdict # None
    /\ reading' = [reading EXCEPT ![r] = Unread]
    /\ UNCHANGED <<meter, last>>

PowerMonitor ==
    /\ fitted
    /\ ReadPower("power monitor") \/ LookAtLast("power monitor") \/ Report("power monitor")
    /\ UNCHANGED <<scanVars, bus, watchVars>>

-----------------------------------------------------------------------------
\* The worker holds the bus from the first step of a job to its last.
StartScan ==
    /\ bus = None /\ jobs < MaxJobs
    /\ Begin
    /\ bus' = "worker" /\ jobs' = jobs + 1
    /\ UNCHANGED <<fitted, silences, refusals, fault, heater, faults, watch, streak, meterVars>>

StartPowerJob ==
    /\ bus = None /\ jobs < MaxJobs /\ at = "idle" /\ fitted
    /\ bus' = "worker" /\ jobs' = jobs + 1
    /\ at' = "power"
    /\ UNCHANGED <<shot, scope, shutter, lightWindows, traces, done, alternate, mishaps, unread,
                   set, fitted, silences, refusals, fault, heater, faults, watch, streak, meterVars>>

\* A capture by hand is a job like any other.
CaptureScope ==
    /\ bus = None /\ jobs < MaxJobs
    /\ Capture
    /\ jobs' = jobs + 1
    /\ UNCHANGED <<fitted, bus, silences, refusals, fault, heater, faults, watch, streak, meterVars>>

PowerJob ==
    /\ at = "power"
    /\ ReadPower("power job") \/ LookAtLast("power job") \/ Report("power job")
    /\ IF reading["power job"].verdict # None THEN at' = "idle" /\ bus' = None
       ELSE UNCHANGED <<at, bus>>
    /\ UNCHANGED <<shot, scope, shutter, lightWindows, traces, done, alternate, mishaps, unread,
                   set, watchVars>>

\* The end of a settle: the worker leaves its sleep once no poll is in hand, and the scan
\* that records intensity reads the meter then, without power_reading.
LeaveSettle ==
    /\ watch["worker"] = Away
    /\ Settled
    /\ last' = IF fitted /\ ReadsIntensity /\ at = "light settle" THEN "scan" ELSE last
    /\ UNCHANGED <<bus, watchVars, meter, reading>>

WorkerStep ==
    /\ ScanNext
    /\ bus' = IF at = "cleanup" THEN None ELSE bus
    /\ UNCHANGED <<watchVars, meterVars>>

Interrupted ==
    /\ watch["worker"] = Away /\ at # "power"
    /\ Ends
    /\ UNCHANGED <<bus, watchVars, meterVars>>

Next ==
    \/ StartScan \/ StartPowerJob \/ CaptureScope
    \/ PowerJob \/ WorkerStep \/ LeaveSettle \/ Interrupted
    \/ MonitorTick \/ WorkerPoll \/ MonitorReleases \/ PowerMonitor \/ Cryostat
    \/ \E w \in Watchers : Count(w) \/ Cut(w)

Spec == Init /\ [][Next]_vars

Places == {"calibrate", "next", "light settle", "acquire light", "dark settle",
           "acquire dark", "process", "cleanup"}

\* Threads that can run do: the worker leaves every place of a scan (its steps wait for
\* nobody and a settle lasts its time, however often it polls).  A job ends and leaves the
\* bus, and the monitor's next tick then finds it free, because only so many jobs are
\* started; the meter's lock comes free between two of its monitor's ticks, a second apart.
\* Nothing makes a poll of the worker due, a job start or a fault appear.
FairSpec ==
    /\ Spec
    /\ \A place \in Places : []<>(at # place)
    /\ SF_vars(PowerJob)
    /\ WF_vars(PowerMonitor) /\ WF_vars(MonitorTick) /\ WF_vars(MonitorReleases)
    /\ \A w \in Watchers : WF_vars(Count(w) \/ Cut(w))

-----------------------------------------------------------------------------
\* The limit counts polls, whoever made them: the heater is never left on through more
\* bad polls in a row than the limit, and at the limit a thread is cutting it.  Monitor
\* and worker share one counter without a lock of its own (controller.py:212-228).
CutAtTheLimit ==
    /\ streak <= Limit
    /\ streak = Limit => \E w \in Watchers : watch[w].at \in {"count", "cut"}

\* A fault that stays turns the heater off in the end, although polls go unanswered, the
\* cut itself may be refused and scans take the bus from the monitor for their whole
\* length (controller.py:215-219, rigs.py:192-200).
FaultEndsTheHeat == <>[](fault # "none") => <>(heater = "off")

\* The verdict of a power reading is that of its own watts (rigs.py:202-206).
ReadingsAreWhole ==
    \A r \in Readers : reading[r].verdict # None => reading[r].verdict = reading[r].watts

\* The two that take a power reading never judge each other's watts, and the job, which
\* runs where no scan does, only its own.  A scan that reads intensity, as it does by
\* default, looks at the meter without the lock, so it can come between the two looks of the
\* monitor, and only of the monitor (rigs.py:202-206, transient.py:726).
ReadingsKeptApart ==
    \A r \in Readers : reading[r].verdict # None =>
        \/ reading[r].verdict = reading[r].watts
        \/ r = "power monitor" /\ ReadsIntensity /\ reading[r].verdict = "scan"

\* Beside the worker the observers keep their word: the cut comes at the limit, whoever
\* counted, and no reader's verdict is that of the other's reading.
ObserversAgree == CutAtTheLimit /\ ReadingsKeptApart

\* A working sensor alone is no evidence that the heater is well: no poll of a faulty
\* heater begins the count again (controller.py:183-185).
OnlyWellHeatersReset ==
    [][\A w \in Watchers :
           watch[w] = Away /\ watch'[w].at = "count" /\ ~watch'[w].bad => fault # "heater"]_vars
=============================================================================
