-------------------------------- MODULE Bench ---------------------------------
(***************************************************************************)
(* The instruments on the device node and the jobs that drive them: two    *)
(* sources, the LED, the shutter line and the relay line, each behind a    *)
(* driver that remembers what it last wrote.  A job is a program of driver *)
(* calls with the code's try/finally scopes; any call may raise, after the *)
(* instrument obeyed or before, and any yield may be the last.  The        *)
(* programs are constants here: Measurements holds the code's.             *)
(***************************************************************************)
EXTENDS Naturals, Sequences

CONSTANTS
    None,
    Runs, Actions, Checks,  \* programs of runs, bench actions and checkout stages
    ClosePark,              \* the program of Bench.close
    Park,                   \* the program of Rig.park
    Refusing,               \* outputs that may stay off although told ON
    Bridged                 \* the DIO lines are reached through the 32-bit helper

Sources == {"smu", "bias"}
Devices == Sources \cup {"led"}
Lines   == {"shutter", "relay"}

\* What the code of the service is made of: no failed ON is suppressed, no finally block
\* moves the relay, and only the router reaches the relay line (rigs.py, _RelayLine).
Plain(c) ==
    /\ c.op # "with"
    /\ c.op = "output" => ~(c.on /\ c.quiet)
    /\ c.op = "line" => c.line = "shutter"
Unrouted(p) == \A i \in DOMAIN p : Plain(p[i]) /\ p[i].op # "route"
WellFormed(p) == \A i \in DOMAIN p : IF p[i].op = "with" THEN Unrouted(p[i].cleanup) ELSE Plain(p[i])

ASSUME BenchAssumption ==
    /\ Refusing \subseteq Devices /\ Bridged \in BOOLEAN
    /\ None \notin BOOLEAN
    /\ \A p \in Runs \cup Actions : WellFormed(p)
    /\ Unrouted(Park) /\ Unrouted(ClosePark)

VARIABLES
    owner, job,             \* the process that holds the bench, and its job
    todo, scopes, raised,   \* calls left, the finally blocks open, an exception flies
    out, flag,              \* outputs as they are; the drivers' _output
    line, cache,            \* lines as they are; the Shutter objects' _state (None: unknown)
    shape,                  \* what the 33220A is set to: dc or pulse
    unread,                 \* sources whose output this run or action has not read
    found, window,          \* illumination_state's answer; the step the scope ranged on
    wasOn, lineRead,        \* a checkout stage: outputs it turned off, lines it read
    seen                    \* the measurement taken last, and what was so at that moment

stackVars == <<todo, scopes, raised>>
hardVars  == <<out, flag, line, cache, shape>>
noteVars  == <<unread, found, window, wasOn, lineRead, seen>>
vars == <<owner, job, stackVars, hardVars, noteVars>>

\* The relay line is high for the source meter and low for the amplifier.
RelayAt(s) == s = "smu"
Lit == out["led"] /\ line["shutter"]

Init ==
    /\ owner = "none" /\ job = "idle"
    /\ todo = << >> /\ scopes = << >> /\ raised = FALSE
    /\ out \in [Devices -> BOOLEAN] /\ flag = [d \in Devices |-> FALSE]
    /\ line \in [Lines -> BOOLEAN] /\ cache = [l \in Lines |-> None]
    /\ shape \in {"dc", "pulse"}
    /\ unread = {} /\ found = "none" /\ window = None
    /\ wasOn = {} /\ lineRead = [l \in Lines |-> None]
    /\ seen = None

-----------------------------------------------------------------------------
\* How a call ends: the next one, or the innermost finally block and then out of it.
Call(op) == todo # << >> /\ Head(todo).op = op /\ UNCHANGED <<owner, job>>
Stage(op) == owner = "checks" /\ Call(op)
Now == Head(todo)
Continue == todo' = Tail(todo) /\ UNCHANGED <<scopes, raised>>
Unwind ==
    /\ raised' = TRUE
    /\ IF scopes = << >> THEN todo' = << >> /\ UNCHANGED scopes
       ELSE /\ todo' = Append(Head(scopes), [op |-> "reraise"])
            /\ scopes' = Tail(scopes)
Fail == IF Now.quiet THEN Continue ELSE Unwind

Enter == Call("with") /\ todo' = Tail(todo) /\ scopes' = <<Now.cleanup>> \o scopes
         /\ UNCHANGED <<raised, hardVars, noteVars>>
Leave == Call("done") /\ todo' = Head(scopes) \o Tail(todo) /\ scopes' = Tail(scopes)
         /\ UNCHANGED <<raised, hardVars, noteVars>>
Reraise == Call("reraise") /\ Unwind /\ UNCHANGED <<hardVars, noteVars>>

\* A yield or an abort check: go on, or be closed or stopped here.
Pause == Call("yield") /\ (Continue \/ Unwind) /\ UNCHANGED <<hardVars, noteVars>>

-----------------------------------------------------------------------------
\* enable_output: the command, then the flag.
Set(f, d, value) == [f EXCEPT ![d] = value]
\* Mutant: the flag first, then the command.
SwitchFlagFirst ==
    /\ Call("output")
    /\ flag' = Set(flag, Now.dev, Now.on)
    /\ \/ out' = Set(out, Now.dev, Now.on) /\ Continue
       \/ Now.on /\ Now.dev \in Refusing /\ UNCHANGED out /\ Continue
       \/ UNCHANGED out /\ Fail
       \/ out' = Set(out, Now.dev, Now.on) /\ Fail
    /\ UNCHANGED <<line, cache, shape, noteVars>>
Switch ==
    /\ Call("output") /\ ~(Now.on /\ Now.quiet)
    /\ \/ out' = Set(out, Now.dev, Now.on) /\ flag' = Set(flag, Now.dev, Now.on) /\ Continue
       \/ /\ Now.on /\ Now.dev \in Refusing
          /\ flag' = Set(flag, Now.dev, TRUE) /\ UNCHANGED out /\ Continue
       \/ UNCHANGED <<out, flag>> /\ Fail
       \/ out' = Set(out, Now.dev, Now.on) /\ UNCHANGED flag /\ Fail
    /\ UNCHANGED <<line, cache, shape, noteVars>>

\* read_output: an answer refreshes the flag; here silence is a refusal.
Ask ==
    /\ Call("ask")
    /\ \/ /\ flag' = Set(flag, Now.dev, out[Now.dev])
          /\ unread' = unread \ {Now.dev} /\ Continue
       \/ UNCHANGED <<flag, unread>> /\ Fail
    /\ UNCHANGED <<out, line, cache, shape, found, window, wasOn, lineRead, seen>>

\* A read-back that stops the run when it says off: the 81150A before a scan, and the
\* 33220A before a settle, which must also pulse.  Silence is let through.
Verify ==
    /\ Call("verify")
    /\ \/ /\ flag' = Set(flag, Now.dev, out[Now.dev])
          /\ IF out[Now.dev] /\ (Now.dev = "led" => shape = "pulse") THEN Continue ELSE Fail
       \/ UNCHANGED flag /\ Continue
    /\ UNCHANGED <<out, line, cache, shape, noteVars>>

\* set_dc and set_pulse: a pulse may be refused for a settings conflict.
Shape ==
    /\ Call("shape")
    /\ \/ shape' = Now.to /\ Continue
       \/ Now.to = "pulse" /\ UNCHANGED shape /\ Continue
       \/ shape' \in {shape, Now.to} /\ Fail
    /\ UNCHANGED <<out, flag, line, cache, noteVars>>

\* DapiDOSet1, unless the object remembers the line there.  The helper keeps one handle,
\* of the module opened first, which is the shutter's; its client may raise.
Wired(l) == IF Bridged THEN "shutter" ELSE l
Drive(l, value) ==
    IF cache[l] = value THEN Continue /\ UNCHANGED <<line, cache>>
    ELSE \/ line' = Set(line, Wired(l), value) /\ cache' = Set(cache, l, value) /\ Continue
         \/ Bridged /\ line' \in {line, Set(line, Wired(l), value)} /\ UNCHANGED cache /\ Fail
Move ==
    /\ Call("line") /\ (Now.line = "shutter" \/ owner = "checks") /\ Drive(Now.line, Now.value)
    /\ UNCHANGED <<out, flag, shape, noteVars>>

\* BiasRouter._move: nothing when the relay is remembered there; else both flags must be
\* off.  No finally block moves the relay, so no exception is in flight.
RefuseLive == \E s \in Sources : flag[s]
\* Mutant: the position is remembered before the interlock is asked.
RouteRemembersFirst ==
    /\ Call("route") /\ ~raised /\ job \in {"run", "action"}
    /\ IF cache["relay"] # Now.value /\ RefuseLive
       THEN Fail /\ cache' = Set(cache, "relay", Now.value) /\ UNCHANGED line
       ELSE Drive("relay", Now.value)
    /\ UNCHANGED <<out, flag, shape, noteVars>>
Route ==
    /\ Call("route") /\ ~raised /\ job \in {"run", "action"}
    /\ IF cache["relay"] # Now.value /\ RefuseLive THEN Fail /\ UNCHANGED <<line, cache>>
       ELSE Drive("relay", Now.value)
    /\ UNCHANGED <<out, flag, shape, noteVars>>

-----------------------------------------------------------------------------
\* illumination_state: the shutter line and the LED output, each read or unread.  One
\* definite obstacle is dark; light needs both.
LineReads(l) == IF Bridged THEN cache[l] ELSE line[l]
FoundAs(shutterRead, ledRead) ==
    IF (shutterRead /\ LineReads("shutter") = FALSE) \/ (ledRead /\ ~out["led"]) THEN "dark"
    ELSE IF shutterRead /\ LineReads("shutter") # None /\ ledRead THEN "light" ELSE "unknown"
Find ==
    /\ Call("find")
    /\ \E shutterRead, ledRead \in BOOLEAN :
        /\ found' = FoundAs(shutterRead, ledRead)
        /\ flag' = IF ledRead THEN Set(flag, "led", out["led"]) ELSE flag
    /\ Continue
    /\ UNCHANGED <<out, line, cache, shape, unread, window, wasOn, lineRead, seen>>

\* A reading of the source meter or a record of the scope: how it is labelled, and what
\* was so.  A scope record keeps the range it finds, or ranges on this step's light trace.
Taken == [label |-> IF Now.label = "found" THEN found ELSE Now.label,
          side |-> Now.side, step |-> Now.step,
          lit |-> Lit, shape |-> shape, relay |-> line["relay"], window |-> window']
Measure ==
    /\ Call("measure")
    /\ \/ /\ window' = IF Now.ranges THEN Now.step ELSE window
          /\ seen' = Taken /\ Continue
       \/ window' = (IF Now.ranges THEN None ELSE window) /\ UNCHANGED seen /\ Fail
    /\ UNCHANGED <<hardVars, unread, found, wasOn, lineRead>>

-----------------------------------------------------------------------------
\* The checkout harness, with sessions of its own.  _outputs_off: read, turn off, read
\* again; then restore what was on, unless a line could not be read.
TurnOff ==
    /\ Stage("turnoff")
    /\ \/ /\ out' = Set(out, Now.dev, FALSE)
          /\ wasOn' = IF out[Now.dev] THEN wasOn \cup {Now.dev} ELSE wasOn
          /\ Continue
       \/ UNCHANGED <<out, wasOn>> /\ Fail
    /\ UNCHANGED <<flag, line, cache, shape, unread, found, window, lineRead, seen>>
Restorable == \A l \in Lines : lineRead[l] # None
TurnOn ==
    /\ Stage("turnon") /\ Continue
    /\ out' = IF Restorable THEN [d \in Devices |-> out[d] \/ d \in wasOn] ELSE out
    /\ UNCHANGED <<flag, line, cache, shape, noteVars>>
\* A line opened and read; its value put back; its handle closed, which drives it low.
OpenLine ==
    /\ Stage("open") /\ Continue
    /\ \E value \in {line[Now.line], None} : lineRead' = Set(lineRead, Now.line, value)
    /\ cache' = Set(cache, Now.line, None)
    /\ UNCHANGED <<out, flag, line, shape, unread, found, window, wasOn, seen>>
PutBack ==
    /\ Stage("putback")
    /\ IF lineRead[Now.line] = None THEN Continue /\ UNCHANGED <<line, cache>>
       ELSE Drive(Now.line, lineRead[Now.line])
    /\ UNCHANGED <<out, flag, shape, noteVars>>
\* drive_generators: the Keithley must be off, or the stage ends.  Then the 81150A, if
\* off, is enabled when the relay was read at the source meter or the operator says yes.
NeedOff ==
    /\ Stage("needoff")
    /\ IF out[Now.dev] THEN Unwind ELSE Continue \/ Unwind
    /\ UNCHANGED <<hardVars, noteVars>>
Safe ==
    /\ Stage("safe")
    /\ IF ~out["bias"] /\ (lineRead["relay"] = TRUE \/ Now.asked) THEN Continue ELSE Unwind
    /\ UNCHANGED <<hardVars, noteVars>>

\* It saves the LED's settings, and puts them back in the end.
Save ==
    /\ Stage("save") /\ Continue
    /\ wasOn' = IF out[Now.dev] THEN wasOn \cup {Now.dev} ELSE wasOn
    /\ UNCHANGED <<hardVars, unread, found, window, lineRead, seen>>
Restore ==
    /\ Stage("restore")
    /\ \/ out' = Set(out, Now.dev, Now.dev \in wasOn) /\ shape' \in {"dc", "pulse"} /\ Continue
       \/ UNCHANGED <<out, shape>> /\ Fail
    /\ UNCHANGED <<flag, line, cache, noteVars>>

-----------------------------------------------------------------------------
\* Jobs.  A run begins with a read-back: what answers refreshes its flag, a live source
\* blocks the run, a silent one is only noted.  Every run ends with Rig.park.
Begin(kind, program) ==
    /\ job' = kind /\ todo' = program /\ raised' = FALSE /\ scopes' = << >>
    /\ found' = "none" /\ seen' = None /\ window' = None
    /\ UNCHANGED <<owner, out, line, shape>>
ReadFlags(answered) == [d \in Devices |-> IF d \in answered THEN out[d] ELSE flag[d]]
StartRun ==
    /\ owner = "service" /\ job = "idle"
    /\ \E program \in Runs : \E answered \in {Devices, {"led"}, {"led", "smu"}, {"led", "bias"}} :
        /\ Begin("run", IF \E s \in Sources \cap answered : out[s] THEN << >> ELSE program)
        /\ flag' = ReadFlags(answered)
        /\ unread' = Sources \ answered
    /\ UNCHANGED <<cache, wasOn, lineRead>>
StartAction ==
    /\ owner = "service" /\ job = "idle"
    /\ \E program \in Actions : Begin("action", program)
    /\ unread' = Sources /\ UNCHANGED <<flag, cache, wasOn, lineRead>>
StartClose ==
    /\ owner = "service" /\ job = "idle" /\ Begin("close", ClosePark)
    /\ unread' = {} /\ UNCHANGED <<flag, cache, wasOn, lineRead>>
StartCheck ==
    /\ owner = "none"
    /\ owner' = "checks" /\ job' = "check" /\ todo' \in Checks
    /\ UNCHANGED <<scopes, raised, hardVars, noteVars>>
Ended == todo = << >> /\ job # "idle"
EndRun ==
    /\ Ended /\ job = "run" /\ Begin("park", Park)
    /\ UNCHANGED <<flag, cache, unread, wasOn, lineRead>>
EndJob ==
    /\ Ended /\ job \in {"park", "action"} /\ job' = "idle"
    /\ found' = "none" /\ seen' = None /\ window' = None /\ raised' = FALSE /\ unread' = {}
    /\ UNCHANGED <<owner, todo, scopes, hardVars, wasOn, lineRead>>

\* The process goes, in order or not: what its objects remembered is gone.
Gone ==
    /\ owner' = "none" /\ job' = "idle" /\ todo' = << >> /\ scopes' = << >> /\ raised' = FALSE
    /\ flag' = [d \in Devices |-> FALSE] /\ cache' = [l \in Lines |-> None]
    /\ unread' = {} /\ found' = "none" /\ window' = None
    /\ wasOn' = {} /\ lineRead' = [l \in Lines |-> None] /\ seen' = None
    /\ UNCHANGED <<out, line, shape>>
EndProcess == Ended /\ job \in {"check", "close"} /\ Gone
Crash == owner # "none" /\ Gone

\* build_real: the flags are seeded from the instruments that answer.
ServiceStarts ==
    /\ owner = "none" /\ owner' = "service"
    /\ \E answered \in SUBSET Devices : flag' = ReadFlags(answered)
    /\ UNCHANGED <<job, stackVars, out, line, cache, shape, noteVars>>

\* Somebody presses an output key on a front panel, between jobs.
PanelPress ==
    /\ job = "idle"
    /\ \E d \in Devices : out' = Set(out, d, ~out[d])
    /\ UNCHANGED <<owner, job, stackVars, flag, line, cache, shape, noteVars>>

Driver == \/ Switch \/ Ask \/ Verify \/ Shape \/ Move \/ Route \/ Find \/ Measure
Harness == TurnOff \/ TurnOn \/ OpenLine \/ PutBack \/ NeedOff \/ Safe
           \/ Save \/ Restore
Control == Enter \/ Leave \/ Reraise \/ Pause
Start == StartRun \/ StartAction \/ StartClose \/ StartCheck \/ ServiceStarts
End == EndRun \/ EndJob \/ EndProcess
Next == Driver \/ Harness \/ Control \/ Start \/ End \/ Crash \/ PanelPress
Spec == Init /\ [][Next]_vars

\* Whatever the programs, the service moves the relay under a source that drives only
\* when that source's output was never read in this job: the interlock's flags are right
\* about every other (routing.py, _assert_quiet; rigs.py, _refuse_if_live).
ColdRelay ==
    [][owner = "service" /\ line'["relay"] # line["relay"] =>
         \A s \in Sources : out[s] => s \in unread]_<<owner, out, line, unread>>
=============================================================================
