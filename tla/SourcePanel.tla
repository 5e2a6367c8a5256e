------------------------------ MODULE SourcePanel ------------------------------
(***************************************************************************)
(* The standalone source meter console (examples/keithley_console): its    *)
(* HTTP handlers, each on a thread of its own, submit jobs to the one      *)
(* thread that talks to the 2400; between jobs that thread refreshes the   *)
(* display.  The operator also has a hand on the 2400's own OUTPUT key, a  *)
(* query may go unanswered, a write may raise with or without effect and a *)
(* call may never return.  On the way out the queue is sealed and the      *)
(* output goes off.                                                        *)
(*                                                                         *)
(* A setup is what is sourced (fn, for every field that is not changed     *)
(* under a live output), its level and its compliance.  Integration times, *)
(* ranges and the throttle of the watch are left out.                      *)
(***************************************************************************)
EXTENDS Naturals, Sequences, FiniteSets

CONSTANTS
    None,
    Clients, Pollers,       \* handler threads; those that may set the display
    Fns, Bodies, Defaults,  \* functions; bodies of POST /api/source; the cold panel
    Ceiling, RstLimit,      \* rig.toml's ceiling; the compliance *RST leaves
    MaxJobs, MaxMishaps     \* bounds: requests; key presses and faults together

ASSUME PanelAssumption ==
    /\ Pollers \subseteq Clients /\ None \notin Clients \cup Fns \cup Nat /\ None \notin BOOLEAN
    /\ Ceiling \in Nat
    /\ Defaults \in [fn : Fns, level : {0}, limit : 1 .. Ceiling]
    /\ Bodies \subseteq [fn : Fns \cup {None}, level : Nat \cup {None}, limit : Nat \cup {None}]
    /\ RstLimit \in Nat

VARIABLES
    inst, byHand, handSince,    \* the 2400; who switched it on last, and whether since it was asked
    flag, panel, asked,         \* driver: _output, _panel; setups the 2400 may be between
    shown, reading,             \* panel: _output and _reading, what the page draws
    poll, pending,              \* panel: _poll_s is set; a watch is queued
    q, idle, sealed, stop,      \* bus: queue, _idle is set, _sealed, _stop
    wk,                         \* the instrument thread
    cl, gaveUp, lastId,         \* handlers; jobs their callers gave up on; ids given
    owed,                       \* outputs-off submitted and not yet written (0: the closing one)
    phase, confirmed, verdict,  \* serve_forever; the closing off ran; what close returned
    mishaps

hardVars  == <<inst, byHand, handSince>>
driveVars == <<flag, panel, asked>>
pageVars  == <<shown, reading, poll, pending>>
busVars   == <<q, idle, sealed, stop>>
callVars  == <<cl, gaveUp, lastId>>
endVars   == <<phase, confirmed, verdict>>
vars == <<hardVars, driveVars, pageVars, busVars, wk, callVars, owed, endVars, mishaps>>

Calm  == [pc |-> "asleep", kind |-> "none", who |-> None, id |-> 0, body |-> None,
          writes |-> << >>, next |-> None, drain |-> FALSE]
Quiet == [pc |-> "free", id |-> 0, to |-> FALSE]

\* _open_real asked :OUTP? once, and was answered or not.
Init ==
    /\ inst \in [out : BOOLEAN, fn : {Defaults.fn}, level : [Fns -> {0}], limit : {Ceiling}]
    /\ byHand = TRUE /\ handSince = TRUE
    /\ flag \in {inst.out, FALSE} /\ panel = None /\ asked = {}
    /\ shown = flag /\ reading = None /\ poll = FALSE /\ pending = FALSE
    /\ q = << >> /\ idle = FALSE /\ sealed = FALSE /\ stop = FALSE
    /\ wk = Calm
    /\ cl = [c \in Clients |-> Quiet] /\ gaveUp = {} /\ lastId = 0
    /\ owed = {}
    /\ phase = "serving" /\ confirmed = FALSE /\ verdict = None
    /\ mishaps = 0

Job(kind, who, id, body) == [kind |-> kind, who |-> who, id |-> id, body |-> body]
Wake == Job("wake", None, 0, None)

-----------------------------------------------------------------------------
\* The handlers.  One accepted before the server shut down runs on, on its daemon thread.

NeverSealed == TRUE                          \* mutant: submit looks at no seal
Accepts == ~sealed

\* _Bus.do up to its wait.  Refused, the caller is told there is no more instrument work.
Submit(c, kind, body) ==
    /\ cl[c].pc = "free" /\ lastId < MaxJobs
    /\ wk.pc # "dead" /\ Accepts
    /\ lastId' = lastId + 1
    /\ q' = Append(q, Job(kind, c, lastId', body))
    /\ cl' = [cl EXCEPT ![c] = [pc |-> kind, id |-> lastId', to |-> FALSE]]
    /\ owed' = IF kind = "off" THEN owed \cup {lastId'} ELSE owed
    /\ UNCHANGED <<hardVars, driveVars, pageVars, idle, sealed, stop, wk, gaveUp, endVars,
                   mishaps>>

\* set_output(True): the first reading after it, by a second job.
SubmitTick(c) ==
    /\ cl[c].pc = "lit"
    /\ IF wk.pc # "dead" /\ Accepts
       THEN q' = Append(q, Job("tick", c, cl[c].id, None)) /\ cl' = [cl EXCEPT ![c].pc = "tick"]
       ELSE UNCHANGED q /\ cl' = [cl EXCEPT ![c] = Quiet]
    /\ UNCHANGED <<hardVars, driveVars, pageVars, idle, sealed, stop, wk, gaveUp, lastId, owed,
                   endVars, mishaps>>

CancelsTheOff(kind) == kind = "off"          \* mutant: cancel_on_timeout = not on
Cancelled(kind) == kind # "off"

\* The wait of _Bus.do ran out: a job that has not begun will not, an output-off will.
TimesOut(c) ==
    /\ cl[c].pc \in {"source", "on", "off", "read", "tick"}
    /\ gaveUp' = IF Cancelled(cl[c].pc) THEN gaveUp \cup {cl[c].id} ELSE gaveUp
    /\ cl' = [cl EXCEPT ![c] = Quiet]
    /\ UNCHANGED <<hardVars, driveVars, pageVars, busVars, wk, lastId, owed, endVars,
                   mishaps>>

\* An output-off that ran in time blanks the display, on the handler's own thread.
Blank(c) ==
    /\ cl[c].pc = "clear"
    /\ reading' = None
    /\ cl' = [cl EXCEPT ![c] = Quiet]
    /\ UNCHANGED <<hardVars, driveVars, shown, poll, pending, busVars, wk, gaveUp, lastId, owed,
                   endVars, mishaps>>

\* set_poll: the panel's field under its lock, then the bus's under the bus's.
SetPoll(c, on) ==
    /\ cl[c].pc = "free" /\ lastId < MaxJobs
    /\ lastId' = lastId + 1
    /\ poll' = on
    /\ cl' = [cl EXCEPT ![c] = [pc |-> "setidle", id |-> 0, to |-> on]]
    /\ UNCHANGED <<hardVars, driveVars, shown, reading, pending, busVars, wk, gaveUp, owed,
                   endVars, mishaps>>
SetsNoWake == << >>                          \* mutant: set_idle leaves the thread asleep
Wakes == <<Wake>>
SetIdle(c) ==
    /\ cl[c].pc = "setidle"
    /\ idle' = cl[c].to /\ q' = q \o Wakes
    /\ cl' = [cl EXCEPT ![c] = Quiet]
    /\ UNCHANGED <<hardVars, driveVars, pageVars, sealed, stop, wk, gaveUp, lastId, owed, endVars,
                   mishaps>>

\* GET /api/state of the open page: refresh_output_soon queues a watch, unless the display runs.
AskState ==
    /\ phase = "serving" /\ ~poll /\ ~pending
    /\ pending' = TRUE /\ q' = Append(q, Job("watch", None, 0, None))
    /\ UNCHANGED <<hardVars, driveVars, shown, reading, poll, idle, sealed, stop, wk, callVars,
                   owed, endVars, mishaps>>

-----------------------------------------------------------------------------
\* The instrument thread between jobs.

\* Where the thread goes when nothing is left of a job: the loop reads the settings anew,
\* and its wait for the next job has an end only while the display runs.
Rest == [Calm EXCEPT !.pc = IF stop THEN "drain" ELSE IF idle THEN "timed" ELSE "asleep"]

GivenUp(id) == id \in gaveUp

AsksOnlyToShow == {"read", "watch", "idle"}  \* mutant: a source change trusts the flag
AsksFirst == {"source", "read", "watch", "idle"}
Begin(j, draining) ==
    [kind |-> j.kind, who |-> j.who, id |-> j.id, body |-> j.body, writes |-> << >>,
     next |-> None, drain |-> draining, pc |-> IF j.kind \in AsksFirst THEN "ask" ELSE "act"]

TakeJob ==
    /\ wk.pc \in {"timed", "asleep", "drain"} /\ q # << >> /\ Head(q).kind # "wake"
    /\ q' = Tail(q)
    /\ wk' = IF ~GivenUp(Head(q).id) THEN Begin(Head(q), wk.pc = "drain")
             ELSE IF wk.pc = "drain" THEN wk ELSE Rest
    /\ gaveUp' = gaveUp \ {Head(q).id}
    /\ UNCHANGED <<hardVars, driveVars, pageVars, idle, sealed, stop, cl, lastId, owed, endVars,
                   mishaps>>

\* After a wake or at the end of the interval: the setting of now decides, a job goes first,
\* and without a panel the display has nothing to show.
Ticks == idle /\ q' = << >> /\ panel # None
Decide ==
    /\ \/ wk.pc = "timed" /\ q = << >> /\ q' = q
       \/ wk.pc \in {"timed", "asleep"} /\ q # << >> /\ Head(q) = Wake /\ q' = Tail(q)
    /\ wk' = IF ~stop /\ Ticks THEN Begin(Job("idle", None, 0, None), FALSE) ELSE Rest
    /\ UNCHANGED <<hardVars, driveVars, pageVars, idle, sealed, stop, callVars, owed, endVars,
                   mishaps>>
SkipWake ==
    /\ wk.pc = "drain" /\ q # << >> /\ Head(q) = Wake /\ q' = Tail(q)
    /\ UNCHANGED <<hardVars, driveVars, pageVars, idle, sealed, stop, wk, callVars, owed, endVars,
                   mishaps>>

Dies ==
    /\ wk.pc = "drain" /\ q = << >>
    /\ wk' = [Calm EXCEPT !.pc = "dead"]
    /\ UNCHANGED <<hardVars, driveVars, pageVars, busVars, callVars, owed, endVars, mishaps>>

-----------------------------------------------------------------------------
\* The end of a job: the caller, if it still waits, has its answer.
\* The closing off is submitted bare: what it raises ends the loop, which then drains.

Waits == wk.who # None /\ cl[wk.who].pc = wk.kind /\ cl[wk.who].id = wk.id
Ends(what) ==
    /\ wk' = IF wk.drain \/ (wk.kind = "closing" /\ what = "error")
             THEN [Calm EXCEPT !.pc = "drain"] ELSE Rest
    /\ gaveUp' = gaveUp \ {wk.id}
    /\ cl' = IF ~Waits THEN cl
             ELSE IF what = "ok" /\ wk.kind = "on" THEN [cl EXCEPT ![wk.who].pc = "lit"]
             ELSE IF what = "ok" /\ wk.kind = "off" THEN [cl EXCEPT ![wk.who].pc = "clear"]
             ELSE [cl EXCEPT ![wk.who] = Quiet]
Goes(pc) == wk' = [wk EXCEPT !.pc = pc] /\ UNCHANGED <<cl, gaveUp>>

Fault == mishaps < MaxMishaps /\ mishaps' = mishaps + 1
Stuck == Fault /\ Goes("stuck")

\* _fresh_output: the panel's answer, and the driver's flag when there is one.
Hears(truth, answer) ==
    /\ shown' = answer
    /\ flag' = IF answer = None THEN flag ELSE truth
    /\ handSince' = (handSince /\ answer = None)
HearsAnything(truth) ==
    (Hears(truth, truth) /\ UNCHANGED mishaps) \/ (Hears(truth, None) /\ Fault)

\* It comes first in a source change, a reading, a watch and a tick of the display.
AskOutput ==
    /\ wk.pc = "ask"
    /\ \/ /\ HearsAnything(inst.out)
          /\ IF \/ wk.kind = "watch"
                \/ wk.kind = "idle" /\ shown' # TRUE
                \/ wk.kind = "read" /\ panel # None /\ shown' # TRUE
             THEN Ends("refused") ELSE Goes("act")
          /\ pending' = (pending /\ wk.kind # "watch")
       \/ Stuck /\ UNCHANGED <<handSince, flag, shown, pending>>
    /\ UNCHANGED <<inst, byHand, panel, asked, reading, poll, busVars, lastId, owed, endVars>>

\* enable_output, then asked to confirm it: the flag follows a write that did not raise.
Switch(on, landed) ==
    /\ inst' = [inst EXCEPT !.out = IF landed THEN on ELSE @]
    /\ byHand' = (byHand /\ ~landed)
Switched(on) ==
    /\ Switch(on, TRUE) /\ Ends("ok")
    /\ IF wk.kind = "closing"
       THEN confirmed' = TRUE /\ flag' = on /\ UNCHANGED <<handSince, shown, mishaps>>
       ELSE /\ UNCHANGED confirmed
            /\ \/ Hears(on, on) /\ UNCHANGED mishaps
               \/ shown' = None /\ flag' = on /\ Fault /\ UNCHANGED handSince
SetOutput ==
    /\ wk.pc = "act" /\ wk.kind \in {"on", "off", "closing"}
    /\ IF wk.kind = "on" /\ panel = None
       THEN /\ Ends("refused")
            /\ UNCHANGED <<inst, byHand, handSince, flag, shown, confirmed, owed, mishaps>>
       ELSE \/ Switched(wk.kind = "on") /\ owed' = owed \ {wk.id}
            \/ /\ Fault /\ \E landed \in BOOLEAN : Switch(wk.kind = "on", landed)
               /\ Ends("error") /\ owed' = owed \ {wk.id}
               /\ UNCHANGED <<handSince, flag, shown, confirmed>>
            \/ Stuck /\ UNCHANGED <<inst, byHand, handSince, flag, shown, confirmed, owed>>
    /\ UNCHANGED <<panel, asked, reading, poll, pending, busVars, lastId, phase, verdict>>

\* read_panel and _tick.  A reading is the setup it was taken under.
Take ==
    /\ wk.pc = "act" /\ wk.kind \in {"read", "tick", "idle"}
    /\ \/ /\ panel # None /\ flag /\ UNCHANGED mishaps
          /\ reading' = panel /\ Ends("ok")
       \/ /\ \/ (panel = None \/ ~flag) /\ UNCHANGED mishaps
             \/ panel # None /\ flag /\ Fault
          /\ UNCHANGED reading /\ Ends("refused")
       \/ panel # None /\ flag /\ Stuck /\ UNCHANGED reading
    /\ UNCHANGED <<hardVars, driveVars, shown, poll, pending, busVars, lastId, owed,
                   endVars>>

-----------------------------------------------------------------------------
\* POST /api/source.

Or(value, other) == IF value = None THEN other ELSE value
\* The body merged onto the panel; a change of function resets the level.
Base == IF panel = None THEN Defaults ELSE panel
Merged(body) ==
    LET fn == Or(body.fn, Base.fn) IN
    [fn |-> fn, limit |-> Or(body.limit, Base.limit),
     level |-> Or(body.level, IF fn # Base.fn THEN 0 ELSE Base.level)]

UnderCeiling(s) == s.level <= Ceiling /\ s.limit <= Ceiling
\* A function is not changed under a live output, nor under one that did not say.
Refuses(s) ==
    \/ ~UnderCeiling(s)
    \/ s.fn # Base.fn /\ (shown = None \/ (panel # None /\ flag))
    \/ panel = None /\ flag

W(what, value) == <<[what |-> what, value |-> value]>>
LevelFirst(was, s) ==                        \* mutant: the level before every compliance
    (IF s.fn # was.fn THEN W("fn", s.fn) ELSE << >>) \o W("level", s.level) \o W("limit", s.limit)
\* _panel_write: what narrows goes first.
Moved(was, s) ==
    (IF s.fn # was.fn THEN W("fn", s.fn) ELSE << >>)
    \o (IF s.limit < was.limit THEN W("limit", s.limit) ELSE << >>)
    \o (IF s.fn # was.fn \/ s.level # was.level THEN W("level", s.level) ELSE << >>)
    \o (IF s.limit > was.limit THEN W("limit", s.limit) ELSE << >>)
Cold(s) == W("rst", None) \o W("fn", s.fn) \o W("limit", s.limit) \o W("level", s.level)

BeginSource ==
    /\ wk.pc = "act" /\ wk.kind = "source"
    /\ LET s == Merged(wk.body) IN
       IF Refuses(s) THEN Ends("refused") /\ UNCHANGED asked
       ELSE /\ wk' = [wk EXCEPT !.pc = "write", !.next = s,
                                !.writes = IF panel = None THEN Cold(s) ELSE Moved(panel, s)]
            /\ asked' = IF panel = None THEN asked ELSE asked \cup {s}
            /\ UNCHANGED <<cl, gaveUp>>
    /\ UNCHANGED <<hardVars, flag, panel, pageVars, busVars, lastId, owed, endVars,
                   mishaps>>

Effect(w, landed) ==
    /\ inst' = IF ~landed THEN inst
               ELSE CASE w.what = "rst" -> [out |-> FALSE, fn |-> Defaults.fn,
                                            level |-> [f \in Fns |-> 0], limit |-> RstLimit]
                      [] w.what = "fn" -> [inst EXCEPT !.fn = w.value]
                      [] w.what = "level" -> [inst EXCEPT !.level[inst.fn] = w.value]
                      [] w.what = "limit" -> [inst EXCEPT !.limit = w.value]
    /\ asked' = IF landed /\ w.what = "rst" THEN {wk.next} ELSE asked
\* A write that raises leaves an instrument this driver did not configure.
Write ==
    /\ wk.pc = "write" /\ wk.writes # << >>
    /\ \/ /\ Effect(Head(wk.writes), TRUE)
          /\ flag' = IF Head(wk.writes).what = "rst" THEN FALSE ELSE flag
          /\ wk' = [wk EXCEPT !.writes = Tail(@)]
          /\ UNCHANGED <<panel, cl, gaveUp, mishaps>>
       \/ /\ Fault /\ \E landed \in BOOLEAN : Effect(Head(wk.writes), landed)
          /\ panel' = None /\ Ends("error") /\ UNCHANGED flag
       \/ Stuck /\ UNCHANGED <<inst, driveVars>>
    /\ UNCHANGED <<byHand, handSince, pageVars, busVars, lastId, owed, endVars>>

ClearsReading == None
KeepsReading == reading                      \* mutant: the last reading stays on the screen
NewReading == ClearsReading
\* The panel is applied: the reading of the old one goes, and a live source is read anew.
Applied ==
    /\ wk.pc = "write" /\ wk.writes = << >>
    /\ panel' = wk.next /\ asked' = {wk.next}
    /\ \/ flag /\ reading' = wk.next /\ UNCHANGED mishaps
       \/ ~flag /\ reading' = NewReading /\ UNCHANGED mishaps
       \/ flag /\ Fault /\ reading' = NewReading
    /\ Ends("ok")
    /\ UNCHANGED <<hardVars, flag, shown, poll, pending, busVars, lastId, owed, endVars,
                   endVars>>

-----------------------------------------------------------------------------
\* serve_forever's finally, the hand on the 2400, and the whole.

\* The server stops; close_with_budget seals the queue and drops it, the display goes off
\* and the output-off is queued.
Seal ==
    /\ phase = "serving" /\ phase' = "stopping"
    /\ sealed' = TRUE /\ idle' = FALSE /\ q' = <<Wake, Job("closing", None, 0, None)>>
    /\ owed' = (owed \cap {wk.id}) \cup {0}
    /\ UNCHANGED <<hardVars, driveVars, pageVars, stop, wk, callVars, confirmed, verdict,
                   mishaps>>
Stop ==
    /\ phase = "stopping" /\ phase' = "joining"
    /\ stop' = TRUE /\ q' = Append(q, Wake)
    /\ UNCHANGED <<hardVars, driveVars, pageVars, idle, sealed, wk, callVars, owed, confirmed,
                   verdict, mishaps>>
\* The wait covers any job in front and the off itself: it runs out on a stuck call only.
Joined ==
    /\ phase = "joining" /\ wk.pc \in {"dead", "stuck"}
    /\ phase' = "ended" /\ verdict' = confirmed
    /\ UNCHANGED <<hardVars, driveVars, pageVars, busVars, wk, callVars, owed, confirmed, mishaps>>

Hand ==
    /\ Fault
    /\ inst' = [inst EXCEPT !.out = ~@]
    /\ byHand' = TRUE /\ handSince' = TRUE
    /\ UNCHANGED <<driveVars, pageVars, busVars, wk, callVars, owed, endVars>>

Asks(c) ==
    \/ \E b \in Bodies : Submit(c, "source", b)
    \/ \E kind \in {"on", "off", "read"} : Submit(c, kind, None)
    \/ c \in Pollers /\ \E on \in BOOLEAN : SetPoll(c, on)
GoesOn(c) == phase # "ended" /\ (SubmitTick(c) \/ Blank(c) \/ SetIdle(c))
Worker ==
    /\ phase # "ended"
    /\ \/ TakeJob \/ Decide \/ SkipWake \/ Dies
       \/ AskOutput \/ SetOutput \/ Take \/ BeginSource \/ Write \/ Applied
Next ==
    \/ phase # "ended" /\ \E c \in Clients : Asks(c) \/ TimesOut(c)
    \/ \E c \in Clients : GoesOn(c)
    \/ AskState \/ Worker \/ Seal \/ Stop \/ Joined \/ Hand
Spec == Init /\ [][Next]_vars
\* The threads are scheduled, the page that is open keeps asking.
Fairness ==
    /\ WF_vars(Worker) /\ WF_vars(Stop \/ Joined) /\ WF_vars(AskState)
    /\ \A c \in Clients : WF_vars(GoesOn(c))
FairSpec == Spec /\ Fairness

-----------------------------------------------------------------------------
\* close answered TRUE: the output is off and stays off, but for a hand on the 2400.  No
\* handler still running on its daemon thread puts an output-on behind the closing off
\* (panel.py, _Bus.seal).
ClosedIsDark == verdict = TRUE => ~inst.out \/ byHand

\* An output-off that was queued is written even when its caller was told "pending", and the
\* closing off is written on every way out of the loop (set_output, _Bus._drain).
OffIsNeverLost == []<>(owed = {} \/ wk.pc = "stuck")

\* While the console drives the device, the level in force never stands under a compliance
\* looser than the one it was asked for with, in the middle of a change and after a write
\* that failed (smu.py, _panel_write).
LimitComesFirst ==
    inst.out /\ ~byHand =>
        \E s \in asked : s.fn = inst.fn /\ s.level = inst.level[inst.fn] /\ inst.limit <= s.limit

\* The function changes under a live output only if a hand reached the OUTPUT key after the
\* instrument was asked (set_source's refresh, apply_panel's interlock).
FunctionChangesDark == [][inst'.fn # inst.fn /\ inst'.out => handSince]_vars

\* Between jobs, a reading on the screen was taken under the setup drawn beside it.
ReadingIsOfTheSetup ==
    wk.pc \in {"timed", "asleep"} /\ panel # None /\ reading # None
        => reading = panel

\* What the open page draws of the output comes back to what the instrument does, whoever
\* pressed the key, once a panel is applied or the display is off.
Blind == poll /\ panel = None
PageSeesTheOutput == []<>(shown = inst.out \/ phase # "serving" \/ wk.pc = "stuck" \/ Blind)

\* The two limits of the panel's safety: a level never meets a looser compliance, and the
\* closing off is the last word.
DeviceWithinLimits == ClosedIsDark /\ LimitComesFirst

\* What is switched is switched as it was meant: no function under a live output, and no
\* output-off lost.
SwitchesAsMeant == FunctionChangesDark /\ OffIsNeverLost

\* What the page draws is so: the reading is of the setup beside it, and the output comes
\* back to what the instrument does.
DrawnAsItIs == []ReadingIsOfTheSetup /\ PageSeesTheOutput

\* The same without the exception: OUTPUT_WATCH_S bounds how long a hand on the OUTPUT key
\* goes unnoticed while a page is open.
HandIsNoticed == []<>(shown = inst.out \/ phase # "serving" \/ wk.pc = "stuck")

\* With no request under way, the display runs just when the page says so.  Two requests may
\* set the panel's field in one order and the bus's in the other.
DisplayAsShown ==
    phase = "serving" /\ (\A c \in Clients : cl[c].pc # "setidle") => poll = idle
================================================================================
