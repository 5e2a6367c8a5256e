------------------------------ MODULE BenchProofs ------------------------------
(***************************************************************************)
(* Theorems about the bench and about the calls that reach it.             *)
(*                                                                         *)
(* Bench: the interlock holds for any programs, any refusing outputs and   *)
(* any calls that fail.  In a job of the service that no exception has     *)
(* stopped, an output that is on is flagged on, or was never read (IInv).  *)
(*                                                                         *)
(* BenchActions, for any runs and any callers: CallsInv is inductive, and  *)
(* each of its parts is kept by a step, given the parts before it.         *)
(***************************************************************************)
EXTENDS Bench, BenchActions, TLAPS

-----------------------------------------------------------------------------
(* The relay and the outputs.                                              *)

\* Who may be doing what.
Roles ==
    /\ owner = "none" => job = "idle"
    /\ owner = "checks" => job = "check"
    /\ job \in {"run", "action"} => owner = "service"

\* The flags know every output that is on, but for one this job could not read.
Flagged ==
    job \in {"run", "action"} /\ raised = FALSE =>
        \A s \in Sources : out[s] => flag[s] \/ s \in unread

IInv == DOMAIN out = Devices /\ DOMAIN flag = Devices /\ Roles /\ Flagged

\* The invariant reads the owner, the job, the exception, the outputs, the flags and what
\* is unread; a step that keeps them keeps it.
LEMMA Keeps ==
    ASSUME IInv, UNCHANGED <<owner, job, out, flag, unread>>, raised' \in {raised, TRUE}
    PROVE  IInv'
BY DEF IInv, Roles, Flagged

\* A step outside a run or an action keeps it, whatever it does to the outputs.
LEMMA Idle ==
    ASSUME IInv, DOMAIN out' = Devices, DOMAIN flag' = Devices, Roles',
           job' \notin {"run", "action"}
    PROVE  IInv'
BY DEF IInv, Flagged

\* A call ends by going on or by raising.
LEMMA Ends ==
    /\ Continue => raised' = raised
    /\ Unwind => raised' = TRUE
    /\ Fail => raised' = raised \/ raised' = TRUE
BY DEF Continue, Unwind, Fail

\* The enable of an output keeps the flags right: the flag follows the command, and a
\* failed switch-on raises.
LEMMA SwitchKeeps == ASSUME IInv, Switch PROVE IInv'
<1> DEFINE d == Now.dev
           on == Now.on
<1>1. UNCHANGED <<owner, job, unread>> /\ raised' \in {raised, TRUE}
  BY Ends DEF Switch, Call, noteVars
<1>2. DOMAIN out' = Devices /\ DOMAIN flag' = Devices
  BY DEF IInv, Switch, Set
<1>3. Roles'
  BY <1>1 DEF IInv, Roles
<1>4. ASSUME raised' = FALSE, job' \in {"run", "action"}, NEW s \in Sources, out'[s]
      PROVE  flag'[s] \/ s \in unread'
  <2>1. raised = FALSE /\ (out[s] => flag[s] \/ s \in unread)
    BY <1>1, <1>4 DEF IInv, Flagged
  <2>2. s \in DOMAIN out /\ s \in DOMAIN flag
    BY DEF IInv, Sources, Devices
  <2>3. CASE out' = Set(out, d, on) /\ flag' = Set(flag, d, on)
    BY <2>1, <2>2, <2>3, <1>1, <1>4 DEF Set
  <2>4. CASE flag' = Set(flag, d, TRUE) /\ UNCHANGED out
    BY <2>1, <2>2, <2>4, <1>1, <1>4 DEF Set
  <2>5. CASE UNCHANGED <<out, flag>>
    BY <2>1, <2>5, <1>1, <1>4
  <2>6. CASE out' = Set(out, d, on) /\ UNCHANGED flag /\ Fail
    <3>1. Now.quiet
      BY <2>6, <1>4, Ends DEF Fail
    <3>2. ~on
      BY <3>1 DEF Switch
    <3>3. out[s]
      BY <2>2, <2>6, <3>2, <1>4 DEF Set
    <3> QED BY <3>3, <2>1, <2>6, <1>1
  <2> QED BY <2>3, <2>4, <2>5, <2>6 DEF Switch
<1> QED BY <1>2, <1>3, <1>4 DEF IInv, Flagged

\* An answer refreshes the flag.
LEMMA AskKeeps == ASSUME IInv, Ask PROVE IInv'
<1> DEFINE d == Now.dev
<1>1. UNCHANGED <<owner, job, out>> /\ raised' \in {raised, TRUE}
  BY Ends DEF Ask, Call
<1>2. CASE flag' = Set(flag, d, out[d]) /\ unread' = unread \ {d}
  BY <1>1, <1>2 DEF IInv, Roles, Flagged, Set, Sources, Devices
<1>3. CASE UNCHANGED <<flag, unread>>
  BY <1>1, <1>3, Keeps
<1> QED BY <1>2, <1>3 DEF Ask

LEMMA VerifyKeeps == ASSUME IInv, Verify PROVE IInv'
<1> DEFINE d == Now.dev
<1>1. UNCHANGED <<owner, job, out, unread>> /\ raised' \in {raised, TRUE}
  BY Ends DEF Verify, Call, noteVars
<1>2. CASE flag' = Set(flag, d, out[d])
  BY <1>1, <1>2 DEF IInv, Roles, Flagged, Set, Sources, Devices
<1>3. CASE UNCHANGED flag
  BY <1>1, <1>3, Keeps
<1> QED BY <1>2, <1>3 DEF Verify

LEMMA FindKeeps == ASSUME IInv, Find PROVE IInv'
<1>1. UNCHANGED <<owner, job, out, unread, raised>>
  BY Ends DEF Find, Call
<1>2. CASE flag' = Set(flag, "led", out["led"])
  BY <1>1, <1>2 DEF IInv, Roles, Flagged, Set, Sources, Devices
<1>3. CASE UNCHANGED flag
  BY <1>1, <1>3, Keeps
<1> QED BY <1>2, <1>3 DEF Find

\* Moving a line, shaping the LED, measuring and the control calls leave the outputs.
LEMMA CallsKeep ==
    ASSUME IInv, Shape \/ Move \/ Route \/ Measure \/ Enter \/ Leave \/ Reraise \/ Pause
    PROVE  IInv'
<1>1. UNCHANGED <<owner, job, out, flag, unread>>
  BY DEF Shape, Move, Route, Measure, Enter, Leave, Reraise, Pause, Call, noteVars, hardVars
<1>2. CASE Shape
  BY <1>1, <1>2, Ends, Keeps DEF Shape
<1>3. CASE Move \/ Route
  BY <1>1, <1>3, Ends, Keeps DEF Move, Route, Drive
<1>4. CASE Measure
  BY <1>1, <1>4, Ends, Keeps DEF Measure
<1>5. CASE Enter \/ Leave \/ Reraise \/ Pause
  BY <1>1, <1>5, Ends, Keeps DEF Enter, Leave, Reraise, Pause
<1> QED BY <1>2, <1>3, <1>4, <1>5

\* The checkout harness runs as its own process, in neither a run nor an action.
LEMMA HarnessKeeps == ASSUME IInv, Harness PROVE IInv'
<1>1. UNCHANGED <<owner, job, flag>> /\ owner = "checks"
  BY DEF Harness, TurnOff, TurnOn, OpenLine, PutBack, NeedOff, Safe, Save, Restore,
         Stage, Call, hardVars
<1>2. DOMAIN out' = Devices
  BY DEF IInv, Harness, TurnOff, TurnOn, OpenLine, PutBack, NeedOff, Safe, Save, Restore,
         hardVars, Set
<1> QED BY <1>1, <1>2, Idle DEF IInv, Roles

\* A run starts with its flags read, or with no program, or with the source unread.
LEMMA StartRunKeeps == ASSUME IInv, StartRun PROVE IInv'
<1>1. PICK program \in Runs, answered \in {Devices, {"led"}, {"led", "smu"}, {"led", "bias"}} :
        /\ Begin("run", IF \E s \in Sources \cap answered : out[s] THEN << >> ELSE program)
        /\ flag' = ReadFlags(answered)
        /\ unread' = Sources \ answered
  BY DEF StartRun
<1>2. owner = "service" /\ owner' = owner /\ job' = "run" /\ out' = out
  BY <1>1 DEF StartRun, Begin
<1>3. \A s \in Sources : out'[s] => flag'[s] \/ s \in unread'
  BY <1>1, <1>2 DEF ReadFlags, Sources, Devices
<1>4. DOMAIN flag' = Devices
  BY <1>1 DEF ReadFlags
<1> QED BY <1>2, <1>3, <1>4 DEF IInv, Roles, Flagged

LEMMA JobsKeep ==
    ASSUME IInv, StartAction \/ StartClose \/ StartCheck \/ ServiceStarts \/ End
                 \/ Crash \/ PanelPress
    PROVE  IInv'
<1>1. CASE StartAction
  BY <1>1 DEF IInv, Roles, Flagged, StartAction, Begin
<1>2. CASE StartClose
  BY <1>2, Idle DEF IInv, Roles, StartClose, Begin
<1>3. CASE StartCheck
  BY <1>3, Idle DEF IInv, Roles, StartCheck, hardVars
<1>4. CASE ServiceStarts
  <2>1. DOMAIN flag' = Devices /\ UNCHANGED <<job, out>> /\ owner' = "service" /\ owner = "none"
    BY <1>4 DEF ServiceStarts, ReadFlags
  <2> QED BY <2>1, Idle DEF IInv, Roles
<1>5. CASE EndRun
  BY <1>5, Idle DEF IInv, Roles, EndRun, Begin
<1>6. CASE EndJob
  <2>1. job \in {"park", "action"} /\ job' = "idle" /\ UNCHANGED <<owner, out, flag>>
    BY <1>6 DEF EndJob, hardVars
  <2>2. owner # "none"
    BY <2>1 DEF IInv, Roles
  <2>3. owner # "checks"
    BY <2>1 DEF IInv, Roles
  <2> QED BY <2>1, <2>2, <2>3, Idle DEF IInv, Roles
<1>7. CASE EndProcess \/ Crash
  BY <1>7, Idle DEF IInv, Roles, EndProcess, Crash, Gone
<1>8. CASE PanelPress
  <2>1. job = "idle" /\ UNCHANGED <<owner, job, flag>> /\ DOMAIN out' = Devices
    BY <1>8 DEF IInv, PanelPress, Set
  <2> QED BY <2>1, Idle DEF IInv, Roles
<1> QED BY <1>1, <1>2, <1>3, <1>4, <1>5, <1>6, <1>7, <1>8 DEF End

LEMMA Inductive == (Init => IInv) /\ (IInv /\ [Next]_vars => IInv')
<1>1. Init => IInv
  BY DEF Init, IInv, Roles, Flagged
<1>2. ASSUME IInv, Next PROVE IInv'
  BY <1>2, SwitchKeeps, AskKeeps, VerifyKeeps, FindKeeps, CallsKeep, HarnessKeeps,
     StartRunKeeps, JobsKeep DEF Next, Driver, Control, Start
<1>3. ASSUME IInv, UNCHANGED vars PROVE IInv'
  BY <1>3 DEF vars, stackVars, hardVars, noteVars, IInv, Roles, Flagged
<1> QED BY <1>1, <1>2, <1>3

\* Whatever a job's programs are, an output that is on in a run or an action of the service
\* is known to be on unless it was never read (routing.py trusts these flags).
THEOREM FlagsKnow == Spec => []IInv
BY Inductive, PTL DEF Spec

\* No step forgets a line: only a drive writes them, and only one at a time.
LinesKnown == DOMAIN line = Lines
LEMMA LinesStay == Spec => []LinesKnown
<1>1. Init => LinesKnown
  BY DEF Init, LinesKnown
<1>2. ASSUME LinesKnown, Move \/ Route \/ PutBack PROVE LinesKnown'
  BY <1>2 DEF LinesKnown, Move, Route, PutBack, Drive, Set
<1>3. Switch \/ Ask \/ Verify \/ Shape \/ Find \/ Measure \/ Control => UNCHANGED line
  <2>1. Switch \/ Ask \/ Verify \/ Shape \/ Find => UNCHANGED line
    BY DEF Switch, Ask, Verify, Shape, Find
  <2>2. Measure \/ Control => UNCHANGED line
    BY DEF Measure, Control, Enter, Leave, Reraise, Pause, hardVars
  <2> QED BY <2>1, <2>2
<1>4. TurnOff \/ TurnOn \/ OpenLine \/ NeedOff \/ Safe \/ Save \/ Restore => UNCHANGED line
  BY DEF TurnOff, TurnOn, OpenLine, NeedOff, Safe, Save, Restore, hardVars
<1>5. Start \/ End \/ Crash \/ PanelPress => UNCHANGED line
  BY DEF Start, StartRun, StartAction, StartClose, StartCheck, ServiceStarts, End, EndRun,
         EndJob, EndProcess, Crash, Gone, PanelPress, Begin, hardVars
<1>6. LinesKnown /\ [Next]_vars => LinesKnown'
  BY <1>2, <1>3, <1>4, <1>5 DEF LinesKnown, Next, Driver, Harness, vars, hardVars
<1> QED BY <1>1, <1>6, PTL DEF Spec

\* Only the router and, in the checkout, the harness write the relay's line.
LEMMA Movers ==
    ASSUME LinesKnown, owner = "service", line'["relay"] # line["relay"], Next
    PROVE  Route /\ UNCHANGED <<owner, out>>
<1>1. ~Harness /\ ~StartCheck /\ ~ServiceStarts
  BY DEF Harness, TurnOff, TurnOn, OpenLine, PutBack, NeedOff, Safe, Save, Restore, Stage,
         StartCheck, ServiceStarts
<1>2. ~(Switch \/ Ask \/ Verify \/ Shape \/ Find)
  BY DEF Switch, Ask, Verify, Shape, Find
<1>3. ~(Measure \/ Control)
  BY DEF Measure, Control, Enter, Leave, Reraise, Pause, hardVars
<1>4. ~(StartRun \/ StartAction \/ StartClose \/ End \/ Crash \/ PanelPress)
  BY DEF StartRun, StartAction, StartClose, End, EndRun, EndJob, EndProcess, Crash, Gone,
         PanelPress, Begin, hardVars
<1>5. ~Move
  BY DEF LinesKnown, Move, Drive, Wired, Set, Lines
<1>6. Route
  BY <1>1, <1>2, <1>3, <1>4, <1>5 DEF Next, Driver, Start
<1> QED BY <1>6 DEF Route, Call

\* The relay never moves under a source that drives and was read in this job.
THEOREM RelayMovesCold == Spec => ColdRelay
<1>1. ASSUME IInv, LinesKnown, Next, owner = "service", line'["relay"] # line["relay"],
             NEW s \in Sources, out[s]
      PROVE  s \in unread
  <2>1. Route
    BY <1>1, Movers
  <2>2. cache["relay"] # Now.value
    BY <2>1, <1>1 DEF Route, Drive
  <2>3. ~RefuseLive
    BY <2>1, <2>2, <1>1 DEF Route
  <2>4. ~flag[s]
    BY <2>3 DEF RefuseLive
  <2> QED BY <2>1, <2>4, <1>1 DEF Route, IInv, Flagged
<1>2. IInv /\ LinesKnown /\ [Next]_vars =>
        [owner = "service" /\ line'["relay"] # line["relay"] =>
           \A s \in Sources : out[s] => s \in unread]_<<owner, out, line, unread>>
  BY <1>1 DEF vars, hardVars
<1> QED BY <1>2, FlagsKnow, LinesStay, PTL DEF Spec, ColdRelay

-----------------------------------------------------------------------------
(* The callers of bench actions and read-backs.                            *)


\* The queue itself: a waiting job is queued and not on the bench, and of two waiting
\* jobs one is ahead of the other.
Ordered ==
    /\ \A j \in waiting : phase[j] = "queued"
    /\ \A j \in Jobs \ waiting : ahead[j] = {}
    /\ \A i, j \in waiting : i = j \/ i \in ahead[j] \/ j \in ahead[i]
    /\ active \notin waiting
    /\ active \in Jobs => phase[active] \notin {"new", "cancelled"}

\* Where a caller stands: it has no job before its submit and an event from Register on,
\* only its answer ends its call, and only park outlasts its caller's wait.
Placed ==
    \A c \in Clients :
        /\ at[c] \notin {"wait", "late", "answered"} => phase[c] = "new"
        /\ at[c] \in {"wait", "late"} => phase[c] # "new"
        /\ at[c] \in {"submit", "wait"} => c \in jobDone
        /\ at[c] = "late" => kind[c] # "park"
        /\ answer[c] # Unset => at[c] = "answered"

\* How its job ended: an event is set for an ended job only, and while the service is not
\* shutting down an ended action is done or failed, or was cancelled by its own caller.
EndedAsTold ==
    /\ \A c \in done : terminal(c)
    /\ asked \cap Clients # {} => stopping
    /\ \A c \in Clients : (terminal(c) /\ ~stopping) =>
          \/ phase[c] \in {"done", "failed"}
          \/ phase[c] = "cancelled" /\ answer[c] = "cancelled"
    /\ CallersAreAnswered

\* From park's stop_runs to its submit no run waits and the one on the bench was told.
Cleared ==
    /\ \A c \in Clients :
          (kind[c] = "park" /\ saw[c] # Unset /\ at[c] \in {"register", "submit"}) =>
              /\ waiting \cap RunJobs = {}
              /\ active \in RunJobs => active \in asked \/ terminal(active)
    /\ ParkClearsTheWay

CallsInv == TypeOK /\ Ordered /\ Placed /\ EndedAsTold /\ Cleared

-----------------------------------------------------------------------------
\* A job on the bench never becomes new, queued or cancelled, and an ended one moves no more.
LEMMA Arrows ==
    \A p \in Phases : /\ Queue!Arrow(p) \subseteq Phases \ {"new", "queued", "cancelled"}
                      /\ p \in Queue!Ended => Queue!Arrow(p) = {}
  BY DEF Phases, Queue!Arrow, Queue!Ended

-----------------------------------------------------------------------------
\* Every variable keeps its type, and the lock is held exactly from a caller's check to
\* its submit.
LEMMA TypeStep == ASSUME TypeOK, [CallsNext]_callsVars PROVE TypeOK'
<1> USE BenchActionsAssumption
<1> USE DEF workerVars, queueVars, clientVars, eventVars, Jobs, Answers
<1> USE DEF TypeOK, Kinds, Phases, Answers, Places, Queue!Ended
<1>1. CASE StartJob
  BY <1>1 DEF StartJob, Queue!Start, Queue!Leave
<1>2. CASE Advance
  <2>1. PICK p \in Queue!Arrow(phase[active]) : phase' = [phase EXCEPT ![active] = p]
    BY <1>2 DEF Advance, Queue!Advance
  <2>2. active \in Jobs /\ phase[active] \in Phases
    BY <1>2 DEF Advance, Queue!Advance
  <2>3. p \in Phases \ {"new", "queued", "cancelled"}
    BY <2>1, <2>2, Arrows
  <2>4. QED
    BY <1>2, <2>1, <2>2, <2>3 DEF Advance, Queue!Advance, Wake
<1>3. CASE Finish
  BY <1>3 DEF Finish, Queue!Park, Queue!Retire
<1>4. CASE Shutdown
  BY <1>4 DEF Shutdown, Withdraw, Queue!Withdraw, Queue!Leave, Wake
<1>5. ASSUME NEW r \in RunJobs, SubmitRun(r) PROVE TypeOK'
  BY <1>5 DEF SubmitRun, LockFree, Queue!Enqueue
<1>6. ASSUME NEW c \in Clients, NEW k \in Kinds, Request(c, k) PROVE TypeOK'
  BY <1>6 DEF Request, Step
<1>7. ASSUME NEW c \in Clients, ReadCurrent(c) PROVE TypeOK'
  BY <1>7 DEF ReadCurrent, Step
<1>8. ASSUME NEW c \in Clients, ReadQueued(c) PROVE TypeOK'
  BY <1>8 DEF ReadQueued, Step
<1>9. ASSUME NEW c \in Clients, Refuse(c) PROVE TypeOK'
  BY <1>9 DEF Refuse, Step, Unlocks
<1>10. ASSUME NEW c \in Clients, StopRuns(c) PROVE TypeOK'
  BY <1>10 DEF StopRuns, RunsToStop, Step, Withdraw, Queue!Withdraw, Queue!Leave, Wake
<1>11. ASSUME NEW c \in Clients, NoActiveRun(c) PROVE TypeOK'
  BY <1>11 DEF NoActiveRun, Step
<1>12. ASSUME NEW c \in Clients, Register(c) PROVE TypeOK'
  BY <1>12 DEF Register, NewEvent, Step
<1>13. ASSUME NEW c \in Clients, SubmitAction(c) PROVE TypeOK'
  BY <1>13 DEF SubmitAction, Step, Unlocks, Queue!Enqueue
<1>14. ASSUME NEW c \in Clients, SubmitRefused(c) PROVE TypeOK'
  BY <1>14 DEF SubmitRefused, Step, Unlocks
<1>15. ASSUME NEW c \in Clients, Finished(c) PROVE TypeOK'
  BY <1>15 DEF Finished, Answer, Step
<1>16. ASSUME NEW c \in Clients, Timeout(c) PROVE TypeOK'
  BY <1>16 DEF Timeout, Answer, Step
<1>17. ASSUME NEW c \in Clients, CancelLate(c) PROVE TypeOK'
  BY <1>17 DEF CancelLate, CanCancel, Step, Withdraw, Queue!Withdraw, Queue!Leave, Wake
<1>18. CASE UNCHANGED callsVars
  BY <1>18 DEF callsVars
<1>19. QED
  BY <1>1, <1>2, <1>3, <1>4, <1>5, <1>6, <1>7, <1>8, <1>9, <1>10,
     <1>11, <1>12, <1>13, <1>14, <1>15, <1>16, <1>17, <1>18 DEF CallsNext, Calling

\* The queue stays in order.
LEMMA OrderStep == ASSUME TypeOK, Ordered, [CallsNext]_callsVars PROVE Ordered'
<1> USE BenchActionsAssumption
<1> USE DEF workerVars, queueVars, clientVars, eventVars, Jobs, Answers
<1> USE DEF Ordered
<1>t. /\ waiting \subseteq Jobs /\ ahead \in [Jobs -> SUBSET waiting]
      /\ active \in Jobs \cup {Unset} /\ phase \in [Jobs -> Phases]
  BY DEF TypeOK
<1> USE <1>t
<1>1. CASE StartJob
  BY <1>1 DEF StartJob, Queue!Start, Queue!Leave
<1>2. CASE Advance
  <2>1. PICK p \in Queue!Arrow(phase[active]) : phase' = [phase EXCEPT ![active] = p]
    BY <1>2 DEF Advance, Queue!Advance
  <2>2. active \in Jobs /\ phase[active] \in Phases
    BY <1>2 DEF Advance, Queue!Advance
  <2>3. p \in Phases \ {"new", "queued", "cancelled"}
    BY <2>1, <2>2, Arrows
  <2>4. QED
    BY <1>2, <2>1, <2>2, <2>3 DEF Advance, Queue!Advance, Wake
<1>3. CASE Finish
  BY <1>3 DEF Finish, Queue!Park, Queue!Retire
<1>4. CASE Shutdown
  BY <1>4 DEF Shutdown, Withdraw, Queue!Withdraw, Queue!Leave, Wake
<1>5. ASSUME NEW r \in RunJobs, SubmitRun(r) PROVE Ordered'
  BY <1>5 DEF SubmitRun, LockFree, Queue!Enqueue
<1>6. ASSUME NEW c \in Clients, NEW k \in Kinds, Request(c, k) PROVE Ordered'
  BY <1>6 DEF Request, Step
<1>7. ASSUME NEW c \in Clients, ReadCurrent(c) PROVE Ordered'
  BY <1>7 DEF ReadCurrent, Step
<1>8. ASSUME NEW c \in Clients, ReadQueued(c) PROVE Ordered'
  BY <1>8 DEF ReadQueued, Step
<1>9. ASSUME NEW c \in Clients, Refuse(c) PROVE Ordered'
  BY <1>9 DEF Refuse, Step, Unlocks
<1>10. ASSUME NEW c \in Clients, StopRuns(c) PROVE Ordered'
  BY <1>10 DEF StopRuns, RunsToStop, Step, Withdraw, Queue!Withdraw, Queue!Leave, Wake
<1>11. ASSUME NEW c \in Clients, NoActiveRun(c) PROVE Ordered'
  BY <1>11 DEF NoActiveRun, Step
<1>12. ASSUME NEW c \in Clients, Register(c) PROVE Ordered'
  BY <1>12 DEF Register, NewEvent, Step
<1>13. ASSUME NEW c \in Clients, SubmitAction(c) PROVE Ordered'
  BY <1>13 DEF SubmitAction, Step, Unlocks, Queue!Enqueue
<1>14. ASSUME NEW c \in Clients, SubmitRefused(c) PROVE Ordered'
  BY <1>14 DEF SubmitRefused, Step, Unlocks
<1>15. ASSUME NEW c \in Clients, Finished(c) PROVE Ordered'
  BY <1>15 DEF Finished, Answer, Step
<1>16. ASSUME NEW c \in Clients, Timeout(c) PROVE Ordered'
  BY <1>16 DEF Timeout, Answer, Step
<1>17. ASSUME NEW c \in Clients, CancelLate(c) PROVE Ordered'
  BY <1>17 DEF CancelLate, CanCancel, Step, Withdraw, Queue!Withdraw, Queue!Leave, Wake
<1>18. CASE UNCHANGED callsVars
  BY <1>18 DEF callsVars
<1>19. QED
  BY <1>1, <1>2, <1>3, <1>4, <1>5, <1>6, <1>7, <1>8, <1>9, <1>10,
     <1>11, <1>12, <1>13, <1>14, <1>15, <1>16, <1>17, <1>18 DEF CallsNext, Calling

-----------------------------------------------------------------------------
\* A caller's place and its job keep together.
LEMMA PlaceStep == ASSUME TypeOK, Ordered, Placed, [CallsNext]_callsVars PROVE Placed'
<1> USE BenchActionsAssumption
<1> USE DEF workerVars, queueVars, clientVars, eventVars, Jobs, Answers
<1>t. /\ waiting \subseteq Jobs /\ ahead \in [Jobs -> SUBSET waiting]
      /\ active \in Jobs \cup {Unset} /\ phase \in [Jobs -> Phases]
      /\ at \in [Clients -> Places] /\ kind \in [Clients -> Kinds \cup {Unset}]
      /\ saw \in [Clients -> RunJobs \cup {Unset}] /\ answer \in [Clients -> Answers \cup {Unset}]
      /\ jobDone \subseteq Clients /\ done \subseteq Clients /\ asked \subseteq Jobs
      /\ stopping \in BOOLEAN
  BY DEF TypeOK
<1>o. /\ \A j \in waiting : phase[j] = "queued"
      /\ active \notin waiting
      /\ active \in Jobs => phase[active] \notin {"new", "cancelled"}
  BY DEF Ordered
<1> USE <1>t, <1>o
<1> USE DEF Placed
<1>1. CASE StartJob
  BY <1>1 DEF StartJob, Queue!Start, Queue!Leave
<1>2. CASE Advance
  <2>1. PICK p \in Queue!Arrow(phase[active]) : phase' = [phase EXCEPT ![active] = p]
    BY <1>2 DEF Advance, Queue!Advance
  <2>2. active \in Jobs /\ phase[active] \in Phases
    BY <1>2 DEF Advance, Queue!Advance
  <2>3. p \in Phases \ {"new", "queued", "cancelled"}
    BY <2>1, <2>2, Arrows
  <2>4. QED
    BY <1>2, <2>1, <2>2, <2>3 DEF Advance, Queue!Advance, Wake
<1>3. CASE Finish
  BY <1>3 DEF Finish, Queue!Park, Queue!Retire
<1>4. CASE Shutdown
  BY <1>4 DEF Shutdown, Withdraw, Queue!Withdraw, Queue!Leave, Wake
<1>5. ASSUME NEW r \in RunJobs, SubmitRun(r) PROVE Placed'
  BY <1>5 DEF SubmitRun, LockFree, Queue!Enqueue
<1>6. ASSUME NEW c \in Clients, NEW k \in Kinds, Request(c, k) PROVE Placed'
  BY <1>6 DEF Request, Step
<1>7. ASSUME NEW c \in Clients, ReadCurrent(c) PROVE Placed'
  BY <1>7 DEF ReadCurrent, Step
<1>8. ASSUME NEW c \in Clients, ReadQueued(c) PROVE Placed'
  BY <1>8 DEF ReadQueued, Step
<1>9. ASSUME NEW c \in Clients, Refuse(c) PROVE Placed'
  BY <1>9 DEF Refuse, Step, Unlocks
<1>10. ASSUME NEW c \in Clients, StopRuns(c) PROVE Placed'
  BY <1>10 DEF StopRuns, RunsToStop, Step, Withdraw, Queue!Withdraw, Queue!Leave, Wake
<1>11. ASSUME NEW c \in Clients, NoActiveRun(c) PROVE Placed'
  BY <1>11 DEF NoActiveRun, Step
<1>12. ASSUME NEW c \in Clients, Register(c) PROVE Placed'
  BY <1>12 DEF Register, NewEvent, Step
<1>13. ASSUME NEW c \in Clients, SubmitAction(c) PROVE Placed'
  BY <1>13 DEF SubmitAction, Step, Unlocks, Queue!Enqueue
<1>14. ASSUME NEW c \in Clients, SubmitRefused(c) PROVE Placed'
  BY <1>14 DEF SubmitRefused, Step, Unlocks
<1>15. ASSUME NEW c \in Clients, Finished(c) PROVE Placed'
  BY <1>15 DEF Finished, Answer, Step
<1>16. ASSUME NEW c \in Clients, Timeout(c) PROVE Placed'
  BY <1>16 DEF Timeout, Answer, Step
<1>17. ASSUME NEW c \in Clients, CancelLate(c) PROVE Placed'
  BY <1>17 DEF CancelLate, CanCancel, Step, Withdraw, Queue!Withdraw, Queue!Leave, Wake
<1>18. CASE UNCHANGED callsVars
  BY <1>18 DEF callsVars
<1>19. QED
  BY <1>1, <1>2, <1>3, <1>4, <1>5, <1>6, <1>7, <1>8, <1>9, <1>10,
     <1>11, <1>12, <1>13, <1>14, <1>15, <1>16, <1>17, <1>18 DEF CallsNext, Calling

\* What a caller was told and how its job ended keep together.
LEMMA EndStep ==
    ASSUME TypeOK, Ordered, Placed, EndedAsTold, [CallsNext]_callsVars PROVE EndedAsTold'
<1> USE BenchActionsAssumption
<1> USE DEF workerVars, queueVars, clientVars, eventVars, Jobs, Answers
<1>t. /\ waiting \subseteq Jobs /\ ahead \in [Jobs -> SUBSET waiting]
      /\ active \in Jobs \cup {Unset} /\ phase \in [Jobs -> Phases]
      /\ at \in [Clients -> Places] /\ kind \in [Clients -> Kinds \cup {Unset}]
      /\ saw \in [Clients -> RunJobs \cup {Unset}] /\ answer \in [Clients -> Answers \cup {Unset}]
      /\ jobDone \subseteq Clients /\ done \subseteq Clients /\ asked \subseteq Jobs
      /\ stopping \in BOOLEAN
  BY DEF TypeOK
<1>o. /\ \A j \in waiting : phase[j] = "queued"
      /\ active \notin waiting
      /\ active \in Jobs => phase[active] \notin {"new", "cancelled"}
  BY DEF Ordered
<1> USE <1>t, <1>o
<1> USE DEF Placed, EndedAsTold, CallersAreAnswered, GivenUpNeverRuns, NoLostWake,
            AnsweredActionRan, terminal, Queue!Ended
<1>1. CASE StartJob
  BY <1>1 DEF StartJob, Queue!Start, Queue!Leave
<1>2. CASE Advance
  <2>1. PICK p \in Queue!Arrow(phase[active]) : phase' = [phase EXCEPT ![active] = p]
    BY <1>2 DEF Advance, Queue!Advance
  <2>2. active \in Jobs /\ phase[active] \in Phases
    BY <1>2 DEF Advance, Queue!Advance
  <2>3. p \in Phases \ {"new", "queued", "cancelled"} /\ phase[active] \notin Queue!Ended
    BY <2>1, <2>2, Arrows
  <2>4. /\ UNCHANGED <<active, asked, stopping, at, answer, jobDone>>
        /\ active \in Clients => p \in ActionStates /\ (p = "aborted" => active \in asked)
        /\ done' = done \cup ({j \in Clients : phase'[j] \in Queue!Ended} \cap jobDone)
    BY <1>2, <2>1, <2>2 DEF Advance, Queue!Advance, Wake
  <2>5. \A j \in Jobs : phase'[j] = IF j = active THEN p ELSE phase[j]
    BY <2>1, <2>2
  <2>6. \A c \in done' : terminal(c)'
    BY <2>3, <2>4, <2>5
  <2>7. \A c \in Clients : (terminal(c)' /\ ~stopping) =>
          phase'[c] \in {"done", "failed"} \/ (phase'[c] = "cancelled" /\ answer[c] = "cancelled")
    BY <2>3, <2>4, <2>5 DEF ActionStates
  <2>8. \A c \in Clients : answer[c] \in {"cancelled", "refused", "busy"} =>
          phase'[c] \in {"new", "cancelled"} /\ active # c
    BY <2>2, <2>3, <2>4, <2>5
  <2>9. \A c \in Clients : (at[c] = "wait" /\ terminal(c)') => c \in done'
    BY <2>4, <2>5
  <2>10. \A c \in Clients : (answer[c] = "ran" /\ ~stopping) => phase'[c] = "done"
    BY <2>2, <2>3, <2>4, <2>5
  <2>11. QED
    BY <2>4, <2>6, <2>7, <2>8, <2>9, <2>10
<1>3. CASE Finish
  BY <1>3 DEF Finish, Queue!Park, Queue!Retire
<1>4. CASE Shutdown
  BY <1>4 DEF Shutdown, Withdraw, Queue!Withdraw, Queue!Leave, Wake
<1>5. ASSUME NEW r \in RunJobs, SubmitRun(r) PROVE EndedAsTold'
  BY <1>5 DEF SubmitRun, LockFree, Queue!Enqueue
<1>6. ASSUME NEW c \in Clients, NEW k \in Kinds, Request(c, k) PROVE EndedAsTold'
  BY <1>6 DEF Request, Step
<1>7. ASSUME NEW c \in Clients, ReadCurrent(c) PROVE EndedAsTold'
  BY <1>7 DEF ReadCurrent, Step
<1>8. ASSUME NEW c \in Clients, ReadQueued(c) PROVE EndedAsTold'
  BY <1>8 DEF ReadQueued, Step
<1>9. ASSUME NEW c \in Clients, Refuse(c) PROVE EndedAsTold'
  BY <1>9 DEF Refuse, Step, Unlocks
<1>10. ASSUME NEW c \in Clients, StopRuns(c) PROVE EndedAsTold'
  BY <1>10 DEF StopRuns, RunsToStop, Step, Withdraw, Queue!Withdraw, Queue!Leave, Wake
<1>11. ASSUME NEW c \in Clients, NoActiveRun(c) PROVE EndedAsTold'
  BY <1>11 DEF NoActiveRun, Step
<1>12. ASSUME NEW c \in Clients, Register(c) PROVE EndedAsTold'
  BY <1>12 DEF Register, NewEvent, Step
<1>13. ASSUME NEW c \in Clients, SubmitAction(c) PROVE EndedAsTold'
  <2>1. /\ phase' = [phase EXCEPT ![c] = "queued"] /\ at' = [at EXCEPT ![c] = "wait"]
        /\ UNCHANGED <<active, asked, stopping, answer, done>>
        /\ phase[c] = "new" /\ at[c] = "submit"
    BY <1>13 DEF SubmitAction, Step, Queue!Enqueue
  <2>2. answer[c] = Unset
    BY <2>1
  <2>3. \A d \in Clients : phase'[d] = IF d = c THEN "queued" ELSE phase[d]
    BY <2>1
  <2>4. QED
    BY <2>1, <2>2, <2>3
<1>14. ASSUME NEW c \in Clients, SubmitRefused(c) PROVE EndedAsTold'
  BY <1>14 DEF SubmitRefused, Step, Unlocks
<1>15. ASSUME NEW c \in Clients, Finished(c) PROVE EndedAsTold'
  <2>1. /\ UNCHANGED <<phase, active, asked, stopping, done>>
        /\ c \in done /\ at[c] = "wait" /\ at' = [at EXCEPT ![c] = "answered"]
        /\ answer' = [answer EXCEPT ![c] = IF phase[c] = "failed" THEN "failed" ELSE "ran"]
    BY <1>15 DEF Finished, Answer, Step
  <2>2. answer[c] = Unset /\ (~stopping => phase[c] \in {"done", "failed"})
    BY <2>1
  <2>3. \A d \in Clients : d # c => answer'[d] = answer[d] /\ at'[d] = at[d]
    BY <2>1
  <2>4. answer'[c] \in {"failed", "ran"} /\ at'[c] = "answered"
    BY <2>1
  <2>5. (answer'[c] = "ran" /\ ~stopping) => phase[c] = "done"
    BY <2>1, <2>2
  <2>6. QED
    BY <2>1, <2>2, <2>3, <2>4, <2>5
<1>16. ASSUME NEW c \in Clients, Timeout(c) PROVE EndedAsTold'
  BY <1>16 DEF Timeout, Answer, Step
<1>17. ASSUME NEW c \in Clients, CancelLate(c) PROVE EndedAsTold'
  <2>1. /\ UNCHANGED <<active, asked, stopping, jobDone>>
        /\ at[c] = "late" /\ at' = [at EXCEPT ![c] = "answered"]
        /\ answer' = [answer EXCEPT ![c] = IF c \in waiting THEN "cancelled" ELSE "late"]
        /\ phase' = [j \in Jobs |-> IF j = c /\ c \in waiting THEN "cancelled" ELSE phase[j]]
        /\ done' = done \cup (({c} \cap waiting \cap Clients) \cap jobDone)
    BY <1>17 DEF CancelLate, CanCancel, Step, Withdraw, Queue!Withdraw, Wake
  <2>2. answer[c] = Unset
    BY <2>1
  <2>3. \A d \in Clients \ {c} : /\ answer'[d] = answer[d] /\ at'[d] = at[d]
                               /\ phase'[d] = phase[d]
    BY <2>1
  <2>4. /\ at'[c] = "answered"
        /\ c \in waiting => answer'[c] = "cancelled" /\ phase'[c] = "cancelled" /\ active # c
        /\ c \notin waiting => answer'[c] = "late" /\ phase'[c] = phase[c]
    BY <2>1
  <2>5. done \subseteq done' /\ done' \subseteq done \cup ({c} \cap waiting)
    BY <2>1
  <2>6. QED
    BY <2>1, <2>2, <2>3, <2>4, <2>5
<1>18. CASE UNCHANGED callsVars
  BY <1>18 DEF callsVars
<1>19. QED
  BY <1>1, <1>2, <1>3, <1>4, <1>5, <1>6, <1>7, <1>8, <1>9, <1>10,
     <1>11, <1>12, <1>13, <1>14, <1>15, <1>16, <1>17, <1>18 DEF CallsNext, Calling

\* Park keeps the way clear.
LEMMA ClearStep ==
    ASSUME TypeOK, Ordered, Placed, Cleared, [CallsNext]_callsVars PROVE Cleared'
<1> USE BenchActionsAssumption
<1> USE DEF workerVars, queueVars, clientVars, eventVars, Jobs, Answers
<1>t. /\ waiting \subseteq Jobs /\ ahead \in [Jobs -> SUBSET waiting]
      /\ active \in Jobs \cup {Unset} /\ phase \in [Jobs -> Phases]
      /\ at \in [Clients -> Places] /\ kind \in [Clients -> Kinds \cup {Unset}]
      /\ saw \in [Clients -> RunJobs \cup {Unset}] /\ answer \in [Clients -> Answers \cup {Unset}]
      /\ jobDone \subseteq Clients /\ done \subseteq Clients /\ asked \subseteq Jobs
      /\ stopping \in BOOLEAN
  BY DEF TypeOK
<1>o. /\ \A j \in waiting : phase[j] = "queued"
      /\ active \notin waiting
      /\ active \in Jobs => phase[active] \notin {"new", "cancelled"}
  BY DEF Ordered
<1> USE <1>t, <1>o
<1>q. /\ \A j \in Jobs \ waiting : ahead[j] = {}
      /\ \A i, j \in waiting : i = j \/ i \in ahead[j] \/ j \in ahead[i]
  BY DEF Ordered
<1>l. \A c \in Clients : lock = c <=>
          at[c] \in {"current", "queued", "decide", "register", "submit"}
  BY DEF TypeOK
<1> USE <1>q, <1>l
<1> USE DEF Placed, Cleared, ParkClearsTheWay, Ahead, terminal
<1>1. CASE StartJob
  BY <1>1 DEF StartJob, Queue!Start, Queue!Leave
<1>2. CASE Advance
  <2>1. PICK p \in Queue!Arrow(phase[active]) : phase' = [phase EXCEPT ![active] = p]
    BY <1>2 DEF Advance, Queue!Advance
  <2>2. active \in Jobs /\ phase[active] \in Phases
    BY <1>2 DEF Advance, Queue!Advance
  <2>3. p \in Phases \ {"new", "queued", "cancelled"} /\ phase[active] \notin Queue!Ended
    BY <2>1, <2>2, Arrows
  <2>4. UNCHANGED <<waiting, ahead, active, asked, lock, at, kind, saw>>
    BY <1>2 DEF Advance, Queue!Advance
  <2>5. \A j \in Jobs : j # active => phase'[j] = phase[j]
    BY <2>1, <2>2
  <2>6. QED
    BY <2>2, <2>3, <2>4, <2>5
<1>3. CASE Finish
  BY <1>3 DEF Finish, Queue!Park, Queue!Retire
<1>4. CASE Shutdown
  BY <1>4 DEF Shutdown, Withdraw, Queue!Withdraw, Queue!Leave, Wake
<1>5. ASSUME NEW r \in RunJobs, SubmitRun(r) PROVE Cleared'
  BY <1>5 DEF SubmitRun, LockFree, Queue!Enqueue
<1>6. ASSUME NEW c \in Clients, NEW k \in Kinds, Request(c, k) PROVE Cleared'
  BY <1>6 DEF Request, Step
<1>7. ASSUME NEW c \in Clients, ReadCurrent(c) PROVE Cleared'
  BY <1>7 DEF ReadCurrent, Step
<1>8. ASSUME NEW c \in Clients, ReadQueued(c) PROVE Cleared'
  BY <1>8 DEF ReadQueued, Step
<1>9. ASSUME NEW c \in Clients, Refuse(c) PROVE Cleared'
  BY <1>9 DEF Refuse, Step, Unlocks
<1>10. ASSUME NEW c \in Clients, StopRuns(c) PROVE Cleared'
  BY <1>10 DEF StopRuns, RunsToStop, Step, Withdraw, Queue!Withdraw, Queue!Leave, Wake
<1>11. ASSUME NEW c \in Clients, NoActiveRun(c) PROVE Cleared'
  BY <1>11 DEF NoActiveRun, Step
<1>12. ASSUME NEW c \in Clients, Register(c) PROVE Cleared'
  BY <1>12 DEF Register, NewEvent, Step
<1>13. ASSUME NEW c \in Clients, SubmitAction(c) PROVE Cleared'
  BY <1>13 DEF SubmitAction, Step, Unlocks, Queue!Enqueue
<1>14. ASSUME NEW c \in Clients, SubmitRefused(c) PROVE Cleared'
  BY <1>14 DEF SubmitRefused, Step, Unlocks
<1>15. ASSUME NEW c \in Clients, Finished(c) PROVE Cleared'
  BY <1>15 DEF Finished, Answer, Step
<1>16. ASSUME NEW c \in Clients, Timeout(c) PROVE Cleared'
  BY <1>16 DEF Timeout, Answer, Step
<1>17. ASSUME NEW c \in Clients, CancelLate(c) PROVE Cleared'
  BY <1>17 DEF CancelLate, CanCancel, Step, Withdraw, Queue!Withdraw, Queue!Leave, Wake
<1>18. CASE UNCHANGED callsVars
  BY <1>18 DEF callsVars
<1>19. QED
  BY <1>1, <1>2, <1>3, <1>4, <1>5, <1>6, <1>7, <1>8, <1>9, <1>10,
     <1>11, <1>12, <1>13, <1>14, <1>15, <1>16, <1>17, <1>18 DEF CallsNext, Calling

-----------------------------------------------------------------------------
LEMMA InitInv == CallsInit => CallsInv
<1> SUFFICES ASSUME CallsInit PROVE CallsInv
  OBVIOUS
<1> USE BenchActionsAssumption DEF CallsInit, Queue!Init, Jobs
<1>1. TypeOK
  BY DEF TypeOK, Kinds, Phases, Answers, Places, Queue!Ended
<1>2. Ordered /\ Placed
  BY DEF Ordered, Placed
<1>3. EndedAsTold
  BY DEF EndedAsTold, CallersAreAnswered, GivenUpNeverRuns, NoLostWake, AnsweredActionRan,
         Answers, terminal, Queue!Ended
<1>4. Cleared
  BY DEF Cleared, ParkClearsTheWay
<1>5. QED
  BY <1>1, <1>2, <1>3, <1>4 DEF CallsInv

\* The invariant of the callers and their queue holds throughout, whatever runs come and go,
\* whoever times out and whenever the service shuts down (bench_action, bench_read, _await).
THEOREM CallersInvariant == CallsSpec => []CallsInv
<1>1. CallsInv /\ [CallsNext]_callsVars => CallsInv'
  BY TypeStep, OrderStep, PlaceStep, EndStep, ClearStep DEF CallsInv
<1>2. QED
  BY <1>1, InitInv, PTL DEF CallsSpec

\* A park that found a run active waits for no run that was not told to abort: between its
\* stop_runs and its submit the session's lock lets no run in (bench_action), for any number
\* of runs and of other callers.
THEOREM ParkIsClear == CallsSpec => []ParkClearsTheWay
<1>1. CallsInv => ParkClearsTheWay
  BY DEF CallsInv, Cleared
<1>2. QED
  BY <1>1, CallersInvariant, PTL

\* What a caller is told of its action is so: given up it never runs, answered as run it ran
\* unless the service shut down, and no wake-up is lost (bench_action, bench_read, _await).
THEOREM CallersHeard == CallsSpec => []CallersAreAnswered
<1>1. CallsInv => CallersAreAnswered
  BY DEF CallsInv, EndedAsTold
<1>2. QED
  BY <1>1, CallersInvariant, PTL
================================================================================
