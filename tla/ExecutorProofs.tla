---------------------------- MODULE ExecutorProofs ----------------------------
(***************************************************************************)
(* Theorems about temperature.settle and about the executor that enters    *)
(* it, for any schedules whose loops pair and whose temperatures are among *)
(* Setpoints.  The executor uses settle as TemperatureLoop says, so what   *)
(* is proved of one settle holds of every node; a run ends with one last   *)
(* word; the nodes told and not done are the open iterations; and a        *)
(* settled label is in force while its node runs, in the schedules where   *)
(* no measurement comes back to a label of an earlier setpoint.            *)
(***************************************************************************)
EXTENDS Executor, TLAPS, NaturalsInduction, WellFoundedInduction

-----------------------------------------------------------------------------
\* One settle.

\* The clock of a node: silence before the write is counted poll by poll, and after the
\* deadline only a dwell that is under way adds to it.
Clock ==
    /\ phase \in Polling => steady <= HoldPolls /\ misses < SilentReads
    /\ (phase \in Polling /\ ~written) => calls = 0 /\ steady = 0
    /\ (phase = "top" /\ ~written) => elapsed = misses
    /\ (phase = "read" /\ ~written) => elapsed < SilentReads
    /\ (phase \in Polling /\ written) => elapsed <= TimeoutPolls + SilentReads + steady
    /\ DeadlineHolds

\* The dwell counts exactly the run of good polls, and a node that wrote holds its
\* setpoint in the controller until it leaves.
Held ==
    /\ goodRun = steady
    /\ (written /\ phase # "idle") => inForce = target
    /\ SettledMeansHeld

\* What the node heard is what it can label with.
Readings ==
    /\ phase = "read" => heard /\ last # None
    /\ heard => last # None \/ polled # None
    /\ phase = "resumed" =>
          result.how = "operator" /\ (result.k = None => ~heard)
    /\ SetpointMeansNoReading
    /\ WrittenOnce

IInv == TypeOK /\ Clock /\ Held /\ Readings

-----------------------------------------------------------------------------
\* A Settled has the fields it was made with.
LEMMA Outcomes ==
    ASSUME NEW how \in {"settled", "operator", "stopped"}, NEW k \in Kelvins \cup {None},
           NEW source \in {"instrument", "operator", ""}
    PROVE  /\ Outcome(how, k, source) \in Results
           /\ Outcome(how, k, source).how = how /\ Outcome(how, k, source).k = k
  BY DEF Outcome, Results

\* Every step keeps the types.
LEMMA TypeStep ==
    ASSUME TypeOK, Clock, [Next]_tempVars
    PROVE  TypeOK'
<1> USE TemperatureAssumption
<1> USE DEF Polling, Asking, Phases, pollVars, madeVars, settleVars, TypeOK, Clock
<1>1. CASE StopSeen
  <2>o. /\ Outcome("stopped", None, "") \in Results
        /\ Outcome("stopped", None, "").how = "stopped"
        /\ Outcome("stopped", None, "").k = None
    BY Outcomes
  <2>1. QED
    BY <1>1, <2>o DEF StopSeen
<1>2. CASE ReadFails
  BY <1>2 DEF ReadFails, Wait, Overdue, NextPoll
<1>3. CASE Read
  BY <1>3 DEF Read
<1>4. CASE Write
  <2>1. written' \in BOOLEAN /\ phase' \in {"read", "pause"}
    BY <1>4 DEF Write, WriteTaken, WriteRefused, WriteUnanswered
  <2>2. inForce' \in Setpoints \cup {None} /\ elapsed' = elapsed /\ calls' = calls + 1
    BY <1>4 DEF Write, WriteTaken, WriteRefused, WriteUnanswered
  <2>3. UNCHANGED <<attached, target, misses, last, ramping, steady, polled, result,
                    stop, heard, goodRun>>
    BY <1>4 DEF Write
  <2>4. QED
    BY <2>1, <2>2, <2>3
<1>5. CASE Judge
  <2>1. /\ phase' \in Phases /\ goodRun' \in Nat /\ elapsed' \in Nat
        /\ steady' \in 0..(HoldPolls + 1)
    BY <1>5 DEF Judge, Dwell, Excursion, Wait, Overdue, NextPoll
  <2>2. result' = result \/ result' = Outcome("settled", last, "instrument")
    BY <1>5 DEF Judge, Dwell, Excursion
  <2>3. Outcome("settled", last, "instrument") \in Results
    BY Outcomes
  <2>4. UNCHANGED <<attached, target, misses, last, ramping, written, polled, stop, inForce,
                    calls, heard>>
    BY <1>5 DEF Judge
  <2>5. QED
    BY <2>1, <2>2, <2>3, <2>4
<1>6. CASE CloseGenerator
  BY <1>6 DEF CloseGenerator
<1>7. CASE OpenPause
  BY <1>7 DEF OpenPause
<1>8. CASE StopWakes
  <2>o. /\ Outcome("stopped", None, "") \in Results
        /\ Outcome("stopped", None, "").how = "stopped"
        /\ Outcome("stopped", None, "").k = None
    BY Outcomes
  <2>1. QED
    BY <1>8, <2>o DEF StopWakes
<1>9. CASE HoldAfterResume
  BY <1>9 DEF HoldAfterResume
<1>10. CASE PollWhilePaused
  BY <1>10 DEF PollWhilePaused
<1>11. CASE Resume
  <2>1. PICK typed \in Kelvins \cup {None} :
           result' = Outcome("operator", Accepted(typed),
                             IF typed # None THEN "operator"
                             ELSE IF attached THEN "instrument" ELSE "")
    BY <1>11 DEF Resume
  <2>2. Accepted(typed) \in Kelvins \cup {None}
    BY DEF Accepted
  <2>3. /\ result' \in Results
        /\ result'.how = "operator" /\ result'.k = Accepted(typed)
    BY <2>1, <2>2, Outcomes
  <2>4. QED
    BY <1>11, <2>3 DEF Resume
<1>12. CASE \E mode \in {"after_shot", "abort"} : RequestStop(mode)
  BY <1>12 DEF RequestStop
<1>13. CASE Leave
  <2>1. ramping' \in BOOLEAN /\ written' \in BOOLEAN /\ heard' \in BOOLEAN
    BY <1>13 DEF Leave
  <2>2. target' \in Setpoints \cup {None} /\ phase' \in Phases
    BY <1>13 DEF Leave
  <2>3. /\ misses' = 0 /\ steady' = 0 /\ elapsed' = 0 /\ calls' = 0 /\ goodRun' = 0
        /\ last' = None /\ polled' = None /\ result' = None
        /\ UNCHANGED <<attached, stop, inForce>>
    BY <1>13 DEF Leave
  <2>4. QED
    BY <2>1, <2>2, <2>3
<1>14. CASE \E s \in Setpoints : phase = "idle" /\ Begin(s)
  <2>1. ramping' \in BOOLEAN /\ written' \in BOOLEAN /\ heard' \in BOOLEAN
    BY <1>14 DEF Begin
  <2>2. target' \in Setpoints \cup {None} /\ phase' \in Phases
    BY <1>14 DEF Begin
  <2>3. /\ misses' = 0 /\ steady' = 0 /\ elapsed' = 0 /\ calls' = 0 /\ goodRun' = 0
        /\ last' = None /\ polled' = None /\ result' = None
        /\ UNCHANGED <<attached, stop, inForce>>
    BY <1>14 DEF Begin
  <2>4. QED
    BY <2>1, <2>2, <2>3
<1>15. CASE UNCHANGED tempVars
  BY <1>15 DEF tempVars, settleVars
<1>16. QED
  BY <1>1, <1>2, <1>3, <1>4, <1>5, <1>6, <1>7, <1>8, <1>9, <1>10, <1>11, <1>12, <1>13, <1>14, <1>15
     DEF Next, TempStep, SettleStep, PauseStep

\* Every step keeps the clock.
LEMMA ClockStep ==
    ASSUME TypeOK, Clock, [Next]_tempVars
    PROVE  Clock'
<1> USE TemperatureAssumption
<1> USE DEF Polling, Asking, Phases, pollVars, madeVars, settleVars, TypeOK, Clock, DeadlineHolds
<1>1. CASE StopSeen
  BY <1>1 DEF StopSeen
<1>2. CASE ReadFails
  BY <1>2 DEF ReadFails, Wait, Overdue, NextPoll
<1>3. CASE Read
  BY <1>3 DEF Read
<1>4. CASE Write
  BY <1>4 DEF Write, WriteTaken, WriteRefused, WriteUnanswered
<1>5. CASE Judge
  <2>1. CASE Good
    BY <1>5, <2>1 DEF Judge, Dwell, Excursion, NextPoll
  <2>2. CASE ~Good
    BY <1>5, <2>2 DEF Judge, Dwell, Excursion, Wait, Overdue, NextPoll
  <2>3. QED
    BY <2>1, <2>2
<1>6. CASE CloseGenerator
  BY <1>6 DEF CloseGenerator
<1>7. CASE OpenPause
  BY <1>7 DEF OpenPause
<1>8. CASE StopWakes
  BY <1>8 DEF StopWakes
<1>9. CASE HoldAfterResume
  BY <1>9 DEF HoldAfterResume
<1>10. CASE PollWhilePaused
  BY <1>10 DEF PollWhilePaused
<1>11. CASE Resume
  BY <1>11 DEF Resume, Accepted
<1>12. CASE \E mode \in {"after_shot", "abort"} : RequestStop(mode)
  BY <1>12 DEF RequestStop
<1>13. CASE Leave
  BY <1>13 DEF Leave
<1>14. CASE \E s \in Setpoints : phase = "idle" /\ Begin(s)
  BY <1>14 DEF Begin
<1>15. CASE UNCHANGED tempVars
  BY <1>15 DEF tempVars, settleVars
<1>16. QED
  BY <1>1, <1>2, <1>3, <1>4, <1>5, <1>6, <1>7, <1>8, <1>9, <1>10, <1>11, <1>12, <1>13, <1>14, <1>15
     DEF Next, TempStep, SettleStep, PauseStep

\* Every step keeps the dwell.
LEMMA HeldStep ==
    ASSUME TypeOK, Clock, Held, Readings, [Next]_tempVars
    PROVE  Held'
<1> USE TemperatureAssumption
<1> USE DEF Polling, Asking, Phases, pollVars, madeVars, settleVars, TypeOK, Held,
            SettledMeansHeld, Readings
<1>1. CASE StopSeen
  <2>o. Outcome("stopped", None, "").how = "stopped"
    BY Outcomes
  <2>1. QED
    BY <1>1, <2>o DEF StopSeen
<1>2. CASE ReadFails
  BY <1>2 DEF ReadFails, Wait, Overdue, NextPoll
<1>3. CASE Read
  BY <1>3 DEF Read
<1>4. CASE Write
  BY <1>4 DEF Write, WriteTaken, WriteRefused, WriteUnanswered
<1>5. CASE Judge
  <2>1. goodRun' = steady'
    BY <1>5 DEF Judge, Dwell, Excursion
  <2>2. phase' = "done" => goodRun' > HoldPolls
    BY <1>5 DEF Judge, Dwell, Excursion, Wait, NextPoll
  <2>3. written /\ inForce = target /\ UNCHANGED <<written, inForce, target>>
    BY <1>5 DEF Judge
  <2>4. QED
    BY <2>1, <2>2, <2>3
<1>6. CASE CloseGenerator
  BY <1>6 DEF CloseGenerator
<1>7. CASE OpenPause
  BY <1>7 DEF OpenPause
<1>8. CASE StopWakes
  <2>o. Outcome("stopped", None, "").how = "stopped"
    BY Outcomes
  <2>1. QED
    BY <1>8, <2>o DEF StopWakes
<1>9. CASE HoldAfterResume
  BY <1>9 DEF HoldAfterResume
<1>10. CASE PollWhilePaused
  BY <1>10 DEF PollWhilePaused
<1>11. CASE Resume
  BY <1>11, Outcomes DEF Resume, Accepted
<1>12. CASE \E mode \in {"after_shot", "abort"} : RequestStop(mode)
  BY <1>12 DEF RequestStop
<1>13. CASE Leave
  BY <1>13 DEF Leave
<1>14. CASE \E s \in Setpoints : phase = "idle" /\ Begin(s)
  BY <1>14 DEF Begin
<1>15. CASE UNCHANGED tempVars
  BY <1>15 DEF tempVars, settleVars
<1>16. QED
  BY <1>1, <1>2, <1>3, <1>4, <1>5, <1>6, <1>7, <1>8, <1>9, <1>10, <1>11, <1>12, <1>13, <1>14, <1>15
     DEF Next, TempStep, SettleStep, PauseStep

\* Every step keeps what was heard.
LEMMA ReadingsStep ==
    ASSUME TypeOK, Clock, Readings, [Next]_tempVars
    PROVE  Readings'
<1> USE TemperatureAssumption
<1> USE DEF Polling, Asking, Phases, pollVars, madeVars, settleVars, TypeOK, Clock, Readings,
            SetpointMeansNoReading, WrittenOnce
<1>1. CASE StopSeen
  <2>o. Outcome("stopped", None, "").how = "stopped"
    BY Outcomes
  <2>1. QED
    BY <1>1, <2>o DEF StopSeen
<1>2. CASE ReadFails
  BY <1>2 DEF ReadFails, Wait, Overdue, NextPoll
<1>3. CASE Read
  BY <1>3 DEF Read
<1>4. CASE Write
  BY <1>4 DEF Write, WriteTaken, WriteRefused, WriteUnanswered
<1>5. CASE Judge
  <2>1. phase' = "done" => result' = Outcome("settled", last, "instrument")
    BY <1>5 DEF Judge, Dwell, Excursion, Wait, NextPoll
  <2>2. Outcome("settled", last, "instrument").how = "settled"
    BY DEF Outcome
  <2>3. /\ phase' \in {"done", "top", "pause"}
        /\ UNCHANGED <<last, polled, heard, calls>>
    BY <1>5 DEF Judge, Dwell, Excursion, Wait, NextPoll
  <2>4. QED
    BY <2>1, <2>2, <2>3
<1>6. CASE CloseGenerator
  BY <1>6 DEF CloseGenerator
<1>7. CASE OpenPause
  BY <1>7 DEF OpenPause
<1>8. CASE StopWakes
  <2>o. Outcome("stopped", None, "").how = "stopped"
    BY Outcomes
  <2>1. QED
    BY <1>8, <2>o DEF StopWakes
<1>9. CASE HoldAfterResume
  BY <1>9 DEF HoldAfterResume
<1>10. CASE PollWhilePaused
  BY <1>10 DEF PollWhilePaused
<1>11. CASE Resume
  <2>1. PICK typed \in Kelvins \cup {None} :
           result' = Outcome("operator", Accepted(typed),
                             IF typed # None THEN "operator"
                             ELSE IF attached THEN "instrument" ELSE "")
    BY <1>11 DEF Resume
  <2>2. Accepted(typed) \in Kelvins \cup {None}
    BY DEF Accepted
  <2>3. /\ result'.how = "operator" /\ result'.k = Accepted(typed)
    BY <2>1 DEF Outcome
  <2>4. Accepted(typed) = None => last = None /\ polled = None
    BY DEF Accepted
  <2>5. /\ phase' = "resumed"
        /\ UNCHANGED <<last, polled, heard, calls>>
    BY <1>11 DEF Resume
  <2>6. QED
    BY <2>3, <2>4, <2>5
<1>12. CASE \E mode \in {"after_shot", "abort"} : RequestStop(mode)
  BY <1>12 DEF RequestStop
<1>13. CASE Leave
  BY <1>13 DEF Leave
<1>14. CASE \E s \in Setpoints : phase = "idle" /\ Begin(s)
  BY <1>14 DEF Begin
<1>15. CASE UNCHANGED tempVars
  BY <1>15 DEF tempVars, settleVars
<1>16. QED
  BY <1>1, <1>2, <1>3, <1>4, <1>5, <1>6, <1>7, <1>8, <1>9, <1>10, <1>11, <1>12, <1>13, <1>14, <1>15
     DEF Next, TempStep, SettleStep, PauseStep

\* It holds at the start.
LEMMA IInvAtStart == TempInit => IInv
<1> SUFFICES ASSUME TempInit PROVE IInv
  OBVIOUS
<1> USE TemperatureAssumption DEF TempInit
<1>1. attached \in BOOLEAN /\ ramping \in BOOLEAN /\ written \in BOOLEAN /\ heard \in BOOLEAN
  OBVIOUS
<1>2. /\ misses = 0 /\ steady = 0 /\ elapsed = 0 /\ calls = 0 /\ goodRun = 0
      /\ target = None /\ last = None /\ polled = None /\ result = None
      /\ inForce = None /\ stop = "none" /\ phase = "idle"
  OBVIOUS
<1>3. TypeOK
  BY <1>1, <1>2 DEF TypeOK, Phases, Polling, Asking
<1>4. Clock
  BY DEF Clock, DeadlineHolds, Polling
<1>5. Held
  BY DEF Held, SettledMeansHeld
<1>6. Readings
  BY DEF Readings, SetpointMeansNoReading, WrittenOnce
<1>7. QED
  BY <1>3, <1>4, <1>5, <1>6 DEF IInv

\* Every step keeps it.
LEMMA IInvStep ==
    ASSUME IInv, [Next]_tempVars
    PROVE  IInv'
  BY TypeStep, ClockStep, HeldStep, ReadingsStep DEF IInv

\* The inductive invariant holds in every state of every execution.
THEOREM Inductive == Spec => []IInv
<1>1. TempInit => IInv
  BY IInvAtStart
<1>2. IInv /\ [Next]_tempVars => IInv'
  BY IInvStep
<1>3. QED
  BY <1>1, <1>2, PTL DEF Spec

\* Every variable of a settle keeps its type, elapsed and the dwell within their limits.
THEOREM TempTypeCorrect == Spec => []TypeOK
<1>1. IInv => TypeOK
  BY DEF IInv
<1>2. QED
  BY <1>1, Inductive, PTL

\* A node that reports settled dwelt in the band for the whole of hold_s, poll by poll,
\* with the controller holding its setpoint: settle, lines 343-381.
THEOREM SettledMeansHeldAlways == Spec => []SettledMeansHeld
<1>1. IInv => SettledMeansHeld
  BY DEF IInv, Held
<1>2. QED
  BY <1>1, Inductive, PTL

\* A settle writes the setpoint at most once and only after a reading: settle, lines
\* 299-331.
THEOREM WrittenAtMostOnce == Spec => []WrittenOnce
<1>1. IInv => WrittenOnce
  BY DEF IInv, Readings
<1>2. QED
  BY <1>1, Inductive, PTL

\* The clock of a node never passes its silence, its timeout and one dwell together:
\* settle, lines 289-358.
THEOREM DeadlineAlwaysHolds == Spec => []DeadlineHolds
<1>1. IInv => DeadlineHolds
  BY DEF IInv, Clock
<1>2. QED
  BY <1>1, Inductive, PTL

\* An operator's resume leaves the label to the setpoint only when the controller was
\* never heard: _pause and _wait, lines 412-510.
THEOREM SetpointLabelIsLast == Spec => []SetpointMeansNoReading
<1>1. IInv => SetpointMeansNoReading
  BY DEF IInv, Readings
<1>2. QED
  BY <1>1, Inductive, PTL

\* The four of them are what temperature.settle keeps, whatever the controller answers and
\* whenever the run is stopped.
THEOREM SettleSound == Spec => []SettleKept
BY SettledMeansHeldAlways, WrittenAtMostOnce, DeadlineAlwaysHolds, SetpointLabelIsLast, PTL
     DEF SettleKept

-----------------------------------------------------------------------------
\* The walk that enters it.

\* Where the walk stands: the step it is at exists, and a settle is under way only in a
\* temperature node.
Place ==
    /\ job \in Schedules /\ pos \in Nat \ {0}
    /\ pc \in {"told", "running"} => pos <= Len(job) /\ Here.kind = "module"
    /\ pc \in {"step", "told", "stopping", "stopped", "failing"} => phase = "idle"
    /\ (pc = "running" /\ Here.name # "temperature") => phase = "idle"

\* What has been said so far of the run's end.
Words ==
    /\ pc \in {"step", "settling", "told", "running", "stopping"} => ends = << >>
    /\ pc = "stopped" => ends = <<"aborted">>
    /\ pc = "failing" => ends \in Seq({"aborted", "failed"})
    /\ OneLastWord

-----------------------------------------------------------------------------
\* Every step of the walk keeps its place.
LEMMA PlaceStep ==
    ASSUME Place, [ExecNext]_execVars
    PROVE  Place'
<1> USE ScheduleAssumption
<1> USE DEF Place, Here, Steps, AtStep
<1>1. CASE StopAtNode BY <1>1 DEF StopAtNode, tempVars, settleVars
<1>2. CASE Enter BY <1>2 DEF Enter, tempVars, settleVars
<1>3. CASE Entered BY <1>3 DEF Entered, Leave
<1>4. CASE AbortRaised BY <1>4 DEF AbortRaised
<1>5. CASE Exit BY <1>5 DEF Exit, tempVars, settleVars
<1>6. CASE Return BY <1>6 DEF Return
<1>7. CASE StartModule BY <1>7 DEF StartModule, tempVars, settleVars
<1>8. CASE Build BY <1>8 DEF Build, tempVars, settleVars
<1>9. CASE Curve BY <1>9 DEF Curve, tempVars, settleVars
<1>10. CASE Complete BY <1>10 DEF Complete, EndModule, Closing, tempVars, settleVars
<1>11. CASE StopInModule
  BY <1>11 DEF StopInModule, EndModule, Closing, Measurements, tempVars, settleVars
<1>12. CASE TemperatureSet BY <1>12 DEF TemperatureSet, EndModule, Closing, Leave
<1>13. CASE Raise BY <1>13 DEF Raise, tempVars, settleVars
<1>14. CASE RaiseAfterStop BY <1>14 DEF RaiseAfterStop, tempVars, settleVars
<1>15. CASE CloseOne BY <1>15 DEF CloseOne, tempVars, settleVars
<1>16. CASE TellEnd BY <1>16 DEF TellEnd
<1>17. CASE WorkerCloses BY <1>17 DEF WorkerCloses
<1>18. CASE Settling BY <1>18 DEF Settling, walkVars
<1>19. CASE Operator BY <1>19 DEF Operator, walkVars, PollWhilePaused, Resume
<1>20. CASE Stopping BY <1>20 DEF Stopping, walkVars, RequestStop, settleVars
<1>21. CASE UNCHANGED execVars BY <1>21 DEF execVars, walkVars, tempVars, settleVars
<1>22. QED
  BY <1>1, <1>2, <1>3, <1>4, <1>5, <1>6, <1>7, <1>8, <1>9, <1>10, <1>11, <1>12, <1>13, <1>14,
     <1>15, <1>16, <1>17, <1>18, <1>19, <1>20, <1>21
     DEF ExecNext, Walk1, LoopStep1, ModuleStep1, CloseStep

\* Every step of the walk is a step of temperature.settle or leaves it alone.
LEMMA SettleRefined ==
    ASSUME Place, [ExecNext]_execVars
    PROVE  [Next]_tempVars
<1> USE ScheduleAssumption
<1> USE DEF Place, Here, Steps, AtStep
<1>1. CASE StopAtNode BY <1>1 DEF StopAtNode
<1>2. CASE Enter BY <1>2 DEF Enter, Next
<1>3. CASE Entered BY <1>3 DEF Entered, Next
<1>4. CASE AbortRaised BY <1>4 DEF AbortRaised
<1>5. CASE Exit BY <1>5 DEF Exit
<1>6. CASE Return BY <1>6 DEF Return
<1>7. CASE StartModule BY <1>7 DEF StartModule
<1>8. CASE Build BY <1>8 DEF Build, Next
<1>9. CASE Curve BY <1>9 DEF Curve
<1>10. CASE Complete BY <1>10 DEF Complete
<1>11. CASE StopInModule BY <1>11 DEF StopInModule
<1>12. CASE TemperatureSet BY <1>12 DEF TemperatureSet, Next
<1>13. CASE Raise BY <1>13 DEF Raise
<1>14. CASE RaiseAfterStop BY <1>14 DEF RaiseAfterStop
<1>15. CASE CloseOne BY <1>15 DEF CloseOne
<1>16. CASE TellEnd BY <1>16 DEF TellEnd
<1>17. CASE WorkerCloses BY <1>17 DEF WorkerCloses
<1>18. CASE Settling BY <1>18 DEF Settling, Next, TempStep
<1>19. CASE Operator BY <1>19 DEF Operator, Next, TempStep
<1>20. CASE Stopping BY <1>20 DEF Stopping, Next
<1>21. CASE UNCHANGED execVars BY <1>21 DEF execVars
<1>22. QED
  BY <1>1, <1>2, <1>3, <1>4, <1>5, <1>6, <1>7, <1>8, <1>9, <1>10, <1>11, <1>12, <1>13, <1>14,
     <1>15, <1>16, <1>17, <1>18, <1>19, <1>20, <1>21
     DEF ExecNext, Walk1, LoopStep1, ModuleStep1, CloseStep

\* The executor implements temperature.settle in every node that settles: _enter and the
\* temperature module call it when no settle is under way and take its result once.
LEMMA RefinesSettle == ExecSpec => ImplementsSettle
<1>1. Init => TempInit
  BY DEF Init
<1>2. Init => Place
  BY DEF Init, TempInit, Place
<1>3. Place /\ [ExecNext]_execVars => Place'
  BY PlaceStep
<1>4. Place /\ [ExecNext]_execVars => [Next]_tempVars
  BY SettleRefined
<1>5. QED
  BY <1>1, <1>2, <1>3, <1>4, PTL DEF ExecSpec, Spec, ImplementsSettle

\* Hence of every node the executor walks: reported settled means dwelt in the band under
\* its own setpoint, written once and within the deadline.
THEOREM NodesAreHeld == ExecSpec => []SettleKept
  BY RefinesSettle, SettleSound, PTL DEF ImplementsSettle

-----------------------------------------------------------------------------
\* Every step keeps the account of what was said.
LEMMA WordsStep ==
    ASSUME Words, [ExecNext]_execVars
    PROVE  Words'
<1> USE DEF Words, OneLastWord, Top, AtStep
<1>1. CASE StopAtNode BY <1>1 DEF StopAtNode
<1>2. CASE Enter BY <1>2 DEF Enter
<1>3. CASE Entered BY <1>3 DEF Entered
<1>4. CASE AbortRaised BY <1>4 DEF AbortRaised
<1>5. CASE Exit BY <1>5 DEF Exit
<1>6. CASE Return BY <1>6 DEF Return
<1>7. CASE StartModule BY <1>7 DEF StartModule
<1>8. CASE Build BY <1>8 DEF Build
<1>9. CASE Curve BY <1>9 DEF Curve
<1>10. CASE Complete BY <1>10 DEF Complete, EndModule, Closing
<1>11. CASE StopInModule
  <2>1. CASE Here.name = "bace"
    <3>1. ends' = <<"aborted">> /\ pc' = "stopped"
      BY <1>11, <2>1 DEF StopInModule, EndModule, Closing
    <3>2. QED
      BY <3>1
  <2>2. CASE Here.name # "bace"
    <3>1. ends' = << >> /\ pc' \in {"stopping", "step"}
      BY <1>11, <2>2 DEF StopInModule, EndModule, Closing
    <3>2. QED
      BY <3>1
  <2>3. QED
    BY <2>1, <2>2
<1>12. CASE TemperatureSet
  <2>1. CASE result.how = "stopped"
    <3>1. ends' = <<"aborted">> /\ pc' = "stopped"
      BY <1>12, <2>1 DEF TemperatureSet, EndModule, Closing
    <3>2. QED
      BY <3>1
  <2>2. CASE result.how # "stopped"
    <3>1. ends' = << >> /\ pc' \in {"stopping", "step"}
      BY <1>12, <2>2 DEF TemperatureSet, EndModule, Closing, Measurements
    <3>2. QED
      BY <3>1
  <2>3. QED
    BY <2>1, <2>2
<1>13. CASE Raise BY <1>13 DEF Raise
<1>14. CASE RaiseAfterStop
  <2>1. ends' = <<"aborted">> /\ pc' = "failing"
    BY <1>14 DEF RaiseAfterStop
  <2>2. ends' \in Seq({"aborted", "failed"})
    BY <2>1
  <2>3. QED
    BY <2>1, <2>2
<1>15. CASE CloseOne BY <1>15 DEF CloseOne
<1>16. CASE TellEnd
  <2>1. CASE pc = "stopping"
    BY <1>16, <2>1 DEF TellEnd
  <2>2. CASE pc = "stopped"
    BY <1>16, <2>2 DEF TellEnd
  <2>3. CASE pc = "failing"
    <3>1. ends' = Append(ends, "failed") /\ ends \in Seq({"aborted", "failed"})
      BY <1>16, <2>3 DEF TellEnd
    <3>2. ends' # << >> /\ ends'[Len(ends')] = "failed"
      BY <3>1
    <3>3. pc' = "ended" /\ outcome' = "failed"
      BY <1>16, <2>3 DEF TellEnd
    <3>4. QED
      BY <3>2, <3>3
  <2>4. QED
    BY <1>16, <2>1, <2>2, <2>3 DEF TellEnd
<1>17. CASE WorkerCloses BY <1>17 DEF WorkerCloses
<1>18. CASE Settling BY <1>18 DEF Settling, walkVars
<1>19. CASE Operator BY <1>19 DEF Operator, walkVars
<1>20. CASE Stopping BY <1>20 DEF Stopping, walkVars
<1>21. CASE UNCHANGED execVars BY <1>21 DEF execVars, walkVars
<1>22. QED
  BY <1>1, <1>2, <1>3, <1>4, <1>5, <1>6, <1>7, <1>8, <1>9, <1>10, <1>11, <1>12, <1>13, <1>14,
     <1>15, <1>16, <1>17, <1>18, <1>19, <1>20, <1>21
     DEF ExecNext, Walk1, LoopStep1, ModuleStep1, CloseStep

\* A stopped run says RunAborted once, a failed one RunFailed last, a completed one
\* neither, wherever in the tree it ended: _module and _stop, lines 365-455 and 609-648.
THEOREM OneLastWordAlways == ExecSpec => []OneLastWord
<1>1. Init => Words
  BY DEF Init, Words, OneLastWord
<1>2. Words /\ [ExecNext]_execVars => Words'
  BY WordsStep
<1>3. Words => OneLastWord
  BY DEF Words
<1>4. QED
  BY <1>1, <1>2, <1>3, PTL DEF ExecSpec
-----------------------------------------------------------------------------
\* What a settle answers: a setpoint is asked for until it leaves, an answer is there when
\* it has ended, and a node that settled was read in the band of its setpoint.
Answer ==
    /\ phase # "idle" => target \in Setpoints
    /\ phase \in {"resumed", "done"} => result \in Results
    /\ (phase = "done" /\ result.how = "settled") => result.k \in Kelvins /\ InBand(result.k)
    /\ (phase = "done" /\ result.how = "stopped") => result.k = None
    /\ (phase = "done" /\ result.how = "stopped") => result.k = None
    /\ (phase = "done" /\ result.how = "stopped") => result.k = None

\* The labels and the iterations there may be.
Labels == [k : Kelvins \cup Setpoints \cup {None},
           how : {"", "setpoint", "read", "settled", "operator"}, at : Nat]
PathsOf(steps) == {steps[i].path : i \in 1..Len(steps)}
Iterations == [path : PathsOf(job), label : Labels]
WalkTypes ==
    /\ open \in Seq(Iterations) /\ told \in Seq(PathsOf(job))
    /\ root \in Labels /\ label \in Labels

\* The open iterations are those the step lies in, and a temperature iteration that
\* settles is the innermost.
Around == Nest(job)[pos]
Tree ==
    /\ pos <= Len(job) + 1
    /\ pc \in {"step", "told", "running"} => Len(open) = Len(Around)
    /\ pc = "settling" => /\ pos <= Len(job) /\ IsHot(Here)
                          /\ Len(open) = Len(Around) + 1 /\ open[Len(open)].path = Here.path
    /\ pc \in {"step", "told", "running", "settling"} =>
          \A e \in 1..Len(Around) : open[e].path = job[Around[e]].path

\* The nodes told and not done are the open iterations and the module that runs.
Account ==
    /\ pc # "ended" =>
          /\ Len(told) = Len(open) + (IF pc \in {"told", "running"} THEN 1 ELSE 0)
          /\ \A e \in 1..Len(open) : told[e] = open[e].path
          /\ pc \in {"told", "running"} => told[Len(told)] = Here.path
          /\ outcome = None
    /\ NodesClosed

\* A label is of an earlier step.
Dated ==
    /\ pc \in {"step", "told", "running", "settling"} => root.at < pos
    /\ pc \in {"step", "told", "running"} => \A e \in 1..Len(open) : open[e].label.at < pos
    /\ pc = "settling" => /\ \A e \in 1..(Len(open) - 1) : open[e].label.at < pos
                          /\ open[Len(open)].label.at <= pos
    /\ pc = "running" => label.at <= pos

\* A label that says settled names what the controller holds, but for the labels around a
\* temperature iteration: what counts is the newest one, while it is open.
Says(l, setpoint) ==
    l.how = "settled" => /\ setpoint # None
                         /\ l.k <= setpoint + Tolerance /\ setpoint <= l.k + Tolerance
Cold(s, i) == ~\E j \in 1..(i - 1) : IsHot(s[j])
Newest(e, s, i) == /\ e \in 1..Len(Nest(s)[i]) /\ IsHot(s[Nest(s)[i][e]])
                   /\ \A j \in 1..(i - 1) : IsHot(s[j]) => j <= Nest(s)[i][e]
Undisturbed == \/ pc \in {"step", "told"}
               \/ pc = "running" /\ (Here.name = "temperature" => calls = 0)
LabelsHold ==
    /\ (Undisturbed /\ Cold(job, pos)) =>
          Says(root, inForce) /\ \A d \in 1..Len(open) : Says(open[d].label, inForce)
    /\ Undisturbed => \A e \in 1..Len(open) : Newest(e, job, pos) =>
          open[e].label.k # None /\ \A d \in e..Len(open) : Says(open[d].label, inForce)
    /\ pc = "running" => label = Context \/ label.how # "settled"
    /\ pc = "settling" => open[Len(open)].label.k # None /\ open[Len(open)].label.how = "setpoint"

-----------------------------------------------------------------------------
\* A sequence without its last element.
LEMMA FrontOf ==
    ASSUME NEW S, NEW s \in Seq(S), Len(s) # 0
    PROVE  /\ Front1(s) \in Seq(S) /\ Len(Front1(s)) = Len(s) - 1
           /\ \A i \in 1..(Len(s) - 1) : Front1(s)[i] = s[i]
<1>1. Len(s) \in Nat /\ Len(s) - 1 \in Nat /\ 1 <= Len(s) /\ Len(s) - 1 <= Len(s)
  OBVIOUS
<1>2. Front1(s) = [i \in 1..(Len(s) - 1) |-> s[(i + 1) - 1]]
  BY <1>1 DEF Front1
<1>3. \A i \in 1..(Len(s) - 1) : (i + 1) - 1 = i /\ s[i] \in S
  BY <1>1
<1>4. Front1(s) = [i \in 1..(Len(s) - 1) |-> s[i]]
  BY <1>2, <1>3
<1> QED
  BY <1>1, <1>3, <1>4

\* What Nest computes, as a function on the first m + 1 steps.
Enclosed(nest, m, steps) ==
    nest = [i \in 1..(m + 1) |->
              IF i = 1 THEN << >>
              ELSE IF steps[i - 1].kind = "loop-enter" THEN Append(nest[i - 1], i - 1)
              ELSE IF steps[i - 1].kind = "loop-exit" THEN Front1(nest[i - 1])
              ELSE nest[i - 1]]
Inside(before, steps, i) ==
    IF steps[i - 1].kind = "loop-enter" THEN Append(before, i - 1)
    ELSE IF steps[i - 1].kind = "loop-exit" THEN Front1(before)
    ELSE before

\* The same, one step at a time.
LEMMA EnclosedIs ==
    ASSUME NEW nest, NEW m \in Nat, NEW steps
    PROVE  Enclosed(nest, m, steps) <=>
             nest = [i \in 1..(m + 1) |-> IF i = 1 THEN << >> ELSE Inside(nest[i - 1], steps, i)]
  BY DEF Enclosed, Inside

\* There is such a function for every number of steps: else there is a least number
\* without one, and the one before it extends to it.
LEMMA NestExists ==
    ASSUME NEW steps
    PROVE  \A m \in Nat : \E nest : Enclosed(nest, m, steps)
<1> DEFINE T == {m \in Nat : ~ \E nest : Enclosed(nest, m, steps)}
<1>1. SUFFICES ASSUME T # {} PROVE FALSE
  OBVIOUS
<1>2. PICK m \in T : \A k \in T : ~(<<k, m>> \in OpToRel(<, Nat))
  BY <1>1, WFMin, NatLessThanWellFounded
<1>3. m \in Nat /\ \A k \in Nat : k < m => \E nest : Enclosed(nest, k, steps)
  BY <1>2 DEF OpToRel
<1>4. CASE m = 0
  <2> DEFINE f == [i \in 1..1 |-> << >>]
  <2>1. f = [i \in 1..1 |-> IF i = 1 THEN << >> ELSE Inside(f[i - 1], steps, i)]
    OBVIOUS
  <2>2. m + 1 = 1
    BY <1>4
  <2> HIDE DEF f
  <2>3. f = [i \in 1..(m + 1) |-> IF i = 1 THEN << >> ELSE Inside(f[i - 1], steps, i)]
    BY <2>1, <2>2
  <2> QED
    BY <1>2, <1>3, <2>3, EnclosedIs
<1>5. CASE m # 0
  <2>1. PICK g : Enclosed(g, m - 1, steps)
    BY <1>3, <1>5
  <2> DEFINE f == [i \in 1..(m + 1) |-> IF i = m + 1 THEN Inside(g[m], steps, i) ELSE g[i]]
  <2>2. \A i \in 1..m : f[i] = g[i] /\ g[i] = IF i = 1 THEN << >> ELSE Inside(g[i - 1], steps, i)
    <3>1. m - 1 \in Nat /\ (m - 1) + 1 = m /\ m < m + 1
      BY <1>3, <1>5
    <3>2. g = [i \in 1..m |-> IF i = 1 THEN << >> ELSE Inside(g[i - 1], steps, i)]
      BY <2>1, <3>1, EnclosedIs
    <3> QED
      BY <1>3, <3>1, <3>2
  <2>3. \A i \in 1..(m + 1) : f[i] = IF i = 1 THEN << >> ELSE Inside(f[i - 1], steps, i)
    <3> TAKE i \in 1..(m + 1)
    <3>1. CASE i = m + 1
      BY <1>3, <1>5, <2>2, <3>1
    <3>2. CASE i # m + 1
      <4>1. i \in 1..m /\ (i # 1 => i - 1 \in 1..m)
        BY <1>3, <3>2
      <4>2. f[i] = g[i] /\ (i # 1 => f[i - 1] = g[i - 1])
        BY <2>2, <4>1
      <4> QED
        BY <2>2, <4>1, <4>2
    <3> QED
      BY <3>1, <3>2
  <2>4. f = [i \in 1..(m + 1) |-> IF i = 1 THEN << >> ELSE Inside(f[i - 1], steps, i)]
    <3>1. f = [i \in 1..(m + 1) |-> f[i]]
      OBVIOUS
    <3> HIDE DEF f
    <3> QED
      BY <2>3, <3>1
  <2> HIDE DEF f
  <2> QED
    BY <1>2, <1>3, <2>4, EnclosedIs
<1> QED
  BY <1>3, <1>4, <1>5

\* So Nest does what it says, one step after another.
LEMMA NestGoesOn ==
    ASSUME NEW steps, Len(steps) \in Nat
    PROVE  /\ Nest(steps)[1] = << >>
           /\ \A i \in 1..Len(steps) : Nest(steps)[i + 1] = Inside(Nest(steps)[i], steps, i + 1)
<1> DEFINE nest == CHOOSE nest : Enclosed(nest, Len(steps), steps)
<1>1. Enclosed(nest, Len(steps), steps)
  BY NestExists
<1>2. Nest(steps) = nest
  BY DEF Nest, Enclosed
<1> HIDE DEF nest
<1>3. \A i \in 1..(Len(steps) + 1) :
         nest[i] = IF i = 1 THEN << >> ELSE Inside(nest[i - 1], steps, i)
  <2>1. nest = [i \in 1..(Len(steps) + 1) |->
                  IF i = 1 THEN << >> ELSE Inside(nest[i - 1], steps, i)]
    BY <1>1, EnclosedIs
  <2> QED
    BY <2>1
<1>4. nest[1] = << >>
  <2>1. 1 \in 1..(Len(steps) + 1)
    OBVIOUS
  <2>2. nest[1] = IF 1 = 1 THEN << >> ELSE Inside(nest[1 - 1], steps, 1)
    BY <1>3, <2>1
  <2> QED
    BY <2>2
<1>5. ASSUME NEW i \in 1..Len(steps) PROVE nest[i + 1] = Inside(nest[i], steps, i + 1)
  <2>1. i + 1 \in 1..(Len(steps) + 1) /\ i + 1 # 1 /\ (i + 1) - 1 = i
    OBVIOUS
  <2> QED
    BY <1>3, <2>1
<1> QED
  BY <1>2, <1>4, <1>5

\* The iterations around a step were entered before it.
Earlier(nest, i) == nest \in Seq(Nat) /\ \A e \in 1..Len(nest) : nest[e] \in 1..(i - 1)
LEMMA NestIsEarlier ==
    ASSUME NEW s \in Schedules
    PROVE  \A i \in 1..(Len(s) + 1) : Earlier(Nest(s)[i], i)
<1>0. Len(s) \in Nat /\ Paired(s)
  BY ScheduleAssumption
<1> DEFINE T == {i \in 1..(Len(s) + 1) : ~Earlier(Nest(s)[i], i)}
<1>1. SUFFICES ASSUME T # {} PROVE FALSE
  OBVIOUS
<1>2. T \subseteq Nat
  BY <1>0
<1> HIDE DEF T
<1>3. PICK n \in T : \A k \in T : ~(<<k, n>> \in OpToRel(<, Nat))
  BY <1>1, <1>2, WFMin, NatLessThanWellFounded
<1> USE DEF T
<1>4. n # 1
  <2>1. Nest(s)[1] = << >>
    BY <1>0, NestGoesOn
  <2>2. Earlier(<< >>, 1)
    BY DEF Earlier
  <2> QED
    BY <1>3, <2>1, <2>2
<1>5. n - 1 \in 1..Len(s) /\ n \in Nat /\ n - 1 \in Nat /\ n - 1 < n /\ (n - 1) + 1 = n
  <2>1. n \in 1..(Len(s) + 1) /\ Len(s) \in Nat
    BY <1>0, <1>3
  <2> QED
    BY <1>4, <2>1
<1>6. Earlier(Nest(s)[n - 1], n - 1)
  <2>1. <<n - 1, n>> \in OpToRel(<, Nat)
    BY <1>5 DEF OpToRel
  <2>2. n - 1 \in 1..(Len(s) + 1)
    BY <1>0, <1>5
  <2> QED
    BY <1>3, <2>1, <2>2
<1>7. Nest(s)[n] = Inside(Nest(s)[n - 1], s, n)
  BY <1>0, <1>5, NestGoesOn
<1> DEFINE before == Nest(s)[n - 1]
<1>8. before \in Seq(Nat) /\ \A e \in 1..Len(before) : before[e] \in 1..(n - 1)
  BY <1>5, <1>6 DEF Earlier
<1>9. s[n - 1].kind = "loop-exit" => Len(before) # 0
  BY <1>0, <1>5, <1>8 DEF Paired
<1> HIDE DEF before
<1>10. Earlier(Inside(before, s, n), n)
  <2>1. CASE s[n - 1].kind = "loop-enter"
    <3>1. /\ Append(before, n - 1) \in Seq(Nat) /\ Len(Append(before, n - 1)) = Len(before) + 1
          /\ \A e \in 1..(Len(before) + 1) :
                Append(before, n - 1)[e] = IF e = Len(before) + 1 THEN n - 1 ELSE before[e]
      BY <1>5, <1>8
    <3> QED
      BY <1>5, <1>8, <2>1, <3>1 DEF Inside, Earlier
  <2>2. CASE s[n - 1].kind = "loop-exit"
    <3>1. /\ Front1(before) \in Seq(Nat) /\ Len(Front1(before)) = Len(before) - 1
          /\ \A e \in 1..(Len(before) - 1) : Front1(before)[e] = before[e]
      BY <1>8, <1>9, <2>2, FrontOf
    <3>2. Inside(before, s, n) = Front1(before)
      BY <2>2 DEF Inside
    <3>3. Len(before) \in Nat /\ Len(before) - 1 < Len(before)
      BY <1>8
    <3>4. \A e \in 1..Len(Front1(before)) : Front1(before)[e] \in 1..(n - 1)
      <4> TAKE e \in 1..Len(Front1(before))
      <4>1. e \in 1..(Len(before) - 1)
        BY <3>1
      <4>2. e \in 1..Len(before)
        BY <3>3, <4>1
      <4>3. Front1(before)[e] = before[e]
        BY <3>1, <4>1
      <4> QED
        BY <1>8, <4>2, <4>3
    <3> QED
      BY <3>1, <3>2, <3>4 DEF Earlier
  <2>3. CASE s[n - 1].kind \notin {"loop-enter", "loop-exit"}
    BY <1>8, <2>3 DEF Inside, Earlier
  <2> QED
    BY <2>1, <2>2, <2>3
<1> QED
  BY <1>3, <1>7, <1>10 DEF before

\* Around one step and around the next.
LEMMA NestSteps ==
    ASSUME NEW s \in Schedules, NEW i \in 1..Len(s)
    PROVE  LET here == Nest(s)[i]
               next == Nest(s)[i + 1]
           IN  /\ here \in Seq(Nat) /\ next \in Seq(Nat)
               /\ \A e \in 1..Len(here) : here[e] \in 1..(i - 1)
               /\ s[i].kind = "module" => next = here
               /\ s[i].kind = "loop-enter" =>
                     /\ Len(next) = Len(here) + 1 /\ next[Len(here) + 1] = i
                     /\ \A e \in 1..Len(here) : next[e] = here[e]
               /\ s[i].kind = "loop-exit" =>
                     /\ Len(here) # 0 /\ Len(next) = Len(here) - 1
                     /\ \A e \in 1..(Len(here) - 1) : next[e] = here[e]
                     /\ s[here[Len(here)]].path = s[i].path
<1> DEFINE here == Nest(s)[i]
           next == Nest(s)[i + 1]
<1>0. Len(s) \in Nat /\ Paired(s)
  BY ScheduleAssumption
<1>1. here \in Seq(Nat) /\ \A e \in 1..Len(here) : here[e] \in 1..(i - 1)
  BY <1>0, NestIsEarlier DEF Earlier
<1>2. next \in Seq(Nat)
  <2>1. i + 1 \in 1..(Len(s) + 1)
    BY <1>0
  <2> QED
    BY <1>0, <2>1, NestIsEarlier DEF Earlier
<1>3. next = Inside(here, s, i + 1)
  BY <1>0, NestGoesOn
<1>4. (i + 1) - 1 = i
  OBVIOUS
<1>5. s[i].kind = "loop-exit" => here # << >> /\ s[here[Len(here)]].path = s[i].path
  BY <1>0 DEF Paired, Top
<1> HIDE DEF here, next
<1>6. s[i].kind = "module" => next = here
  BY <1>3, <1>4 DEF Inside
<1>7. ASSUME s[i].kind = "loop-enter"
      PROVE  /\ Len(next) = Len(here) + 1 /\ next[Len(here) + 1] = i
             /\ \A e \in 1..Len(here) : next[e] = here[e]
  <2>1. next = Append(here, i)
    BY <1>3, <1>4, <1>7 DEF Inside
  <2> QED
    BY <1>1, <2>1
<1>8. ASSUME s[i].kind = "loop-exit"
      PROVE  /\ Len(here) # 0 /\ Len(next) = Len(here) - 1
             /\ \A e \in 1..(Len(here) - 1) : next[e] = here[e]
             /\ s[here[Len(here)]].path = s[i].path
  <2>1. next = Front1(here) /\ Len(here) # 0
    BY <1>1, <1>3, <1>4, <1>5, <1>8 DEF Inside
  <2> QED
    BY <1>1, <1>5, <1>8, <2>1, FrontOf
<1> QED
  BY <1>1, <1>2, <1>6, <1>7, <1>8 DEF here, next

\* A set of indices has a last one: else the distances from the end have no least.
LEMMA LastExists ==
    ASSUME NEW n \in Nat, NEW S, S \subseteq 1..n, S # {}
    PROVE  \E i \in S : \A j \in S : j <= i
<1> DEFINE T == {m \in Nat : n - m \in S}
<1>1. PICK i \in S : TRUE
  OBVIOUS
<1>2. n - i \in T
  BY <1>1
<1>3. PICK m \in T : \A k \in T : ~(<<k, m>> \in OpToRel(<, Nat))
  BY <1>2, WFMin, NatLessThanWellFounded
<1>4. n - m \in S /\ m \in Nat
  BY <1>3
<1>5. ASSUME NEW j \in S PROVE j <= n - m
  <2>1. n - j \in T
    OBVIOUS
  <2>2. ~(n - j < m)
    BY <1>3, <2>1 DEF OpToRel
  <2> QED
    BY <1>4, <2>2
<1> QED
  BY <1>4, <1>5

\* The context is the label of the innermost holder that has one.
LEMMA ContextIs ==
    ASSUME root \in Labels, open \in Seq(Iterations)
    PROVE  /\ Context \in Labels
           /\ \/ Context = NoLabel /\ \A d \in 1..Len(open) : open[d].label.k = None
              \/ Context = root /\ \A d \in 1..Len(open) : open[d].label.k = None
              \/ \E d \in 1..Len(open) :
                    /\ Context = open[d].label
                    /\ \A f \in (d + 1)..Len(open) : open[f].label.k = None
<1> DEFINE labels == [i \in 1..Len(open) |-> open[i].label]
           n == Len(open)
<1>1. n \in Nat /\ \A i \in 1..n : open[i].label \in Labels
  <2>1. n \in Nat /\ \A i \in 1..n : open[i] \in Iterations
    OBVIOUS
  <2> QED
    BY <2>1 DEF Iterations
<1>2. labels \in Seq(Labels) /\ Len(labels) = n /\ \A i \in 1..n : labels[i] = open[i].label
  BY <1>1
<1>3. Holders = <<root>> \o labels
  BY DEF Holders
<1> HIDE DEF labels
<1>4. Len(Holders) = n + 1 /\ Holders[1] = root
  BY <1>2, <1>3
<1>5. \A i \in 1..n : Holders[i + 1] = open[i].label
  BY <1>2, <1>3
<1>6. NoLabel \in Labels
  BY DEF NoLabel, Labels
<1>7. CASE Labelled = {}
  <2>1. Context = NoLabel
    BY <1>7 DEF Context
  <2>2. \A d \in 1..n : open[d].label.k = None
    <3> TAKE d \in 1..n
    <3>1. d + 1 \in 1..Len(Holders)
      BY <1>4, <1>1
    <3> QED
      BY <1>5, <1>7, <3>1 DEF Labelled
  <2> QED
    BY <1>6, <2>1, <2>2
<1>8. CASE Labelled # {}
  <2>1. Labelled \subseteq 1..(n + 1) /\ n + 1 \in Nat
    BY <1>1, <1>4 DEF Labelled
  <2>2. PICK i \in Labelled : Context = Holders[i] /\ \A j \in Labelled : j <= i
    BY <1>8, <2>1, LastExists DEF Context
  <2>3. i \in 1..(n + 1)
    BY <2>1
  <2>4. ASSUME NEW f \in 1..n, f + 1 > i PROVE open[f].label.k = None
    <3>1. f + 1 \notin Labelled /\ f + 1 \in 1..Len(Holders)
      BY <1>1, <1>4, <2>1, <2>2, <2>4
    <3> QED
      BY <1>5, <3>1 DEF Labelled
  <2>5. CASE i = 1
    BY <1>1, <1>4, <2>2, <2>4, <2>5
  <2>6. CASE i # 1
    <3>1. i - 1 \in 1..n /\ (i - 1) + 1 = i
      BY <1>1, <2>3, <2>6
    <3>2. Context = open[i - 1].label
      BY <1>5, <2>2, <3>1
    <3>3. \A f \in ((i - 1) + 1)..n : open[f].label.k = None
      BY <1>1, <2>3, <2>4, <3>1
    <3> QED
      BY <1>1, <3>1, <3>2, <3>3
  <2> QED
    BY <2>5, <2>6
<1> QED
  BY <1>7, <1>8

-----------------------------------------------------------------------------
\* Every step of a settle keeps what it answers.
LEMMA AnswerStep ==
    ASSUME TypeOK, Readings, Answer, [Next]_tempVars
    PROVE  Answer'
<1> USE TemperatureAssumption
<1> USE DEF Polling, Asking, Phases, pollVars, madeVars, settleVars, TypeOK, Answer, InBand
<1>1. CASE StopSeen
  <2>o. /\ Outcome("stopped", None, "") \in Results
        /\ Outcome("stopped", None, "").how = "stopped"
        /\ Outcome("stopped", None, "").k = None
    BY Outcomes
  <2>1. QED
    BY <1>1, <2>o DEF StopSeen
<1>2. CASE ReadFails
  BY <1>2 DEF ReadFails, Wait, Overdue, NextPoll
<1>3. CASE Read
  BY <1>3 DEF Read
<1>4. CASE Write
  BY <1>4 DEF Write, WriteTaken, WriteRefused, WriteUnanswered
<1>5. CASE Judge
  <2>1. phase = "read" /\ target' = target /\ last \in Kelvins
    BY <1>5 DEF Judge, Readings
  <2>o. /\ Outcome("settled", last, "instrument") \in Results
        /\ Outcome("settled", last, "instrument").how = "settled"
        /\ Outcome("settled", last, "instrument").k = last
    BY Outcomes
  <2>2. phase' = "done" => Good /\ result' = Outcome("settled", last, "instrument")
    BY <1>5 DEF Judge, Dwell, Excursion, Wait, NextPoll
  <2>3. phase' # "resumed"
    BY <1>5 DEF Judge, Dwell, Excursion, Wait, NextPoll
  <2>4. QED
    BY <2>1, <2>o, <2>2, <2>3 DEF Good
<1>6. CASE CloseGenerator
  BY <1>6 DEF CloseGenerator
<1>7. CASE OpenPause
  BY <1>7 DEF OpenPause
<1>8. CASE StopWakes
  <2>o. /\ Outcome("stopped", None, "") \in Results
        /\ Outcome("stopped", None, "").how = "stopped"
        /\ Outcome("stopped", None, "").k = None
    BY Outcomes
  <2>1. QED
    BY <1>8, <2>o DEF StopWakes
<1>9. CASE HoldAfterResume
  <2>1. result.how = "operator"
    BY <1>9 DEF HoldAfterResume, Readings
  <2> QED
    BY <1>9, <2>1 DEF HoldAfterResume
<1>10. CASE PollWhilePaused
  BY <1>10 DEF PollWhilePaused
<1>11. CASE Resume
  <2>1. PICK typed \in Kelvins \cup {None} :
           result' = Outcome("operator", Accepted(typed),
                             IF typed # None THEN "operator"
                             ELSE IF attached THEN "instrument" ELSE "")
    BY <1>11 DEF Resume
  <2>2. Accepted(typed) \in Kelvins \cup {None}
    BY DEF Accepted
  <2>3. result' \in Results
    BY <2>1, <2>2, Outcomes
  <2>4. QED
    BY <1>11, <2>3 DEF Resume
<1>12. CASE \E mode \in {"after_shot", "abort"} : RequestStop(mode)
  BY <1>12 DEF RequestStop
<1>13. CASE Leave
  BY <1>13 DEF Leave
<1>14. CASE \E s \in Setpoints : phase = "idle" /\ Begin(s)
  BY <1>14 DEF Begin
<1>15. CASE UNCHANGED tempVars
  BY <1>15 DEF tempVars, settleVars
<1>16. QED
  BY <1>1, <1>2, <1>3, <1>4, <1>5, <1>6, <1>7, <1>8, <1>9, <1>10, <1>11, <1>12, <1>13, <1>14, <1>15
     DEF Next, TempStep, SettleStep, PauseStep

\* A node that settled is labelled with a reading in the band of the setpoint in force, one
\* that the operator let go on without a reading has written nothing.
LEMMA AnswerIs ==
    ASSUME IInv, Answer, phase = "done"
    PROVE  /\ result.how \in {"settled", "operator", "stopped"}
           /\ result.k \in Kelvins \cup {None}
           /\ result.how = "settled" =>
                 /\ inForce # None /\ result.k <= inForce + Tolerance
                 /\ inForce <= result.k + Tolerance
           /\ result.k = None => calls = 0 \/ result.how = "stopped"
<1> USE TemperatureAssumption
<1>1. result \in Results /\ target \in Setpoints
  BY DEF Answer
<1>2. result.how \in {"settled", "operator", "stopped"} /\ result.k \in Kelvins \cup {None}
  BY <1>1 DEF Results
<1>3. ASSUME result.how = "settled"
      PROVE  /\ inForce # None /\ result.k <= inForce + Tolerance
             /\ inForce <= result.k + Tolerance /\ result.k # None
  <2>1. inForce = target
    BY <1>3 DEF IInv, Held, SettledMeansHeld
  <2>2. result.k \in Kelvins /\ InBand(result.k)
    BY <1>3 DEF Answer
  <2> QED
    BY <1>1, <2>1, <2>2 DEF InBand
<1>4. ASSUME result.k = None, result.how = "operator" PROVE calls = 0
  <2>1. ~heard /\ calls <= 1 /\ (calls = 1 => heard) /\ calls \in Nat
    BY <1>4 DEF IInv, TypeOK, Readings, SetpointMeansNoReading, WrittenOnce
  <2> QED
    BY <2>1
<1> QED
  BY <1>2, <1>3, <1>4

-----------------------------------------------------------------------------
\* What a step may rely on.
WalkInv == /\ Place /\ IInv /\ Answer
           /\ WalkTypes /\ Tree /\ Account /\ Dated /\ LabelsHold

\* The schedule stays.
LEMMA JobKept ==
    ASSUME [ExecNext]_execVars
    PROVE  job' = job
  BY DEF ExecNext, Walk1, LoopStep1, ModuleStep1, CloseStep, StopAtNode, Enter, Entered,
         AbortRaised, Exit, Return, StartModule, Build, Curve, Complete, StopInModule,
         TemperatureSet, EndModule, Raise, RaiseAfterStop, CloseOne, TellEnd, WorkerCloses,
         Settling, Operator, Stopping, execVars

\* The step the walk is at, and what lies around it and around the next.
LEMMA StepHere ==
    ASSUME Place, pos <= Len(job)
    PROVE  /\ pos \in 1..Len(job) /\ Len(job) \in Nat
           /\ Here = job[pos] /\ Here.path \in PathsOf(job)
           /\ (Here.kind # "loop-exit" /\ Here.name = "temperature") => Here.value \in Setpoints
<1>1. Len(job) \in Nat /\ pos \in Nat \ {0}
  BY ScheduleAssumption DEF Place
<1>2. pos \in 1..Len(job)
  BY <1>1
<1> QED
  BY <1>1, <1>2, ScheduleAssumption DEF Place, Here, Steps, PathsOf

\* What the end of a module leaves: its label spread over every holder, or nothing.
Spread(mine) ==
    \/ open' = open /\ root' = root /\ (mine.k = None \/ mine = Context)
    \/ /\ mine.k # None /\ mine # Context /\ root' = mine
       /\ open' = [i \in 1..Len(open) |-> [path |-> open[i].path, label |-> mine]]
ModuleEnds(mine) ==
    /\ pc = "running" /\ Spread(mine)
    /\ label' = NoLabel /\ told' = Front1(told)
    /\ pc' \in {"step", "stopping", "stopped"}
    /\ pos' = IF pc' = "step" THEN pos + 1 ELSE pos
    /\ UNCHANGED <<outcome, inForce>>

\* That is how the three actions that end a module do: a measurement or a utility keeps
\* the label it was given, a temperature that goes on makes one of its settle.
LEMMA HowModulesEnd ==
    ASSUME NEW mine, NEW ab \in BOOLEAN, NEW fin \in BOOLEAN, EndModule(mine, ab, fin),
           pc = "running", inForce' = inForce
    PROVE  ModuleEnds(mine) /\ (ab => pc' = "stopped")
<1> DEFINE stops == ab \/ (stop # "none" /\ Here.name \in Measurements /\ ~fin)
<1>1. pc' = (IF stops THEN Closing(ab) ELSE "step") /\ pos' = IF stops THEN pos ELSE pos + 1
  BY DEF EndModule
<1>2. /\ root' = (IF mine.k # None /\ mine # Context THEN mine ELSE root)
      /\ open' = IF mine.k # None /\ mine # Context
                 THEN [i \in 1..Len(open) |-> [path |-> open[i].path, label |-> mine]]
                 ELSE open
  BY DEF EndModule
<1>3. Closing(ab) = IF ab THEN "stopped" ELSE "stopping"
  BY DEF Closing
<1>4. /\ label' = NoLabel /\ told' = Front1(told) /\ UNCHANGED outcome
  BY DEF EndModule
<1> HIDE DEF stops
<1>5. pc' \in {"step", "stopping", "stopped"} /\ pos' = IF pc' = "step" THEN pos + 1 ELSE pos
  <2>1. CASE stops
    BY <1>1, <1>3, <2>1
  <2>2. CASE ~stops
    BY <1>1, <2>2
  <2> QED
    BY <2>1, <2>2
<1>6. Spread(mine)
  <2>1. CASE mine.k # None /\ mine # Context
    BY <1>2, <2>1 DEF Spread
  <2>2. CASE ~(mine.k # None /\ mine # Context)
    BY <1>2, <2>2 DEF Spread
  <2> QED
    BY <2>1, <2>2
<1>7. ab => pc' = "stopped"
  BY <1>1, <1>3 DEF stops
<1> QED
  BY <1>4, <1>5, <1>6, <1>7 DEF ModuleEnds

LastWords == Complete \/ StopInModule \/ TemperatureSet
LEMMA ModuleEndsSo ==
    ASSUME WalkInv, LastWords
    PROVE  \E mine \in Labels :
              /\ ModuleEnds(mine)
              /\ \/ mine = label /\ (Here.name = "temperature" /\ pc' = "step" => calls = 0)
                 \/ mine.at = pos /\ mine.k # None /\ Says(mine, inForce)
<1> USE DEF WalkInv
<1>1. CASE Complete
  <2>1. /\ EndModule(label, FALSE, TRUE) /\ pc = "running" /\ inForce' = inForce
        /\ Here.name # "temperature"
    BY <1>1 DEF Complete, tempVars
  <2> QED
    BY <2>1, HowModulesEnd DEF WalkTypes
<1>2. CASE StopInModule
  <2>1. /\ EndModule(label, Here.name = "bace", FALSE) /\ pc = "running" /\ inForce' = inForce
        /\ Here.name # "temperature" /\ (Here.name = "bace") \in BOOLEAN
    BY <1>2 DEF StopInModule, tempVars, Measurements
  <2>2. ModuleEnds(label)
    BY <2>1, HowModulesEnd
  <2> QED
    BY <2>1, <2>2 DEF WalkTypes
<1>3. CASE TemperatureSet
  <2> DEFINE mine == Relabelled(label)
  <2>1. /\ EndModule(mine, result.how = "stopped", TRUE) /\ pc = "running" /\ phase = "done"
        /\ inForce' = inForce /\ (result.how = "stopped") \in BOOLEAN
    BY <1>3 DEF TemperatureSet, Leave
  <2>2. /\ result.how \in {"settled", "operator", "stopped"}
        /\ result.k \in Kelvins \cup {None}
        /\ result.how = "settled" => inForce # None /\ result.k <= inForce + Tolerance
                                     /\ inForce <= result.k + Tolerance
        /\ result.k = None => calls = 0 \/ result.how = "stopped"
    BY <2>1, AnswerIs
  <2>3. ModuleEnds(mine) /\ (result.how = "stopped" => pc' = "stopped")
    <3> HIDE DEF mine
    <3> QED
      BY <2>1, HowModulesEnd
  <2>4. label \in Labels
    BY DEF WalkTypes
  <2>5. CASE result.k = None
    <3>1. mine = label
      BY <2>5 DEF Relabelled
    <3>2. pc' = "step" => calls = 0
      BY <2>2, <2>3, <2>5
    <3> QED
      BY <2>3, <2>4, <3>1, <3>2
  <2>6. CASE result.k # None
    <3>1. mine = [k |-> result.k, how |-> result.how, at |-> pos]
      BY <2>6 DEF Relabelled
    <3>2. result.how # "stopped"
      BY <2>1, <2>6 DEF Answer
    <3>3. pos \in Nat
      BY DEF Place
    <3>4. mine \in Labels /\ mine.at = pos /\ mine.k # None
      <4>1. result.how \in {"settled", "operator"} /\ result.k \in Kelvins
        BY <2>2, <2>6, <3>2
      <4> HIDE DEF mine
      <4> QED
        BY <2>6, <3>1, <3>3, <4>1 DEF Labels
    <3>5. Says(mine, inForce)
      BY <2>2, <3>1 DEF Says
    <3> QED
      BY <2>3, <3>4, <3>5
  <2> QED
    BY <2>5, <2>6
<1> QED
  BY <1>1, <1>2, <1>3 DEF LastWords

\* The steps that leave the tree and the labels alone: only a settle changes what the
\* controller holds, and it counts the write.
Still ==
    /\ UNCHANGED <<pos, open, root, told, label>>
    /\ \/ pc' = pc /\ UNCHANGED outcome
       \/ pc \in {"step", "settling"} /\ pc' = "stopping" /\ UNCHANGED outcome
       \/ pc' = "ended" /\ outcome' = "aborted"
       \/ pc = "step" /\ pos > Len(job) /\ pc' = "ended" /\ outcome' = "ok"
       \/ /\ pc \in {"stopping", "stopped", "failing"} /\ open = << >>
          /\ pc' = "ended" /\ outcome' \in {"failed", "stopped"}
    /\ \/ pc' # pc
       \/ UNCHANGED <<calls, inForce>>
       \/ calls' = calls + 1 /\ (pc = "settling" \/ (pc = "running" /\ Here.name = "temperature"))
\* The steps in which a node fails: the module is done, the tree as it was.
Fails ==
    /\ pc \in {"told", "running"} /\ pc' = "failing" /\ told' = Front1(told)
    /\ UNCHANGED <<pos, open, root, outcome>> /\ label' \in {label, Context}
\* The step in which a module is built.
Builds ==
    /\ pc = "told" /\ pc' = "running" /\ UNCHANGED <<pos, open, root, told, outcome, inForce>>
    /\ label' \in Labels /\ label'.at <= pos /\ (label' = Context \/ label'.how # "settled")
\* A temperature iteration that goes on.
GoesOn == Entered /\ result.how # "stopped"

\* A stop, a settle's own steps, a curve and the generator's last words are such steps.
LEMMA StillSteps ==
    ASSUME Place,
           \/ StopAtNode \/ (Entered /\ result.how = "stopped") \/ AbortRaised \/ Return
           \/ Curve \/ TellEnd \/ WorkerCloses \/ Settling \/ Operator \/ Stopping
           \/ UNCHANGED execVars
    PROVE  Still
<1>1. CASE StopAtNode BY <1>1 DEF StopAtNode, Still
<1>2. CASE Entered /\ result.how = "stopped" BY <1>2 DEF Entered, Still
<1>3. CASE AbortRaised BY <1>3 DEF AbortRaised, Still
<1>4. CASE Return BY <1>4 DEF Return, Still, Steps
<1>5. CASE Curve BY <1>5 DEF Curve, Still, tempVars, settleVars, madeVars
<1>6. CASE TellEnd BY <1>6 DEF TellEnd, Still
<1>7. CASE WorkerCloses BY <1>7 DEF WorkerCloses, Still
<1>8. CASE Settling
  <2>1. UNCHANGED <<pos, open, root, told, label, pc, outcome>>
    BY <1>8 DEF Settling, walkVars
  <2>2. pc = "settling" \/ (pc = "running" /\ Here.name = "temperature")
    BY <1>8 DEF Settling
  <2>3. UNCHANGED <<calls, inForce>> \/ calls' = calls + 1
    BY <1>8 DEF Settling, SettleStep, PauseStep, StopSeen, ReadFails, Read, Write, Judge,
                CloseGenerator, OpenPause, StopWakes, HoldAfterResume, madeVars
  <2> QED
    BY <2>1, <2>2, <2>3 DEF Still
<1>9. CASE Operator BY <1>9 DEF Operator, Still, walkVars, PollWhilePaused, Resume, madeVars
<1>10. CASE Stopping BY <1>10 DEF Stopping, Still, walkVars, RequestStop, settleVars, madeVars
<1>11. CASE UNCHANGED execVars
  BY <1>11 DEF execVars, walkVars, tempVars, settleVars, madeVars, Still
<1> QED
  BY <1>1, <1>2, <1>3, <1>4, <1>5, <1>6, <1>7, <1>8, <1>9, <1>10, <1>11

\* The context was made by an earlier step.
LEMMA ContextIsDated ==
    ASSUME WalkInv, pc \in {"step", "told", "running"}
    PROVE  Context.at \in Nat /\ Context.at < pos
<1>1. pos \in Nat \ {0} /\ root.at < pos /\ \A d \in 1..Len(open) : open[d].label.at < pos
  BY DEF WalkInv, Place, Dated
<1>2. Context \in Labels
  BY ContextIs DEF WalkInv, WalkTypes
<1>3. Context.at \in Nat
  BY <1>2 DEF Labels
<1>4. Context = NoLabel \/ Context = root \/ \E d \in 1..Len(open) : Context = open[d].label
  BY ContextIs DEF WalkInv, WalkTypes
<1>5. NoLabel.at = 0
  BY DEF NoLabel
<1> QED
  BY <1>1, <1>3, <1>4, <1>5

\* The builder refuses the node, or the module runs under its label.
LEMMA BuildSteps ==
    ASSUME WalkInv, Build
    PROVE  (Builds /\ (Here.name = "temperature" => calls' = 0)) \/ Fails
<1>1. pc = "told" /\ UNCHANGED <<pos, open, root, outcome>>
  BY DEF Build
<1>2. CASE refused'
  <2>1. pc' = "failing" /\ told' = Front1(told) /\ label' = Context
    BY <1>2 DEF Build
  <2> QED
    BY <1>1, <2>1 DEF Fails
<1>3. CASE ~refused'
  <2>1. pc' = "running" /\ told' = told /\ ReadAsFound
    BY <1>3 DEF Build
  <2>2. /\ inForce' = inForce
        /\ Here.name = "temperature" => calls' = 0
    BY <1>3 DEF Build, Begin, tempVars
  <2>3. Context \in Labels
    BY ContextIs DEF WalkInv, WalkTypes
  <2>4. pos \in Nat
    BY DEF WalkInv, Place
  <2>5. label' \in Labels /\ label'.at <= pos /\ (label' = Context \/ label'.how # "settled")
    <3>1. CASE label' = Context
      <4>1. Context.at \in Nat /\ Context.at < pos
        BY <1>1, ContextIsDated
      <4> QED
        BY <2>3, <2>4, <3>1, <4>1
    <3>2. CASE label' = NoLabel
      <4>1. NoLabel \in Labels /\ NoLabel.at = 0 /\ NoLabel.how = ""
        BY DEF NoLabel, Labels
      <4> QED
        <5>1. 0 <= pos
          BY <2>4
        <5> QED
          BY <3>2, <4>1, <5>1
    <3>3. CASE \E k \in Kelvins : label' = [k |-> k, how |-> "read", at |-> pos]
      BY <2>4, <3>3 DEF Labels
    <3> QED
      BY <2>1, <3>1, <3>2, <3>3 DEF ReadAsFound
  <2> QED
    BY <1>1, <2>1, <2>2, <2>5 DEF Builds
<1> QED
  BY <1>2, <1>3

\* So there are nine kinds of steps.
LEMMA KindsOfSteps ==
    ASSUME WalkInv, [ExecNext]_execVars
    PROVE  \/ Still \/ Enter \/ GoesOn \/ Exit \/ StartModule
           \/ (Builds /\ (Here.name = "temperature" => calls' = 0))
           \/ Fails \/ LastWords \/ CloseOne
<1>1. Place
  BY DEF WalkInv
<1>2. CASE Raise \/ RaiseAfterStop
  BY <1>2 DEF Raise, RaiseAfterStop, Fails
<1>3. CASE Build
  BY <1>3, BuildSteps
<1>4. CASE \/ StopAtNode \/ (Entered /\ result.how = "stopped") \/ AbortRaised \/ Return
           \/ Curve \/ TellEnd \/ WorkerCloses \/ Settling \/ Operator \/ Stopping
           \/ UNCHANGED execVars
  BY <1>1, <1>4, StillSteps
<1> QED
  BY <1>2, <1>3, <1>4
     DEF ExecNext, Walk1, LoopStep1, ModuleStep1, CloseStep, GoesOn, LastWords

-----------------------------------------------------------------------------
\* Every step keeps the types of what the walk holds.
LEMMA WalkTypesStep ==
    ASSUME WalkInv, [ExecNext]_execVars
    PROVE  WalkTypes'
<1> DEFINE P == PathsOf(job)
<1>1. /\ job' = job /\ open \in Seq(Iterations) /\ told \in Seq(P)
      /\ root \in Labels /\ label \in Labels /\ Place
  BY JobKept DEF WalkInv, WalkTypes
<1>2. Iterations = [path : P, label : Labels] /\ NoLabel \in Labels /\ Context \in Labels
  BY <1>1, ContextIs DEF Iterations, NoLabel, Labels, WalkInv
<1>3. pos \in Nat
  BY <1>1 DEF Place
<1>4. SUFFICES /\ open' \in Seq(Iterations) /\ told' \in Seq(P)
               /\ root' \in Labels /\ label' \in Labels
  <2>1. PathsOf(job)' = P /\ Labels' = Labels
    BY <1>1 DEF PathsOf, Labels
  <2>2. Iterations' = Iterations
    BY <1>1, <2>1 DEF Iterations, PathsOf, Labels
  <2> QED
    BY <2>1, <2>2 DEF WalkTypes
<1> HIDE DEF P
<1>5. pc # "ended" => Len(told) = Len(open) + (IF pc \in {"told", "running"} THEN 1 ELSE 0)
  BY DEF WalkInv, Account
<1>6. Len(open) \in Nat /\ Len(told) \in Nat
  BY <1>1
<1>7. CASE Still
  BY <1>1, <1>7 DEF Still
<1>8. CASE Enter
  <2>1. /\ pos <= Len(job) /\ Here.kind = "loop-enter" /\ told' = Append(told, Here.path)
        /\ root' = root /\ label' = label
    BY <1>8 DEF Enter, AtStep, Steps
  <2>2. Here.path \in P /\ (Here.name = "temperature" => Here.value \in Setpoints)
    BY <1>1, <2>1, StepHere DEF P
  <2>3. PICK new \in Labels : open' = Append(open, [path |-> Here.path, label |-> new])
    <3>1. CASE Here.name = "temperature"
      <4> DEFINE new == [k |-> Here.value, how |-> "setpoint", at |-> pos]
      <4>1. new \in Labels
        BY <1>3, <2>2, <3>1 DEF Labels
      <4>2. open' = Append(open, [path |-> Here.path, label |-> new])
        BY <1>8, <3>1 DEF Enter
      <4> QED
        BY <4>1, <4>2
    <3>2. CASE Here.name # "temperature"
      BY <1>2, <1>8, <3>2 DEF Enter
    <3> QED
      BY <3>1, <3>2
  <2>4. [path |-> Here.path, label |-> new] \in Iterations
    BY <1>2, <2>2
  <2> QED
    BY <1>1, <2>1, <2>2, <2>3, <2>4
<1>9. CASE GoesOn
  <2>1. /\ pc = "settling" /\ phase = "done" /\ result.how # "stopped"
        /\ open' = Append(Front1(open), [path |-> Top(open).path,
                                         label |-> Relabelled(Top(open).label)])
        /\ told' = told /\ root' = root /\ label' = label
    BY <1>9 DEF GoesOn, Entered
  <2>2. Len(open) # 0 /\ Top(open) \in Iterations
    BY <1>1, <1>6, <2>1 DEF Top, WalkInv, Tree
  <2>3. Top(open).path \in P /\ Top(open).label \in Labels
    BY <1>2, <2>2
  <2>4. Relabelled(Top(open).label) \in Labels
    <3>1. result.how \in {"settled", "operator"} /\ result.k \in Kelvins \cup {None}
      BY <2>1, AnswerIs DEF WalkInv
    <3>2. CASE result.k = None
      BY <2>3, <3>2 DEF Relabelled
    <3>3. CASE result.k # None
      <4>0. result.k \in Kelvins
        BY <3>1, <3>3
      <4>1. Relabelled(Top(open).label) = [k |-> result.k, how |-> result.how, at |-> pos]
        BY <3>3 DEF Relabelled
      <4>2. [k |-> result.k, how |-> result.how, at |-> pos] \in Labels
        BY <1>3, <3>1, <4>0 DEF Labels
      <4> QED
        BY <4>1, <4>2
    <3> QED
      BY <3>2, <3>3
  <2>5. [path |-> Top(open).path, label |-> Relabelled(Top(open).label)] \in Iterations
    BY <1>2, <2>3, <2>4
  <2>6. Front1(open) \in Seq(Iterations)
    BY <1>1, <2>2, FrontOf
  <2> HIDE DEF Top
  <2> QED
    BY <1>1, <2>1, <2>5, <2>6
<1>10. CASE Exit \/ CloseOne
  <2>1. pc # "ended" /\ pc \notin {"told", "running"} /\ Len(open) # 0
    <3>1. CASE CloseOne
      BY <1>1, <3>1 DEF CloseOne
    <3>2. CASE Exit
      <4>1. pc = "step" /\ pos <= Len(job) /\ Here.kind = "loop-exit"
        BY <3>2 DEF Exit, AtStep, Steps
      <4>2. Len(Around) # 0
        BY <1>1, <4>1, StepHere, NestSteps DEF Around, Place
      <4>3. Len(open) = Len(Around)
        BY <4>1 DEF WalkInv, Tree
      <4> QED
        BY <4>1, <4>2, <4>3
    <3> QED
      BY <1>10, <3>1, <3>2
  <2>2. Len(told) # 0
    BY <1>5, <1>6, <2>1
  <2>3. /\ open' = Front1(open) /\ told' = Front1(told) /\ root' = root /\ label' = label
    BY <1>10 DEF Exit, CloseOne
  <2> QED
    BY <1>1, <2>1, <2>2, <2>3, FrontOf
<1>11. CASE StartModule
  <2>1. /\ pos <= Len(job) /\ told' = Append(told, Here.path) /\ open' = open /\ root' = root
        /\ label' = NoLabel
    BY <1>11 DEF StartModule, AtStep, Steps
  <2>2. Here.path \in P
    BY <1>1, <2>1, StepHere DEF P
  <2> QED
    BY <1>1, <1>2, <2>1, <2>2
<1>12. CASE Builds
  BY <1>1, <1>12 DEF Builds
<1>13. CASE Fails
  <2>1. Len(told) # 0
    BY <1>5, <1>6, <1>13 DEF Fails
  <2> QED
    BY <1>1, <1>2, <1>13, <2>1, FrontOf DEF Fails
<1>14. CASE LastWords
  <2>1. PICK mine \in Labels : ModuleEnds(mine)
    BY <1>14, ModuleEndsSo
  <2>2. Len(told) # 0 /\ told' = Front1(told) /\ label' = NoLabel
    BY <1>5, <1>6, <2>1 DEF ModuleEnds
  <2>3. root' \in Labels /\ open' \in Seq(Iterations)
    <3>1. CASE open' = open /\ root' = root
      BY <1>1, <3>1
    <3>2. CASE /\ root' = mine
               /\ open' = [i \in 1..Len(open) |-> [path |-> open[i].path, label |-> mine]]
      <4>1. \A i \in 1..Len(open) : open[i].path \in P
        <5>1. \A i \in 1..Len(open) : open[i] \in Iterations
          BY <1>1
        <5> QED
          BY <1>2, <5>1
      <4>2. \A i \in 1..Len(open) : [path |-> open[i].path, label |-> mine] \in Iterations
        BY <1>2, <4>1
      <4> QED
        BY <1>6, <3>2, <4>2
    <3> QED
      BY <2>1, <3>1, <3>2 DEF ModuleEnds, Spread
  <2> QED
    BY <1>1, <1>2, <2>2, <2>3, FrontOf
<1> QED
  BY <1>7, <1>8, <1>9, <1>10, <1>11, <1>12, <1>13, <1>14, KindsOfSteps

\* What changes around the walk as it goes on to the next step.
LEMMA GoingOn ==
    ASSUME Place, job' = job, pos' = pos + 1, pos <= Len(job)
    PROVE  /\ pos' <= Len(job') + 1 /\ Around' = Nest(job)[pos + 1]
           /\ Around \in Seq(Nat) /\ Around' \in Seq(Nat)
           /\ \A e \in 1..Len(Around) : Around[e] \in 1..(pos - 1)
           /\ Here.kind = "module" => Around' = Around
           /\ Here.kind = "loop-enter" =>
                 /\ Len(Around') = Len(Around) + 1 /\ Around'[Len(Around) + 1] = pos
                 /\ \A e \in 1..Len(Around) : Around'[e] = Around[e]
           /\ Here.kind = "loop-exit" =>
                 /\ Len(Around) # 0 /\ Len(Around') = Len(Around) - 1
                 /\ \A e \in 1..(Len(Around) - 1) : Around'[e] = Around[e]
                 /\ job[Around[Len(Around)]].path = Here.path
<1>1. pos \in 1..Len(job) /\ Len(job) \in Nat /\ Here = job[pos] /\ job \in Schedules
  BY StepHere DEF Place
<1>2. Around' = Nest(job)[pos + 1]
  BY DEF Around
<1>3. Around = Nest(job)[pos]
  BY DEF Around
<1>4. pos' <= Len(job') + 1
  BY <1>1
<1> QED
  BY <1>1, <1>2, <1>3, <1>4, NestSteps

\* Staying where it is, it has the same around it.
LEMMA Staying ==
    ASSUME job' = job, pos' = pos
    PROVE  Around' = Around
  BY DEF Around

\* Every step keeps the tree.
LEMMA TreeStep ==
    ASSUME WalkInv, [ExecNext]_execVars
    PROVE  Tree'
<1>1. job' = job /\ Place /\ Tree /\ open \in Seq(Iterations) /\ Len(open) \in Nat
  BY JobKept DEF WalkInv, WalkTypes
<1>2. pos \in Nat \ {0} /\ Len(job) \in Nat
  BY <1>1, ScheduleAssumption DEF Place
<1>3. CASE Still
  <2>1. UNCHANGED <<pos, open>> /\ pc' \in {pc, "stopping", "ended"} /\ Around' = Around
        /\ Here' = Here
    BY <1>1, <1>3, Staying DEF Still, Here, Steps
  <2> QED
    BY <1>1, <2>1 DEF Tree
<1>4. CASE Enter
  <2>1. /\ pos <= Len(job) /\ Here.kind = "loop-enter" /\ pc = "step" /\ Len(open) = Len(Around)
    BY <1>1, <1>4 DEF Enter, AtStep, Steps, Tree
  <2>2. CASE Here.name = "temperature"
    <3> DEFINE new == [path |-> Here.path,
                       label |-> [k |-> Here.value, how |-> "setpoint", at |-> pos]]
    <3>0. open' = Append(open, new) /\ pc' = "settling" /\ pos' = pos
      BY <1>4, <2>2 DEF Enter
    <3>5. new.path = Here.path
      OBVIOUS
    <3> HIDE DEF new
    <3>1. /\ Len(open') = Len(open) + 1 /\ \A e \in 1..Len(open) : open'[e] = open[e]
          /\ open'[Len(open')].path = Here.path
      BY <1>1, <3>0, <3>5
    <3>2. Around' = Around /\ Here' = Here
      BY <1>1, <3>0, Staying DEF Here, Steps
    <3>3. IsHot(Here)
      BY <2>1, <2>2 DEF IsHot
    <3>4. \A e \in 1..Len(Around) : open[e].path = job[Around[e]].path
      BY <1>1, <2>1 DEF Tree
    <3> QED
      BY <1>1, <2>1, <3>0, <3>1, <3>2, <3>3, <3>4 DEF Tree
  <2>3. CASE Here.name # "temperature"
    <3>1. /\ open' = Append(open, [path |-> Here.path, label |-> Context])
          /\ pc' = pc /\ pos' = pos + 1
      BY <1>4, <2>3 DEF Enter
    <3>2. /\ Len(Around') = Len(Around) + 1 /\ Around'[Len(Around) + 1] = pos
          /\ \A e \in 1..Len(Around) : Around'[e] = Around[e]
          /\ pos' <= Len(job') + 1
      BY <1>1, <2>1, <3>1, GoingOn
    <3>3. Here = job[pos]
      BY DEF Here, Steps
    <3>4. /\ Len(open') = Len(open) + 1 /\ \A e \in 1..Len(open) : open'[e] = open[e]
          /\ open'[Len(open) + 1].path = Here.path
      BY <1>1, <3>1
    <3>5. \A e \in 1..Len(Around) : open[e].path = job[Around[e]].path
      BY <1>1, <2>1 DEF Tree
    <3>6. \A e \in 1..Len(Around') : open'[e].path = job'[Around'[e]].path
      <4> TAKE e \in 1..Len(Around')
      <4>1. CASE e = Len(Around) + 1
        BY <1>1, <2>1, <3>2, <3>3, <3>4, <4>1
      <4>2. CASE e \in 1..Len(Around)
        BY <1>1, <2>1, <3>2, <3>4, <3>5, <4>2
      <4> QED
        BY <1>1, <2>1, <3>2, <4>1, <4>2
    <3> QED
      BY <2>1, <3>1, <3>2, <3>4, <3>6 DEF Tree
  <2> QED
    BY <2>2, <2>3
<1>5. CASE GoesOn
  <2>1. /\ pc = "settling" /\ pc' = "step" /\ pos' = pos + 1
        /\ open' = Append(Front1(open), [path |-> Top(open).path,
                                         label |-> Relabelled(Top(open).label)])
        /\ told' = told
    BY <1>5 DEF GoesOn, Entered
  <2>2. pos <= Len(job) /\ Here.kind = "loop-enter" /\ Len(open) = Len(Around) + 1
    BY <1>1, <2>1 DEF Tree, IsHot
  <2>3. /\ Len(Around') = Len(Around) + 1 /\ Around'[Len(Around) + 1] = pos
        /\ \A e \in 1..Len(Around) : Around'[e] = Around[e]
        /\ pos' <= Len(job') + 1 /\ Around \in Seq(Nat)
    BY <1>1, <2>1, <2>2, GoingOn
  <2>4. /\ Front1(open) \in Seq(Iterations) /\ Len(Front1(open)) = Len(Around)
        /\ \A e \in 1..Len(Around) : Front1(open)[e] = open[e]
    <3>1. Len(open) # 0 /\ Len(open) - 1 = Len(Around)
      BY <2>2, <2>3
    <3> QED
      BY <1>1, <3>1, FrontOf
  <2>5. /\ Len(open') = Len(Around) + 1
        /\ \A e \in 1..Len(Around) : open'[e] = open[e]
        /\ open'[Len(Around) + 1].path = Top(open).path
    <3> HIDE DEF Top
    <3> QED
      BY <2>1, <2>3, <2>4
  <2>6. Top(open).path = Here.path /\ Here = job[pos]
    BY <1>1, <2>1, <2>2 DEF Top, Tree, Here, Steps
  <2>7. \A e \in 1..Len(Around) : open[e].path = job[Around[e]].path
    BY <1>1, <2>1 DEF Tree
  <2>8. \A e \in 1..Len(Around') : open'[e].path = job'[Around'[e]].path
    <3> TAKE e \in 1..Len(Around')
    <3>1. CASE e = Len(Around) + 1
      BY <1>1, <2>3, <2>5, <2>6, <3>1
    <3>2. CASE e \in 1..Len(Around)
      BY <1>1, <2>3, <2>5, <2>7, <3>2
    <3> QED
      BY <2>3, <3>1, <3>2
  <2> QED
    BY <2>1, <2>3, <2>5, <2>8 DEF Tree
<1>6. CASE Exit
  <2>1. /\ pos <= Len(job) /\ Here.kind = "loop-exit" /\ pc = "step" /\ Len(open) = Len(Around)
        /\ pc' = "step" /\ pos' = pos + 1 /\ open' = Front1(open)
    BY <1>1, <1>6 DEF Exit, AtStep, Steps, Tree
  <2>2. /\ Len(Around) # 0 /\ Len(Around') = Len(Around) - 1
        /\ \A e \in 1..(Len(Around) - 1) : Around'[e] = Around[e]
        /\ pos' <= Len(job') + 1
    BY <1>1, <2>1, GoingOn
  <2>3. Len(open') = Len(open) - 1 /\ \A e \in 1..(Len(open) - 1) : open'[e] = open[e]
    BY <1>1, <2>1, <2>2, FrontOf
  <2>4. \A e \in 1..Len(Around) : open[e].path = job[Around[e]].path
    BY <1>1, <2>1 DEF Tree
  <2> QED
    BY <1>1, <2>1, <2>2, <2>3, <2>4 DEF Tree
<1>7. CASE StartModule \/ Builds
  <2>1. UNCHANGED <<pos, open>> /\ Around' = Around /\ pc \in {"step", "told"}
        /\ pc' \in {"told", "running"}
    BY <1>1, <1>7, Staying DEF StartModule, Builds, AtStep
  <2> QED
    BY <1>1, <2>1 DEF Tree
<1>8. CASE Fails
  BY <1>1, <1>8 DEF Fails, Tree
<1>9. CASE LastWords
  <2>1. PICK mine \in Labels : ModuleEnds(mine)
    BY <1>9, ModuleEndsSo
  <2>2. pc = "running" /\ pos <= Len(job) /\ Here.kind = "module" /\ Len(open) = Len(Around)
    BY <1>1, <2>1 DEF ModuleEnds, Place, Tree
  <2>3. Len(open') = Len(open) /\ \A e \in 1..Len(open) : open'[e].path = open[e].path
    BY <1>1, <2>1 DEF ModuleEnds, Spread
  <2>4. CASE pc' = "step"
    <3>1. pos' = pos + 1
      BY <2>1, <2>4 DEF ModuleEnds
    <3>2. Around' = Around /\ pos' <= Len(job') + 1
      BY <1>1, <2>2, <3>1, GoingOn
    <3> QED
      BY <1>1, <2>2, <2>3, <2>4, <3>2 DEF Tree
  <2>5. CASE pc' # "step"
    <3>1. pos' = pos /\ pc' \in {"stopping", "stopped"}
      BY <2>1, <2>5 DEF ModuleEnds
    <3> QED
      BY <1>1, <2>2, <3>1 DEF Tree
  <2> QED
    BY <2>4, <2>5
<1>10. CASE CloseOne
  BY <1>1, <1>10 DEF CloseOne, Tree
<1> QED
  BY <1>3, <1>4, <1>5, <1>6, <1>7, <1>8, <1>9, <1>10, KindsOfSteps

\* Every step keeps the account of the nodes.
LEMMA AccountStep ==
    ASSUME WalkInv, [ExecNext]_execVars
    PROVE  Account'
<1> DEFINE P == PathsOf(job)
<1>1. /\ job' = job /\ Place /\ Tree /\ open \in Seq(Iterations) /\ told \in Seq(P)
      /\ Len(open) \in Nat /\ Len(told) \in Nat
  BY JobKept DEF WalkInv, WalkTypes
<1>2. pc # "ended" =>
         /\ Len(told) = Len(open) + (IF pc \in {"told", "running"} THEN 1 ELSE 0)
         /\ \A e \in 1..Len(open) : told[e] = open[e].path
         /\ pc \in {"told", "running"} => told[Len(told)] = Here.path
         /\ outcome = None
  BY DEF WalkInv, Account
<1> HIDE DEF P
<1>5. CASE Still
  <2>1. UNCHANGED <<pos, open, told>> /\ Here' = Here
    BY <1>1, <1>5 DEF Still, Here, Steps
  <2>2. CASE pc' # "ended"
    <3>1. pc # "ended" /\ outcome' = outcome
          /\ (pc' = pc \/ (pc \in {"step", "settling"} /\ pc' = "stopping"))
      BY <1>5, <2>2 DEF Still
    <3>2. NodesClosed'
      BY <2>1, <3>1 DEF NodesClosed, WalkInv, Account
    <3>3. pc' \in {"told", "running"} <=> pc \in {"told", "running"}
      BY <3>1
    <3> QED
      BY <1>2, <2>1, <3>1, <3>2, <3>3 DEF Account
  <2>3. CASE pc' = "ended"
    <3>1. CASE pc' = pc /\ outcome' = outcome
      BY <2>1, <2>3, <3>1 DEF NodesClosed, WalkInv, Account
    <3>2. CASE outcome' = "aborted"
      BY <2>3, <3>2 DEF NodesClosed, Account
    <3>3. CASE pc = "step" /\ pos > Len(job)
      <4>1. pos = Len(job) + 1 /\ Len(job) \in Nat /\ Paired(job)
        BY <1>1, <3>3, ScheduleAssumption DEF Place, Tree
      <4>2. Around = << >>
        BY <4>1 DEF Around, Paired
      <4>3. Len(open) = 0 /\ Len(told) = 0
        BY <1>1, <1>2, <3>3, <4>2 DEF Tree
      <4>4. open = << >> /\ told = << >>
        BY <1>1, <4>3
      <4> QED
        BY <2>1, <2>3, <4>4 DEF NodesClosed, Account
    <3>4. CASE pc \in {"stopping", "stopped", "failing"} /\ open = << >>
      <4>1. Len(told) = 0
        BY <1>1, <1>2, <3>4
      <4>2. told = << >>
        BY <1>1, <4>1
      <4> QED
        BY <2>1, <2>3, <3>4, <4>2 DEF NodesClosed, Account
    <3> QED
      BY <1>5, <2>3, <3>1, <3>2, <3>3, <3>4 DEF Still
  <2> QED
    BY <2>2, <2>3
<1>6. CASE Enter
  <2>1. /\ pos <= Len(job) /\ pc = "step" /\ pc' \in {"step", "settling"}
        /\ told' = Append(told, Here.path) /\ outcome' = outcome
    BY <1>6 DEF Enter, AtStep, Steps
  <2>2. \E new : open' = Append(open, new) /\ new.path = Here.path
    <3>1. CASE Here.name = "temperature"
      <4>1. open' = Append(open, [path |-> Here.path,
                                  label |-> [k |-> Here.value, how |-> "setpoint", at |-> pos]])
        BY <1>6, <3>1 DEF Enter
      <4> QED
        BY <4>1
    <3>2. CASE Here.name # "temperature"
      <4>1. open' = Append(open, [path |-> Here.path, label |-> Context])
        BY <1>6, <3>2 DEF Enter
      <4> QED
        BY <4>1
    <3> QED
      BY <3>1, <3>2
  <2>3. /\ Len(open') = Len(open) + 1 /\ open'[Len(open) + 1].path = Here.path
        /\ \A e \in 1..Len(open) : open'[e] = open[e]
    BY <1>1, <2>2
  <2>4. Len(told) = Len(open)
    BY <1>1, <1>2, <2>1
  <2>5. /\ Len(told') = Len(told) + 1 /\ told'[Len(told) + 1] = Here.path
        /\ \A e \in 1..Len(told) : told'[e] = told[e]
    BY <1>1, <2>1
  <2>6. \A e \in 1..Len(open') : told'[e] = open'[e].path
    <3> TAKE e \in 1..Len(open')
    <3>1. e = Len(open) + 1 \/ e \in 1..Len(open)
      BY <1>1, <2>3
    <3> QED
      BY <1>2, <2>1, <2>3, <2>4, <2>5, <3>1
  <2>7. NodesClosed'
    BY <1>2, <2>1, ScheduleAssumption DEF NodesClosed
  <2> QED
    BY <1>2, <2>1, <2>3, <2>4, <2>5, <2>6, <2>7 DEF Account
<1>7. CASE GoesOn
  <2>1. /\ pc = "settling" /\ pc' = "step" /\ told' = told /\ outcome' = outcome
        /\ open' = Append(Front1(open), [path |-> Top(open).path,
                                         label |-> Relabelled(Top(open).label)])
    BY <1>7 DEF GoesOn, Entered
  <2>2. Len(open) = Len(Around) + 1 /\ Len(Around) \in Nat
    <3>1. pos <= Len(job) /\ Len(open) = Len(Around) + 1
      BY <1>1, <2>1 DEF Tree
    <3>2. Around \in Seq(Nat)
      BY <1>1, <3>1, StepHere, NestSteps DEF Around, Place
    <3> QED
      BY <3>1, <3>2
  <2>3. Len(open) # 0
    BY <2>2
  <2>4. /\ Front1(open) \in Seq(Iterations) /\ Len(Front1(open)) = Len(open) - 1
        /\ \A e \in 1..(Len(open) - 1) : Front1(open)[e] = open[e]
    BY <1>1, <2>3, FrontOf
  <2>5. /\ Len(open') = Len(open) /\ open'[Len(open)].path = open[Len(open)].path
        /\ \A e \in 1..(Len(open) - 1) : open'[e] = open[e]
    <3>1. Top(open).path = open[Len(open)].path
      BY DEF Top
    <3> QED
      BY <1>1, <2>1, <2>3, <2>4, <3>1
  <2>6. \A e \in 1..Len(open') : open'[e].path = open[e].path
    <3> TAKE e \in 1..Len(open')
    <3>1. e = Len(open) \/ e \in 1..(Len(open) - 1)
      BY <1>1, <2>5
    <3> QED
      BY <2>5, <3>1
  <2>7. NodesClosed'
    BY <1>2, <2>1, ScheduleAssumption DEF NodesClosed
  <2> QED
    BY <1>2, <2>1, <2>5, <2>6, <2>7 DEF Account
<1>8. CASE Exit \/ CloseOne
  <2>1. pc \in {"step", "stopping", "stopped", "failing"} /\ pc' = pc /\ outcome' = outcome
        /\ open' = Front1(open) /\ told' = Front1(told)
    BY <1>8 DEF Exit, CloseOne, AtStep
  <2>2. Len(open) # 0
    <3>1. CASE CloseOne
      BY <1>1, <3>1 DEF CloseOne
    <3>2. CASE Exit
      <4>1. pc = "step" /\ pos <= Len(job) /\ Here.kind = "loop-exit"
        BY <3>2 DEF Exit, AtStep, Steps
      <4>2. Len(Around) # 0
        BY <1>1, <4>1, StepHere, NestSteps DEF Around, Place
      <4> QED
        BY <1>1, <4>1, <4>2 DEF Tree
    <3> QED
      BY <1>8, <3>1, <3>2
  <2>3. Len(told) = Len(open)
    BY <1>1, <1>2, <2>1
  <2>4. /\ Len(open') = Len(open) - 1 /\ \A e \in 1..(Len(open) - 1) : open'[e] = open[e]
    BY <1>1, <2>1, <2>2, FrontOf
  <2>5. /\ Len(told') = Len(told) - 1 /\ \A e \in 1..(Len(told) - 1) : told'[e] = told[e]
    BY <1>1, <2>1, <2>2, <2>3, FrontOf
  <2>6. \A e \in 1..(Len(open) - 1) : e \in 1..Len(open)
    BY <1>1
  <2>7. \A e \in 1..Len(open') : told'[e] = open'[e].path
    BY <1>2, <2>1, <2>3, <2>4, <2>5, <2>6
  <2>8. NodesClosed'
    BY <1>2, <2>1, ScheduleAssumption DEF NodesClosed
  <2> QED
    BY <1>2, <2>1, <2>3, <2>4, <2>5, <2>7, <2>8 DEF Account
<1>9. CASE StartModule
  <2>1. /\ pc = "step" /\ pc' = "told" /\ outcome' = outcome /\ UNCHANGED <<pos, open>>
        /\ told' = Append(told, Here.path) /\ Here' = Here
    BY <1>1, <1>9 DEF StartModule, AtStep, Here, Steps
  <2>2. Len(told) = Len(open)
    BY <1>1, <1>2, <2>1
  <2>3. /\ Len(told') = Len(told) + 1 /\ told'[Len(told) + 1] = Here.path
        /\ \A e \in 1..Len(told) : told'[e] = told[e]
    BY <1>1, <2>1
  <2>4. NodesClosed'
    BY <1>2, <2>1, ScheduleAssumption DEF NodesClosed
  <2> QED
    BY <1>2, <2>1, <2>2, <2>3, <2>4 DEF Account
<1>10. CASE Builds
  <2>1. /\ pc = "told" /\ pc' = "running" /\ UNCHANGED <<pos, open, told, outcome>> /\ Here' = Here
    BY <1>1, <1>10 DEF Builds, Here, Steps
  <2>2. NodesClosed'
    BY <1>2, <2>1, ScheduleAssumption DEF NodesClosed
  <2> QED
    BY <1>2, <2>1, <2>2 DEF Account
<1>11. CASE Fails \/ LastWords
  <2>1. /\ pc \in {"told", "running"} /\ pc' \notin {"told", "running", "ended"}
        /\ told' = Front1(told) /\ outcome' = outcome
        /\ Len(open') = Len(open) /\ \A e \in 1..Len(open) : open'[e].path = open[e].path
        /\ pc' # "ended"
    <3>1. CASE Fails
      BY <3>1 DEF Fails
    <3>2. CASE LastWords
      <4>1. PICK mine \in Labels : ModuleEnds(mine)
        BY <3>2, ModuleEndsSo
      <4>2. Len(open') = Len(open) /\ \A e \in 1..Len(open) : open'[e].path = open[e].path
        BY <1>1, <4>1 DEF ModuleEnds, Spread
      <4> QED
        BY <4>1, <4>2 DEF ModuleEnds
    <3> QED
      BY <1>11, <3>1, <3>2
  <2>2. Len(told) = Len(open) + 1
    BY <1>1, <1>2, <2>1
  <2>3. Len(told) # 0 /\ Len(told) - 1 = Len(open)
    BY <1>1, <2>2
  <2>4. Len(told') = Len(open) /\ \A e \in 1..Len(open) : told'[e] = told[e]
    BY <1>1, <2>1, <2>3, FrontOf
  <2>5. NodesClosed'
    BY <1>2, <2>1, ScheduleAssumption DEF NodesClosed
  <2>6. Len(told') = Len(open') + (IF pc' \in {"told", "running"} THEN 1 ELSE 0)
    BY <1>1, <2>1, <2>4
  <2>7. \A e \in 1..Len(open') : told'[e] = open'[e].path
    BY <1>2, <2>1, <2>4
  <2> QED
    BY <1>2, <2>1, <2>5, <2>6, <2>7 DEF Account
<1> QED
  BY <1>5, <1>6, <1>7, <1>8, <1>9, <1>10, <1>11, KindsOfSteps

\* Every step keeps the labels dated.
LEMMA DatedStep ==
    ASSUME WalkInv, [ExecNext]_execVars
    PROVE  Dated'
<1>1. /\ job' = job /\ Place /\ Tree /\ Dated /\ open \in Seq(Iterations) /\ Len(open) \in Nat
      /\ root \in Labels
  BY JobKept DEF WalkInv, WalkTypes
<1>2. pos \in Nat \ {0} /\ root.at \in Nat
  BY <1>1 DEF Place, Labels
<1>3. \A e \in 1..Len(open) : open[e].label.at \in Nat
  <2>1. \A e \in 1..Len(open) : open[e] \in Iterations
    BY <1>1
  <2> QED
    BY <2>1 DEF Iterations, Labels
<1>4. CASE Still
  BY <1>1, <1>4 DEF Still, Dated
<1>5. CASE Enter
  <2>1. /\ pc = "step" /\ root' = root /\ root.at < pos
        /\ \A e \in 1..Len(open) : open[e].label.at < pos
    BY <1>1, <1>5 DEF Enter, AtStep, Dated
  <2>2. CASE Here.name = "temperature"
    <3> DEFINE mark == [k |-> Here.value, how |-> "setpoint", at |-> pos]
               new == [path |-> Here.path, label |-> mark]
    <3>1. open' = Append(open, new) /\ pc' = "settling" /\ pos' = pos
      BY <1>5, <2>2 DEF Enter
    <3>2. new.label.at = pos
      OBVIOUS
    <3> HIDE DEF new, mark
    <3>3. Len(open') = Len(open) + 1 /\ \A e \in 1..Len(open) : open'[e] = open[e]
          /\ open'[Len(open')] = new
      BY <1>1, <3>1
    <3>4. \A e \in 1..(Len(open') - 1) : open'[e].label.at < pos'
      BY <1>1, <2>1, <3>1, <3>3
    <3> QED
      BY <1>2, <2>1, <3>1, <3>2, <3>3, <3>4 DEF Dated
  <2>3. CASE Here.name # "temperature"
    <3> DEFINE new == [path |-> Here.path, label |-> Context]
    <3>1. open' = Append(open, new) /\ pc' = "step" /\ pos' = pos + 1
      BY <1>5, <2>1, <2>3 DEF Enter
    <3>2. new.label = Context
      OBVIOUS
    <3> HIDE DEF new
    <3>3. Context.at \in Nat /\ Context.at < pos
      BY <2>1, ContextIsDated
    <3>4. Len(open') = Len(open) + 1 /\ \A e \in 1..Len(open) : open'[e] = open[e]
          /\ open'[Len(open) + 1] = new
      BY <1>1, <3>1
    <3>5. ASSUME NEW e \in 1..Len(open') PROVE open'[e].label.at < pos'
      <4>1. CASE e = Len(open) + 1
        BY <1>2, <3>1, <3>2, <3>3, <3>4, <4>1
      <4>2. CASE e \in 1..Len(open)
        BY <1>2, <1>3, <2>1, <3>1, <3>4, <4>2
      <4> QED
        BY <1>1, <3>4, <4>1, <4>2
    <3> QED
      BY <1>2, <2>1, <3>1, <3>5 DEF Dated
  <2> QED
    BY <2>2, <2>3
<1>6. CASE GoesOn
  <2> DEFINE new == [path |-> Top(open).path, label |-> Relabelled(Top(open).label)]
  <2>1. /\ pc = "settling" /\ pc' = "step" /\ pos' = pos + 1 /\ root' = root
        /\ open' = Append(Front1(open), new)
    BY <1>6 DEF GoesOn, Entered
  <2>2. /\ root.at < pos /\ \A e \in 1..(Len(open) - 1) : open[e].label.at < pos
        /\ open[Len(open)].label.at <= pos
    BY <1>1, <2>1 DEF Dated
  <2>3. Len(open) # 0
    <3>1. pos <= Len(job) /\ Len(open) = Len(Around) + 1
      BY <1>1, <2>1 DEF Tree
    <3>2. Around \in Seq(Nat)
      BY <1>1, <3>1, StepHere, NestSteps DEF Around, Place
    <3> QED
      BY <3>1, <3>2
  <2>4. new.label.at <= pos
    <3>1. new.label = Relabelled(open[Len(open)].label)
      BY DEF Top
    <3>2. CASE result.k = None
      BY <2>2, <3>1, <3>2 DEF Relabelled
    <3>3. CASE result.k # None
      BY <1>2, <3>1, <3>3 DEF Relabelled
    <3> QED
      BY <3>2, <3>3
  <2>5. new.label.at \in Nat
    <3>1. new.label = Relabelled(open[Len(open)].label)
      BY DEF Top
    <3>2. CASE result.k = None
      BY <1>1, <1>3, <2>3, <3>1, <3>2 DEF Relabelled
    <3>3. CASE result.k # None
      BY <1>2, <3>1, <3>3 DEF Relabelled
    <3> QED
      BY <3>2, <3>3
  <2> HIDE DEF new
  <2>6. /\ Front1(open) \in Seq(Iterations) /\ Len(Front1(open)) = Len(open) - 1
        /\ \A e \in 1..(Len(open) - 1) : Front1(open)[e] = open[e]
    BY <1>1, <2>3, FrontOf
  <2>7. /\ Len(open') = Len(open) /\ open'[Len(open)] = new
        /\ \A e \in 1..(Len(open) - 1) : open'[e] = open[e]
    BY <1>1, <2>1, <2>3, <2>6
  <2>8. ASSUME NEW e \in 1..Len(open') PROVE open'[e].label.at < pos'
    <3>1. CASE e = Len(open)
      BY <1>2, <2>1, <2>4, <2>5, <2>7, <3>1
    <3>2. CASE e \in 1..(Len(open) - 1)
      <4>1. e \in 1..Len(open)
        BY <1>1, <3>2
      <4> QED
        BY <1>2, <1>3, <2>1, <2>2, <2>7, <3>2, <4>1
    <3> QED
      BY <1>1, <2>7, <3>1, <3>2
  <2> QED
    BY <1>2, <2>1, <2>2, <2>8 DEF Dated
<1>7. CASE Exit
  <2>1. /\ pc = "step" /\ pc' = "step" /\ pos' = pos + 1 /\ root' = root /\ open' = Front1(open)
        /\ pos <= Len(job) /\ Here.kind = "loop-exit"
    BY <1>7 DEF Exit, AtStep, Steps
  <2>2. Len(open) # 0
    <3>1. Len(Around) # 0
      BY <1>1, <2>1, StepHere, NestSteps DEF Around, Place
    <3> QED
      BY <1>1, <2>1, <3>1 DEF Tree
  <2>3. /\ Len(open') = Len(open) - 1
        /\ \A e \in 1..(Len(open) - 1) : open'[e] = open[e]
    BY <1>1, <2>1, <2>2, FrontOf
  <2>4. ASSUME NEW e \in 1..Len(open') PROVE open'[e].label.at < pos'
    <3>1. e \in 1..(Len(open) - 1) /\ e \in 1..Len(open)
      BY <1>1, <2>3
    <3> QED
      BY <1>1, <1>2, <1>3, <2>1, <2>3, <3>1 DEF Dated
  <2> QED
    BY <1>1, <1>2, <2>1, <2>4 DEF Dated
<1>8. CASE StartModule
  <2>1. /\ pc = "step" /\ pc' = "told" /\ UNCHANGED <<pos, root, open>>
    BY <1>8 DEF StartModule, AtStep
  <2> QED
    BY <1>1, <2>1 DEF Dated
<1>9. CASE Builds
  BY <1>1, <1>9 DEF Builds, Dated
<1>10. CASE Fails \/ CloseOne
  <2>1. pc' \in {"stopping", "stopped", "failing"}
    BY <1>10 DEF Fails, CloseOne
  <2> QED
    BY <2>1 DEF Dated
<1>11. CASE LastWords
  <2>1. PICK mine \in Labels : ModuleEnds(mine) /\ (mine = label \/ mine.at = pos)
    BY <1>11, ModuleEndsSo
  <2>2. pc = "running" /\ mine.at \in Nat /\ mine.at <= pos
    <3>1. pc = "running"
      BY <2>1 DEF ModuleEnds
    <3>2. label.at <= pos
      BY <1>1, <3>1 DEF Dated
    <3>3. mine.at \in Nat
      BY DEF Labels
    <3> QED
      BY <1>2, <2>1, <3>1, <3>2, <3>3
  <2>3. CASE pc' # "step"
    BY <2>1, <2>3 DEF ModuleEnds, Dated
  <2>4. CASE pc' = "step"
    <3>1. pos' = pos + 1
      BY <2>1, <2>4 DEF ModuleEnds
    <3>2. /\ root.at < pos /\ \A e \in 1..Len(open) : open[e].label.at < pos
      BY <1>1, <2>2 DEF Dated
    <3>3. CASE open' = open /\ root' = root
      BY <1>1, <1>2, <1>3, <2>4, <3>1, <3>2, <3>3 DEF Dated
    <3>4. CASE /\ root' = mine
               /\ open' = [i \in 1..Len(open) |-> [path |-> open[i].path, label |-> mine]]
      <4>1. Len(open') = Len(open) /\ \A e \in 1..Len(open) : open'[e].label = mine
        BY <1>1, <3>4
      <4> QED
        BY <1>2, <2>2, <2>4, <3>1, <3>4, <4>1 DEF Dated
    <3> QED
      BY <2>1, <3>3, <3>4 DEF ModuleEnds, Spread
  <2> QED
    BY <2>3, <2>4
<1> QED
  BY <1>4, <1>5, <1>6, <1>7, <1>8, <1>9, <1>10, <1>11, KindsOfSteps

-----------------------------------------------------------------------------
\* While nothing disturbs the labels, the context says what the controller holds: unless a
\* temperature iteration has been closed and no later one is open.
LEMMA ContextHolds ==
    ASSUME WalkInv, Undisturbed, Cold(job, pos) \/ \E e \in 1..Len(open) : Newest(e, job, pos)
    PROVE  Says(Context, inForce)
<1>1. /\ \/ Context = NoLabel /\ \A d \in 1..Len(open) : open[d].label.k = None
         \/ Context = root /\ \A d \in 1..Len(open) : open[d].label.k = None
         \/ \E d \in 1..Len(open) :
               /\ Context = open[d].label
               /\ \A f \in (d + 1)..Len(open) : open[f].label.k = None
      /\ Len(open) \in Nat
  BY ContextIs DEF WalkInv, WalkTypes
<1>2. LabelsHold
  BY DEF WalkInv
<1>3. CASE Cold(job, pos)
  <2>1. Says(root, inForce) /\ \A d \in 1..Len(open) : Says(open[d].label, inForce)
    BY <1>2, <1>3 DEF LabelsHold
  <2>2. Says(NoLabel, inForce)
    BY DEF Says, NoLabel
  <2> QED
    BY <1>1, <2>1, <2>2
<1>4. CASE \E e \in 1..Len(open) : Newest(e, job, pos)
  <2>1. PICK e \in 1..Len(open) : Newest(e, job, pos)
    BY <1>4
  <2>2. open[e].label.k # None /\ \A d \in e..Len(open) : Says(open[d].label, inForce)
    BY <1>2, <2>1 DEF LabelsHold
  <2>3. PICK d \in 1..Len(open) : /\ Context = open[d].label
                                  /\ \A f \in (d + 1)..Len(open) : open[f].label.k = None
    BY <1>1, <2>1, <2>2
  <2>4. d \in e..Len(open)
    <3>1. e \notin (d + 1)..Len(open)
      BY <2>2, <2>3
    <3> QED
      BY <1>1, <2>1, <3>1
  <2> QED
    BY <2>2, <2>3, <2>4
<1> QED
  BY <1>3, <1>4

\* Every step keeps what the labels say.
LEMMA LabelsStep ==
    ASSUME WalkInv, [ExecNext]_execVars
    PROVE  LabelsHold'
<1>1. /\ job' = job /\ Place /\ Tree /\ Dated /\ LabelsHold /\ open \in Seq(Iterations)
      /\ Len(open) \in Nat /\ root \in Labels /\ calls \in Nat
  BY JobKept DEF WalkInv, WalkTypes, IInv, TypeOK
<1>2. pos \in Nat \ {0} /\ Len(job) \in Nat
  BY <1>1, ScheduleAssumption DEF Place
<1>3. Around = Nest(job)[pos] /\ Around' = Nest(job)[pos']
  BY <1>1 DEF Around
<1>4. CASE Still
  <2>1. UNCHANGED <<pos, open, root, label>> /\ Here' = Here /\ Context' = Context
    BY <1>1, <1>4 DEF Still, Here, Steps, Context, Holders, Labelled
  <2>2. pc' = pc \/ pc' \in {"stopping", "ended"}
    BY <1>4 DEF Still
  <2>3. CASE pc' # pc
    BY <2>2, <2>3 DEF LabelsHold, Undisturbed
  <2>4. CASE pc' = pc
    <3>1. Undisturbed' => Undisturbed /\ inForce' = inForce
      <4>1. \/ UNCHANGED <<calls, inForce>>
            \/ /\ calls' = calls + 1
               /\ pc = "settling" \/ (pc = "running" /\ Here.name = "temperature")
        BY <1>4, <2>4 DEF Still
      <4> QED
        BY <1>1, <2>1, <2>4, <4>1 DEF Undisturbed
    <3> QED
      BY <1>1, <2>1, <2>4, <3>1 DEF LabelsHold
  <2> QED
    BY <2>3, <2>4
<1>5. CASE Enter
  <2>1. /\ pc = "step" /\ root' = root /\ pos <= Len(job) /\ Here.kind = "loop-enter"
        /\ Len(open) = Len(Around) /\ Undisturbed
    BY <1>1, <1>5 DEF Enter, AtStep, Steps, Tree, Undisturbed
  <2>2. CASE Here.name = "temperature"
    <3> DEFINE mark == [k |-> Here.value, how |-> "setpoint", at |-> pos]
               new == [path |-> Here.path, label |-> mark]
    <3>1. open' = Append(open, new) /\ pc' = "settling"
      BY <1>5, <2>2 DEF Enter
    <3>2. new.label.k = Here.value /\ new.label.how = "setpoint"
      OBVIOUS
    <3> HIDE DEF new, mark
    <3>3. open'[Len(open')] = new
      BY <1>1, <3>1
    <3>4. Here.value # None
      BY <1>1, <2>1, <2>2, StepHere, TemperatureAssumption
    <3> QED
      BY <3>1, <3>2, <3>3, <3>4 DEF LabelsHold, Undisturbed
  <2>3. CASE Here.name # "temperature"
    <3> DEFINE new == [path |-> Here.path, label |-> Context]
    <3>1. /\ open' = Append(open, new) /\ pc' = "step" /\ pos' = pos + 1 /\ inForce' = inForce
      BY <1>5, <2>1, <2>3 DEF Enter, tempVars
    <3>2. new.label = Context
      OBVIOUS
    <3> HIDE DEF new
    <3>3. /\ Len(open') = Len(open) + 1 /\ open'[Len(open) + 1] = new
          /\ \A e \in 1..Len(open) : open'[e] = open[e]
      BY <1>1, <3>1
    <3>4. ~IsHot(job[pos])
      BY <2>3 DEF IsHot, Here, Steps
    <3>5. Cold(job, pos') => Cold(job, pos)
      BY <1>2, <3>1 DEF Cold
    <3>6. /\ Len(Around') = Len(Around) + 1 /\ Around'[Len(Around) + 1] = pos
          /\ \A e \in 1..Len(Around) : Around'[e] = Around[e]
      BY <1>1, <2>1, <3>1, GoingOn
    <3>7. ASSUME NEW e \in 1..Len(open'), Newest(e, job, pos')
          PROVE  e \in 1..Len(open) /\ Newest(e, job, pos)
      <4>1. e # Len(open) + 1
        BY <1>3, <2>1, <3>4, <3>6, <3>7 DEF Newest
      <4>2. e \in 1..Len(open)
        BY <1>1, <3>3, <4>1
      <4>3. Around'[e] = Around[e] /\ e \in 1..Len(Around)
        BY <2>1, <3>6, <4>2
      <4> QED
        BY <1>2, <1>3, <3>1, <3>7, <4>2, <4>3 DEF Newest
    <3>8. Cold(job, pos') =>
             Says(root, inForce) /\ \A d \in 1..Len(open') : Says(open'[d].label, inForce)
      <4> SUFFICES ASSUME Cold(job, pos')
                   PROVE  Says(root, inForce) /\ \A d \in 1..Len(open') :
                                                     Says(open'[d].label, inForce)
        OBVIOUS
      <4>1. Says(root, inForce) /\ \A d \in 1..Len(open) : Says(open[d].label, inForce)
        BY <1>1, <2>1, <3>5 DEF LabelsHold
      <4>2. Says(Context, inForce)
        BY <2>1, <3>5, ContextHolds
      <4>3. ASSUME NEW d \in 1..Len(open') PROVE Says(open'[d].label, inForce)
        <5>1. d = Len(open) + 1 \/ d \in 1..Len(open)
          BY <1>1, <3>3
        <5>2. CASE d = Len(open) + 1
          <6>1. open'[d] = new
            BY <3>3, <5>2
          <6>2. open'[d].label = Context
            BY <3>2, <6>1
          <6> QED
            BY <4>2, <6>2
        <5>3. CASE d \in 1..Len(open)
          BY <3>3, <4>1, <5>3
        <5> QED
          BY <5>1, <5>2, <5>3
      <4> QED
        BY <4>1, <4>3
    <3>9. ASSUME NEW e \in 1..Len(open'), Newest(e, job, pos')
          PROVE  open'[e].label.k # None /\ \A d \in e..Len(open') : Says(open'[d].label, inForce)
      <4>1. e \in 1..Len(open) /\ Newest(e, job, pos)
        BY <3>7, <3>9
      <4>2. open[e].label.k # None /\ \A d \in e..Len(open) : Says(open[d].label, inForce)
        BY <1>1, <2>1, <4>1 DEF LabelsHold
      <4>3. Says(Context, inForce)
        BY <2>1, <4>1, ContextHolds
      <4>4. ASSUME NEW d \in e..Len(open') PROVE Says(open'[d].label, inForce)
        <5>1. d = Len(open) + 1 \/ (d \in e..Len(open) /\ d \in 1..Len(open))
          BY <1>1, <3>3, <4>1
        <5>2. CASE d = Len(open) + 1
          <6>1. open'[d] = new
            BY <3>3, <5>2
          <6>2. open'[d].label = Context
            BY <3>2, <6>1
          <6> QED
            BY <4>3, <6>2
        <5>3. CASE d \in e..Len(open) /\ d \in 1..Len(open)
          BY <3>3, <4>2, <5>3
        <5> QED
          BY <5>1, <5>2, <5>3
      <4> QED
        BY <3>3, <4>1, <4>2, <4>4
    <3> QED
      BY <1>1, <2>1, <3>1, <3>8, <3>9 DEF LabelsHold
  <2> QED
    BY <2>2, <2>3
<1>6. CASE GoesOn
  <2> DEFINE new == [path |-> Top(open).path, label |-> Relabelled(Top(open).label)]
  <2>1. /\ pc = "settling" /\ phase = "done" /\ pc' = "step" /\ pos' = pos + 1
        /\ open' = Append(Front1(open), new) /\ inForce' = inForce /\ result.how # "stopped"
    BY <1>6 DEF GoesOn, Entered, Leave
  <2>2. pos <= Len(job) /\ Here.kind = "loop-enter" /\ IsHot(job[pos])
        /\ Len(open) = Len(Around) + 1
    BY <1>1, <2>1 DEF Tree, IsHot, Here, Steps
  <2>3. /\ Len(Around') = Len(Around) + 1 /\ Around'[Len(Around) + 1] = pos
        /\ \A e \in 1..Len(Around) : Around'[e] = Around[e] /\ Around[e] \in 1..(pos - 1)
        /\ Around \in Seq(Nat)
    BY <1>1, <2>1, <2>2, GoingOn
  <2>4. Len(open) # 0
    BY <2>2, <2>3
  <2>5. new.label.k # None /\ Says(new.label, inForce)
    <3>1. new.label = Relabelled(open[Len(open)].label)
      BY DEF Top
    <3>2. open[Len(open)].label.k # None /\ open[Len(open)].label.how = "setpoint"
      BY <1>1, <2>1 DEF LabelsHold
    <3>3. result.how = "settled" => /\ inForce # None /\ result.k <= inForce + Tolerance
                                    /\ inForce <= result.k + Tolerance
      BY <2>1, AnswerIs DEF WalkInv
    <3> HIDE DEF new
    <3>4. CASE result.k = None
      <4>1. new.label = open[Len(open)].label
        BY <3>1, <3>4 DEF Relabelled
      <4> QED
        BY <3>2, <4>1 DEF Says
    <3>5. CASE result.k # None
      <4>1. new.label = [k |-> result.k, how |-> result.how, at |-> pos]
        BY <3>1, <3>5 DEF Relabelled
      <4> QED
        BY <3>3, <3>5, <4>1 DEF Says
    <3> QED
      BY <3>4, <3>5
  <2> HIDE DEF new
  <2>6. /\ Front1(open) \in Seq(Iterations) /\ Len(Front1(open)) = Len(open) - 1
    BY <1>1, <2>4, FrontOf
  <2>7. Len(open') = Len(open) /\ open'[Len(open)] = new
    BY <1>1, <2>1, <2>4, <2>6
  <2>8. ~Cold(job, pos')
    BY <1>2, <2>1, <2>2 DEF Cold
  <2>9. ASSUME NEW e \in 1..Len(open'), Newest(e, job, pos') PROVE e = Len(open)
    <3>1. pos <= Around'[e]
      BY <1>2, <1>3, <2>1, <2>2, <2>9 DEF Newest
    <3>2. e \notin 1..Len(Around)
      BY <1>2, <2>3, <3>1
    <3> QED
      BY <2>2, <2>3, <2>7, <3>2
  <2>10. \A e \in 1..Len(open') : Newest(e, job, pos') =>
            open'[e].label.k # None /\ \A d \in e..Len(open') : Says(open'[d].label, inForce)
    BY <1>1, <2>5, <2>7, <2>9
  <2> QED
    BY <1>1, <2>1, <2>8, <2>10 DEF LabelsHold
<1>7. CASE Exit
  <2>1. /\ pc = "step" /\ pc' = "step" /\ pos' = pos + 1 /\ root' = root /\ open' = Front1(open)
        /\ pos <= Len(job) /\ Here.kind = "loop-exit" /\ inForce' = inForce /\ Undisturbed
        /\ Len(open) = Len(Around)
    BY <1>1, <1>7 DEF Exit, AtStep, Steps, tempVars, Undisturbed, Tree
  <2>2. /\ Len(Around) # 0 /\ Len(Around') = Len(Around) - 1
        /\ \A e \in 1..(Len(Around) - 1) : Around'[e] = Around[e]
    BY <1>1, <2>1, GoingOn
  <2>3. /\ Len(open') = Len(open) - 1
        /\ \A e \in 1..(Len(open) - 1) : open'[e] = open[e]
    BY <1>1, <2>1, <2>2, FrontOf
  <2>4. \A e \in 1..(Len(open) - 1) : e \in 1..Len(open)
    BY <1>1
  <2>5. Cold(job, pos') => Cold(job, pos)
    BY <1>2, <2>1 DEF Cold
  <2>6. Cold(job, pos') =>
           Says(root, inForce) /\ \A d \in 1..Len(open') : Says(open'[d].label, inForce)
    BY <1>1, <2>1, <2>3, <2>4, <2>5 DEF LabelsHold
  <2>7. ASSUME NEW e \in 1..Len(open'), Newest(e, job, pos')
        PROVE  open'[e].label.k # None /\ \A d \in e..Len(open') : Says(open'[d].label, inForce)
    <3>1. e \in 1..(Len(open) - 1) /\ e \in 1..Len(open)
      BY <2>3, <2>4
    <3>2. Around'[e] = Around[e] /\ e \in 1..Len(Around)
      BY <2>1, <2>2, <3>1
    <3>3. Newest(e, job, pos)
      BY <1>2, <1>3, <2>1, <2>7, <3>2 DEF Newest
    <3>4. open[e].label.k # None /\ \A d \in e..Len(open) : Says(open[d].label, inForce)
      BY <1>1, <2>1, <3>1, <3>3 DEF LabelsHold
    <3>5. ASSUME NEW d \in e..Len(open') PROVE Says(open'[d].label, inForce)
      <4>1. d \in 1..(Len(open) - 1) /\ d \in e..Len(open)
        BY <1>1, <2>3, <3>1
      <4> QED
        BY <2>3, <3>4, <4>1
    <3> QED
      BY <2>3, <3>1, <3>4, <3>5
  <2> QED
    BY <1>1, <2>1, <2>6, <2>7 DEF LabelsHold
<1>8. CASE StartModule
  <2>1. /\ pc = "step" /\ pc' = "told" /\ UNCHANGED <<pos, root, open, inForce>>
    BY <1>8 DEF StartModule, AtStep, tempVars
  <2> QED
    BY <1>1, <2>1 DEF LabelsHold, Undisturbed
<1>9. CASE Builds
  <2>1. /\ pc = "told" /\ pc' = "running" /\ UNCHANGED <<pos, root, open, inForce>>
        /\ label' = Context \/ label'.how # "settled"
    BY <1>9 DEF Builds
  <2>2. Context' = Context
    <3>1. Holders' = Holders
      BY <2>1 DEF Holders
    <3>2. Labelled' = Labelled
      BY <3>1 DEF Labelled
    <3> QED
      BY <3>1, <3>2 DEF Context
  <2> QED
    BY <1>1, <2>1, <2>2 DEF LabelsHold, Undisturbed
<1>10. CASE Fails \/ CloseOne
  <2>1. pc' \in {"stopping", "stopped", "failing"}
    BY <1>10 DEF Fails, CloseOne
  <2> QED
    BY <2>1 DEF LabelsHold, Undisturbed
<1>11. CASE LastWords
  <2>1. PICK mine \in Labels :
           /\ ModuleEnds(mine)
           /\ \/ mine = label /\ (Here.name = "temperature" /\ pc' = "step" => calls = 0)
              \/ mine.at = pos /\ mine.k # None /\ Says(mine, inForce)
    BY <1>11, ModuleEndsSo
  <2>2. CASE pc' # "step"
    BY <2>1, <2>2 DEF ModuleEnds, LabelsHold, Undisturbed
  <2>3. CASE pc' = "step"
    <3>1. pc = "running" /\ pos' = pos + 1 /\ inForce' = inForce
      BY <2>1, <2>3 DEF ModuleEnds
    <3>2. pos <= Len(job) /\ Here.kind = "module"
      BY <1>1, <3>1 DEF Place
    <3>3. Around' = Around
      BY <1>1, <3>1, <3>2, GoingOn
    <3>4. Cold(job, pos') => Cold(job, pos)
      BY <1>2, <3>1 DEF Cold
    <3>5. \A e : Newest(e, job, pos') => Newest(e, job, pos)
      BY <1>2, <1>3, <3>1, <3>3 DEF Newest
    <3>6. CASE open' = open /\ root' = root /\ (mine.k = None \/ mine = Context)
      <4>1. mine = label
        <5>1. CASE mine = Context
          <6>1. Context.at < pos /\ Context.at \in Nat
            BY <3>1, ContextIsDated
          <6> QED
            BY <1>2, <2>1, <5>1, <6>1
        <5> QED
          BY <2>1, <3>6, <5>1
      <4>2. Here.name = "temperature" => calls = 0
        <5>1. CASE mine.at = pos /\ mine.k # None
          <6>1. Context.at < pos /\ Context.at \in Nat
            BY <3>1, ContextIsDated
          <6> QED
            BY <1>2, <3>6, <5>1, <6>1
        <5> QED
          BY <2>1, <2>3, <5>1
      <4>3. Undisturbed
        BY <3>1, <4>2 DEF Undisturbed
      <4> QED
        BY <1>1, <2>3, <3>1, <3>4, <3>5, <3>6, <4>3 DEF LabelsHold
    <3>7. CASE /\ mine.k # None /\ mine # Context /\ root' = mine
               /\ open' = [i \in 1..Len(open) |-> [path |-> open[i].path, label |-> mine]]
      <4>1. Len(open') = Len(open) /\ \A e \in 1..Len(open) : open'[e].label = mine
        BY <1>1, <3>7
      <4>2. Says(mine, inForce)
        BY <1>1, <2>1, <3>1, <3>7 DEF LabelsHold, Says
      <4>3. \A e \in 1..Len(open') :
               open'[e].label.k # None /\ \A d \in e..Len(open') : Says(open'[d].label, inForce)
        BY <1>1, <3>7, <4>1, <4>2
      <4> QED
        BY <1>1, <2>3, <3>1, <3>7, <4>1, <4>2, <4>3 DEF LabelsHold
    <3> QED
      BY <2>1, <3>6, <3>7 DEF ModuleEnds, Spread
  <2> QED
    BY <2>2, <2>3
<1> QED
  BY <1>4, <1>5, <1>6, <1>7, <1>8, <1>9, <1>10, <1>11, KindsOfSteps

\* All of it is inductive: WalkInv holds in every state of every execution.
THEOREM WalkHolds == ExecSpec => []WalkInv
<1>1. Init => WalkInv
  <2> SUFFICES ASSUME Init PROVE WalkInv
    OBVIOUS
  <2>1. /\ TempInit /\ job \in Schedules /\ pos = 1 /\ pc = "step"
        /\ open = << >> /\ root = NoLabel /\ label = NoLabel /\ told = << >> /\ outcome = None
    BY DEF Init
  <2>2. Len(job) \in Nat
    BY <2>1, ScheduleAssumption
  <2>3. Place
    BY <2>1 DEF Place, TempInit
  <2>4. IInv
    BY <2>1, IInvAtStart
  <2>5. Answer
    BY <2>1 DEF Answer, TempInit
  <2>6. NoLabel \in Labels /\ NoLabel.at = 0 /\ NoLabel.how = ""
    BY DEF NoLabel, Labels
  <2>7. WalkTypes
    <3>1. open \in Seq(Iterations)
      BY <2>1
    <3>2. told \in Seq(PathsOf(job))
      BY <2>1
    <3>3. root \in Labels /\ label \in Labels
      BY <2>1, <2>6
    <3> QED
      BY <3>1, <3>2, <3>3 DEF WalkTypes
  <2>8. Around = << >>
    BY <2>1, <2>2, NestGoesOn DEF Around
  <2>9. Tree
    BY <2>1, <2>2, <2>8 DEF Tree
  <2>10. Account
    BY <2>1 DEF Account, NodesClosed
  <2>11. Dated
    <3>1. root.at = 0 /\ pos = 1 /\ pc = "step" /\ Len(open) = 0
      BY <2>1, <2>6
    <3>2. 1..Len(open) = {}
      BY <3>1
    <3> QED
      BY <3>1, <3>2 DEF Dated
  <2>12. LabelsHold
    <3>1. Says(root, inForce)
      <4>1. root.how = ""
        BY <2>1, <2>6
      <4> QED
        BY <4>1 DEF Says
    <3>2. Len(open) = 0 /\ pc = "step"
      BY <2>1
    <3>3. 1..Len(open) = {}
      BY <3>2
    <3> QED
      BY <3>1, <3>2, <3>3 DEF LabelsHold
  <2> QED
    BY <2>3, <2>4, <2>5, <2>7, <2>9, <2>10, <2>11, <2>12 DEF WalkInv
<1>2. WalkInv /\ [ExecNext]_execVars => WalkInv'
  <2> SUFFICES ASSUME WalkInv, [ExecNext]_execVars PROVE WalkInv'
    OBVIOUS
  <2>1. Place' /\ [Next]_tempVars
    BY PlaceStep, SettleRefined DEF WalkInv
  <2>2. IInv'
    BY <2>1, IInvStep DEF WalkInv
  <2>3. Answer'
    BY <2>1, AnswerStep DEF WalkInv, IInv
  <2>4. WalkTypes' /\ Tree' /\ Account' /\ Dated' /\ LabelsHold'
    BY WalkTypesStep, TreeStep, AccountStep, DatedStep, LabelsStep
  <2> QED
    BY <2>1, <2>2, <2>3, <2>4 DEF WalkInv
<1>3. QED
  BY <1>1, <1>2, PTL DEF ExecSpec

\* executor.py, _exit and _close_open: whatever the schedule, a loop-exit finds its own
\* iteration innermost, and only an abort leaves nodes that were started and are not done.
THEOREM NodesAreAccounted == ExecSpec => []NodesAccounted
<1>1. WalkInv => NodesAccounted
  <2> SUFFICES ASSUME WalkInv PROVE NodesAccounted
    OBVIOUS
  <2>1. /\ Place /\ Tree /\ Account /\ open \in Seq(Iterations) /\ told \in Seq(PathsOf(job))
        /\ Len(open) \in Nat
    BY DEF WalkInv, WalkTypes
  <2>2. ASSUME pc = "step", pos <= Len(job), Here.kind = "loop-exit"
        PROVE  open # << >> /\ Top(open).path = Here.path
    <3>1. Len(open) = Len(Around) /\ \A e \in 1..Len(Around) : open[e].path = job[Around[e]].path
      BY <2>1, <2>2 DEF Tree
    <3>2. /\ Around \in Seq(Nat) /\ Len(Around) # 0
          /\ job[Around[Len(Around)]].path = Here.path
      BY <2>1, <2>2, StepHere, NestSteps DEF Around, Place
    <3>3. Len(Around) \in 1..Len(Around)
      BY <3>2
    <3> QED
      BY <2>1, <3>1, <3>2, <3>3 DEF Top
  <2>3. ASSUME pc # "ended"
        PROVE  told = [i \in 1..Len(open) |-> open[i].path]
                      \o (IF pc \in {"told", "running"} THEN <<Here.path>> ELSE << >>)
    <3> DEFINE paths == [i \in 1..Len(open) |-> open[i].path]
    <3>1. /\ Len(told) = Len(open) + (IF pc \in {"told", "running"} THEN 1 ELSE 0)
          /\ \A e \in 1..Len(open) : told[e] = open[e].path
          /\ pc \in {"told", "running"} => told[Len(told)] = Here.path
      BY <2>1, <2>3 DEF Account
    <3>2. \A e \in 1..Len(open) : open[e].path \in PathsOf(job)
      <4>1. \A e \in 1..Len(open) : open[e] \in Iterations
        BY <2>1
      <4> QED
        BY <4>1 DEF Iterations
    <3>3. /\ paths \in Seq(PathsOf(job)) /\ Len(paths) = Len(open)
          /\ \A e \in 1..Len(open) : paths[e] = told[e]
      BY <2>1, <3>1, <3>2
    <3> HIDE DEF paths
    <3>4. CASE pc \in {"told", "running"}
      <4>1. told = Append(paths, Here.path)
        BY <2>1, <3>1, <3>3, <3>4
      <4>2. paths \o <<Here.path>> = Append(paths, Here.path)
        BY <3>3
      <4> QED
        BY <3>4, <4>1, <4>2 DEF paths
    <3>5. CASE pc \notin {"told", "running"}
      <4>1. told = paths
        BY <2>1, <3>1, <3>3, <3>5
      <4>2. paths \o << >> = paths
        BY <3>3
      <4> QED
        BY <3>5, <4>1, <4>2 DEF paths
    <3> QED
      BY <3>4, <3>5
  <2>4. NodesClosed
    BY <2>1 DEF Account
  <2> QED
    BY <2>2, <2>3, <2>4 DEF NodesAccounted, LoopsPair, Steps
<1>2. QED
  BY <1>1, WalkHolds, PTL

\* service-contract.md section 7: when no measurement comes back to a label after another
\* setpoint, one that is labelled settled has its setpoint in force.
THEOREM NodesStayTrue ==
    ASSUME \A s \in Schedules : KeepsItsSetpoint(s)
    PROVE  ExecSpec => []NodesAreTrue
<1>1. WalkInv => SettledIsInForce
  <2> SUFFICES ASSUME WalkInv, pc = "running", Here.name \in Measurements, label.how = "settled"
               PROVE  Says(label, inForce)
    BY DEF SettledIsInForce, Says
  <2>1. /\ pos \in 1..Len(job) /\ Here = job[pos] /\ Here.kind = "module" /\ job \in Schedules
        /\ Len(open) = Len(Around)
    BY StepHere DEF WalkInv, Place, Tree
  <2>2. label = Context
    BY DEF WalkInv, LabelsHold
  <2>3. Undisturbed
    BY DEF Undisturbed, Measurements
  <2>4. Cold(job, pos) \/ \E e \in 1..Len(open) : Newest(e, job, pos)
    <3> SUFFICES ASSUME ~Cold(job, pos) PROVE \E e \in 1..Len(open) : Newest(e, job, pos)
      OBVIOUS
    <3>1. \E j \in 1..(pos - 1) : IsHot(job[j])
      BY DEF Cold
    <3>2. PICK e \in DOMAIN Nest(job)[pos] :
             /\ IsHot(job[Nest(job)[pos][e]])
             /\ \A j \in 1..(pos - 1) : IsHot(job[j]) => j <= Nest(job)[pos][e]
      BY <2>1, <3>1 DEF KeepsItsSetpoint
    <3>3. Nest(job)[pos] \in Seq(Nat)
      BY <2>1, NestSteps
    <3>4. e \in 1..Len(Nest(job)[pos])
      BY <3>2, <3>3
    <3> QED
      BY <2>1, <3>2, <3>4 DEF Newest, Around
  <2> QED
    BY <2>2, <2>3, <2>4, ContextHolds
<1>2. QED
  BY <1>1, WalkHolds, NodesAreAccounted, PTL DEF NodesAreTrue

=============================================================================
