--------------------------- MODULE TemperatureLoop ----------------------------
(***************************************************************************)
(* temperature.settle of bace/service/temperature.py: one node reads the   *)
(* Lake Shore 331, writes its setpoint once, polls until the reading has   *)
(* dwelt in the band, and pauses for the operator when there is no         *)
(* controller, when it refuses or does not answer, or at the deadline.     *)
(* The generator yields between its steps, and there the worker may close  *)
(* it on an abort.  Time is the poll clock: one unit is TEMPERATURE_POLL_S.*)
(***************************************************************************)
EXTENDS Naturals

CONSTANTS
    Kelvins,        \* what the controller may read and the operator may type
    Setpoints,      \* what trees ask for
    Tolerance,      \* tolerance_k
    HoldPolls,      \* hold_s in polls, rounded up
    TimeoutPolls,   \* timeout_s in polls, rounded up
    SilentReads,    \* SILENT_READS
    None

ASSUME TemperatureAssumption ==
    /\ Kelvins \subseteq Nat /\ Setpoints \subseteq Nat
    /\ Tolerance \in Nat /\ HoldPolls \in Nat /\ TimeoutPolls \in Nat
    /\ SilentReads \in Nat \ {0}
    /\ None \notin Nat

VARIABLES
    attached,    \* rig.temperature is not None
    target,      \* setpoint of the node that settles
    phase,       \* where its generator is
    misses, last, ramping, steady, written, elapsed,   \* _Polls and settle's locals
    polled,      \* _wait's last_k
    result,      \* Settled: how, temperature_k, source
    stop,        \* job.stop_mode
    inForce,     \* the setpoint the controller holds
    calls, heard, goodRun   \* of this settle: set_setpoint calls, whether a
                            \* reading came, polls in a row that were good

pollVars == <<misses, last, ramping, steady, written, elapsed>>
madeVars == <<calls, heard, goodRun>>
settleVars == <<target, phase, pollVars, polled, result, madeVars>>
tempVars == <<attached, settleVars, stop, inForce>>

Polling == {"top", "read"}
Asking  == {"pause", "wait", "resumed"}
Phases  == Polling \cup Asking \cup {"idle", "done", "aborted"}

InBand(k) == k <= target + Tolerance /\ target <= k + Tolerance
Outcome(how, k, source) == [how |-> how, k |-> k, source |-> source]
Results == [how : {"settled", "operator", "stopped"}, k : Kelvins \cup {None},
            source : {"instrument", "operator", ""}]

TypeOK ==
    /\ attached \in BOOLEAN
    /\ target \in Setpoints \cup {None} /\ phase \in Phases
    /\ misses \in 0..SilentReads
    /\ last \in Kelvins \cup {None} /\ ramping \in BOOLEAN
    /\ steady \in 0..(HoldPolls + 1) /\ written \in BOOLEAN /\ elapsed \in Nat
    /\ polled \in Kelvins \cup {None}
    /\ result \in Results \cup {None}
    /\ stop \in {"none", "after_shot", "abort"}
    /\ inForce \in Setpoints \cup {None}
    /\ calls \in Nat /\ heard \in BOOLEAN /\ goodRun \in Nat

TempInit ==
    /\ attached \in BOOLEAN
    /\ target = None /\ phase = "idle"
    /\ misses = 0 /\ last = None /\ ramping = FALSE
    /\ steady = 0 /\ written = FALSE /\ elapsed = 0
    /\ polled = None /\ result = None /\ stop = "none" /\ inForce = None
    /\ calls = 0 /\ heard = FALSE /\ goodRun = 0

-----------------------------------------------------------------------------
\* settle(detail) is entered: with no controller it pauses at once.
Begin(setpoint) ==
    /\ target' = setpoint
    /\ phase' = IF attached THEN "top" ELSE "pause"
    /\ misses' = 0 /\ last' = None /\ ramping' = FALSE
    /\ steady' = 0 /\ written' = FALSE /\ elapsed' = 0
    /\ polled' = None /\ result' = None
    /\ calls' = 0 /\ heard' = FALSE /\ goodRun' = 0
    /\ UNCHANGED <<attached, stop, inForce>>

\* _stop_requested at the top of the loop: after_shot returns Settled(stopped),
\* abort raises AbortNow.
StopSeen ==
    /\ phase = "top" /\ stop # "none"
    /\ IF stop = "abort" THEN phase' = "aborted" /\ UNCHANGED result
       ELSE phase' = "done" /\ result' = Outcome("stopped", None, "")
    /\ UNCHANGED <<attached, target, pollVars, polled, stop, inForce, madeVars>>

\* Not in band for long enough: sleep to the next poll, or give up at the deadline.
\* A controller that is dwelling at the deadline is let finish.
OverdueStrict == FALSE                       \* mutant: no deadline
Overdue == written /\ elapsed >= TimeoutPolls
NextPollUncounted == UNCHANGED elapsed /\ phase' = "top"    \* mutant: the clock stands still
NextPoll == elapsed' = elapsed + 1 /\ phase' = "top"
Wait == IF Overdue THEN phase' = "pause" /\ UNCHANGED elapsed ELSE NextPoll

\* take(): the read raises, or the console has no instrument behind it.
ReadFailsQuietly ==                          \* mutant: a miss leaves the dwell running
    /\ phase = "top" /\ stop = "none"
    /\ misses' = misses + 1
    /\ IF misses + 1 >= SilentReads THEN phase' = "pause" /\ UNCHANGED elapsed
       ELSE Wait
    /\ goodRun' = 0
    /\ UNCHANGED <<attached, target, last, ramping, steady, written, polled, result, stop, inForce,
                   calls, heard>>
ReadFails ==
    /\ phase = "top" /\ stop = "none"
    /\ misses' = misses + 1
    /\ steady' = 0
    /\ IF misses + 1 >= SilentReads THEN phase' = "pause" /\ UNCHANGED elapsed
       ELSE Wait
    /\ goodRun' = 0
    /\ UNCHANGED <<attached, target, last, ramping, written, polled, result, stop, inForce,
                   calls, heard>>

\* take(): a finite temperature; it is yielded as TemperatureRead.
Read ==
    /\ phase = "top" /\ stop = "none"
    /\ \E k \in Kelvins, r \in BOOLEAN : last' = k /\ ramping' = r
    /\ misses' = 0 /\ heard' = TRUE
    /\ phase' = "read"
    /\ UNCHANGED <<attached, target, steady, written, elapsed, polled, result, stop, inForce,
                   calls, goodRun>>

\* The single write.  A refusal pauses.  A write without an answer may have landed;
\* one read-back (_landed) decides, and if that fails too the node pauses.
WriteTaken ==
    /\ written' = TRUE /\ inForce' = target /\ UNCHANGED phase
WriteRefused ==
    /\ phase' = "pause" /\ UNCHANGED <<written, inForce>>
WriteUnansweredTrusted ==                    \* mutant: taken for granted
    \E landed \in BOOLEAN :
        /\ inForce' = IF landed THEN target ELSE inForce
        /\ written' = TRUE /\ UNCHANGED phase
WriteUnanswered ==
    \E landed, answers \in BOOLEAN :
        /\ inForce' = IF landed THEN target ELSE inForce
        /\ IF answers /\ inForce' = target
           THEN written' = TRUE /\ UNCHANGED phase
           ELSE phase' = "pause" /\ UNCHANGED written
WriteRetried ==                              \* mutant: tried again at the next poll
    NextPoll /\ UNCHANGED <<written, inForce>>

WriteEachPoll ==                             \* mutant: a failed write is repeated
    /\ phase = "read" /\ ~written
    /\ \/ WriteTaken /\ UNCHANGED elapsed
       \/ WriteRetried
    /\ calls' = calls + 1
    /\ UNCHANGED <<attached, target, misses, last, ramping, steady, polled, result,
                   stop, heard, goodRun>>
Write ==
    /\ phase = "read" /\ ~written
    /\ \/ WriteTaken /\ UNCHANGED elapsed
       \/ WriteRefused /\ UNCHANGED elapsed
       \/ WriteUnanswered /\ UNCHANGED elapsed
    /\ calls' = calls + 1
    /\ UNCHANGED <<attached, target, misses, last, ramping, steady, polled, result,
                   stop, heard, goodRun>>

\* The rest of the poll: a steady reading in the band dwells, and held for hold_s it
\* settles; any other restarts the dwell.
Good == InBand(last) /\ ~ramping
Dwell ==
    /\ Good
    /\ steady' = steady + 1
    /\ IF steady >= HoldPolls
       THEN /\ phase' = "done" /\ result' = Outcome("settled", last, "instrument")
            /\ UNCHANGED elapsed
       ELSE NextPoll /\ UNCHANGED result
Excursion ==
    /\ ~Good
    /\ steady' = 0 /\ Wait /\ UNCHANGED result
Judge ==
    /\ phase = "read" /\ written
    /\ goodRun' = IF Good THEN goodRun + 1 ELSE 0
    /\ Dwell \/ Excursion
    /\ UNCHANGED <<attached, target, misses, last, ramping, written, polled, stop, inForce,
                   calls, heard>>

-----------------------------------------------------------------------------
\* _pause: NeedsOperator is yielded, then wait_for_operator blocks.
OpenPause ==
    /\ phase = "pause"
    /\ phase' = "wait"
    /\ UNCHANGED <<attached, target, pollVars, polled, result, stop, inForce, madeVars>>

\* on_poll while the operator decides.
PollWhilePaused ==
    /\ phase = "wait" /\ attached
    /\ \E k \in Kelvins : polled' = k
    /\ heard' = TRUE
    /\ UNCHANGED <<attached, target, phase, pollVars, result, stop, inForce, calls, goodRun>>

\* The operator's number, else the last one polled while paused, else the last before.
AcceptedOnly(typed) == typed                 \* mutant: the readings are forgotten
Accepted(typed) == IF typed # None THEN typed ELSE IF polled # None THEN polled ELSE last
Resume ==
    /\ phase = "wait"
    /\ \E typed \in Kelvins \cup {None} :
         result' = Outcome("operator", Accepted(typed),
                           IF typed # None THEN "operator"
                           ELSE IF attached THEN "instrument" ELSE "")
    /\ phase' = "resumed"
    /\ UNCHANGED <<attached, target, pollVars, polled, stop, inForce, madeVars>>

\* A stop wakes the wait: after_shot answers stopped, abort raises AbortNow.
StopWakesAbortOnly ==                        \* mutant: after_shot does not wake the wait
    /\ phase = "wait" /\ stop = "abort"
    /\ phase' = "aborted"
    /\ UNCHANGED <<attached, target, pollVars, polled, result, stop, inForce, madeVars>>
StopWakes ==
    /\ phase = "wait" /\ stop # "none"
    /\ IF stop = "abort" THEN phase' = "aborted" /\ UNCHANGED result
       ELSE phase' = "done" /\ result' = Outcome("stopped", None, "")
    /\ UNCHANGED <<attached, target, pollVars, polled, stop, inForce, madeVars>>

\* OperatorResumed and the typed reading are yielded, then hold_s is slept.
HoldAfterResume ==
    /\ phase = "resumed"
    /\ phase' = "done"
    /\ UNCHANGED <<attached, target, pollVars, polled, result, stop, inForce, madeVars>>

\* The worker sees the abort at an event and closes the generator.
CloseGenerator ==
    /\ phase \in {"read", "pause", "resumed"} /\ stop = "abort"
    /\ phase' = "aborted"
    /\ UNCHANGED <<attached, target, pollVars, polled, result, stop, inForce, madeVars>>

\* settle returns to its caller, which has the result; its locals are gone.
Leave ==
    /\ phase = "done"
    /\ target' = None /\ phase' = "idle"
    /\ misses' = 0 /\ last' = None /\ ramping' = FALSE
    /\ steady' = 0 /\ written' = FALSE /\ elapsed' = 0
    /\ polled' = None /\ result' = None
    /\ calls' = 0 /\ heard' = FALSE /\ goodRun' = 0
    /\ UNCHANGED <<attached, stop, inForce>>

SettleStep == StopSeen \/ ReadFails \/ Read \/ Write \/ Judge \/ CloseGenerator
PauseStep  == OpenPause \/ StopWakes \/ HoldAfterResume
TempStep   == SettleStep \/ PauseStep \/ PollWhilePaused \/ Resume

\* RunWorker.request_stop, from any caller at any moment; abort supersedes after_shot.
RequestStop(mode) ==
    /\ stop \in IF mode = "abort" THEN {"none", "after_shot"} ELSE {"none"}
    /\ stop' = mode
    /\ UNCHANGED <<attached, settleVars, inForce>>

-----------------------------------------------------------------------------
\* One settle after another, the controller keeping its setpoint in between.
Next ==
    \/ TempStep
    \/ \E mode \in {"after_shot", "abort"} : RequestStop(mode)
    \/ Leave
    \/ \E s \in Setpoints : phase = "idle" /\ Begin(s)
Spec == TempInit /\ [][Next]_tempVars

-----------------------------------------------------------------------------
\* temperature.py, the dwell: a node is settled only when its last hold_s of polls,
\* without a miss, an excursion or a ramp among them, were in the band of the setpoint
\* that the controller holds.
SettledMeansHeld ==
    (phase = "done" /\ result.how = "settled") =>
        goodRun > HoldPolls /\ written /\ inForce = target

\* temperature.py, "no clamp or retry": one settle calls set_setpoint at most once,
\* whatever the controller answers, and never before a reading proved it there.
WrittenOnce == calls <= 1 /\ (calls = 1 => heard)

\* temperature.py, the two deadlines: silence ends in a pause after SILENT_READS, and a
\* reading that will not stay in the band after timeout_s plus at most one dwell.
DeadlineHolds == elapsed <= TimeoutPolls + SilentReads + HoldPolls

\* Settled, temperature_k is None: a node falls back to its setpoint as the label only
\* when no reading came before the pause or during it.
SetpointMeansNoReading ==
    (phase = "done" /\ result.how = "operator" /\ result.k = None) => ~heard

\* temperature.settle as a whole: the four promises above.
SettleKept == SettledMeansHeld /\ WrittenOnce /\ DeadlineHolds /\ SetpointMeansNoReading
=============================================================================
