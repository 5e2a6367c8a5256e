------------------------------ MODULE Digitizer ------------------------------
(***************************************************************************)
(* The oscilloscope driver (drivers/infiniium.py): what acquire does to    *)
(* the instrument and to the driver's memory of it, as operators on one    *)
(* record.  A window is <<bottom, top>> of the screen and a trace is the   *)
(* <<lowest, highest>> voltage of the signal, in steps of a small unit; a  *)
(* span within the deadband of another is equal to it.  The averager holds *)
(* the acquisitions folded into it since it was last emptied.              *)
(***************************************************************************)
EXTENDS Integers, Sequences

CONSTANTS
    Growth,      \* autorange's growth factor
    MaxRange,    \* max_range_v
    Ceiling,     \* the widest range the instrument applies
    Volt,        \* the range autorange goes by when :CHAN2:RANG? is not answered: 1 V
    Passes,      \* autorange's passes
    None

ASSUME DigitizerAssumption ==
    /\ Growth \in Nat /\ Growth > 1 /\ MaxRange \in Nat /\ Ceiling \in Nat /\ Volt \in Nat
    /\ Passes \in Nat \ {0}

Channels == {"CHAN2", "CHAN3"}          \* the current and the Sync

\* chan: the window of each channel; folded: the averager; under: what a record is taken
\* under, averaging, whose timebase, the trigger's source and sweep; ranged, window,
\* clipped: _ranged, window and last_autorange_clipped.  read is history: whether the last
\* pass of autorange was judged by a window that had been read back.
Powered(current, sync) ==
    [chan |-> [c \in Channels |-> IF c = "CHAN2" THEN current ELSE sync], folded |-> {},
     under |-> [average |-> FALSE, frame |-> "found", source |-> "CHAN3", sweep |-> "AUTO"],
     ranged |-> FALSE, window |-> current, clipped |-> FALSE, read |-> TRUE]

Size(w) == w[2] - w[1]
Least(a, b) == IF a < b THEN a ELSE b
Most(a, b) == IF a > b THEN a ELSE b

\* A window of that size about half of `twice'.
Centred(twice, size) == LET low == (twice - size) \div 2 IN <<low, low + size>>

\* configure_channel, as the instrument applies it: the centre asked for, the range up
\* to its ceiling.
Applied(w) == IF Size(w) <= Ceiling THEN w ELSE Centred(w[1] + w[2], Ceiling)
Configured(s, channel, w) == [s EXCEPT !.chan[channel] = Applied(w)]

\* configure_timebase and configure_edge_trigger.  The level of the edge is not written.
Framed(s) == [s EXCEPT !.under.frame = "run"]
Triggered(s, source, sweep) == [s EXCEPT !.under.source = source, !.under.sweep = sweep]

\* capture, by hand: a record of one channel, in a window, on a timebase and with a trigger
\* of its own, not averaged.  `on' is the channel it waits for, if any; `took' is FALSE
\* when the record did not come.
Captured(s, channel, w, on, took) ==
    [Configured(s, channel, w) EXCEPT
        !.folded = IF took THEN @ \cup {[of |-> "hand"]} ELSE @,
        !.under = [average |-> FALSE, frame |-> "hand",
                   source |-> IF on = None THEN s.under.source ELSE on,
                   sweep |-> IF on = None THEN "AUTO" ELSE "TRIG"]]

\* What is seen of a trace on the screen.
Seen(trace, w) == <<Least(Most(trace[1], w[1]), w[2]), Most(Least(trace[2], w[2]), w[1])>>
Fits(trace, w) == w[1] < trace[1] /\ trace[2] < w[2]

\* The range of one and a half times the span, about its middle.
Fit(seen) ==
    LET margin == (Most(Size(seen), 1) + 3) \div 4
    IN  <<seen[1] - margin, seen[2] + margin>>

\* Growth on the clipped side, anchored on the other edge.
Grown(w, seen) ==
    LET size == Least(Growth * Size(w), MaxRange)
        low == IF seen[1] > w[1] THEN w[1]
               ELSE IF seen[2] < w[2] THEN w[2] - size
               ELSE Centred(w[1] + w[2], size)[1]
    IN  <<low, low + size>>

\* What autorange asks the instrument: the range and the offset before its first pass, and
\* the range after each pass that grew.  The offset asked after that makes no difference:
\* the instrument applies the one it was given.  `silent' are the queries it does not answer.
Queries == {<<"offset", 0>>} \cup ({"range"} \X (0..Passes))
Heard(silent, n) == <<"range", n>> \notin silent

\* The window it believes to be in force then: 1 V and 0 V where it was not told.
Begun(w, silent) ==
    Centred(IF <<"offset", 0>> \in silent THEN 0 ELSE w[1] + w[2],
            IF Heard(silent, 0) THEN Size(w) ELSE Volt)

\* One pass of autorange: an unaveraged acquisition seen on the true screen, judged by the
\* window believed, p.w.  The channel it reads and sets is CHAN2 whatever the source
\* (acquire passes the source only).  p.on is the window in force there.  After growth the
\* range is read back, `heard': answered, it is the window believed and tells when the
\* ceiling is met; not answered, the one asked for is believed and the passes go on.
\* answered and read are history: p.w was read back, and the p.w of the pass before was.
Pass(p, trace, screen, heard) ==
    LET seen == Seen(trace, screen)
        clipped == ~(p.w[1] < seen[1] /\ seen[2] < p.w[2])
        asked == IF clipped THEN Grown(p.w, seen) ELSE Fit(seen)
        on == IF ~clipped /\ asked = p.w THEN p.on ELSE Applied(asked)
    IN  [w |-> IF clipped /\ heard THEN on ELSE asked, on |-> on,
         clipped |-> clipped, stop |-> ~clipped \/ (heard /\ Size(on) <= Size(p.w)),
         answered |-> heard, read |-> p.answered]

Screen(s, source, on) == IF source = "CHAN2" THEN on ELSE s.chan[source]
Further(p, s, source, trace, heard) ==
    IF p.stop THEN p ELSE Pass(p, trace, Screen(s, source, p.on), heard)

First(s, silent) ==
    [w |-> Begun(s.chan["CHAN2"], silent), on |-> s.chan["CHAN2"], clipped |-> FALSE,
     stop |-> FALSE, answered |-> \A q \in silent : q[2] # 0, read |-> FALSE]

Ranged(s, source, trace, silent) ==
    LET pass[n \in 0..Passes] ==
            IF n = 0 THEN First(s, silent)
            ELSE Further(pass[n - 1], s, source, trace, Heard(silent, n))
    IN  pass[Passes]

Autoranged(s, source, trace, tag, silent) ==
    LET end == Ranged(s, source, trace, silent)
    IN  [s EXCEPT !.chan["CHAN2"] = end.on, !.window = end.w, !.clipped = end.clipped,
                  !.read = end.read, !.ranged = TRUE, !.folded = {tag},
                  !.under.average = FALSE]

\* The window acquire takes: ranged on this trace, given, or the one in force.
Windowed(s, source, trace, tag, autorange, window, silent) ==
    IF autorange THEN Autoranged(s, source, trace, tag, silent)
    ELSE IF window = None THEN s
    ELSE [Configured(s, source, window) EXCEPT !.window = window, !.ranged = TRUE]

\* acquire: the scope runs and the window is taken (Windowed on Running), averaging goes off
\* and on and the averager is emptied (unless it will not be, `emptied'), its count is read
\* back (unless it does not answer, `counted') and :DIG folds this acquisition in.  A scope
\* that was never ranged, or a count that is not zero, raises: `ok' is FALSE.
Running(s, tag) == [s EXCEPT !.folded = @ \cup {tag}]
Emptied(s, emptied) ==
    [s EXCEPT !.folded = IF emptied THEN {} ELSE @, !.under.average = TRUE]

\* _digitize: N_avg acquisitions under what is set, into the averager.
Digitized(s, tag) == [s EXCEPT !.folded = @ \cup {tag}]

Unquestioned(s, counted) == TRUE             \* mutant: the count is not looked at
CountIsZero(s, counted) == counted => s.folded = {}

Acquire(framed, source, trace, tag, emptied, counted) ==
    LET reset == Emptied(framed, emptied)
        ok == framed.ranged /\ CountIsZero(reset, counted)
        scope == IF ok THEN Digitized(reset, tag) ELSE reset
    IN  [scope |-> scope, ok |-> ok,
         trace |-> [folded |-> scope.folded, under |-> scope.under,
                    window |-> scope.chan[source], signal |-> trace]]
=============================================================================
