---------------------------- MODULE ObserversProofs ----------------------------
(***************************************************************************)
(* Theorems about a transient scan and the threads that read the bench     *)
(* beside it, for any axis, any loops, any signals and windows, any number *)
(* of autorange passes and any limits.  First what the digitiser's         *)
(* operators give, autorange by the least pass that would break it; then   *)
(* the invariant of the scan, then those of the watchdog and of the power  *)
(* meter, which no two threads hold at a time.                             *)
(***************************************************************************)
EXTENDS Observers, TLAPS, WellFoundedInduction

-----------------------------------------------------------------------------
Window == Int \X Int

\* A window is a pair of integers.
LEMMA WindowParts == ASSUME NEW w \in Window PROVE w[1] \in Int /\ w[2] \in Int /\ w = <<w[1],
        w[2]>> /\ Size(w) \in Int
  BY DEF Window, Size

\* A window about a centre, as a pair.
LEMMA CentredIs ==
    ASSUME NEW twice \in Int, NEW size \in Int
    PROVE  \E low \in Int : /\ Centred(twice, size) = <<low, low + size>>
                           /\ 2 * low <= twice - size /\ twice - size <= 2 * low + 1
<1> DEFINE low == (twice - size) \div 2
<1>1. low \in Int /\ 2 * low <= twice - size /\ twice - size <= 2 * low + 1
  OBVIOUS
<1>2. Centred(twice, size) = <<low, low + size>>
  BY DEF Centred
<1> HIDE DEF low
<1> QED
  BY <1>1, <1>2

\* What the instrument applies is a window, no wider than its widest range.
LEMMA AppliedFits ==
    ASSUME NEW w \in Window
    PROVE  /\ Applied(w) \in Window
           /\ Size(Applied(w)) <= Ceiling
<1>1. w[1] \in Int /\ w[2] \in Int /\ Ceiling \in Int
  BY WindowParts, DigitizerAssumption
<1>2. CASE Size(w) <= Ceiling
  BY <1>2 DEF Applied
<1>3. CASE ~(Size(w) <= Ceiling)
  <2> DEFINE twice == w[1] + w[2]
  <2>1. twice \in Int /\ Applied(w) = Centred(twice, Ceiling)
    BY <1>1, <1>3 DEF Applied
  <2> HIDE DEF twice
  <2>2. PICK low \in Int : Applied(w) = <<low, low + Ceiling>>
    BY <1>1, <2>1, CentredIs
  <2> QED
    BY <1>1, <2>1, <2>2 DEF Window, Size
<1> QED
  BY <1>2, <1>3

\* A trace seen whole inside a window fits the range that is fitted to it, as it is applied.
LEMMA FitFits ==
    ASSUME NEW w \in Window, Size(w) <= Ceiling, NEW trace \in Window, trace[1] <= trace[2],
           w[1] < Seen(trace, w)[1], Seen(trace, w)[2] < w[2]
    PROVE  /\ Seen(trace, w) = trace
           /\ Fit(trace) \in Window
           /\ Fits(trace, Applied(Fit(trace)))
<1>1. w[1] \in Int /\ w[2] \in Int /\ trace[1] \in Int /\ trace[2] \in Int /\ Ceiling \in Int
        /\ trace = <<trace[1], trace[2]>>
  BY WindowParts, DigitizerAssumption
<1>2. Seen(trace, w)[1] = Least(Most(trace[1], w[1]), w[2]) /\ Seen(trace,
        w)[2] = Most(Least(trace[2], w[2]), w[1])
  BY DEF Seen
<1>3. w[1] < trace[1] /\ trace[2] < w[2]
  BY <1>1, <1>2 DEF Least, Most
<1>4. Seen(trace, w) = trace
  BY <1>1, <1>3 DEF Seen, Least, Most
<1>5. PICK m \in Int : m >= 1 /\ Fit(trace) = <<trace[1] - m, trace[2] + m>>
  <2> DEFINE m == (Most(Size(trace), 1) + 3) \div 4
  <2>1. m \in Int /\ m >= 1
    BY <1>1 DEF Most, Size
  <2>2. Fit(trace) = <<trace[1] - m, trace[2] + m>>
    BY DEF Fit
  <2> QED
    BY <2>1, <2>2
<1>6. Fit(trace) \in Window
  BY <1>1, <1>5 DEF Window
<1>7. Fits(trace, Applied(Fit(trace)))
  <2>1. CASE Size(Fit(trace)) <= Ceiling
    BY <1>1, <1>5, <2>1 DEF Applied, Fits
  <2>2. CASE ~(Size(Fit(trace)) <= Ceiling)
    <3> DEFINE twice == trace[1] + trace[2]
    <3>1. Fit(trace)[1] + Fit(trace)[2] = twice /\ twice \in Int
      BY <1>1, <1>5
    <3> HIDE DEF twice
    <3>2. Applied(Fit(trace)) = Centred(twice, Ceiling)
      BY <2>2, <3>1 DEF Applied
    <3>3. PICK low \in Int : /\ Applied(Fit(trace)) = <<low, low + Ceiling>>
                            /\ 2 * low <= twice - Ceiling /\ twice - Ceiling <= 2 * low + 1
      BY <1>1, <3>1, <3>2, CentredIs
    <3>4. w[2] - w[1] <= Ceiling
      BY <1>1 DEF Size
    <3> USE DEF twice
    <3> QED
      BY <1>1, <1>3, <3>1, <3>3, <3>4 DEF Fits
  <2> QED
    BY <2>1, <2>2
<1> QED
  BY <1>4, <1>6, <1>7

Passed == [w : Window, on : Window, clipped : BOOLEAN, stop : BOOLEAN, answered : BOOLEAN,
           read : BOOLEAN]

\* A window about a centre is a window of its size.
LEMMA CentredType ==
    ASSUME NEW twice \in Int, NEW size \in Int PROVE Centred(twice, size) \in Window
<1> DEFINE low == (twice - size) \div 2
<1>1. low \in Int
  OBVIOUS
<1>2. Centred(twice, size) = <<low, low + size>>
  BY DEF Centred
<1> HIDE DEF low
<1> QED
  BY <1>1, <1>2 DEF Window

\* A window narrow enough is applied as it is.
LEMMA AppliedSame == ASSUME NEW w, Size(w) <= Ceiling PROVE Applied(w) = w
  BY DEF Applied

\* Before the first pass the window believed is a window, and the one in force when both
\* queries were answered.
LEMMA BegunIs ==
    ASSUME NEW w \in Window, NEW silent \in SUBSET Queries
    PROVE  /\ Begun(w, silent) \in Window
           /\ (\A q \in silent : q[2] # 0) => Begun(w, silent) = w
<1>1. w[1] \in Int /\ w[2] \in Int /\ w = <<w[1], w[2]>> /\ Size(w) \in Int
        /\ Size(w) = w[2] - w[1]
  BY WindowParts DEF Size
<1>2. Volt \in Int
  BY DigitizerAssumption
<1> DEFINE twice == IF <<"offset", 0>> \in silent THEN 0 ELSE w[1] + w[2]
           size == IF Heard(silent, 0) THEN Size(w) ELSE Volt
<1>3. twice \in Int /\ size \in Int
  BY <1>1, <1>2
<1>4. Begun(w, silent) = Centred(twice, size)
  BY DEF Begun
<1>5. ASSUME \A q \in silent : q[2] # 0 PROVE Begun(w, silent) = w
  <2>1. <<"offset", 0>> \notin silent /\ <<"range", 0>> \notin silent
    BY <1>5
  <2>2. twice = w[1] + w[2] /\ size = w[2] - w[1]
    BY <1>1, <2>1 DEF Heard
  <2>3. (w[1] + w[2] - (w[2] - w[1])) \div 2 = w[1] /\ w[1] + (w[2] - w[1]) = w[2]
    BY <1>1
  <2> QED
    BY <1>1, <1>4, <2>2, <2>3 DEF Centred
<1> HIDE DEF twice, size
<1> QED
  BY <1>3, <1>4, <1>5, CentredType

\* Growth, what is seen and the fitted range are windows.
LEMMA GrownType ==
    ASSUME NEW w \in Window, NEW seen \in Window PROVE Grown(w, seen) \in Window
<1>1. w[1] \in Int /\ w[2] \in Int /\ seen[1] \in Int /\ seen[2] \in Int /\ Growth \in Int
        /\ MaxRange \in Int /\ Size(w) \in Int
  BY WindowParts, DigitizerAssumption
<1> DEFINE size == Least(Growth * Size(w), MaxRange)
           low == IF seen[1] > w[1] THEN w[1]
               ELSE IF seen[2] < w[2] THEN w[2] - size
               ELSE Centred(w[1] + w[2], size)[1]
<1>2. size \in Int
  BY <1>1 DEF Least
<1>3. Grown(w, seen) = <<low, low + size>>
  BY DEF Grown
<1> HIDE DEF size
<1>4. low \in Int
  BY <1>1, <1>2 DEF Centred
<1> HIDE DEF low
<1> QED
  BY <1>2, <1>3, <1>4 DEF Window

LEMMA SeenType ==
    ASSUME NEW w \in Window, NEW trace \in Window PROVE Seen(trace, w) \in Window
<1>1. w[1] \in Int /\ w[2] \in Int /\ trace[1] \in Int /\ trace[2] \in Int
  BY WindowParts
<1> QED
  BY <1>1 DEF Seen, Least, Most, Window
LEMMA FitType ==
    ASSUME NEW w \in Window PROVE Fit(w) \in Window
<1>1. w[1] \in Int /\ w[2] \in Int
  BY WindowParts
<1> DEFINE m == (Most(Size(w), 1) + 3) \div 4
<1>2. m \in Int
  BY <1>1 DEF Most, Size
<1>3. Fit(w) = <<w[1] - m, w[2] + m>>
  BY DEF Fit
<1> HIDE DEF m
<1> QED
  BY <1>1, <1>2, <1>3 DEF Window

\* A scope of the type the driver keeps.
Under == [average : BOOLEAN, frame : {"found", "run", "hand"}, source : Channels,
        sweep : {"AUTO", "TRIG"}]

\* A pass leaves a window the instrument applied, and believes in it when it goes on and was
\* answered; one that saw the whole trace fits the range to it and stops.
LEMMA PassKeeps ==
    ASSUME NEW p \in Passed, NEW trace \in Window, NEW screen \in Window, NEW heard \in BOOLEAN
    PROVE  LET q == Pass(p, trace, screen, heard) IN
           /\ q \in Passed /\ q.read = p.answered
           /\ Size(p.on) <= Ceiling => Size(q.on) <= Ceiling
           /\ ~q.stop /\ q.answered => q.w = q.on
           /\ ~q.clipped =>
                  /\ p.w[1] < Seen(trace, screen)[1] /\ Seen(trace, screen)[2] < p.w[2]
                  /\ q.w = Fit(Seen(trace, screen)) /\ q.stop
                  /\ q.on = IF q.w = p.w THEN p.on ELSE Applied(q.w)
<1> DEFINE seen == Seen(trace, screen)
           clipped == ~(p.w[1] < seen[1] /\ seen[2] < p.w[2])
           asked == IF clipped THEN Grown(p.w, seen) ELSE Fit(seen)
           on == IF ~clipped /\ asked = p.w THEN p.on ELSE Applied(asked)
           new == IF clipped /\ heard THEN on ELSE asked
           stop == ~clipped \/ (heard /\ Size(on) <= Size(p.w))
           q == Pass(p, trace, screen, heard)
<1>1. p.w \in Window /\ p.on \in Window /\ p.answered \in BOOLEAN
  BY DEF Passed
<1>2. seen \in Window
  BY SeenType
<1>3. q = [w |-> new, on |-> on, clipped |-> clipped, stop |-> stop, answered |-> heard,
           read |-> p.answered]
  BY DEF Pass
<1>4. clipped \in BOOLEAN /\ stop \in BOOLEAN
  OBVIOUS
<1>5. asked \in Window
  BY <1>1, <1>2, GrownType, FitType
<1>6. Applied(asked) \in Window /\ Size(Applied(asked)) <= Ceiling
  BY <1>5, AppliedFits
<1>7. on \in Window /\ (Size(p.on) <= Ceiling => Size(on) <= Ceiling)
  BY <1>1, <1>6
<1>8. new \in Window
  BY <1>5, <1>7
<1>9. ~clipped => /\ p.w[1] < seen[1] /\ seen[2] < p.w[2] /\ new = Fit(seen) /\ stop
                  /\ on = IF new = p.w THEN p.on ELSE Applied(new)
  OBVIOUS
<1>10. ~stop /\ heard => new = on
  OBVIOUS
<1> HIDE DEF clipped, stop, new, on, asked, seen, q
<1>11. /\ q \in Passed /\ q.w = new /\ q.on = on /\ q.clipped = clipped /\ q.stop = stop
       /\ q.answered = heard /\ q.read = p.answered
  BY <1>1, <1>3, <1>4, <1>7, <1>8 DEF Passed
<1>12. ~q.stop /\ q.answered => q.w = q.on
  BY <1>10, <1>11
<1>13. ~q.clipped => ~clipped
  BY <1>11
<1>14. ~q.clipped => /\ p.w[1] < seen[1] /\ seen[2] < p.w[2] /\ q.w = Fit(seen) /\ q.stop
                     /\ q.on = IF q.w = p.w THEN p.on ELSE Applied(q.w)
  BY <1>9, <1>11, <1>13
<1> QED
  BY <1>7, <1>11, <1>12, <1>14 DEF q, seen

\* The ranging of a scope on the current channel: what each pass leaves, and a function
\* that records all of them exists.
Recorded(pass, m, s, source, trace, silent) ==
    pass = [n \in 0..m |-> IF n = 0 THEN First(s, silent)
                          ELSE Further(pass[n - 1], s, source, trace, Heard(silent, n))]

\* Such a function exists for any number of passes: else there is a least number of passes
\* without one, and the one before extends to it.
LEMMA RecordExists ==
    ASSUME NEW s, NEW source, NEW trace, NEW silent
    PROVE  \A m \in Nat : \E pass : Recorded(pass, m, s, source, trace, silent)
<1> DEFINE T == {m \in Nat : ~ \E pass : Recorded(pass, m, s, source, trace, silent)}
           Start == First(s, silent)
           Next1(p, n) == Further(p, s, source, trace, Heard(silent, n))
<1>1. SUFFICES ASSUME T # {} PROVE FALSE
  OBVIOUS
<1>2. PICK m \in T : \A k \in T : ~(<<k, m>> \in OpToRel(<, Nat))
  BY <1>1, WFMin, NatLessThanWellFounded
<1>3. m \in Nat /\ \A k \in Nat : k < m => \E pass : Recorded(pass, k, s, source, trace, silent)
  BY <1>2 DEF OpToRel
<1>4. CASE m = 0
  <2> DEFINE f == [n \in 0..0 |-> Start]
  <2>1. f = [n \in 0..0 |-> IF n = 0 THEN Start ELSE Next1(f[n - 1], n)]
    OBVIOUS
  <2> QED
    BY <1>2, <1>4, <2>1 DEF Recorded
<1>5. CASE m # 0
  <2>1. PICK g : Recorded(g, m - 1, s, source, trace, silent)
    BY <1>3, <1>5
  <2> DEFINE f == [n \in 0..m |-> IF n = m THEN Next1(g[m - 1], m) ELSE g[n]]
  <2>2. \A n \in 0..(m - 1) : f[n] = g[n] /\ g[n] = IF n = 0 THEN Start ELSE Next1(g[n - 1], n)
    BY <1>3, <1>5, <2>1 DEF Recorded
  <2>3. \A n \in 0..m : f[n] = IF n = 0 THEN Start ELSE Next1(f[n - 1], n)
    <3> TAKE n \in 0..m
    <3>1. CASE n = m
      BY <1>3, <1>5, <2>2, <3>1
    <3>2. CASE n # m
      <4>1. n \in 0..(m - 1) /\ (n # 0 => n - 1 \in 0..(m - 1))
        BY <1>3, <3>2
      <4>2. f[n] = g[n] /\ (n # 0 => f[n - 1] = g[n - 1])
        BY <2>2, <4>1
      <4> QED
        BY <2>2, <4>1, <4>2
    <3> QED
      BY <3>1, <3>2
  <2>4. f = [n \in 0..m |-> IF n = 0 THEN Start ELSE Next1(f[n - 1], n)]
    <3>1. f = [n \in 0..m |-> f[n]]
      OBVIOUS
    <3> HIDE DEF f
    <3> QED
      BY <2>3, <3>1
  <2> QED
    BY <1>2, <2>4 DEF Recorded
<1> QED
  BY <1>3, <1>4, <1>5

\* So a range that is not flagged, and was judged by a window that was read back, fits the
\* trace and is the one in force: else there is a first pass that broke it.
LEMMA RangedFits ==
    ASSUME NEW s, s.chan["CHAN2"] \in Window, s.chan["CHAN3"] \in Window,
           Size(s.chan["CHAN2"]) <= Ceiling, NEW source \in Channels,
           NEW trace \in Window, trace[1] <= trace[2], NEW silent \in SUBSET Queries
    PROVE  LET end == Ranged(s, source, trace, silent)
           IN  /\ end \in Passed /\ Size(end.on) <= Ceiling
               /\ source = "CHAN2" /\ ~end.clipped /\ end.read =>
                      Fits(trace, end.on) /\ end.on = Applied(end.w)
<1> DEFINE pass == CHOOSE pass : Recorded(pass, Passes, s, source, trace, silent)
           Kept(p, n) == /\ p \in Passed /\ Size(p.on) <= Ceiling
                         /\ n = 0 => ~p.stop
                         /\ ~p.stop /\ p.answered => p.w = p.on
                         /\ n # 0 /\ source = "CHAN2" /\ ~p.clipped /\ p.read =>
                                Fits(trace, p.on) /\ p.on = Applied(p.w)
<1>0. Passes \in Nat /\ Passes # 0
  BY DigitizerAssumption
<1>1. Recorded(pass, Passes, s, source, trace, silent)
  BY <1>0, RecordExists
<1>2. Ranged(s, source, trace, silent) = pass[Passes]
  BY DEF Ranged, Recorded
<1> HIDE DEF pass
<1>3. /\ pass[0] = First(s, silent)
      /\ \A n \in 0..Passes : n # 0 =>
             pass[n] = Further(pass[n - 1], s, source, trace, Heard(silent, n))
  BY <1>0, <1>1 DEF Recorded
<1>4. Kept(pass[0], 0)
  <2> DEFINE b == Begun(s.chan["CHAN2"], silent)
             told == \A q \in silent : q[2] # 0
  <2>1. b \in Window /\ (told => b = s.chan["CHAN2"]) /\ told \in BOOLEAN
    BY BegunIs
  <2>2. pass[0] = [w |-> b, on |-> s.chan["CHAN2"], clipped |-> FALSE, stop |-> FALSE,
                   answered |-> told, read |-> FALSE]
    BY <1>3 DEF First
  <2> HIDE DEF b, told
  <2> QED
    BY <2>1, <2>2 DEF Passed
<1>5. ASSUME NEW n \in 0..Passes, n # 0, Kept(pass[n - 1], n - 1) PROVE Kept(pass[n], n)
  <2> DEFINE p == pass[n - 1]
             screen == Screen(s, source, p.on)
             heard == Heard(silent, n)
             q == Pass(p, trace, screen, heard)
  <2>1. pass[n] = IF p.stop THEN p ELSE q
    BY <1>3, <1>5 DEF Further
  <2>2. /\ p \in Passed /\ p.w \in Window /\ p.on \in Window /\ p.stop \in BOOLEAN
        /\ p.answered \in BOOLEAN /\ Size(p.on) <= Ceiling
        /\ ~p.stop /\ p.answered => p.w = p.on
    BY <1>5 DEF Passed
  <2>3. screen \in Window /\ (source = "CHAN2" => screen = p.on) /\ heard \in BOOLEAN
    BY <2>2 DEF Screen, Channels, Heard
  <2>4. CASE p.stop
    BY <1>5, <2>1, <2>4
  <2>5. CASE ~p.stop
    <3>1. pass[n] = q
      BY <2>1, <2>5
    <3> HIDE DEF screen, p, heard
    <3>2. /\ q \in Passed /\ Size(q.on) <= Ceiling /\ q.read = p.answered
          /\ ~q.stop /\ q.answered => q.w = q.on
      BY <2>2, <2>3, PassKeeps
    <3>3. ASSUME source = "CHAN2", ~q.clipped, q.read
          PROVE  Fits(trace, q.on) /\ q.on = Applied(q.w)
      <4>1. p.answered /\ p.w = p.on /\ screen = p.w /\ Size(p.w) <= Ceiling
        BY <2>2, <2>3, <2>5, <3>2, <3>3
      <4>a. /\ p.w[1] < Seen(trace, screen)[1] /\ Seen(trace, screen)[2] < p.w[2]
            /\ q.w = Fit(Seen(trace, screen)) /\ q.stop
            /\ q.on = IF q.w = p.w THEN p.on ELSE Applied(q.w)
        BY <2>2, <2>3, <3>3, PassKeeps
      <4> HIDE DEF q
      <4>2. /\ p.w[1] < Seen(trace, p.w)[1] /\ Seen(trace, p.w)[2] < p.w[2]
            /\ q.w = Fit(Seen(trace, p.w)) /\ q.stop
            /\ q.on = IF q.w = p.w THEN p.on ELSE Applied(q.w)
        BY <4>1, <4>a
      <4>3. q.w = Fit(trace) /\ Fits(trace, Applied(q.w))
        BY <2>2, <4>1, <4>2, FitFits
      <4>4. q.on = Applied(q.w)
        BY <4>1, <4>2, AppliedSame
      <4> QED
        BY <4>3, <4>4
    <3> HIDE DEF q
    <3> QED
      BY <1>5, <3>1, <3>2, <3>3
  <2> QED
    BY <2>2, <2>4, <2>5
<1> DEFINE T == {n \in 0..Passes : ~Kept(pass[n], n)}
<1> HIDE DEF Kept
<1>6. T = {}
  <2> SUFFICES ASSUME T # {} PROVE FALSE
    OBVIOUS
  <2>1. T \subseteq Nat
    BY <1>0
  <2>2. PICK n \in T : \A k \in T : ~(<<k, n>> \in OpToRel(<, Nat))
    BY <2>1, WFMin, NatLessThanWellFounded
  <2>3. n \in 0..Passes /\ n # 0 /\ ~Kept(pass[n], n)
    BY <1>4, <2>2
  <2>4. n - 1 \in 0..Passes /\ n \in Nat /\ n - 1 \in Nat /\ n - 1 < n
    BY <1>0, <2>3
  <2>5. <<n - 1, n>> \in OpToRel(<, Nat)
    BY <2>4 DEF OpToRel
  <2>6. n - 1 \notin T
    BY <2>2, <2>5
  <2> QED
    BY <1>5, <2>3, <2>4, <2>6
<1>7. Kept(pass[Passes], Passes)
  BY <1>0, <1>6
<1> QED
  BY <1>0, <1>2, <1>7 DEF Kept

Tags == {[of |-> "hand"]} \cup [of : {"sync", "light", "dark"}, loop : Nat, step : Nat]
Scope == [chan : [Channels -> Window], folded : SUBSET Tags, under : Under,
          ranged : BOOLEAN, window : Window, clipped : BOOLEAN, read : BOOLEAN]
Narrow(s) == Size(s.chan["CHAN2"]) <= Ceiling
Kin(u, v) == u.frame = v.frame /\ u.source = v.source /\ u.sweep = v.sweep

\* configure_channel moves one window and nothing else.
LEMMA ConfiguredIs ==
    ASSUME NEW s \in Scope, NEW c \in Channels, NEW w \in Window
    PROVE  LET t == Configured(s, c, w) IN
           /\ t \in Scope
           /\ t.chan = [s.chan EXCEPT ![c] = Applied(w)]
           /\ t.folded = s.folded /\ t.under = s.under /\ t.ranged = s.ranged
           /\ t.window = s.window /\ t.clipped = s.clipped
           /\ Narrow(s) => Narrow(t)
<1>1. Applied(w) \in Window /\ Size(Applied(w)) <= Ceiling
  BY AppliedFits
<1>2. s.chan \in [Channels -> Window]
  BY DEF Scope
<1> DEFINE t == Configured(s, c, w)
<1>3. t.chan = [s.chan EXCEPT ![c] = Applied(w)]
  BY DEF Configured, Scope
<1>4. t.chan \in [Channels -> Window]
  BY <1>1, <1>2, <1>3
<1>5. t = [s EXCEPT !.chan = [s.chan EXCEPT ![c] = Applied(w)]]
  BY DEF Configured
<1>6. t \in Scope
  BY <1>3, <1>4, <1>5 DEF Scope
<1>7. t.folded = s.folded /\ t.under = s.under /\ t.ranged = s.ranged /\ t.window = s.window
        /\ t.clipped = s.clipped
  BY <1>5 DEF Scope
<1>8. Narrow(s) => Narrow(t)
  BY <1>1, <1>2, <1>3 DEF Narrow, Channels
<1> QED
  BY <1>3, <1>6, <1>7, <1>8

\* What autorange leaves of a trace of the current: a range that is not flagged, and that was
\* judged by a window read back, holds the trace and is in force.
Holds(t, source, trace) ==
    source = "CHAN2" /\ ~t.clipped /\ t.read =>
        Fits(trace, t.chan["CHAN2"]) /\ t.chan["CHAN2"] = Applied(t.window)

\* autorange leaves the trace alone in the averager, and a range that holds it.
LEMMA AutorangedIs ==
    ASSUME NEW s \in Scope, Narrow(s), NEW source \in Channels, NEW tag \in Tags,
           NEW trace \in Window, trace[1] <= trace[2], NEW silent \in SUBSET Queries
    PROVE  LET t == Autoranged(s, source, trace, tag, silent) IN
           /\ t \in Scope /\ Narrow(t) /\ Holds(t, source, trace)
           /\ t.folded = {tag} /\ t.ranged /\ Kin(t.under, s.under)
<1> DEFINE end == Ranged(s, source, trace, silent)
           chan == [s.chan EXCEPT !["CHAN2"] = end.on]
           t == Autoranged(s, source, trace, tag, silent)
<1>1. s.chan["CHAN2"] \in Window /\ s.chan["CHAN3"] \in Window /\ Size(s.chan["CHAN2"]) <= Ceiling
        /\ s.chan \in [Channels -> Window]
  BY DEF Scope, Channels, Narrow
<1>2. /\ end \in Passed /\ Size(end.on) <= Ceiling
      /\ source = "CHAN2" /\ ~end.clipped /\ end.read =>
             Fits(trace, end.on) /\ end.on = Applied(end.w)
  BY <1>1, RangedFits
<1> HIDE DEF end
<1>3. end.w \in Window /\ end.on \in Window /\ end.clipped \in BOOLEAN /\ end.read \in BOOLEAN
  BY <1>2 DEF Passed
<1>4. chan \in [Channels -> Window] /\ chan["CHAN2"] = end.on
  BY <1>1, <1>3 DEF Channels
<1> DEFINE u == [s.under EXCEPT !.average = FALSE]
<1>5. u \in Under /\ Kin(u, s.under)
  BY DEF Scope, Under, Kin
<1>6. t = [s EXCEPT !.chan = chan, !.window = end.w, !.clipped = end.clipped, !.read = end.read,
                    !.ranged = TRUE, !.folded = {tag}, !.under = u]
  BY DEF Autoranged, end, Scope
<1> HIDE DEF chan, t, u
<1>7. /\ t.window = end.w /\ t.clipped = end.clipped /\ t.ranged = TRUE /\ t.folded = {tag}
      /\ t.under = u /\ t.chan = chan /\ t.read = end.read
  BY <1>6 DEF Scope
<1>8. t \in Scope
  BY <1>3, <1>4, <1>5, <1>6 DEF Scope
<1>9. Narrow(t)
  BY <1>2, <1>4, <1>7 DEF Narrow
<1> QED
  BY <1>2, <1>4, <1>5, <1>7, <1>8, <1>9 DEF t, Holds

\* The window is ranged on the trace, given, or left.
LEMMA WindowedIs ==
    ASSUME NEW s \in Scope, Narrow(s), NEW source \in Channels, NEW tag \in Tags,
           NEW trace \in Window, trace[1] <= trace[2], NEW autorange \in BOOLEAN,
           NEW window \in Window \cup {None}, None \notin Window, NEW silent \in SUBSET Queries
    PROVE  LET t == Windowed(s, source, trace, tag, autorange, window, silent) IN
           /\ t \in Scope /\ Narrow(t) /\ Kin(t.under, s.under)
           /\ autorange => t.ranged /\ Holds(t, source, trace)
           /\ ~autorange /\ window = None => t = s
           /\ ~autorange /\ window # None =>
                  t.ranged /\ t.chan[source] = Applied(window) /\ t.clipped = s.clipped
<1> DEFINE t == Windowed(s, source, trace, tag, autorange, window, silent)
<1>1. CASE autorange
  BY <1>1, AutorangedIs DEF Windowed
<1>2. CASE ~autorange /\ window = None
  BY <1>2 DEF Windowed, Kin
<1>3. CASE ~autorange /\ window # None
  <2> DEFINE c == Configured(s, source, window)
  <2>1. window \in Window
    BY <1>3
  <2>2. /\ c \in Scope /\ Narrow(c) /\ c.under = s.under /\ c.clipped = s.clipped
        /\ c.chan = [s.chan EXCEPT ![source] = Applied(window)]
    BY <2>1, ConfiguredIs
  <2>3. c.chan[source] = Applied(window)
    BY <2>2 DEF Scope
  <2>4. t = [c EXCEPT !.window = window, !.ranged = TRUE]
    BY <1>3 DEF Windowed
  <2> HIDE DEF c, t
  <2>5. t \in Scope /\ t.chan = c.chan /\ t.under = c.under /\ t.clipped = c.clipped
          /\ t.ranged = TRUE
    BY <2>1, <2>2, <2>4 DEF Scope
  <2>6. Narrow(t) /\ Kin(t.under, s.under)
    BY <2>2, <2>5 DEF Narrow, Kin
  <2> QED
    BY <1>3, <2>2, <2>3, <2>5, <2>6 DEF t
<1> QED
  BY <1>1, <1>2, <1>3

\* What acquire promises of its result a.
Acquires(a, s, source, trace, tag, autorange, window, faultless) ==
    /\ a.scope \in Scope /\ Narrow(a.scope) /\ Kin(a.scope.under, s.under) /\ a.ok \in BOOLEAN
    /\ a.trace.signal = trace /\ a.trace.window = a.scope.chan[source]
    /\ a.trace.under \in Under /\ a.trace.under.average = TRUE /\ Kin(a.trace.under, s.under)
    /\ a.ok /\ faultless => a.trace.folded = {tag}
    /\ autorange => Holds(a.scope, source, trace)
    /\ ~autorange /\ window = None => a.scope.chan = s.chan /\ a.scope.clipped = s.clipped
    /\ ~autorange /\ window # None =>
           a.scope.chan[source] = Applied(window) /\ a.scope.clipped = s.clipped

\* acquire keeps what Acquires says.
LEMMA AcquireIs ==
    ASSUME NEW s \in Scope, Narrow(s), NEW source \in Channels, NEW tag \in Tags,
           NEW trace \in Window, trace[1] <= trace[2], NEW autorange \in BOOLEAN,
           NEW window \in Window \cup {None}, None \notin Window,
           NEW silent \in SUBSET Queries, NEW emptied \in BOOLEAN, NEW counted \in BOOLEAN
    PROVE  Acquires(Acquire(Windowed(Running(s, tag), source, trace, tag, autorange, window, silent),
                            source, trace, tag, emptied, counted),
                    s, source, trace, tag, autorange, window, emptied \/ counted)
<1> DEFINE running == Running(s, tag)
           framed == Windowed(running, source, trace, tag, autorange, window, silent)
           a == Acquire(framed, source, trace, tag, emptied, counted)
           reset == Emptied(framed, emptied)
           ok == framed.ranged /\ CountIsZero(reset, counted)
           t == IF ok THEN Digitized(reset, tag) ELSE reset
<1>1. /\ running \in Scope /\ Narrow(running) /\ running.under = s.under
      /\ running.chan = s.chan /\ running.clipped = s.clipped
  BY DEF Scope, Narrow, Running
<1> HIDE DEF running
<1>2. /\ framed \in Scope /\ Narrow(framed) /\ Kin(framed.under, running.under)
      /\ autorange => Holds(framed, source, trace)
      /\ ~autorange /\ window = None => framed = running
      /\ ~autorange /\ window # None => framed.chan[source] = Applied(window)
              /\ framed.clipped = running.clipped
  BY <1>1, WindowedIs
<1> HIDE DEF framed
<1>3. /\ reset \in Scope /\ reset.chan = framed.chan /\ reset.window = framed.window
      /\ reset.clipped = framed.clipped /\ reset.read = framed.read /\ Kin(reset.under, framed.under)
      /\ reset.under.average = TRUE /\ (emptied => reset.folded = {})
  <2> DEFINE u == [framed.under EXCEPT !.average = TRUE]
  <2>1. u \in Under /\ u.average = TRUE /\ Kin(u, framed.under)
    BY <1>2 DEF Scope, Under, Kin
  <2>2. reset = [framed EXCEPT !.folded = IF emptied THEN {} ELSE framed.folded, !.under = u]
    BY <1>2 DEF Emptied, Scope
  <2> HIDE DEF u, reset
  <2> QED
    BY <1>2, <2>1, <2>2 DEF Scope
<1> HIDE DEF reset
<1>4. ok \in BOOLEAN
  BY <1>2 DEF CountIsZero, Scope
<1>5. ok /\ (emptied \/ counted) => reset.folded = {}
  BY <1>3 DEF CountIsZero
<1> HIDE DEF ok
<1>6. /\ t \in Scope /\ t.chan = reset.chan /\ t.window = reset.window /\ t.clipped = reset.clipped
      /\ t.read = reset.read /\ t.under = reset.under /\ (ok => t.folded = reset.folded \cup {tag})
  BY <1>3 DEF Digitized, Scope
<1>7. /\ a.scope = t /\ a.ok = ok /\ a.trace.folded = t.folded /\ a.trace.under = t.under
      /\ a.trace.window = t.chan[source] /\ a.trace.signal = trace
  BY DEF Acquire, reset, ok
<1> HIDE DEF t, a
<1>8. Narrow(t) /\ Kin(t.under, s.under) /\ t.under \in Under
  BY <1>1, <1>2, <1>3, <1>6 DEF Narrow, Kin, Scope
<1>9. a.ok /\ (emptied \/ counted) => a.trace.folded = {tag}
  BY <1>5, <1>6, <1>7
<1>10. autorange => Holds(t, source, trace)
  BY <1>2, <1>3, <1>6 DEF Holds
<1>11. ~autorange /\ window = None => t.chan = s.chan /\ t.clipped = s.clipped
  BY <1>1, <1>2, <1>3, <1>6
<1>12. ~autorange /\ window # None => t.chan[source] = Applied(window) /\ t.clipped = s.clipped
  BY <1>1, <1>2, <1>3, <1>6
<1>13. t \in Scope /\ a.ok \in BOOLEAN /\ t.under.average = TRUE
  BY <1>3, <1>4, <1>6, <1>7
<1> QED
  BY <1>7, <1>8, <1>9, <1>10, <1>11, <1>12, <1>13 DEF a, framed, running, Acquires

-----------------------------------------------------------------------------
Active == {"calibrate", "next", "light settle", "acquire light", "dark settle",
           "acquire dark", "process"}
TheRuns == [average |-> TRUE, frame |-> "run", source |-> "CHAN3", sweep |-> Sweep]
Trace == [folded : SUBSET Tags, under : Under, window : Window, signal : Window]
Set == [signal : Window, read : BOOLEAN]

ScanTypes ==
    /\ scope \in Scope /\ Narrow(scope)
    /\ shot \in [loop : Nat, step : 1..Steps, darkFirst : BOOLEAN]
    /\ mishaps \in Nat
    /\ lightWindows \in [1..Steps -> (Window \X BOOLEAN) \cup {None}]
    /\ set \in [1..Steps -> Set \cup {None}]
    /\ traces \in [light : Trace \cup {None}, dark : Trace \cup {None},
                   clipped : BOOLEAN \cup {None}]

\* From the setup to the end of the run the scope stays framed and triggered as the run wants.
UnderTheRun == at \in Active => Kin(scope.under, TheRuns)

\* The range of a point, as it is applied, holds the light trace it was set on, unless the
\* flag beside it says that it does not or no window was read back for it.
RangesFit ==
    \A s \in 1..Steps : lightWindows[s] # None /\ ~lightWindows[s][2] /\ set[s].read =>
        Fits(set[s].signal, Applied(lightWindows[s][1]))

Own(which) ==
    /\ traces[which].folded = {Tag(which)}
    /\ traces[which].under = TheRuns

FitsThePoint(trace) ==
    ~traces.clipped /\ set[shot.step].read /\ trace.signal = set[shot.step].signal =>
        Fits(set[shot.step].signal, trace.window)

\* The first trace of a shot is kept whole, and the window it was taken in is in force
\* until the second.
HalfDone ==
    /\ (at \in {"dark settle", "acquire dark"} /\ ~shot.darkFirst) =>
           /\ Own("light") /\ FitsThePoint(traces.light)
           /\ traces.light.window = scope.chan["CHAN2"]
    /\ (at \in {"dark settle", "acquire dark"} /\ shot.darkFirst) =>
           /\ lightWindows[shot.step] # None
           /\ traces.clipped = lightWindows[shot.step][2]
    /\ (at \in {"light settle", "acquire light"} /\ shot.darkFirst) =>
           /\ Own("dark") /\ traces.dark.window = scope.chan["CHAN2"]
           /\ ~traces.clipped /\ set[shot.step].read =>
                  Fits(set[shot.step].signal, scope.chan["CHAN2"])
    /\ at = "process" =>
           /\ Own("light") /\ Own("dark") /\ FitsThePoint(traces.light)
           /\ traces.light.window = traces.dark.window

ScanInv == ScanTypes /\ UnderTheRun /\ RangesFit /\ HalfDone /\ TracesAreWhole

\* The assumptions in the terms of the lemmas.
LEMMA ScanFacts ==
    /\ Steps \in Nat /\ Steps # 0 /\ 1 \in 1..Steps
    /\ \A trace \in LightTraces \cup {DarkTrace, Sync} : trace \in Window /\ trace[1] <= trace[2]
    /\ SyncStart \in Window /\ None \notin Window
    /\ \A w \in Found : w \in Window /\ Size(w) <= Ceiling
    /\ Sweep \in {"AUTO", "TRIG"} /\ TheRuns \in Under
    /\ \A c \in Captures : c.channel \in Channels /\ c.window \in Window
            /\ c.on \in Channels \cup {None}
  BY ScanAssumption DEF Window, TheRuns, Under, Channels

\* A scope that is powered up is a scope.
LEMMA PoweredIs ==
    ASSUME NEW w \in Window, Size(w) <= Ceiling
    PROVE  Powered(w, Sync) \in Scope /\ Narrow(Powered(w, Sync))
<1> DEFINE p == Powered(w, Sync)
           chan == [c \in Channels |-> IF c = "CHAN2" THEN w ELSE Sync]
           u == [average |-> FALSE, frame |-> "found", source |-> "CHAN3", sweep |-> "AUTO"]
<1>1. chan \in [Channels -> Window] /\ chan["CHAN2"] = w
  BY ScanFacts DEF Channels
<1>2. u \in Under
  BY DEF Under, Channels
<1>3. p = [chan |-> chan, folded |-> {}, under |-> u, ranged |-> FALSE, window |-> w,
        clipped |-> FALSE, read |-> TRUE]
  BY DEF Powered
<1> HIDE DEF p, chan, u
<1> QED
  BY <1>1, <1>2, <1>3 DEF Scope, Narrow, p

\* The invariant holds at the start.
LEMMA ScanInitial == ScanInit => ScanInv
<1> SUFFICES ASSUME ScanInit PROVE ScanInv
  OBVIOUS
<1>1. scope \in Scope /\ Narrow(scope)
  BY PoweredIs, ScanFacts DEF ScanInit
<1>2. shot \in [loop : Nat, step : 1..Steps, darkFirst : BOOLEAN] /\ mishaps \in Nat
  BY ScanFacts, ScanAssumption DEF ScanInit, FirstShot
<1>3. /\ lightWindows = [s \in 1..Steps |-> None] /\ set = [s \in 1..Steps |-> None]
      /\ traces = [light |-> None, dark |-> None, clipped |-> None] /\ at = "idle" /\ done = None
  BY DEF ScanInit, NoWindows, NoTraces
<1>4. ScanTypes
  BY <1>1, <1>2, <1>3 DEF ScanTypes
<1>5. TracesAreWhole
  BY <1>3
     DEF TracesAreWhole, TracesArePure, TracesShareTheRange, UnflaggedTracesFit,
         TracesAreTheRuns
<1> QED
  BY <1>3, <1>4, <1>5 DEF ScanInv, UnderTheRun, RangesFit, HalfDone, Active

\* What an acquisition gives that loses its reset or its count, not both.
LEMMA TakesGive ==
    ASSUME NEW s \in Scope, Narrow(s), NEW source \in Channels, NEW tag \in Tags,
           NEW signal \in Window, signal[1] <= signal[2],
           NEW autorange \in BOOLEAN, NEW window \in Window \cup {None},
           NEW take \in Takes(s, source, signal, tag, autorange, window), take.faults <= 1
    PROVE  /\ Acquires(take.result, s, source, signal, tag, autorange, window, TRUE)
           /\ take.result.trace \in Trace
<1>0. Works \in SUBSET BOOLEAN
  BY DEF Works
<1>1. PICK silent \in Silences(autorange), emptied \in Works, counted \in Works :
        take = [result |-> Acquire(Windowed(Running(s, tag), source, signal, tag, autorange,
                                            window, silent), source, signal, tag, emptied, counted),
                faults |-> (IF emptied THEN 0 ELSE 1) + (IF counted THEN 0 ELSE 1),
                silent |-> silent]
  BY DEF Takes
<1>a. silent \in SUBSET Queries
  BY DEF Silences
<1> DEFINE a == Acquire(Windowed(Running(s, tag), source, signal, tag, autorange, window, silent),
                        source, signal, tag, emptied, counted)
<1>2. take.result = a /\ take.faults = (IF emptied THEN 0 ELSE 1) + (IF counted THEN 0 ELSE 1)
  BY <1>1
<1>3. emptied \/ counted
  BY <1>2
<1>5. None \notin Window
  BY ScanFacts
<1>4. emptied \in BOOLEAN /\ counted \in BOOLEAN
  BY <1>0
<1>6. Acquires(a, s, source, signal, tag, autorange, window, emptied \/ counted)
  BY <1>4, <1>5, <1>a, AcquireIs
<1>7. a.trace = [folded |-> a.scope.folded, under |-> a.scope.under,
                 window |-> a.scope.chan[source], signal |-> signal]
  BY DEF Acquire
<1> HIDE DEF a
<1>8. a.trace \in Trace
  BY <1>6, <1>7 DEF Trace, Scope, Channels, Acquires
<1> QED
  BY <1>2, <1>3, <1>6, <1>8 DEF Acquires

\* A loss of the reset and a loss of the count in one acquisition go unnoticed.
OneAtATime == mishaps' <= mishaps + 1

\* A trace that averages, taken in a run, was taken as the run's traces are.
LEMMA RunTrace ==
    ASSUME NEW u \in Under, u.average = TRUE, Kin(u, scope.under), Kin(scope.under, TheRuns)
    PROVE  u = TheRuns
  BY DEF Under, Kin, TheRuns

\* The setup frames and triggers the scope as the run wants it and moves no window.
LEMMA FramedIs ==
    ASSUME NEW s \in Scope, Narrow(s)
    PROVE  LET t == OnSync(Framed(s))
           IN  t \in Scope /\ Narrow(t) /\ t.chan = s.chan /\ Kin(t.under, TheRuns)
<1> DEFINE v == [s.under EXCEPT !.frame = "run"]
           u == [v EXCEPT !.source = "CHAN3", !.sweep = Sweep]
           f == Framed(s)
           t == OnSync(Framed(s))
<1>1. s.under \in Under
  BY DEF Scope
<1>2. v \in Under /\ v.frame = "run"
  BY <1>1 DEF Under
<1>3. f = [s EXCEPT !.under = v]
  BY DEF Framed, Scope
<1> HIDE DEF v
<1>4. u \in Under /\ u.frame = "run" /\ u.source = "CHAN3" /\ u.sweep = Sweep
  BY <1>2, ScanFacts DEF Under, Channels
<1>5. t = [f EXCEPT !.under = [f.under EXCEPT !.source = "CHAN3", !.sweep = Sweep]]
  BY DEF OnSync, Triggered
<1> HIDE DEF f
<1>6. f \in Scope /\ f.under = v /\ f.chan = s.chan
  BY <1>2, <1>3 DEF Scope
<1>7. t = [f EXCEPT !.under = u]
  BY <1>5, <1>6
<1> HIDE DEF t, u
<1>8. t \in Scope /\ t.chan = s.chan /\ t.under = u
  BY <1>4, <1>6, <1>7 DEF Scope
<1> QED
  BY <1>4, <1>8 DEF Narrow, Kin, TheRuns, t

\* A capture by hand leaves a scope, under its own timebase and trigger.
LEMMA CapturedIs ==
    ASSUME NEW s \in Scope, Narrow(s), NEW c \in Captures, NEW took \in BOOLEAN
    PROVE  LET t == Captured(s, c.channel, c.window, c.on, took) IN t \in Scope /\ Narrow(t)
<1> DEFINE u == [average |-> FALSE, frame |-> "hand",
                   source |-> IF c.on = None THEN s.under.source ELSE c.on,
                   sweep |-> IF c.on = None THEN "AUTO" ELSE "TRIG"]
           k == Configured(s, c.channel, c.window)
           t == Captured(s, c.channel, c.window, c.on, took)
           f == IF took THEN k.folded \cup {[of |-> "hand"]} ELSE k.folded
<1>1. c.channel \in Channels /\ c.window \in Window /\ c.on \in Channels \cup {None}
  BY ScanFacts
<1>2. k \in Scope /\ Narrow(k)
  BY <1>1, ConfiguredIs
<1>3. u \in Under
  BY <1>1 DEF Under, Scope
<1>4. f \in SUBSET Tags
  BY <1>2 DEF Scope, Tags
<1>5. t = [k EXCEPT !.folded = f, !.under = u]
  BY DEF Captured
<1> HIDE DEF t, u, k, f
<1> QED
  BY <1>2, <1>3, <1>4, <1>5 DEF Scope, Narrow, t

\* Steps that leave the shot alone.
LEMMA Rests ==
    ASSUME ScanInv, UNCHANGED <<shot, lightWindows, traces, set, done>>, mishaps' \in Nat,
           scope' \in Scope, Narrow(scope'),
           at' \in Active => Kin(scope'.under, TheRuns),
           \/ at' \in {"idle", "power", "calibrate", "next", "cleanup"}
           \/ scope' = scope /\ at = "light settle" /\ at' = "acquire light"
           \/ scope' = scope /\ at = "dark settle" /\ at' = "acquire dark"
           \/ scope' = scope /\ at' = at
    PROVE  ScanInv'
<1>1. ScanTypes'
  BY DEF ScanInv, ScanTypes
<1>2. UnderTheRun' /\ RangesFit'
  BY DEF ScanInv, UnderTheRun, RangesFit
<1>3. TracesAreWhole'
  BY
     DEF ScanInv, TracesAreWhole, TracesArePure, TracesShareTheRange, UnflaggedTracesFit,
         TracesAreTheRuns
<1>4. HalfDone'
  BY DEF ScanInv, HalfDone, Own, Tag, FitsThePoint
<1> QED
  BY <1>1, <1>2, <1>3, <1>4 DEF ScanInv

\* Steps that begin a run or end one.
LEMMA Clears ==
    ASSUME ScanInv, shot' = FirstShot, lightWindows' = NoWindows, traces' = NoTraces,
           done' = None, set' = NoWindows, mishaps' = mishaps,
           scope' \in Scope, Narrow(scope'), at' \in {"calibrate", "next", "idle"},
           at' \in Active => Kin(scope'.under, TheRuns)
    PROVE  ScanInv'
<1>1. shot' \in [loop : Nat, step : 1..Steps, darkFirst : BOOLEAN]
  BY ScanFacts DEF FirstShot
<1>2. /\ lightWindows' = [s \in 1..Steps |-> None] /\ set' = [s \in 1..Steps |-> None]
      /\ traces' = [light |-> None, dark |-> None, clipped |-> None]
  BY DEF NoWindows, NoTraces
<1>3. ScanTypes'
  BY <1>1, <1>2 DEF ScanInv, ScanTypes
<1>4. TracesAreWhole'
  BY DEF TracesAreWhole, TracesArePure, TracesShareTheRange, UnflaggedTracesFit, TracesAreTheRuns
<1> QED
  BY <1>2, <1>3, <1>4 DEF ScanInv, UnderTheRun, RangesFit, HalfDone

\* The order of a shot is chosen; the dark trace goes first only with a range to go by.
LEMMA NextShotKeeps == ASSUME ScanInv, NextShot PROVE ScanInv'
<1>1. /\ at = "next" /\ at' = IF DarkFirst THEN "dark settle" ELSE "light settle"
      /\ shot' = [shot EXCEPT !.darkFirst = DarkFirst]
      /\ traces' = IF DarkFirst THEN [NoTraces EXCEPT !.clipped = CarriedFlag] ELSE NoTraces
      /\ UNCHANGED <<scope, lightWindows, done, mishaps, set>>
  BY DEF NextShot
<1>2. DarkFirst \in BOOLEAN /\ shot \in [loop : Nat, step : 1..Steps, darkFirst : BOOLEAN]
  BY DEF DarkFirst, ScanInv, ScanTypes
<1>3. /\ shot' \in [loop : Nat, step : 1..Steps, darkFirst : BOOLEAN]
      /\ shot'.step = shot.step /\ shot'.darkFirst = DarkFirst
  BY <1>1, <1>2
<1>4. DarkFirst => /\ lightWindows[shot.step] # None
        /\ lightWindows[shot.step] \in Window \X BOOLEAN
                   /\ CarriedFlag \in BOOLEAN /\ CarriedFlag = lightWindows[shot.step][2]
  BY <1>2 DEF DarkFirst, CarriedFlag, ScanInv, ScanTypes
<1> HIDE DEF DarkFirst, CarriedFlag
<1>5. /\ traces' \in [light : Trace \cup {None}, dark : Trace \cup {None},
        clipped : BOOLEAN \cup {None}]
      /\ DarkFirst => traces'.clipped = CarriedFlag
  BY <1>1, <1>2, <1>4 DEF NoTraces
<1>6. ScanTypes'
  BY <1>1, <1>3, <1>5 DEF ScanInv, ScanTypes
<1>7. UnderTheRun' /\ RangesFit'
  BY <1>1 DEF ScanInv, UnderTheRun, RangesFit, Active
<1>8. TracesAreWhole'
  BY <1>1
     DEF ScanInv, TracesAreWhole, TracesArePure, TracesShareTheRange, UnflaggedTracesFit,
         TracesAreTheRuns
<1>9. HalfDone'
  BY <1>1, <1>2, <1>3, <1>4, <1>5 DEF HalfDone
<1> QED
  BY <1>6, <1>7, <1>8, <1>9 DEF ScanInv

\* What an acquisition of a scan step leaves, besides the traces.
LEMMA TagIs == ScanInv => Tag("light") \in Tags /\ Tag("dark") \in Tags
  BY DEF Tag, Tags, ScanInv, ScanTypes

\* An acquisition that fails ends the run.
LEMMA FailedTake ==
    ASSUME ScanInv, OneAtATime, NEW take, NEW next, Taken(take, next), ~take.result.ok,
           take.faults \in Nat, take.result.scope \in Scope, Narrow(take.result.scope),
           UNCHANGED <<shot, traces, lightWindows, set, done>>
    PROVE  ScanInv'
<1>1. at' = "cleanup" /\ scope' = take.result.scope /\ mishaps' = mishaps + take.faults
  BY DEF Taken
<1>2. ScanTypes'
  BY <1>1 DEF ScanInv, ScanTypes
<1>3. UnderTheRun' /\ RangesFit' /\ HalfDone'
  BY <1>1 DEF ScanInv, UnderTheRun, RangesFit, HalfDone, Active
<1>4. TracesAreWhole'
  BY
     DEF ScanInv, TracesAreWhole, TracesArePure, TracesShareTheRange, UnflaggedTracesFit,
         TracesAreTheRuns
<1> QED
  BY <1>2, <1>3, <1>4 DEF ScanInv

\* An acquisition in which one thing goes wrong at most.
LEMMA OneFault ==
    ASSUME ScanInv, NEW f \in Nat, mishaps' = mishaps + f, mishaps' <= mishaps + 1
    PROVE  f <= 1 /\ mishaps' \in Nat
<1>1. mishaps \in Nat
  BY DEF ScanInv, ScanTypes
<1> QED
  BY <1>1

\* Faults are counted.
LEMMA FaultsAreCounted ==
    ASSUME NEW s, NEW source, NEW signal, NEW tag, NEW autorange, NEW window,
           NEW take \in Takes(s, source, signal, tag, autorange, window)
    PROVE  take.faults \in Nat
<1>0. Works \in SUBSET BOOLEAN
  BY DEF Works
<1>1. PICK emptied \in Works, counted \in Works :
        take.faults = (IF emptied THEN 0 ELSE 1) + (IF counted THEN 0 ELSE 1)
  BY DEF Takes
<1>2. emptied \in BOOLEAN /\ counted \in BOOLEAN
  BY <1>0
<1> QED
  BY <1>1, <1>2

\* The light trace, first or second.
LEMMA LightKeeps == ASSUME ScanInv, OneAtATime, AcquireLight PROVE ScanInv'
<1>1. PICK signal \in LightTraces :
        \E take \in Takes(scope, "CHAN2", signal, Tag("light"), ~shot.darkFirst, None) :
           /\ Taken(take, IF shot.darkFirst THEN "process" ELSE "dark settle")
           /\ IF take.result.ok THEN LightTaken(take.result.trace)
              ELSE UNCHANGED <<traces, lightWindows, set>>
  BY DEF AcquireLight
<1>2. PICK take \in Takes(scope, "CHAN2", signal, Tag("light"), ~shot.darkFirst, None) :
           /\ Taken(take, IF shot.darkFirst THEN "process" ELSE "dark settle")
           /\ IF take.result.ok THEN LightTaken(take.result.trace)
              ELSE UNCHANGED <<traces, lightWindows, set>>
  BY <1>1
<1> DEFINE r == take.result
<1>3. at = "acquire light" /\ UNCHANGED <<shot, done>>
  BY DEF AcquireLight
<1>4. mishaps' = mishaps + take.faults /\ scope' = r.scope /\ mishaps' <= mishaps + 1
      /\ at' = IF r.ok THEN (IF shot.darkFirst THEN "process" ELSE "dark settle") ELSE "cleanup"
  BY <1>2 DEF Taken, OneAtATime
<1>b. scope \in Scope /\ Narrow(scope) /\ "CHAN2" \in Channels /\ None \in Window \cup {None}
  BY DEF ScanInv, ScanTypes, Channels
<1>5. signal \in Window /\ signal[1] <= signal[2] /\ Tag("light") \in Tags
      /\ (~shot.darkFirst) \in BOOLEAN /\ shot.darkFirst \in BOOLEAN /\ shot.step \in 1..Steps
  BY ScanFacts, TagIs DEF ScanInv, ScanTypes
<1>6. take.faults \in Nat
  BY <1>2, FaultsAreCounted
<1>7. take.faults <= 1 /\ mishaps' \in Nat
  BY <1>4, <1>6, OneFault
<1>8. /\ Acquires(r, scope, "CHAN2", signal, Tag("light"), ~shot.darkFirst, None, TRUE)
      /\ r.trace \in Trace
  BY <1>2, <1>5, <1>7, <1>b, TakesGive
<1> HIDE DEF r
<1>9. CASE ~r.ok
  <2>1. UNCHANGED <<traces, lightWindows, set>>
    BY <1>2, <1>9 DEF r
  <2>2. r.scope \in Scope /\ Narrow(r.scope)
    BY <1>8 DEF Acquires
  <2> QED
    BY <1>2, <1>3, <1>6, <1>9, <2>1, <2>2, FailedTake DEF r
<1>10. CASE r.ok
  <2>1. LightTaken(r.trace) /\ at' = (IF shot.darkFirst THEN "process" ELSE "dark settle")
    BY <1>2, <1>4, <1>10 DEF r
  <2>2. /\ r.scope \in Scope /\ Narrow(r.scope) /\ mishaps' \in Nat
        /\ Kin(r.scope.under, TheRuns) /\ Kin(scope.under, TheRuns)
    <3>1. Kin(scope.under, TheRuns)
      BY <1>3 DEF ScanInv, UnderTheRun, Active
    <3>2. r.scope \in Scope /\ Narrow(r.scope) /\ Kin(r.scope.under, scope.under)
      BY <1>8 DEF Acquires
    <3>3. mishaps' \in Nat
      BY <1>7
    <3> QED
      BY <3>1, <3>2, <3>3 DEF Kin
  <2>3. /\ r.trace.folded = {Tag("light")} /\ r.trace.under = TheRuns
        /\ r.trace.signal = signal /\ r.trace.window = r.scope.chan["CHAN2"]
    BY <1>8, <1>10, <2>2, RunTrace DEF Acquires
  <2>4. traces \in [light : Trace \cup {None}, dark : Trace \cup {None},
          clipped : BOOLEAN \cup {None}]
    BY DEF ScanInv, ScanTypes
  <2>5. TracesAreWhole'
    BY <1>3
       DEF ScanInv, TracesAreWhole, TracesArePure, TracesShareTheRange, UnflaggedTracesFit,
           TracesAreTheRuns
  <2>6. CASE shot.darkFirst
    <3>1. /\ traces' = [traces EXCEPT !.light = r.trace] /\ UNCHANGED <<lightWindows, set>>
          /\ at' = "process"
      BY <2>1, <2>6 DEF LightTaken
    <3>2. /\ traces' \in [light : Trace \cup {None}, dark : Trace \cup {None},
            clipped : BOOLEAN \cup {None}]
          /\ traces'.light = r.trace /\ traces'.dark = traces.dark
                  /\ traces'.clipped = traces.clipped
      BY <1>8, <2>4, <3>1
    <3>3. r.scope.chan = scope.chan
      BY <1>8, <2>6 DEF Acquires
    <3>4. ScanTypes'
      BY <1>3, <1>4, <2>2, <3>1, <3>2 DEF ScanInv, ScanTypes
    <3>5. UnderTheRun' /\ RangesFit'
      BY <1>4, <2>2, <3>1 DEF ScanInv, UnderTheRun, RangesFit
    <3>6. /\ traces.dark.folded = {Tag("dark")} /\ traces.dark.under = TheRuns
          /\ traces.dark.window = scope.chan["CHAN2"]
          /\ ~traces.clipped /\ set[shot.step].read =>
                 Fits(set[shot.step].signal, scope.chan["CHAN2"])
      BY <1>3, <2>6 DEF ScanInv, HalfDone, Own
    <3>7. /\ traces'["light"].folded = {Tag("light")} /\ traces'["light"].under = TheRuns
          /\ traces'["dark"].folded = {Tag("dark")} /\ traces'["dark"].under = TheRuns
          /\ traces'.light.window = traces'.dark.window
          /\ ~traces'.clipped /\ set[shot.step].read =>
                 Fits(set[shot.step].signal, traces'.light.window)
      BY <2>3, <3>2, <3>3, <3>6
    <3>8. Tag("light")' = Tag("light") /\ Tag("dark")' = Tag("dark")
      BY <1>3 DEF Tag
    <3>9. HalfDone'
      BY <1>3, <3>1, <3>7, <3>8 DEF HalfDone, Own, FitsThePoint
    <3> QED
      BY <2>5, <3>4, <3>5, <3>9 DEF ScanInv
  <2>7. CASE ~shot.darkFirst
    <3>1. /\ traces' = [traces EXCEPT !.light = r.trace, !.clipped = r.scope.clipped]
          /\ lightWindows' = [lightWindows EXCEPT ![shot.step] = <<r.scope.window,
                  r.scope.clipped>>]
          /\ set' = [set EXCEPT ![shot.step] = [signal |-> r.trace.signal, read |-> r.scope.read]]
          /\ at' = "dark settle"
      BY <1>4, <2>1, <2>7 DEF LightTaken
    <3>2. r.scope.clipped \in BOOLEAN /\ r.scope.window \in Window /\ r.scope.read \in BOOLEAN
      BY <2>2 DEF Scope
    <3>3. /\ traces' \in [light : Trace \cup {None}, dark : Trace \cup {None},
            clipped : BOOLEAN \cup {None}]
          /\ traces'.light = r.trace /\ traces'.clipped = r.scope.clipped
      BY <1>8, <2>4, <3>1, <3>2
    <3>4. /\ lightWindows' \in [1..Steps -> (Window \X BOOLEAN) \cup {None}]
          /\ set' \in [1..Steps -> Set \cup {None}]
      BY <1>5, <2>3, <3>1, <3>2 DEF ScanInv, ScanTypes, Set
    <3>5. ScanTypes'
      BY <1>3, <1>4, <2>2, <3>3, <3>4 DEF ScanInv, ScanTypes
    <3>6. ~r.scope.clipped /\ r.scope.read =>
              /\ r.scope.chan["CHAN2"] = Applied(r.scope.window)
              /\ Fits(signal, r.scope.chan["CHAN2"])
      BY <1>8, <2>7 DEF Acquires, Holds
    <3>7. /\ \A s \in (1..Steps) \ {shot.step} : lightWindows'[s] = lightWindows[s]
            /\ set'[s] = set[s]
          /\ lightWindows'[shot.step] = <<r.scope.window, r.scope.clipped>>
          /\ set'[shot.step] = [signal |-> signal, read |-> r.scope.read]
      BY <1>5, <2>3, <3>1 DEF ScanInv, ScanTypes
    <3>8. RangesFit'
      <4> SUFFICES ASSUME NEW s \in 1..Steps, lightWindows'[s] # None, ~lightWindows'[s][2],
                          set'[s].read
                   PROVE  Fits(set'[s].signal, Applied(lightWindows'[s][1]))
        BY DEF RangesFit
      <4>1. CASE s = shot.step
        BY <3>6, <3>7, <4>1
      <4>2. CASE s # shot.step
        BY <3>7, <4>2 DEF ScanInv, RangesFit
      <4> QED
        BY <4>1, <4>2
    <3>9. UnderTheRun'
      BY <1>4, <2>2 DEF UnderTheRun
    <3>10. Tag("light")' = Tag("light")
      BY <1>3 DEF Tag
    <3>a. FitsThePoint(traces.light)'
      <4>1. /\ traces'.light.window = r.scope.chan["CHAN2"] /\ traces'.clipped = r.scope.clipped
            /\ set'[shot'.step].signal = signal /\ set'[shot'.step].read = r.scope.read
        <5>1. shot' = shot
          BY <1>3
        <5>2. set'[shot'.step] = [signal |-> signal, read |-> r.scope.read]
          BY <3>7, <5>1
        <5> QED
          BY <2>3, <3>3, <5>2
      <4>2. ~r.scope.clipped /\ r.scope.read => Fits(signal, r.scope.chan["CHAN2"])
        BY <3>6
      <4> QED
        BY <4>1, <4>2 DEF FitsThePoint
    <3>11. HalfDone'
      BY <1>3, <1>4, <2>3, <2>7, <3>1, <3>3, <3>10, <3>a DEF HalfDone, Own
    <3> QED
      BY <2>5, <3>5, <3>8, <3>9, <3>11 DEF ScanInv
  <2> QED
    BY <2>6, <2>7
<1> QED
  BY <1>9, <1>10

\* The dark trace, first or second.
LEMMA DarkKeeps == ASSUME ScanInv, OneAtATime, AcquireDark PROVE ScanInv'
<1>1. PICK take \in Takes(scope, "CHAN2", DarkTrace, Tag("dark"), DarkAutorange, DarkWindow) :
           /\ Taken(take, IF shot.darkFirst THEN "light settle" ELSE "process")
           /\ IF take.result.ok THEN DarkTaken(take.result.trace)
              ELSE UNCHANGED <<traces, lightWindows, set>>
  BY DEF AcquireDark
<1> DEFINE r == take.result
           L == lightWindows[shot.step]
<1>3. at = "acquire dark" /\ UNCHANGED <<shot, done>>
  BY DEF AcquireDark
<1>4. mishaps' = mishaps + take.faults /\ scope' = r.scope /\ mishaps' <= mishaps + 1
      /\ at' = IF r.ok THEN (IF shot.darkFirst THEN "light settle" ELSE "process") ELSE "cleanup"
  BY <1>1 DEF Taken, OneAtATime
<1>c. scope \in Scope /\ Narrow(scope) /\ "CHAN2" \in Channels
  BY DEF ScanInv, ScanTypes, Channels
<1>5. DarkTrace \in Window /\ DarkTrace[1] <= DarkTrace[2] /\ Tag("dark") \in Tags
      /\ DarkAutorange = FALSE /\ shot.darkFirst \in BOOLEAN /\ shot.step \in 1..Steps
  BY ScanFacts, TagIs DEF ScanInv, ScanTypes, DarkAutorange
<1>a. shot.darkFirst => L # None /\ L \in Window \X BOOLEAN
  BY <1>3, <1>5 DEF ScanInv, ScanTypes, HalfDone
<1>b. /\ DarkWindow \in Window \cup {None}
      /\ shot.darkFirst => DarkWindow = L[1] /\ DarkWindow # None
      /\ ~shot.darkFirst => DarkWindow = None
  BY <1>a, ScanFacts DEF DarkWindow
<1>6. take.faults \in Nat
  BY <1>1, FaultsAreCounted
<1>7. take.faults <= 1 /\ mishaps' \in Nat
  BY <1>4, <1>6, OneFault
<1>8. /\ Acquires(r, scope, "CHAN2", DarkTrace, Tag("dark"), DarkAutorange, DarkWindow, TRUE)
      /\ r.trace \in Trace
  BY <1>1, <1>5, <1>7, <1>b, <1>c, TakesGive
<1> HIDE DEF r
<1>9. CASE ~r.ok
  <2>1. UNCHANGED <<traces, lightWindows, set>>
    BY <1>1, <1>9 DEF r
  <2>2. r.scope \in Scope /\ Narrow(r.scope)
    BY <1>8 DEF Acquires
  <2> QED
    BY <1>1, <1>3, <1>6, <1>9, <2>1, <2>2, FailedTake DEF r
<1>10. CASE r.ok
  <2>1. /\ traces' = [traces EXCEPT !.dark = r.trace] /\ UNCHANGED <<lightWindows, set>>
        /\ at' = (IF shot.darkFirst THEN "light settle" ELSE "process")
    BY <1>1, <1>4, <1>10 DEF r, DarkTaken
  <2>2. /\ r.scope \in Scope /\ Narrow(r.scope) /\ mishaps' \in Nat
        /\ Kin(r.scope.under, TheRuns) /\ Kin(scope.under, TheRuns)
    <3>1. Kin(scope.under, TheRuns)
      BY <1>3 DEF ScanInv, UnderTheRun, Active
    <3>2. r.scope \in Scope /\ Narrow(r.scope) /\ Kin(r.scope.under, scope.under)
      BY <1>8 DEF Acquires
    <3>3. mishaps' \in Nat
      BY <1>7
    <3> QED
      BY <3>1, <3>2, <3>3 DEF Kin
  <2>3. /\ r.trace.folded = {Tag("dark")} /\ r.trace.under = TheRuns
        /\ r.trace.window = r.scope.chan["CHAN2"]
    BY <1>8, <1>10, <2>2, RunTrace DEF Acquires
  <2>4. traces \in [light : Trace \cup {None}, dark : Trace \cup {None},
          clipped : BOOLEAN \cup {None}]
    BY DEF ScanInv, ScanTypes
  <2>5. TracesAreWhole'
    BY <1>3
       DEF ScanInv, TracesAreWhole, TracesArePure, TracesShareTheRange, UnflaggedTracesFit,
           TracesAreTheRuns
  <2>6. /\ traces' \in [light : Trace \cup {None}, dark : Trace \cup {None},
          clipped : BOOLEAN \cup {None}]
        /\ traces'.dark = r.trace /\ traces'.light = traces.light
                /\ traces'.clipped = traces.clipped
    BY <1>8, <2>1, <2>4
  <2>7. ScanTypes'
    BY <1>3, <1>4, <2>1, <2>2, <2>6 DEF ScanInv, ScanTypes
  <2>8. UnderTheRun' /\ RangesFit'
    BY <1>4, <2>1, <2>2 DEF ScanInv, UnderTheRun, RangesFit
  <2>9. Tag("light")' = Tag("light") /\ Tag("dark")' = Tag("dark")
    BY <1>3 DEF Tag
  <2>10. CASE shot.darkFirst
    <3>1. r.scope.chan["CHAN2"] = Applied(L[1])
      BY <1>5, <1>8, <1>b, <2>10 DEF Acquires
    <3>2. traces.clipped = L[2]
      BY <1>3, <2>10 DEF ScanInv, HalfDone
    <3>3. ~traces'.clipped /\ set[shot.step].read =>
              Fits(set[shot.step].signal, r.scope.chan["CHAN2"])
      BY <1>5, <1>a, <2>6, <2>10, <3>1, <3>2 DEF ScanInv, RangesFit
    <3>4. HalfDone'
      BY <1>3, <1>4, <2>1, <2>3, <2>6, <2>9, <2>10, <3>3 DEF HalfDone, Own
    <3> QED
      BY <2>5, <2>7, <2>8, <3>4 DEF ScanInv
  <2>11. CASE ~shot.darkFirst
    <3>1. r.scope.chan = scope.chan
      BY <1>5, <1>8, <1>b, <2>11 DEF Acquires
    <3>2. Own("light") /\ FitsThePoint(traces.light) /\ traces.light.window = scope.chan["CHAN2"]
      BY <1>3, <2>11 DEF ScanInv, HalfDone
    <3>3. HalfDone'
      BY <1>3, <1>4, <2>1, <2>3, <2>6, <2>9, <2>11, <3>1, <3>2 DEF HalfDone, Own, FitsThePoint
    <3> QED
      BY <2>5, <2>7, <2>8, <3>3 DEF ScanInv
  <2> QED
    BY <2>10, <2>11
<1> QED
  BY <1>9, <1>10

\* Both traces become a StepDone.
LEMMA ProcessKeeps == ASSUME ScanInv, Process PROVE ScanInv'
<1>1. /\ at = "process" /\ UNCHANGED <<scope, lightWindows, mishaps, set>>
      /\ done' = [shot |-> shot, light |-> traces.light, dark |-> traces.dark,
                  clipped |-> traces.clipped, set |-> set[shot.step]]
      /\ shot' = IF shot.step < Steps THEN [shot EXCEPT !.step = shot.step + 1]
                 ELSE [shot EXCEPT !.step = 1, !.loop = shot.loop + 1]
      /\ at' \in {"cleanup", "next"} /\ traces' = [light |-> None, dark |-> None, clipped |-> None]
  BY DEF Process, NoTraces
<1>2. /\ Own("light") /\ Own("dark") /\ FitsThePoint(traces.light)
      /\ traces.light.window = traces.dark.window
  BY <1>1 DEF ScanInv, HalfDone
<1>3. shot' \in [loop : Nat, step : 1..Steps, darkFirst : BOOLEAN]
  <2>1. shot \in [loop : Nat, step : 1..Steps, darkFirst : BOOLEAN]
    BY DEF ScanInv, ScanTypes
  <2>2. CASE shot.step < Steps
    <3>1. shot.step + 1 \in 1..Steps
      BY <2>1, <2>2, ScanFacts
    <3> QED
      BY <1>1, <2>1, <2>2, <3>1
  <2>3. CASE ~(shot.step < Steps)
    <3>1. shot.loop + 1 \in Nat
      BY <2>1
    <3> QED
      BY <1>1, <2>1, <2>3, <3>1, ScanFacts
  <2> QED
    BY <2>2, <2>3
<1>4. ScanTypes'
  BY <1>1, <1>3 DEF ScanInv, ScanTypes
<1>5. UnderTheRun' /\ RangesFit' /\ HalfDone'
  BY <1>1 DEF ScanInv, UnderTheRun, RangesFit, HalfDone, Active
<1>6. TracesAreWhole'
  <2>1. /\ done'.shot = shot /\ done'["light"] = traces.light /\ done'["dark"] = traces.dark
        /\ done'.light = traces.light /\ done'.dark = traces.dark
        /\ done'.clipped = traces.clipped /\ done'.set = set[shot.step]
    BY <1>1
  <2>2. /\ traces.light.folded = {[of |-> "light", loop |-> shot.loop, step |-> shot.step]}
        /\ traces.dark.folded = {[of |-> "dark", loop |-> shot.loop, step |-> shot.step]}
        /\ traces.light.under = TheRuns /\ traces.dark.under = TheRuns
    BY <1>2 DEF Own, Tag
  <2>3. TracesArePure' /\ TracesAreTheRuns'
    BY <2>1, <2>2 DEF TracesArePure, TracesAreTheRuns, TheRuns
  <2>4. TracesShareTheRange' /\ UnflaggedTracesFit'
    BY <1>2, <2>1 DEF TracesShareTheRange, UnflaggedTracesFit, FitsThePoint
  <2> QED
    BY <2>3, <2>4 DEF TracesAreWhole
<1> QED
  BY <1>4, <1>5, <1>6 DEF ScanInv

\* A step of the scan itself.
LEMMA ScanStep == ASSUME ScanInv, OneAtATime, ScanNext PROVE ScanInv'
<1>0. scope \in Scope /\ Narrow(scope) /\ mishaps \in Nat
  BY DEF ScanInv, ScanTypes
<1>1. CASE Calibrate
  <2> DEFINE c == Configured(scope, "CHAN3", SyncStart)
  <2>1. PICK take \in Takes(c, "CHAN3", Sync, Tag("sync"), TRUE, None) : Taken(take, "next")
    BY <1>1 DEF Calibrate
  <2> DEFINE a == take.result
  <2>2. /\ at = "calibrate" /\ at' \in {"next", "cleanup"} /\ scope' = a.scope
        /\ mishaps' = mishaps + take.faults /\ mishaps' <= mishaps + 1
        /\ UNCHANGED <<shot, lightWindows, traces, done, set>>
    BY <1>1, <2>1 DEF Calibrate, Taken, OneAtATime
  <2>3. c \in Scope /\ Narrow(c) /\ c.under = scope.under
    BY <1>0, ConfiguredIs, ScanFacts DEF Channels
  <2> HIDE DEF c
  <2>4. Tag("sync") \in Tags /\ "CHAN3" \in Channels /\ TRUE \in BOOLEAN
          /\ None \in Window \cup {None} /\ Sync \in Window /\ Sync[1] <= Sync[2]
    BY ScanFacts DEF Tag, Tags, ScanInv, ScanTypes, Channels
  <2>5. take.faults \in Nat
    BY <2>1, FaultsAreCounted
  <2>6. take.faults <= 1 /\ mishaps' \in Nat
    BY <2>2, <2>5, OneFault
  <2>7. Acquires(a, c, "CHAN3", Sync, Tag("sync"), TRUE, None, TRUE)
    BY <2>1, <2>3, <2>4, <2>6, TakesGive
  <2> HIDE DEF a
  <2>8. Kin(scope.under, TheRuns)
    BY <2>2 DEF ScanInv, UnderTheRun, Active
  <2>9. a.scope \in Scope /\ Narrow(a.scope) /\ Kin(a.scope.under, TheRuns)
    BY <2>3, <2>7, <2>8 DEF Acquires, Kin
  <2> QED
    BY <2>2, <2>6, <2>9, Rests
<1>2. CASE Cleanup
  BY <1>0, <1>2, Clears DEF Cleanup, Active
<1> QED
  BY <1>1, <1>2, NextShotKeeps, LightKeeps, DarkKeeps, ProcessKeeps DEF ScanNext

\* The scan keeps its invariant under every step of the program.
LEMMA ScanKeeps == ScanInv /\ OneAtATime /\ [Next]_vars => ScanInv'
<1> SUFFICES ASSUME ScanInv, OneAtATime, [Next]_vars PROVE ScanInv'
  OBVIOUS
<1>0. scope \in Scope /\ Narrow(scope) /\ mishaps \in Nat /\ (at \in Active => Kin(scope.under,
        TheRuns))
  BY DEF ScanInv, ScanTypes, UnderTheRun
<1>1. CASE UNCHANGED scanVars
  BY <1>0, <1>1, Rests DEF scanVars
<1>2. CASE StartScan
  <2>1. /\ shot' = FirstShot /\ lightWindows' = NoWindows /\ traces' = NoTraces
        /\ done' = None /\ set' = NoWindows /\ mishaps' = mishaps
        /\ at' \in {"calibrate", "next"} /\ scope' = OnSync(Framed(scope))
    BY <1>2 DEF StartScan, Begin
  <2>2. scope' \in Scope /\ Narrow(scope') /\ Kin(scope'.under, TheRuns)
    BY <1>0, <2>1, FramedIs
  <2> QED
    BY <2>1, <2>2, Clears
<1>3. CASE StartPowerJob \/ PowerJob
  <2>1. /\ UNCHANGED <<shot, scope, lightWindows, traces, done, mishaps, set>>
        /\ at' \in {"idle", "power"}
    BY <1>3 DEF StartPowerJob, PowerJob
  <2> QED
    BY <1>0, <2>1, Rests DEF Active
<1>4. CASE CaptureScope
  <2>1. /\ UNCHANGED <<shot, lightWindows, traces, done, mishaps, set>>
        /\ at = "idle" /\ at' = "idle"
        /\ \E c \in Captures, took \in BOOLEAN :
               scope' = Captured(scope, c.channel, c.window, c.on, took)
    BY <1>4 DEF CaptureScope, Capture
  <2>2. scope' \in Scope /\ Narrow(scope')
    BY <1>0, <2>1, CapturedIs
  <2> QED
    BY <1>0, <2>1, <2>2, Rests DEF Active
<1>5. CASE WorkerStep
  BY <1>5, ScanStep DEF WorkerStep
<1>6. CASE LeaveSettle
  <2>1. /\ UNCHANGED <<shot, scope, lightWindows, traces, done, mishaps, set>>
        /\ \/ at = "light settle" /\ at' = "acquire light"
           \/ at = "dark settle" /\ at' = "acquire dark"
    BY <1>6 DEF LeaveSettle, Settled
  <2>2. at \in Active
    BY <2>1 DEF Active
  <2> QED
    BY <1>0, <2>1, <2>2, Rests
<1>7. CASE Interrupted
  BY <1>0, <1>7, Rests DEF Interrupted, Ends, Active
<1>8. ASSUME \/ MonitorTick \/ WorkerPoll \/ MonitorReleases \/ PowerMonitor \/ Cryostat
             \/ \E w \in Watchers : Count(w) \/ Cut(w)
             \/ UNCHANGED vars
      PROVE  UNCHANGED scanVars
  BY <1>8 DEF MonitorTick, WorkerPoll, MonitorReleases, PowerMonitor, Cryostat, Count, Cut, vars
<1> QED
  BY <1>1, <1>2, <1>3, <1>4, <1>5, <1>6, <1>7, <1>8 DEF Next

-----------------------------------------------------------------------------
Settles == {"light settle", "dark settle"}
Rec == [at : {"away", "count", "cut", "done"}, bad : BOOLEAN, read : Nat]

\* Who may be in _watch: the monitor while it holds the bus, the worker in a settle of the
\* job it holds the bus for.
OneWatcher ==
    /\ at \in Places \cup {"idle", "power"}
    /\ (at # "idle") <=> (bus = "worker")
    /\ watch["monitor"] # Away => bus = "monitor"
    /\ watch["worker"] # Away => at \in Settles

WatchTypes ==
    /\ faults \in Nat /\ streak \in Nat
    /\ bus \in {None} \cup Watchers
    /\ watch \in [Watchers -> Rec]

\* The counter is the history's count but for the poll in hand.
Counted(w) ==
    /\ watch[w].at \in {"away", "done"} => streak = faults
    /\ watch[w].at = "count" =>
           /\ watch[w].read = faults
           /\ watch[w].bad = TRUE => streak = faults + 1
           /\ watch[w].bad = FALSE => streak = 0
    /\ watch[w].at = "cut" => faults = 0 /\ streak = Limit
    /\ watch[w].at = "away" => watch[w] = Away

CountIsTheStreak ==
    /\ faults < Limit
    /\ \A w \in Watchers : watch[w] # Away => Counted(w)
    /\ (\A w \in Watchers : watch[w] = Away) => streak = faults
    /\ watch["worker"].at # "done"

WatchInv == WatchTypes /\ OneWatcher /\ CountIsTheStreak

\* The watchdog starts with nobody in it.
LEMMA WatchInit == Init => WatchInv
<1> SUFFICES ASSUME Init PROVE WatchInv
  OBVIOUS
<1>1. /\ Away \in Rec
      /\ Away.at = "away"
  BY DEF Away, With, Rec
<1>2. WatchTypes
  BY <1>1, ObserversAssumption DEF Init, WatchTypes
<1>3. OneWatcher
  BY ObserversAssumption DEF Init, ScanInit, OneWatcher, Watchers
<1>4. CountIsTheStreak
  BY <1>1, ObserversAssumption DEF Init, CountIsTheStreak, Watchers
<1> QED
  BY <1>2, <1>3, <1>4 DEF WatchInv

\* The limit is a positive number.
LEMMA LimitType == Limit \in Nat /\ Limit > 0
  BY ObserversAssumption

\* None is none of the threads.
LEMMA NoneApart == None # "worker" /\ None # "monitor" /\ None # "scan" /\ None \notin Readers
  BY ObserversAssumption DEF Watchers, Readers

\* A watcher that is away.
LEMMA AwayIsAway == Away \in Rec /\ Away.at = "away"
  BY DEF Away, With, Rec

\* The thread that polls finds the other away.
Alone(w) == \A v \in Watchers \ {w} : watch[v] = Away

\* The bus keeps the other thread out of _watch.
LEMMA OthersAway ==
    ASSUME WatchInv, NEW w \in Watchers, watch[w] # Away \/ (w = "monitor" /\ bus = None)
            \/ (w = "worker" /\ at \in Settles)
    PROVE  Alone(w)
<1> USE ObserversAssumption DEF Watchers, Readers
<1>1. /\ (at # "idle") <=> (bus = "worker")
      /\ watch["monitor"] # Away => bus = "monitor"
      /\ watch["worker"] # Away => at # "idle"
  BY DEF WatchInv, OneWatcher, Settles
<1>2. CASE w = "monitor"
  <2>1. bus # "worker"
    BY <1>1, <1>2
  <2> QED
    BY <1>1, <1>2, <2>1 DEF Alone
<1>3. CASE w = "worker"
  <2>1. at # "idle"
    BY <1>1, <1>3 DEF Settles
  <2> QED
    BY <1>1, <1>3, <2>1 DEF Alone
<1> QED
  BY <1>2, <1>3

\* What one watcher's step leaves behind.
LEMMA WatcherMoves ==
    ASSUME WatchInv, NEW w \in Watchers, Alone(w), NEW rec,
           watch' = [watch EXCEPT ![w] = rec],
           rec \in Rec,
           faults' \in Nat, faults' < Limit, streak' \in Nat,
           rec.at \in {"away", "done"} => streak' = faults',
           rec.at = "count" => /\ rec.read = faults'
                               /\ rec.bad = TRUE => streak' = faults' + 1
                               /\ rec.bad = FALSE => streak' = 0,
           rec.at = "cut" => faults' = 0 /\ streak' = Limit,
           rec.at = "away" => rec = Away,
           rec.at = "done" => w = "monitor"
    PROVE  /\ CountIsTheStreak'
           /\ watch' \in [Watchers -> Rec]
<1>1. /\ watch' \in [Watchers -> Rec]
      /\ watch'[w] = rec
      /\ \A v \in Watchers \ {w} : watch'[v] = Away
  BY DEF WatchInv, WatchTypes, Alone
<1>a. Away.at = "away"
  BY DEF Away, With
<1>2. \A v \in Watchers : watch'[v] # Away => Counted(v)'
  BY <1>1, <1>a DEF Counted
<1>3. (\A v \in Watchers : watch'[v] = Away) => streak' = faults'
  BY <1>1, <1>a
<1>4. watch'["worker"].at # "done"
  BY <1>1, <1>a DEF Watchers
<1> QED
  BY <1>1, <1>2, <1>3, <1>4 DEF CountIsTheStreak

\* A poll that is made alone keeps the count.
LEMMA PollKeeps ==
    ASSUME WatchInv, NEW w \in Watchers, Alone(w), watch[w] = Away, Poll(w), faults' = faults
    PROVE  /\ CountIsTheStreak'
           /\ streak' \in Nat
           /\ watch' \in [Watchers -> Rec]
           /\ \A v \in Watchers \ {w} : watch'[v] = Away
<1>0. faults \in Nat /\ streak \in Nat /\ faults < Limit /\ streak = faults /\ Limit \in Nat
  BY ObserversAssumption DEF WatchInv, WatchTypes, CountIsTheStreak, Alone
<1>1. ASSUME NEW bad \in BOOLEAN, Judge(w, bad) PROVE
        CountIsTheStreak' /\ streak' \in Nat /\ watch' \in [Watchers -> Rec]
  <2> DEFINE rec == [at |-> "count", bad |-> bad, read |-> faults]
  <2>1. /\ rec \in Rec /\ rec.at = "count" /\ rec.bad = bad /\ rec.read = faults
    BY <1>0 DEF Rec
  <2>2. /\ watch' = [watch EXCEPT ![w] = rec]
        /\ streak' = IF bad THEN streak + 1 ELSE 0
    BY <1>1 DEF Judge
  <2>3. /\ rec.bad = TRUE => streak' = faults' + 1
        /\ rec.bad = FALSE => streak' = 0
        /\ streak' \in Nat
    BY <1>0, <2>1, <2>2
  <2> HIDE DEF rec
  <2> QED
    BY <1>0, <2>1, <2>2, <2>3, WatcherMoves
<1>2. ASSUME UNCHANGED <<watch, streak>> PROVE
        CountIsTheStreak' /\ streak' \in Nat /\ watch' \in [Watchers -> Rec]
  <2>1. UNCHANGED <<watch, streak, faults>>
    BY <1>2
  <2> QED
    BY <2>1, <1>0 DEF WatchInv, WatchTypes, CountIsTheStreak, Counted
<1>3. ASSUME w = "monitor", watch' = [watch EXCEPT ![w] = With("done")], UNCHANGED streak PROVE
        CountIsTheStreak' /\ streak' \in Nat /\ watch' \in [Watchers -> Rec]
  <2> DEFINE rec == With("done")
  <2>1. rec \in Rec /\ rec.at = "done"
    BY DEF With, Rec
  <2> HIDE DEF rec
  <2>2. watch' = [watch EXCEPT ![w] = rec] /\ streak' = streak
    BY <1>3 DEF rec
  <2> QED
    BY <1>0, <1>3, <2>1, <2>2, WatcherMoves
<1>4. CountIsTheStreak' /\ streak' \in Nat /\ watch' \in [Watchers -> Rec]
  BY <1>1, <1>2, <1>3 DEF Poll, Bad
<1>5. \A v \in Watchers \ {w} : watch'[v] = Away
  <2>1. watch' = watch \/ \E rec : watch' = [watch EXCEPT ![w] = rec]
    BY DEF Poll, Judge
  <2> QED
    BY <2>1 DEF Alone, WatchInv, WatchTypes
<1> QED
  BY <1>4, <1>5

\* A scan step keeps the worker where OneWatcher wants it.
LEMMA WatchStep == WatchInv /\ [Next]_vars => WatchInv'
<1> SUFFICES ASSUME WatchInv, [Next]_vars PROVE WatchInv'
  OBVIOUS
<1>1. CASE MonitorTick
  <2>1. /\ watch["monitor"] = Away /\ bus = None /\ bus' = "monitor" /\ Poll("monitor")
        /\ at' = at /\ faults' = faults
    BY <1>1 DEF MonitorTick, BusIsFree, scanVars
  <2>2. Alone("monitor") /\ "monitor" \in Watchers
    BY <2>1, OthersAway DEF Watchers
  <2> QED
    BY <2>1, <2>2, PollKeeps, NoneApart DEF WatchInv, WatchTypes, OneWatcher, Watchers, Rec, Settles
<1>2. CASE WorkerPoll
  <2>1. /\ watch["worker"] = Away /\ bus' = bus /\ Poll("worker") /\ at \in Settles
        /\ at' = at /\ faults' = faults
    BY <1>2 DEF WorkerPoll, scanVars, Settles
  <2>2. Alone("worker") /\ "worker" \in Watchers
    BY <2>1, OthersAway DEF Watchers
  <2> QED
    BY <2>1, <2>2, PollKeeps, NoneApart DEF WatchInv, WatchTypes, OneWatcher, Watchers, Rec, Settles
<1>3. ASSUME NEW w \in Watchers, Count(w) PROVE WatchInv'
  <2> DEFINE n == IF watch[w].bad THEN watch[w].read + 1 ELSE 0
             next == IF n >= Limit THEN "cut" ELSE IF w = "monitor" THEN "done" ELSE "away"
             rec == With(next)
  <2>1. /\ watch[w].at = "count" /\ watch[w] # Away
        /\ UNCHANGED <<at, bus, streak>>
    BY <1>3, AwayIsAway DEF Count, scanVars
  <2>2. Counted(w) /\ faults \in Nat /\ faults < Limit
    BY <2>1 DEF WatchInv, WatchTypes, CountIsTheStreak
  <2>a. /\ watch[w].read = faults /\ watch[w].bad \in BOOLEAN
        /\ watch[w].bad = TRUE => streak = faults + 1
        /\ watch[w].bad = FALSE => streak = 0
    BY <2>1, <2>2 DEF Counted, WatchInv, WatchTypes, Rec
  <2>3. n = streak /\ n \in Nat /\ n <= Limit
    <3>1. CASE watch[w].bad = TRUE
      <4>1. n = watch[w].read + 1
        BY <3>1, Zenon
      <4> HIDE DEF n
      <4> QED
        BY <3>1, <4>1, <2>2, <2>a, LimitType
    <3>2. CASE watch[w].bad = FALSE
      <4>1. n = 0
        BY <3>2, Zenon
      <4> HIDE DEF n
      <4> QED
        BY <3>2, <4>1, <2>2, <2>a, LimitType
    <3> QED
      BY <3>1, <3>2, <2>a
  <2>4. /\ rec \in Rec /\ rec.at = next
        /\ next = "away" => rec = Away
        /\ next = "done" => w = "monitor"
        /\ next = "cut" <=> n >= Limit
        /\ next \in {"cut", "done", "away"}
    BY DEF Away, With, Rec
  <2>5. watch' = [watch EXCEPT ![w] = rec] /\ faults' = IF n >= Limit THEN 0 ELSE n
    BY <1>3 DEF Count
  <2> HIDE DEF rec, next, n
  <2>6. Alone(w)
    BY <2>1, OthersAway
  <2>7. CountIsTheStreak' /\ watch' \in [Watchers -> Rec]
    <3>1. faults' \in Nat /\ faults' < Limit /\ streak' = n
      BY <2>1, <2>3, <2>5, LimitType
    <3>2. /\ rec.at \in {"away", "done"} => streak' = faults'
          /\ rec.at = "cut" => faults' = 0 /\ streak' = Limit
          /\ rec.at # "count"
      BY <2>1, <2>3, <2>4, <2>5, <3>1, LimitType
    <3> QED
      BY <2>3, <2>4, <2>5, <2>6, <3>1, <3>2, WatcherMoves
  <2>8. OneWatcher'
    BY <2>1, <2>5 DEF WatchInv, OneWatcher, Watchers, WatchTypes
  <2> QED
    BY <2>1, <2>2, <2>3, <2>5, <2>7, <2>8 DEF WatchInv, WatchTypes, Rec
<1>4. ASSUME NEW w \in Watchers, Cut(w) PROVE WatchInv'
  <2> DEFINE next == IF w = "monitor" THEN "done" ELSE "away"
             rec == With(next)
  <2>1. /\ watch[w].at = "cut" /\ watch[w] # Away
        /\ UNCHANGED <<at, bus, faults>> /\ streak' = 0
    BY <1>4, AwayIsAway DEF Cut, scanVars
  <2>2. faults = 0 /\ Limit \in Nat /\ Limit > 0
    BY <2>1 DEF WatchInv, WatchTypes, CountIsTheStreak, Counted
  <2>4. /\ rec \in Rec /\ rec.at = next
        /\ next = "away" => rec = Away
        /\ next = "done" => w = "monitor"
        /\ next \in {"done", "away"}
    BY DEF Away, With, Rec
  <2>5. watch' = [watch EXCEPT ![w] = rec]
    BY <1>4 DEF Cut
  <2> HIDE DEF rec, next
  <2>6. Alone(w)
    BY <2>1, OthersAway
  <2>7. CountIsTheStreak' /\ watch' \in [Watchers -> Rec]
    BY <2>1, <2>2, <2>4, <2>5, <2>6, WatcherMoves
  <2>8. OneWatcher'
    BY <2>1, <2>5 DEF WatchInv, OneWatcher, Watchers, WatchTypes
  <2> QED
    BY <2>1, <2>2, <2>5, <2>7, <2>8 DEF WatchInv, WatchTypes, Rec
<1>5. CASE MonitorReleases
  <2>1. /\ watch["monitor"].at = "done" /\ watch["monitor"] # Away /\ "monitor" \in Watchers
        /\ UNCHANGED <<at, faults, streak>> /\ watch' = [watch EXCEPT !["monitor"] = Away]
        /\ bus' = IF bus = "monitor" THEN None ELSE bus
    BY <1>5, AwayIsAway DEF MonitorReleases, scanVars, Watchers
  <2>2. streak = faults /\ faults \in Nat /\ faults < Limit /\ Away \in Rec /\ Away.at = "away"
    BY <2>1, AwayIsAway DEF WatchInv, WatchTypes, CountIsTheStreak, Counted
  <2>3. Alone("monitor")
    BY <2>1, OthersAway
  <2>4. CountIsTheStreak' /\ watch' \in [Watchers -> Rec]
    BY <2>1, <2>2, <2>3, WatcherMoves
  <2>5. OneWatcher'
    <3>1. bus = "monitor" /\ at = "idle"
      BY <2>1 DEF WatchInv, OneWatcher
    <3>2. watch'["worker"] = Away /\ bus' = None /\ watch'["monitor"] = Away
      BY <2>1, <2>3, <3>1 DEF Alone, Watchers, WatchInv, WatchTypes
    <3> QED
      BY <2>1, <3>1, <3>2, NoneApart DEF OneWatcher
  <2> QED
    BY <2>1, <2>2, <2>4, <2>5 DEF WatchInv, WatchTypes, Rec, Watchers
\* Steps that leave the watchers alone.
<1>6. ASSUME UNCHANGED <<faults, streak, watch>>, 
             \/ UNCHANGED <<at, bus>>
             \/ /\ at' \in Places \cup {"idle", "power"} /\ bus' \in {None, "worker"}
                /\ (at' # "idle") <=> (bus' = "worker")
                /\ at \notin Settles \/ watch["worker"] = Away
                /\ bus # "monitor"
      PROVE WatchInv'
  BY <1>6 DEF WatchInv, WatchTypes, CountIsTheStreak, Counted, OneWatcher, Watchers, Settles
<1>7. CASE UNCHANGED vars
  BY <1>6, <1>7 DEF vars, scanVars, watchVars
<1>8. CASE Cryostat \/ PowerMonitor \/ CaptureScope
  BY <1>6, <1>8 DEF Cryostat, PowerMonitor, CaptureScope, Capture, scanVars, watchVars
<1>9. CASE StartScan \/ StartPowerJob
  <2>1. /\ UNCHANGED <<faults, streak, watch>> /\ bus = None /\ bus' = "worker"
        /\ at' \in {"calibrate", "next", "power"} /\ at = "idle"
    BY <1>9 DEF StartScan, StartPowerJob, Begin
  <2> QED
    BY <1>6, <2>1, NoneApart DEF Settles, Places
<1>10. CASE PowerJob
  <2>1. /\ UNCHANGED <<faults, streak, watch>> /\ at = "power"
        /\ (at' = "idle" /\ bus' = None) \/ UNCHANGED <<at, bus>>
    BY <1>10 DEF PowerJob, watchVars
  <2> QED
    BY <1>6, <2>1, NoneApart DEF Settles, Places, WatchInv, OneWatcher
<1>11. CASE LeaveSettle
  BY <1>6, <1>11 DEF LeaveSettle, Settled, Settles, WatchInv, OneWatcher, Places, watchVars
<1>12. CASE Interrupted
  BY <1>6, <1>12 DEF Interrupted, Ends, Settles, WatchInv, OneWatcher, Places, watchVars
<1>13. CASE WorkerStep
  <2>1. /\ UNCHANGED <<faults, streak, watch>> /\ bus' = IF at = "cleanup" THEN None ELSE bus
        /\ at \notin Settles \cup {"idle", "power"} /\ at' \in Places \cup {"idle"}
        /\ (at = "cleanup") <=> (at' = "idle")
    BY <1>13
       DEF WorkerStep, ScanNext, watchVars, Settles, Places, Calibrate, NextShot, AcquireLight,
           AcquireDark, Process, Cleanup, Taken
  <2> QED
    BY <1>6, <2>1, NoneApart DEF WatchInv, OneWatcher, Settles, Places
<1> QED
  BY <1>1, <1>2, <1>3, <1>4, <1>5, <1>7, <1>8, <1>9, <1>10, <1>11, <1>12, <1>13 DEF Next

\* The lock: whoever is between its two looks at the meter holds it, and what it read is
\* still the last, or a scan has read since; the job has no scan beside it.
ScanCameBetween(r, whose) == r = "power monitor" /\ ReadsIntensity /\ whose = "scan"

MeterInv ==
    /\ reading \in [Readers -> [watts : Readers \cup {None}, verdict : Readers \cup {None, "scan"}]]
    /\ reading["power job"] # Unread => at = "power"
    /\ \A r \in Readers :
           /\ reading[r].watts \in {r, None}
           /\ reading[r].watts = None => reading[r].verdict = None
           /\ reading[r].watts = r /\ reading[r].verdict = None =>
                  meter = r /\ (last = r \/ ScanCameBetween(r, last))
           /\ reading[r].verdict # None =>
                  reading[r].verdict = r \/ ScanCameBetween(r, reading[r].verdict)

\* Nobody has read the meter yet.
LEMMA MeterInit == Init => MeterInv
<1>1. Unread \in [watts : Readers \cup {None}, verdict : Readers \cup {None, "scan"}]
  BY DEF Unread
<1>2. Unread.watts = None /\ Unread.verdict = None
  BY DEF Unread
<1>3. Init => reading = [r \in Readers |-> Unread]
  BY DEF Init
<1> QED
  BY <1>1, <1>2, <1>3, NoneApart DEF MeterInv, Readers

\* A reader's step under the lock; the job's are taken in its place.
LEMMA MeterMoves ==
    ASSUME MeterInv, NEW r \in Readers, ReadPower(r) \/ LookAtLast(r) \/ Report(r),
           \/ r = "power monitor" /\ at' = at
           \/ /\ r = "power job" /\ at = "power"
              /\ Report(r) \/ at' = at
    PROVE  MeterInv'
<1>0. reading \in [Readers -> [watts : Readers \cup {None}, verdict : Readers \cup {None, "scan"}]]
      /\ "power job" \in Readers /\ "power job" # "power monitor" /\ None \notin Readers
  BY NoneApart DEF MeterInv, Readers
<1>1. CASE ReadPower(r)
  <2>1. at' = at \/ Report(r)
    OBVIOUS
  <2>2. at' = at
    BY <1>0, <1>1, <2>1 DEF ReadPower, Report, Unread
  <2> QED
    BY <1>0, <1>1, <2>2, NoneApart DEF ReadPower, LockIsFree, MeterInv, Unread, ScanCameBetween
<1>2. CASE LookAtLast(r)
  <2>1. at' = at
    BY <1>0, <1>2 DEF LookAtLast, Report
  <2> QED
    BY <1>0, <1>2, <2>1, NoneApart DEF LookAtLast, MeterInv, ScanCameBetween
<1>3. CASE Report(r)
  BY <1>0, <1>3, NoneApart DEF Report, MeterInv, Unread, ScanCameBetween
<1> QED
  BY <1>1, <1>2, <1>3

\* A scan that reads intensity may come between the monitor's two looks, and nothing else.
LEMMA MeterStep == MeterInv /\ [Next]_vars => MeterInv'
<1> SUFFICES ASSUME MeterInv, [Next]_vars PROVE MeterInv'
  OBVIOUS
<1>1. CASE PowerMonitor
  BY <1>1, MeterMoves DEF PowerMonitor, Readers, scanVars
<1>2. CASE PowerJob
  <2>1. /\ at = "power"
        /\ ReadPower("power job") \/ LookAtLast("power job") \/ Report("power job")
        /\ at' = at \/ reading["power job"].verdict # None
    <3>1. /\ at = "power"
          /\ ReadPower("power job") \/ LookAtLast("power job") \/ Report("power job")
          /\ IF reading["power job"].verdict # None THEN at' = "idle" /\ bus' = None
             ELSE UNCHANGED <<at, bus>>
      BY <1>2 DEF PowerJob
    <3> QED
      BY <3>1
  <2>2. at' = at \/ Report("power job")
    <3>1. ASSUME ReadPower("power job") PROVE reading["power job"].verdict = None
      <4>1. reading["power job"] = Unread
        BY <3>1 DEF ReadPower
      <4>2. Unread.verdict = None
        BY DEF Unread
      <4> QED
        BY <4>1, <4>2
    <3>2. ASSUME LookAtLast("power job") PROVE reading["power job"].verdict = None
      BY <3>2 DEF LookAtLast
    <3> QED
      BY <2>1, <3>1, <3>2
  <2> QED
    BY <2>1, <2>2, MeterMoves DEF Readers
<1>3. CASE UNCHANGED meterVars /\ (at = "power" => at' = "power")
  BY <1>3 DEF meterVars, MeterInv, ScanCameBetween
<1>4. CASE LeaveSettle
  <2>1. /\ at # "power" /\ UNCHANGED <<meter, reading>>
        /\ last' = last \/ (ReadsIntensity /\ last' = "scan")
    BY <1>4 DEF LeaveSettle, Settled
  <2>2. reading["power job"] = Unread /\ Unread.watts = None
    BY <2>1 DEF MeterInv, Unread
  <2> QED
    BY <2>1, <2>2, NoneApart DEF MeterInv, ScanCameBetween, Readers
<1>5. ASSUME NEW w \in Watchers, Count(w) \/ Cut(w) PROVE UNCHANGED meterVars /\ at' = at
  BY <1>5 DEF Count, Cut, scanVars
<1>6. ASSUME \/ StartScan \/ StartPowerJob \/ CaptureScope \/ WorkerStep \/ Interrupted
             \/ MonitorTick \/ WorkerPoll \/ MonitorReleases \/ Cryostat \/ UNCHANGED vars
      PROVE UNCHANGED meterVars /\ (at = "power" => at' = "power")
  <2>1. UNCHANGED meterVars
    BY <1>6 DEF StartScan, StartPowerJob, CaptureScope, WorkerStep, Interrupted,
       MonitorTick, WorkerPoll, MonitorReleases, Cryostat, vars
  <2>2. at = "power" => at' = "power"
    BY <1>6 DEF StartScan, Begin, StartPowerJob, CaptureScope, Capture, WorkerStep, ScanNext,
       Calibrate, NextShot, AcquireLight, AcquireDark, Process, Cleanup, Interrupted,
       MonitorTick, WorkerPoll, MonitorReleases, Cryostat, vars, scanVars
  <2> QED
    BY <2>1, <2>2
<1> QED
  BY <1>1, <1>2, <1>3, <1>4, <1>5, <1>6 DEF Next

-----------------------------------------------------------------------------
\* The traces of a StepDone are its own, in one window that holds what it does not flag,
\* and averages on the run's timebase and trigger, as long as no acquisition loses both its
\* reset and its count (infiniium.py:146-166, transient.py:643-764).
THEOREM TracesStayWhole == Spec /\ [][OneAtATime]_vars => []TracesAreWhole
<1>1. Init => ScanInv
  BY ScanInitial DEF Init
<1>2. ScanInv /\ [Next]_vars /\ [OneAtATime]_vars => ScanInv'
  <2> SUFFICES ASSUME ScanInv, [Next]_vars, [OneAtATime]_vars PROVE ScanInv'
    OBVIOUS
  <2>1. CASE OneAtATime
    BY <2>1, ScanKeeps
  <2>2. CASE UNCHANGED vars
    <3>1. mishaps' = mishaps /\ mishaps \in Nat
      BY <2>2 DEF vars, scanVars, ScanInv, ScanTypes
    <3>2. OneAtATime
      BY <3>1 DEF OneAtATime
    <3> QED
      BY <3>2, ScanKeeps
  <2> QED
    BY <2>1, <2>2
<1>3. ScanInv => TracesAreWhole
  BY DEF ScanInv
<1> QED
  BY <1>1, <1>2, <1>3, PTL DEF Spec

\* With one mishap in all, as the run has it, no acquisition has two.
LEMMA OneMishap ==
    ASSUME MaxMishaps <= 1, mishaps \in Nat, [Next]_vars PROVE OneAtATime /\ mishaps' \in Nat
<1>0. MaxMishaps \in Nat
  BY ScanAssumption
<1>1. CASE mishaps' = mishaps
  BY <1>1 DEF OneAtATime
<1>2. ASSUME AcquireLight \/ AcquireDark \/ Calibrate
      PROVE  \E f \in Nat : mishaps' = mishaps + f /\ mishaps' <= MaxMishaps
  <2>1. CASE AcquireLight
    <3>1. PICK signal \in LightTraces :
            \E take \in Takes(scope, "CHAN2", signal, Tag("light"), ~shot.darkFirst, None) :
                Taken(take, IF shot.darkFirst THEN "process" ELSE "dark settle")
      BY <2>1 DEF AcquireLight
    <3> QED
      BY <3>1, FaultsAreCounted DEF Taken
  <2>2. CASE AcquireDark
    BY <2>2, FaultsAreCounted DEF AcquireDark, Taken
  <2>3. CASE Calibrate
    BY <2>3, FaultsAreCounted DEF Calibrate, Taken
  <2> QED
    BY <1>2, <2>1, <2>2, <2>3
<1>3. CASE AcquireLight \/ AcquireDark \/ Calibrate
  BY <1>0, <1>2, <1>3 DEF OneAtATime
<1>4. ASSUME ~(AcquireLight \/ AcquireDark \/ Calibrate) PROVE mishaps' = mishaps
  <2>1. CASE WorkerStep
    BY <1>4, <2>1 DEF WorkerStep, ScanNext, NextShot, Process, Cleanup
  <2>2. CASE \E w \in Watchers : Count(w) \/ Cut(w)
    BY <2>2 DEF Count, Cut, scanVars
  <2>3. CASE StartScan \/ StartPowerJob \/ CaptureScope \/ PowerJob \/ LeaveSettle \/ Interrupted
    BY <2>3
       DEF StartScan, Begin, StartPowerJob, CaptureScope, Capture, PowerJob, LeaveSettle,
           Settled, Interrupted, Ends
  <2>4. CASE MonitorTick \/ WorkerPoll \/ MonitorReleases \/ PowerMonitor \/ Cryostat
          \/ UNCHANGED vars
    BY <2>4 DEF MonitorTick, WorkerPoll, MonitorReleases, PowerMonitor, Cryostat, vars, scanVars
  <2> QED
    BY <2>1, <2>2, <2>3, <2>4 DEF Next
<1> QED
  BY <1>1, <1>3, <1>4

\* So the traces of every behaviour with at most one mishap are whole.
THEOREM OneMishapIsNoticed == MaxMishaps <= 1 => (Spec => []TracesAreWhole)
<1> SUFFICES ASSUME MaxMishaps <= 1 PROVE Spec => []TracesAreWhole
  OBVIOUS
<1>1. Init => mishaps \in Nat
  BY ScanAssumption DEF Init, ScanInit
<1>2. mishaps \in Nat /\ [Next]_vars => (mishaps \in Nat)' /\ OneAtATime
  BY OneMishap
<1>3. Spec => [][OneAtATime]_vars
  BY <1>1, <1>2, PTL DEF Spec
<1> QED
  BY <1>3, TracesStayWhole, PTL

\* The heater is cut at the limit, whoever counted to it (controller.py:212-228).
THEOREM CutComesAtTheLimit == Spec => []CutAtTheLimit
<1>1. WatchInv => CutAtTheLimit
  <2> SUFFICES ASSUME WatchInv PROVE CutAtTheLimit
    OBVIOUS
  <2>0. faults \in Nat /\ streak \in Nat /\ faults < Limit /\ Limit \in Nat
    BY LimitType DEF WatchInv, WatchTypes, CountIsTheStreak
  <2>1. CASE \A w \in Watchers : watch[w] = Away
    <3>1. streak = faults
      BY <2>1 DEF WatchInv, CountIsTheStreak
    <3> QED
      BY <2>0, <3>1 DEF CutAtTheLimit
  <2>2. ASSUME NEW w \in Watchers, watch[w] # Away PROVE CutAtTheLimit
    <3>1. Counted(w) /\ watch[w].at \in {"away", "count", "cut", "done"} /\ watch[w].bad \in BOOLEAN
      BY <2>2 DEF WatchInv, CountIsTheStreak, WatchTypes, Rec
    <3>2. CASE watch[w].at \in {"away", "done"}
      BY <2>0, <3>1, <3>2 DEF Counted, CutAtTheLimit
    <3>3. CASE watch[w].at = "cut"
      <4>1. streak = Limit
        BY <3>1, <3>3 DEF Counted
      <4> QED
        BY <2>0, <3>3, <4>1 DEF CutAtTheLimit
    <3>4. CASE watch[w].at = "count"
      <4>1. (watch[w].bad = TRUE => streak = faults + 1) /\ (watch[w].bad = FALSE => streak = 0)
        BY <3>1, <3>4 DEF Counted
      <4>2. streak <= Limit
        BY <2>0, <3>1, <4>1
      <4> QED
        BY <3>4, <4>2 DEF CutAtTheLimit
    <3> QED
      BY <3>1, <3>2, <3>3, <3>4
  <2> QED
    BY <2>1, <2>2
<1> QED
  BY <1>1, WatchInit, WatchStep, PTL DEF Spec

\* And a power reading is never judged by the other reader's: where a scan that reads
\* intensity looks at the meter without the lock, the monitor's may be judged by the scan's,
\* the job's never is (rigs.py:202-206, transient.py:726).
THEOREM ObserversStayTrue == Spec => []ObserversAgree
<1>1. MeterInv => ReadingsKeptApart
  <2> SUFFICES ASSUME MeterInv, NEW r \in Readers, reading[r].verdict # None
               PROVE  \/ reading[r].verdict = reading[r].watts
                      \/ r = "power monitor" /\ ReadsIntensity /\ reading[r].verdict = "scan"
    BY DEF ReadingsKeptApart
  <2>1. reading[r].watts = r
    BY NoneApart DEF MeterInv
  <2> QED
    BY <2>1 DEF MeterInv, ScanCameBetween
<1>2. MeterInv /\ [Next]_vars => MeterInv'
  BY MeterStep
<1>3. ReadingsKeptApart /\ CutAtTheLimit => ObserversAgree
  BY DEF ObserversAgree
<1>4. Spec => []ReadingsKeptApart
  BY <1>1, <1>2, MeterInit, PTL DEF Spec
<1> QED
  BY <1>3, <1>4, CutComesAtTheLimit, PTL
===============================================================================
