--------------------------- MODULE SourcePanelProofs ---------------------------
(***************************************************************************)
(* Theorems about the source meter console, for any handlers, any bodies,  *)
(* any faults and any ceiling: the closing off is the last word, a level   *)
(* never stands under a looser compliance than it was asked for with, and  *)
(* a function never changes under a live output but by a hand on the key.  *)
(***************************************************************************)
EXTENDS SourcePanel, TLAPS

\* A panel's setup, a job on the queue and the thread that runs one.
Setups == [fn : Fns, level : Nat, limit : Nat]
Kinds == {"source", "on", "off", "read", "tick", "watch", "idle", "closing", "wake"}
JobSet == {j \in [kind : Kinds, who : Clients \cup {None}, id : Nat, body : Bodies \cup {None}] :
               j.kind = "source" => j.body \in Bodies}
Orders == [what : {"rst", "fn", "level", "limit"}, value : Fns \cup Nat \cup {None}]
Threads == [pc : {"timed", "asleep", "drain", "dead", "stuck", "ask", "act", "write"},
            kind : Kinds \cup {"none"}, who : Clients \cup {None}, id : Nat,
            body : Bodies \cup {None},
            writes : Seq(Orders),
            next : Setups \cup {None}, drain : BOOLEAN]
Handlers == [pc : {"free", "source", "on", "off", "read", "tick", "lit", "clear", "setidle"},
             id : Nat, to : BOOLEAN]
Insts == [out : BOOLEAN, fn : Fns, level : [Fns -> Nat], limit : Nat]
Types ==
    /\ inst \in Insts /\ byHand \in BOOLEAN /\ handSince \in BOOLEAN
    /\ flag \in BOOLEAN /\ panel \in Setups \cup {None} /\ asked \subseteq Setups
    /\ q \in Seq(JobSet) /\ wk \in Threads
    /\ wk.kind = "source" => wk.body \in Bodies
    /\ wk.pc \in {"timed", "asleep", "drain"} => wk.kind = "none"
    /\ cl \in [Clients -> Handlers] /\ lastId \in Nat

\* On the way out: once the queue is sealed only the closing off is left in it, so that
\* nothing follows it.
WayOut ==
    /\ sealed \in BOOLEAN /\ confirmed \in BOOLEAN
    /\ sealed = TRUE <=> phase # "serving"
    /\ sealed = TRUE => \A i \in 1..Len(q) : q[i].kind \in {"wake", "closing"}
    /\ \A i \in 1..Len(q) : q[i].kind = "closing" => sealed = TRUE
    /\ (confirmed = TRUE \/ wk.kind = "closing") => sealed = TRUE
    /\ confirmed = TRUE => wk.kind # "on" /\ (inst.out = TRUE => byHand = TRUE)
    /\ verdict = TRUE => confirmed = TRUE

\* Before a source change acts it has asked: an output that is on is known to be on, or did
\* not say, or a hand switched it on since.
ByHand(i, b, h) == i.out = TRUE => b = TRUE /\ h = TRUE
Asked ==
    (wk.pc = "act" /\ wk.kind = "source") =>
        shown = None \/ flag = TRUE \/ ByHand(inst, byHand, handSince)

\* What the 2400 is left at by the writes done so far of a change to s.  A compliance that
\* narrows is written before the level, one that widens after it.
To(what, value) == [what |-> what, value |-> value]
Conforms(i, s) == i.fn = s.fn /\ i.level[s.fn] = s.level /\ i.limit = s.limit
Anew(s) == <<To("rst", None), To("fn", s.fn), To("limit", s.limit), To("level", s.level)>>
Left(w, s, i, b, h) ==
    \/ w = << >> /\ Conforms(i, s)
    \/ w = <<To("level", s.level)>> /\ i.fn = s.fn /\ i.limit = s.limit
    \/ w = <<To("limit", s.limit)>> /\ i.fn = s.fn /\ i.level[s.fn] = s.level
    \/ /\ w = <<To("limit", s.limit), To("level", s.level)>>
       /\ i.fn = s.fn /\ (ByHand(i, b, h) \/ s.limit <= i.limit)
    \/ /\ w = <<To("level", s.level), To("limit", s.limit)>>
       /\ i.fn = s.fn /\ (ByHand(i, b, h) \/ i.limit <= s.limit)
    \/ w = <<To("fn", s.fn), To("level", s.level)>> /\ ByHand(i, b, h) /\ i.limit = s.limit
    \/ w = <<To("fn", s.fn), To("limit", s.limit), To("level", s.level)>> /\ ByHand(i, b, h)
    \/ w = <<To("fn", s.fn), To("level", s.level), To("limit", s.limit)>> /\ ByHand(i, b, h)
Changing ==
    wk.pc = "write" =>
        /\ wk.next \in Setups
        /\ \/ wk.writes = Anew(wk.next)
           \/ wk.next \in asked /\ Left(wk.writes, wk.next, inst, byHand, handSince)

\* Between two changes the 2400 is what the panel says it is, and the reading is of it.
Standing == (panel # None /\ wk.pc \notin {"write", "stuck"}) =>
                panel \in asked /\ Conforms(inst, panel)
Reading == panel # None => reading = None \/ reading = panel

\* LimitComesFirst, of an instrument and the setups it was asked for.
Covered(i, b, a) ==
    (i.out = TRUE /\ b = FALSE) =>
        \E s \in a : s.fn = i.fn /\ s.level = i.level[i.fn] /\ i.limit <= s.limit

Core == Types /\ Asked /\ Changing /\ Standing /\ Reading /\ Covered(inst, byHand, asked)
PanelInv == Core /\ WayOut

-----------------------------------------------------------------------------
\* Two sequences of one length that agree everywhere are one.
LEMMA SequencesAgree ==
    ASSUME NEW S, NEW s \in Seq(S), NEW t \in Seq(S), Len(s) = Len(t),
           \A i \in 1..Len(s) : s[i] = t[i]
    PROVE  s = t
OBVIOUS

\* A sequence of one and a last one.
LEMMA TwoOf ==
    ASSUME NEW a, NEW b
    PROVE  <<a>> \o <<b>> = <<a, b>>
<1> DEFINE S == {a, b}
           x == <<a>> \o <<b>>
           y == <<a, b>>
<1>1. <<a>> \in Seq(S) /\ <<b>> \in Seq(S) /\ Len(<<a>>) = 1 /\ Len(<<b>>) = 1
  OBVIOUS
<1>2. x \in Seq(S) /\ Len(x) = 2 /\ x[1] = a /\ x[2] = b
  BY <1>1
<1>3. y \in Seq(S) /\ Len(y) = 2 /\ y[1] = a /\ y[2] = b
  OBVIOUS
<1> HIDE DEF x, y, S
<1>4. ASSUME NEW i \in 1..2 PROVE x[i] = y[i]
  <2>1. i = 1 \/ i = 2
    OBVIOUS
  <2> QED
    BY <1>2, <1>3, <2>1
<1>5. x = y
  BY <1>2, <1>3, <1>4, SequencesAgree
<1> QED
  BY <1>5 DEF x, y

\* A sequence of two and a last one.
LEMMA ThreeOf ==
    ASSUME NEW a, NEW b, NEW c
    PROVE  <<a, b>> \o <<c>> = <<a, b, c>>
<1> DEFINE S == {a, b, c}
           x == <<a, b>> \o <<c>>
           y == <<a, b, c>>
<1>1. <<a, b>> \in Seq(S) /\ <<c>> \in Seq(S) /\ Len(<<a, b>>) = 2 /\ Len(<<c>>) = 1
  OBVIOUS
<1>2. x \in Seq(S) /\ Len(x) = 3 /\ x[1] = a /\ x[2] = b /\ x[3] = c
  BY <1>1
<1>3. y \in Seq(S) /\ Len(y) = 3 /\ y[1] = a /\ y[2] = b /\ y[3] = c
  OBVIOUS
<1> HIDE DEF x, y, S
<1>4. ASSUME NEW i \in 1..3 PROVE x[i] = y[i]
  <2>1. i = 1 \/ i = 2 \/ i = 3
    OBVIOUS
  <2> QED
    BY <1>2, <1>3, <2>1
<1>5. x = y
  BY <1>2, <1>3, <1>4, SequencesAgree
<1> QED
  BY <1>5 DEF x, y

\* A sequence of three and a last one.
LEMMA FourOf ==
    ASSUME NEW a, NEW b, NEW c, NEW d
    PROVE  <<a, b, c>> \o <<d>> = <<a, b, c, d>>
<1> DEFINE S == {a, b, c, d}
           x == <<a, b, c>> \o <<d>>
           y == <<a, b, c, d>>
<1>1. <<a, b, c>> \in Seq(S) /\ <<d>> \in Seq(S) /\ Len(<<a, b, c>>) = 3 /\ Len(<<d>>) = 1
  OBVIOUS
<1>2. x \in Seq(S) /\ Len(x) = 4 /\ x[1] = a /\ x[2] = b /\ x[3] = c /\ x[4] = d
  BY <1>1
<1>3. y \in Seq(S) /\ Len(y) = 4 /\ y[1] = a /\ y[2] = b /\ y[3] = c /\ y[4] = d
  OBVIOUS
<1> HIDE DEF x, y, S
<1>4. ASSUME NEW i \in 1..4 PROVE x[i] = y[i]
  <2>1. i = 1 \/ i = 2 \/ i = 3 \/ i = 4
    OBVIOUS
  <2> QED
    BY <1>2, <1>3, <2>1
<1>5. x = y
  BY <1>2, <1>3, <1>4, SequencesAgree
<1> QED
  BY <1>5 DEF x, y

-----------------------------------------------------------------------------
\* Between jobs the thread waits for the next one, or drains the queue.
LEMMA RestIsCalm ==
    /\ Rest \in Threads /\ Rest.kind = "none" /\ Rest.pc \in {"timed", "asleep", "drain"}
    /\ [Calm EXCEPT !.pc = "drain"] \in Threads
    /\ [Calm EXCEPT !.pc = "drain"].kind = "none" /\ [Calm EXCEPT !.pc = "drain"].pc = "drain"
    /\ [Calm EXCEPT !.pc = "dead"] \in Threads
    /\ [Calm EXCEPT !.pc = "dead"].kind = "none" /\ [Calm EXCEPT !.pc = "dead"].pc = "dead"
    /\ Quiet \in Handlers
<1>1. << >> \in Seq(Orders)
  OBVIOUS
<1>2. ASSUME NEW pc \in {"timed", "asleep", "drain", "dead"}
      PROVE  /\ [Calm EXCEPT !.pc = pc] \in Threads
             /\ [Calm EXCEPT !.pc = pc].kind = "none" /\ [Calm EXCEPT !.pc = pc].pc = pc
  BY <1>1 DEF Calm, Threads
<1>3. Quiet \in Handlers
  BY DEF Quiet, Handlers
<1> QED
  BY <1>2, <1>3 DEF Rest

\* A job that ends leaves the thread between jobs, and its caller answered.
LEMMA EndsSo ==
    ASSUME Types, NEW what, Ends(what)
    PROVE  /\ wk' \in Threads /\ wk'.kind = "none" /\ wk'.pc \in {"timed", "asleep", "drain"}
           /\ cl' \in [Clients -> Handlers]
<1>1. wk' \in {Rest, [Calm EXCEPT !.pc = "drain"]}
  BY DEF Ends
<1>2. cl' \in [Clients -> Handlers]
  <2>1. CASE ~Waits
    BY <2>1 DEF Ends, Types
  <2>2. CASE Waits
    <3>1. wk.who \in Clients
      BY <2>2 DEF Types, Threads, Waits
    <3>2. \/ \E pc \in {"lit", "clear"} : cl' = [cl EXCEPT ![wk.who].pc = pc]
          \/ cl' = [cl EXCEPT ![wk.who] = Quiet]
      BY <2>2 DEF Ends
    <3>3. cl \in [Clients -> Handlers] /\ cl[wk.who] \in Handlers
      BY <3>1 DEF Types
    <3>4. ASSUME NEW pc \in {"lit", "clear"} PROVE [cl[wk.who] EXCEPT !.pc = pc] \in Handlers
      BY <3>3 DEF Handlers
    <3> QED
      BY <3>1, <3>2, <3>3, <3>4, RestIsCalm
  <2> QED
    BY <2>1, <2>2
<1> QED
  BY <1>1, <1>2, RestIsCalm

\* Going on with a job changes only where the thread is.
LEMMA GoesSo ==
    ASSUME Types, NEW pc \in {"stuck", "act"}, Goes(pc)
    PROVE  /\ wk' \in Threads /\ wk'.kind = wk.kind /\ wk'.pc = pc /\ wk'.body = wk.body
           /\ cl' = cl
BY DEF Goes, Types, Threads

\* A merged body is a setup.
LEMMA MergedIs ==
    ASSUME Types, wk.kind = "source"
    PROVE  Merged(wk.body) \in Setups /\ (panel # None => Base = panel)
<1>1. wk.body \in [fn : Fns \cup {None}, level : Nat \cup {None}, limit : Nat \cup {None}]
  BY PanelAssumption DEF Types
<1>2. Defaults \in Setups
  BY PanelAssumption DEF Setups
<1>3. Base \in Setups /\ (panel # None => Base = panel)
  BY <1>2 DEF Base, Types
<1> DEFINE fn == Or(wk.body.fn, Base.fn)
<1>4. fn \in Fns
  BY <1>1, <1>3 DEF Or, Setups
<1>5. Or(wk.body.limit, Base.limit) \in Nat
  BY <1>1, <1>3 DEF Or, Setups
<1>6. Or(wk.body.level, IF fn # Base.fn THEN 0 ELSE Base.level) \in Nat
  <2>1. (IF fn # Base.fn THEN 0 ELSE Base.level) \in Nat
    BY <1>3 DEF Setups
  <2> HIDE DEF fn
  <2> QED
    BY <1>1, <2>1 DEF Or
<1> QED
  BY <1>3, <1>4, <1>5, <1>6 DEF Merged, Setups

-----------------------------------------------------------------------------
\* What a change writes, as a sequence: from the cold, four writes.
LEMMA ColdIs == ASSUME NEW s PROVE Cold(s) = Anew(s)
<1> DEFINE R == To("rst", None)
           F == To("fn", s.fn)
           V == To("level", s.level)
           L == To("limit", s.limit)
<1>1. Cold(s) = <<R>> \o <<F>> \o <<L>> \o <<V>> /\ Anew(s) = <<R, F, L, V>>
  BY DEF Cold, W, To, Anew
<1> HIDE DEF R, F, V, L
<1>2. <<R>> \o <<F>> = <<R, F>> /\ <<R, F>> \o <<L>> = <<R, F, L>>
  BY TwoOf, ThreeOf
<1>3. <<R, F, L>> \o <<V>> = <<R, F, L, V>>
  BY FourOf
<1> QED
  BY <1>1, <1>2, <1>3

\* From another setup, what differs, in the order the compliance asks for.
LEMMA MovedIs ==
    ASSUME NEW was \in Setups, NEW s \in Setups
    PROVE  LET F == To("fn", s.fn)  V == To("level", s.level)  L == To("limit", s.limit) IN
           \/ Moved(was, s) = << >> /\ was.fn = s.fn /\ was.level = s.level /\ was.limit = s.limit
           \/ Moved(was, s) = <<V>> /\ was.fn = s.fn /\ was.limit = s.limit
           \/ Moved(was, s) = <<L>> /\ was.fn = s.fn /\ was.level = s.level
           \/ Moved(was, s) = <<L, V>> /\ was.fn = s.fn /\ s.limit <= was.limit
           \/ Moved(was, s) = <<V, L>> /\ was.fn = s.fn /\ was.limit <= s.limit
           \/ Moved(was, s) = <<F, V>> /\ was.fn # s.fn /\ was.limit = s.limit
           \/ Moved(was, s) = <<F, L, V>> /\ was.fn # s.fn
           \/ Moved(was, s) = <<F, V, L>> /\ was.fn # s.fn
<1> DEFINE F == To("fn", s.fn)
           V == To("level", s.level)
           L == To("limit", s.limit)
           f == IF s.fn # was.fn THEN <<F>> ELSE << >>
           n == IF s.limit < was.limit THEN <<L>> ELSE << >>
           v == IF s.fn # was.fn \/ s.level # was.level THEN <<V>> ELSE << >>
           w == IF s.limit > was.limit THEN <<L>> ELSE << >>
<1>1. Moved(was, s) = f \o n \o v \o w
  BY DEF Moved, W, To
<1>2. was.limit \in Nat /\ s.limit \in Nat
  BY DEF Setups
<1>3. \/ n = <<L>> /\ w = << >> /\ s.limit <= was.limit
      \/ n = << >> /\ w = <<L>> /\ was.limit <= s.limit
      \/ n = << >> /\ w = << >> /\ was.limit = s.limit
  BY <1>2
<1>4. \/ f = <<F>> /\ v = <<V>> /\ was.fn # s.fn
      \/ f = << >> /\ v = <<V>> /\ was.fn = s.fn
      \/ f = << >> /\ v = << >> /\ was.fn = s.fn /\ was.level = s.level
  OBVIOUS
<1> HIDE DEF F, V, L, f, n, v, w
<1>5. /\ << >> \o << >> = << >> /\ << >> \o <<V>> = <<V>> /\ << >> \o <<L>> = <<L>>
      /\ <<V>> \o << >> = <<V>> /\ <<L>> \o << >> = <<L>> /\ <<F>> \o << >> = <<F>>
      /\ <<L, V>> \o << >> = <<L, V>> /\ <<F, V>> \o << >> = <<F, V>>
  OBVIOUS
<1>6. <<F, L, V>> \o << >> = <<F, L, V>>
  OBVIOUS
<1>7. /\ <<L>> \o <<V>> = <<L, V>> /\ <<V>> \o <<L>> = <<V, L>> /\ <<F>> \o <<V>> = <<F, V>>
      /\ <<F>> \o <<L>> = <<F, L>> /\ <<F, L>> \o <<V>> = <<F, L, V>>
      /\ <<F, V>> \o <<L>> = <<F, V, L>>
  BY TwoOf, ThreeOf
<1>8. CASE n = <<L>> /\ w = << >> /\ s.limit <= was.limit
  BY <1>1, <1>4, <1>5, <1>6, <1>7, <1>8 DEF F, V, L
<1>9. CASE n = << >> /\ w = <<L>> /\ was.limit <= s.limit
  BY <1>1, <1>4, <1>5, <1>7, <1>9 DEF F, V, L
<1>10. CASE n = << >> /\ w = << >> /\ was.limit = s.limit
  BY <1>1, <1>4, <1>5, <1>7, <1>10 DEF F, V, L
<1> QED
  BY <1>3, <1>8, <1>9, <1>10

-----------------------------------------------------------------------------
\* One write of a change lands: what is left of the change is right, the compliance still
\* covers the level, and a function changed dark.
LEMMA WriteLands ==
    ASSUME Types, Changing, Covered(inst, byHand, asked),
           wk.pc = "write", wk.writes # << >>, Effect(Head(wk.writes), TRUE)
    PROVE  /\ inst' \in Insts /\ (inst'.out = TRUE => inst.out = TRUE)
           /\ wk.next \in asked'
           /\ Left(Tail(wk.writes), wk.next, inst', byHand, handSince)
           /\ Covered(inst', byHand, asked')
           /\ (inst'.fn # inst.fn /\ inst'.out = TRUE) => handSince = TRUE
<1> DEFINE s == wk.next
           R == To("rst", None)
           F == To("fn", s.fn)
           V == To("level", s.level)
           L == To("limit", s.limit)
           Hand1 == ByHand(inst, byHand, handSince)
<1>1. /\ s \in Setups /\ s.fn \in Fns /\ s.level \in Nat /\ s.limit \in Nat
      /\ inst \in Insts /\ inst.fn \in Fns /\ inst.level \in [Fns -> Nat] /\ inst.limit \in Nat
      /\ inst.out \in BOOLEAN
  BY DEF Changing, Setups, Types, Insts
<1>2. ASSUME Head(wk.writes) = F
      PROVE  /\ inst' \in Insts /\ inst'.fn = s.fn /\ inst'.level = inst.level
             /\ inst'.limit = inst.limit /\ inst'.out = inst.out /\ asked' = asked
  <2>1. inst' = [inst EXCEPT !.fn = s.fn] /\ asked' = asked
    BY <1>2 DEF Effect, To
  <2> QED
    BY <1>1, <2>1 DEF Insts
<1>3. ASSUME Head(wk.writes) = V
      PROVE  /\ inst' \in Insts /\ inst'.fn = inst.fn /\ inst'.level[inst.fn] = s.level
             /\ inst'.limit = inst.limit /\ inst'.out = inst.out /\ asked' = asked
  <2>1. inst' = [inst EXCEPT !.level[inst.fn] = s.level] /\ asked' = asked
    BY <1>3 DEF Effect, To
  <2>2. inst' = [inst EXCEPT !.level = [inst.level EXCEPT ![inst.fn] = s.level]]
    BY <2>1
  <2>3. [inst.level EXCEPT ![inst.fn] = s.level] \in [Fns -> Nat]
        /\ [inst.level EXCEPT ![inst.fn] = s.level][inst.fn] = s.level
    BY <1>1
  <2> QED
    BY <1>1, <2>1, <2>2, <2>3 DEF Insts
<1>4. ASSUME Head(wk.writes) = L
      PROVE  /\ inst' \in Insts /\ inst'.fn = inst.fn /\ inst'.level = inst.level
             /\ inst'.limit = s.limit /\ inst'.out = inst.out /\ asked' = asked
  <2>1. inst' = [inst EXCEPT !.limit = s.limit] /\ asked' = asked
    BY <1>4 DEF Effect, To
  <2> QED
    BY <1>1, <2>1 DEF Insts
<1>5. ASSUME Head(wk.writes) = R
      PROVE  inst' \in Insts /\ inst'.out = FALSE /\ asked' = {s}
  <2>1. /\ inst' = [out |-> FALSE, fn |-> Defaults.fn, level |-> [f \in Fns |-> 0],
                    limit |-> RstLimit]
        /\ asked' = {s}
    BY <1>5 DEF Effect, To
  <2>2. Defaults.fn \in Fns /\ RstLimit \in Nat
    BY PanelAssumption
  <2> QED
    BY <2>1, <2>2 DEF Insts
<1>6. wk.writes = Anew(s) \/ (s \in asked /\ Left(wk.writes, s, inst, byHand, handSince))
  BY DEF Changing
<1>7. \/ wk.writes = <<R, F, L, V>>
      \/ wk.writes = <<V>> /\ inst.fn = s.fn /\ inst.limit = s.limit /\ s \in asked
      \/ wk.writes = <<L>> /\ inst.fn = s.fn /\ inst.level[s.fn] = s.level /\ s \in asked
      \/ wk.writes = <<L, V>> /\ inst.fn = s.fn /\ (Hand1 \/ s.limit <= inst.limit) /\ s \in asked
      \/ wk.writes = <<V, L>> /\ inst.fn = s.fn /\ (Hand1 \/ inst.limit <= s.limit) /\ s \in asked
      \/ wk.writes = <<F, V>> /\ Hand1 /\ inst.limit = s.limit /\ s \in asked
      \/ wk.writes = <<F, L, V>> /\ Hand1 /\ s \in asked
      \/ wk.writes = <<F, V, L>> /\ Hand1 /\ s \in asked
  BY <1>6 DEF Anew, Left
<1> DEFINE Goal == /\ inst' \in Insts /\ (inst'.out = TRUE => inst.out = TRUE)
                   /\ s \in asked'
                   /\ Left(Tail(wk.writes), s, inst', byHand, handSince)
                   /\ Covered(inst', byHand, asked')
                   /\ (inst'.fn # inst.fn /\ inst'.out = TRUE) => handSince = TRUE
<1>8. CASE wk.writes = <<R, F, L, V>>
  <2>1. Head(wk.writes) = R /\ Tail(wk.writes) = <<F, L, V>>
    BY <1>8
  <2>2. inst' \in Insts /\ inst'.out = FALSE /\ asked' = {s}
    BY <1>5, <2>1
  <2> QED
    BY <2>1, <2>2 DEF Left, ByHand, Covered
<1>9. CASE wk.writes = <<V>> /\ inst.fn = s.fn /\ inst.limit = s.limit /\ s \in asked
  <2>1. Head(wk.writes) = V /\ Tail(wk.writes) = << >>
    BY <1>9
  <2>2. /\ inst' \in Insts /\ inst'.fn = inst.fn /\ inst'.level[inst.fn] = s.level
        /\ inst'.limit = inst.limit /\ inst'.out = inst.out /\ asked' = asked
    BY <1>3, <2>1
  <2>3. inst'.limit <= s.limit
    BY <1>1, <1>9, <2>2
  <2> QED
    BY <1>9, <2>1, <2>2, <2>3 DEF Left, Conforms, Covered
<1>10. CASE wk.writes = <<L>> /\ inst.fn = s.fn /\ inst.level[s.fn] = s.level /\ s \in asked
  <2>1. Head(wk.writes) = L /\ Tail(wk.writes) = << >>
    BY <1>10
  <2>2. /\ inst' \in Insts /\ inst'.fn = inst.fn /\ inst'.level = inst.level
        /\ inst'.limit = s.limit /\ inst'.out = inst.out /\ asked' = asked
    BY <1>4, <2>1
  <2>3. inst'.limit <= s.limit
    BY <1>1, <2>2
  <2> QED
    BY <1>10, <2>1, <2>2, <2>3 DEF Left, Conforms, Covered
<1>11. CASE /\ wk.writes = <<L, V>> /\ inst.fn = s.fn /\ (Hand1 \/ s.limit <= inst.limit)
            /\ s \in asked
  <2>1. Head(wk.writes) = L /\ Tail(wk.writes) = <<V>>
    BY <1>11
  <2>2. /\ inst' \in Insts /\ inst'.fn = inst.fn /\ inst'.level = inst.level
        /\ inst'.limit = s.limit /\ inst'.out = inst.out /\ asked' = asked
    BY <1>4, <2>1
  <2>3. Covered(inst', byHand, asked')
    <3>1. SUFFICES ASSUME inst'.out = TRUE, byHand = FALSE
                   PROVE  \E x \in asked' : /\ x.fn = inst'.fn /\ x.level = inst'.level[inst'.fn]
                                            /\ inst'.limit <= x.limit
      BY DEF Covered
    <3>2. s.limit <= inst.limit
      BY <1>11, <2>2, <3>1 DEF ByHand
    <3>3. PICK x \in asked : /\ x.fn = inst.fn /\ x.level = inst.level[inst.fn]
                             /\ inst.limit <= x.limit
      BY <2>2, <3>1 DEF Covered
    <3>4. x.limit \in Nat
      BY <3>3 DEF Types, Setups
    <3>5. s.limit <= x.limit
      BY <1>1, <3>2, <3>3, <3>4
    <3> QED
      BY <2>2, <3>3, <3>5
  <2> QED
    BY <1>11, <2>1, <2>2, <2>3 DEF Left
<1>12. CASE /\ wk.writes = <<V, L>> /\ inst.fn = s.fn /\ (Hand1 \/ inst.limit <= s.limit)
            /\ s \in asked
  <2>1. Head(wk.writes) = V /\ Tail(wk.writes) = <<L>>
    BY <1>12
  <2>2. /\ inst' \in Insts /\ inst'.fn = inst.fn /\ inst'.level[inst.fn] = s.level
        /\ inst'.limit = inst.limit /\ inst'.out = inst.out /\ asked' = asked
    BY <1>3, <2>1
  <2>3. Covered(inst', byHand, asked')
    BY <1>12, <2>2 DEF Covered, ByHand
  <2> QED
    BY <1>12, <2>1, <2>2, <2>3 DEF Left
<1>13. CASE /\ \/ wk.writes = <<F, V>> /\ inst.limit = s.limit
               \/ wk.writes = <<F, L, V>>
               \/ wk.writes = <<F, V, L>>
            /\ Hand1 /\ s \in asked
  <2>0. Head(wk.writes) = F
    BY <1>13
  <2>1. /\ inst' \in Insts /\ inst'.fn = s.fn /\ inst'.level = inst.level
        /\ inst'.limit = inst.limit /\ inst'.out = inst.out /\ asked' = asked
    BY <1>2, <2>0
  <2>2. ByHand(inst', byHand, handSince)
    BY <1>13, <2>1 DEF ByHand
  <2>3. /\ Covered(inst', byHand, asked')
        /\ (inst'.fn # inst.fn /\ inst'.out = TRUE) => handSince = TRUE
    BY <2>2 DEF ByHand, Covered
  <2>4. CASE wk.writes = <<F, V>> /\ inst.limit = s.limit
    <3>1. Tail(wk.writes) = <<V>>
      BY <2>4
    <3> QED
      BY <1>13, <2>1, <2>3, <2>4, <3>1 DEF Left
  <2>5. CASE wk.writes = <<F, L, V>>
    <3>1. Tail(wk.writes) = <<L, V>>
      BY <2>5
    <3> QED
      BY <1>13, <2>1, <2>2, <2>3, <3>1 DEF Left
  <2>6. CASE wk.writes = <<F, V, L>>
    <3>1. Tail(wk.writes) = <<V, L>>
      BY <2>6
    <3> QED
      BY <1>13, <2>1, <2>2, <2>3, <3>1 DEF Left
  <2> QED
    BY <1>13, <2>4, <2>5, <2>6
<1> QED
  BY <1>7, <1>8, <1>9, <1>10, <1>11, <1>12, <1>13

-----------------------------------------------------------------------------
\* The steps of the handlers, of the page and of the way out leave the instrument, the
\* driver and its thread alone.
Beside ==
    UNCHANGED <<hardVars, flag, panel, asked, shown, wk, confirmed>> /\ reading' \in {reading, None}

\* The instrument thread takes up a job, or waits, or ends.
Between ==
    /\ UNCHANGED <<hardVars, driveVars, pageVars, sealed, phase, confirmed, verdict>>
    /\ wk.pc \in {"timed", "asleep", "drain"}

\* What a step of the handlers, the page or the way out may be.
Asking(c) == \/ \E b \in Bodies : Submit(c, "source", b)
             \/ \E kind \in {"on", "off", "read"} : Submit(c, kind, None)
Outside ==
    \/ \E c \in Clients : \/ Asking(c) \/ (c \in Pollers /\ \E on \in BOOLEAN : SetPoll(c, on))
                          \/ TimesOut(c) \/ SubmitTick(c) \/ Blank(c) \/ SetIdle(c)
    \/ AskState \/ SkipWake \/ Seal \/ Stop \/ Joined \/ UNCHANGED vars
StepsAre ==
    \/ Outside
    \/ TakeJob \/ Decide \/ Dies
    \/ AskOutput \/ SetOutput \/ Take \/ BeginSource \/ Write \/ Applied \/ Hand

\* Every step is one of these.
LEMMA StepsSplit == ASSUME [Next]_vars PROVE StepsAre
BY DEF Next, Asks, Asking, GoesOn, Worker, Outside, StepsAre

\* And what comes from outside leaves the instrument and its thread alone.
LEMMA OutsideIsBeside == ASSUME Outside PROVE Beside
<1>1. ASSUME NEW c \in Clients, Asking(c) PROVE Beside
  BY <1>1 DEF Asking, Submit, Beside, hardVars, driveVars, pageVars, endVars
<1>2. ASSUME NEW c \in Clients, NEW on \in BOOLEAN, SetPoll(c, on) PROVE Beside
  BY <1>2 DEF SetPoll, Beside, hardVars, driveVars, endVars
<1>3. ASSUME NEW c \in Clients, TimesOut(c) \/ SubmitTick(c) \/ Blank(c) \/ SetIdle(c) PROVE Beside
  BY <1>3 DEF TimesOut, SubmitTick, Blank, SetIdle, Beside, hardVars, driveVars, pageVars, endVars
<1>4. CASE AskState \/ SkipWake \/ Seal \/ Stop \/ Joined \/ UNCHANGED vars
  BY <1>4 DEF AskState, SkipWake, Seal, Stop, Joined, Beside, hardVars, driveVars, pageVars,
              endVars, vars
<1> QED
  BY <1>1, <1>2, <1>3, <1>4 DEF Outside

-----------------------------------------------------------------------------
\* The queue holds jobs, and the handlers what they wait for.
LEMMA QueueStep ==
    ASSUME Types, WayOut, StepsAre
    PROVE  /\ q' \in Seq(JobSet) /\ lastId' \in Nat
           /\ cl' \in [Clients -> Handlers]
           /\ \A i \in 1..Len(q') : \/ q'[i] \in {q[j] : j \in 1..Len(q)} \/ q'[i] = Wake
                                    \/ q'[i].kind = "closing" /\ sealed' = TRUE
                                    \/ q'[i].kind \notin {"wake", "closing"} /\ sealed' # TRUE
<1> DEFINE Kept(x) == \/ x \in {q[j] : j \in 1..Len(q)} \/ x = Wake
                      \/ x.kind = "closing" /\ sealed' = TRUE
                      \/ x.kind \notin {"wake", "closing"} /\ sealed' # TRUE
           Good == /\ q' \in Seq(JobSet) /\ lastId' \in Nat
                   /\ cl' \in [Clients -> Handlers]
                   /\ \A i \in 1..Len(q') : Kept(q'[i])
<1>1. /\ q \in Seq(JobSet) /\ Len(q) \in Nat /\ lastId \in Nat /\ cl \in [Clients -> Handlers]
      /\ Wake \in JobSet /\ Wake.kind = "wake" /\ sealed \in BOOLEAN
  BY DEF Types, WayOut, Wake, Job, JobSet, Kinds
<1>2. ASSUME NEW j \in JobSet, q' = Append(q, j), Kept(j)
      PROVE  q' \in Seq(JobSet) /\ \A i \in 1..Len(q') : Kept(q'[i])
  <2>1. q' \in Seq(JobSet) /\ Len(q') = Len(q) + 1 /\ q'[Len(q) + 1] = j
        /\ (\A i \in 1..Len(q) : q'[i] = q[i])
    BY <1>1, <1>2
  <2>2. ASSUME NEW i \in 1..Len(q') PROVE Kept(q'[i])
    <3>1. i = Len(q) + 1 \/ i \in 1..Len(q)
      BY <1>1, <2>1
    <3> QED
      BY <1>2, <2>1, <3>1
  <2> QED
    BY <2>1, <2>2
<1>3. ASSUME q # << >>, q' = Tail(q)
      PROVE  q' \in Seq(JobSet) /\ \A i \in 1..Len(q') : Kept(q'[i])
  <2>1. q' \in Seq(JobSet) /\ Len(q') = Len(q) - 1 /\ \A i \in 1..Len(q') : q'[i] = q[i + 1]
    BY <1>1, <1>3
  <2>2. ASSUME NEW i \in 1..Len(q') PROVE Kept(q'[i])
    <3>1. i + 1 \in 1..Len(q) /\ q'[i] = q[i + 1]
      BY <1>1, <2>1
    <3> QED
      BY <3>1
  <2> QED
    BY <2>1, <2>2
<1>4. ASSUME q' = q PROVE q' \in Seq(JobSet) /\ \A i \in 1..Len(q') : Kept(q'[i])
  BY <1>1, <1>4
<1> HIDE DEF Kept
<1>5. ASSUME NEW c \in Clients, Asking(c) PROVE Good
  <2>1. PICK kind \in {"source", "on", "off", "read"}, body \in Bodies \cup {None} :
           Submit(c, kind, body) /\ (kind = "source" => body \in Bodies)
    BY <1>5 DEF Asking
  <2> DEFINE j == Job(kind, c, lastId', body)
             h == [pc |-> kind, id |-> lastId', to |-> FALSE]
  <2>2. /\ lastId' \in Nat /\ sealed' = sealed /\ sealed # TRUE /\ q' = Append(q, j)
        /\ cl' = [cl EXCEPT ![c] = h]
    <3>1. lastId' = lastId + 1
      BY <2>1 DEF Submit
    <3>2. q' = Append(q, j) /\ cl' = [cl EXCEPT ![c] = h] /\ sealed' = sealed
      BY <2>1 DEF Submit
    <3>3. sealed # TRUE
      BY <2>1 DEF Submit, Accepts
    <3>4. lastId' \in Nat
      BY <1>1, <3>1
    <3> QED
      BY <3>2, <3>3, <3>4
  <2>3. j \in JobSet /\ j.kind = kind
    BY <2>1, <2>2 DEF Job, JobSet, Kinds
  <2>4. h \in Handlers
    BY <2>1, <2>2 DEF Handlers
  <2> HIDE DEF j, h
  <2>5. Kept(j)
    BY <2>2, <2>3 DEF Kept
  <2> QED
    BY <1>1, <1>2, <2>2, <2>3, <2>4, <2>5
<1>6. ASSUME NEW c \in Clients, SubmitTick(c) PROVE Good
  <2> DEFINE j == Job("tick", c, cl[c].id, None)
  <2>1. cl[c] \in Handlers
    BY <1>1
  <2>2. lastId' = lastId /\ sealed' = sealed
    BY <1>6 DEF SubmitTick
  <2>3. j \in JobSet /\ j.kind = "tick"
    BY <2>1 DEF Job, JobSet, Kinds, Handlers
  <2>4. [cl[c] EXCEPT !.pc = "tick"] \in Handlers
    BY <2>1 DEF Handlers
  <2> HIDE DEF j
  <2>5. CASE sealed # TRUE /\ q' = Append(q, j) /\ cl' = [cl EXCEPT ![c].pc = "tick"]
    <3>1. Kept(j)
      BY <2>2, <2>3, <2>5 DEF Kept
    <3> QED
      BY <1>1, <1>2, <2>2, <2>3, <2>4, <2>5, <3>1
  <2>6. CASE q' = q /\ cl' = [cl EXCEPT ![c] = Quiet]
    BY <1>1, <1>4, <2>2, <2>6, RestIsCalm
  <2> QED
    BY <1>6, <2>5, <2>6 DEF SubmitTick, Accepts, j
<1>7. ASSUME NEW c \in Clients, NEW on \in BOOLEAN, SetPoll(c, on) PROVE Good
  <2>1. /\ lastId' \in Nat /\ q' = q
        /\ cl' = [cl EXCEPT ![c] = [pc |-> "setidle", id |-> 0, to |-> on]]
    BY <1>1, <1>7 DEF SetPoll, busVars
  <2>2. [pc |-> "setidle", id |-> 0, to |-> on] \in Handlers
    BY DEF Handlers
  <2> QED
    BY <1>1, <1>4, <2>1, <2>2
<1>8. ASSUME NEW c \in Clients, TimesOut(c) \/ Blank(c) PROVE Good
  <2>1. lastId' = lastId /\ q' = q /\ cl' = [cl EXCEPT ![c] = Quiet]
    BY <1>8 DEF TimesOut, Blank, busVars
  <2> QED
    BY <1>1, <1>4, <2>1, RestIsCalm
<1>9. ASSUME NEW c \in Clients, SetIdle(c) PROVE Good
  <2>1. lastId' = lastId /\ q' = Append(q, Wake) /\ cl' = [cl EXCEPT ![c] = Quiet]
    BY <1>1, <1>9 DEF SetIdle, Wakes
  <2>2. Kept(Wake)
    BY DEF Kept
  <2> QED
    BY <1>1, <1>2, <2>1, <2>2, RestIsCalm
<1>10. ASSUME AskState PROVE Good
  <2> DEFINE j == Job("watch", None, 0, None)
  <2>1. q' = Append(q, j) /\ lastId' = lastId /\ cl' = cl
    BY <1>10 DEF AskState, callVars
  <2>2. sealed' # TRUE
    BY <1>10 DEF AskState, WayOut
  <2>3. j \in JobSet /\ j.kind = "watch"
    BY DEF Job, JobSet, Kinds
  <2> HIDE DEF j
  <2>4. Kept(j)
    BY <2>2, <2>3 DEF Kept
  <2>5. lastId' \in Nat /\ cl' \in [Clients -> Handlers]
    BY <1>1, <2>1
  <2>6. q' \in Seq(JobSet) /\ \A i \in 1..Len(q') : Kept(q'[i])
    BY <1>2, <2>1, <2>3, <2>4
  <2> QED
    BY <2>5, <2>6
<1>11. ASSUME Seal PROVE Good
  <2> DEFINE j == Job("closing", None, 0, None)
  <2>1. q' = <<Wake, j>> /\ lastId' = lastId /\ cl' = cl
    BY <1>11 DEF Seal, callVars
  <2>2. j \in JobSet /\ j.kind = "closing" /\ sealed' = TRUE
    BY <1>11 DEF Seal, Job, JobSet, Kinds
  <2> HIDE DEF j
  <2>3. Kept(j) /\ Kept(Wake)
    BY <2>2 DEF Kept
  <2>4. q' \in Seq(JobSet) /\ Len(q') = 2 /\ q'[1] = Wake /\ q'[2] = j
    BY <1>1, <2>1, <2>2
  <2>5. \A i \in 1..Len(q') : i = 1 \/ i = 2
    BY <2>4
  <2>6. \A i \in 1..Len(q') : Kept(q'[i])
    BY <2>3, <2>4, <2>5
  <2>7. lastId' \in Nat /\ cl' \in [Clients -> Handlers]
    BY <1>1, <2>1
  <2> QED
    BY <2>4, <2>6, <2>7
<1>12. ASSUME Stop PROVE Good
  <2>1. lastId' = lastId /\ q' = Append(q, Wake) /\ cl' = cl
    BY <1>12 DEF Stop, callVars
  <2>2. Kept(Wake)
    BY DEF Kept
  <2>3. lastId' \in Nat /\ cl' \in [Clients -> Handlers]
    BY <1>1, <2>1
  <2>4. q' \in Seq(JobSet) /\ \A i \in 1..Len(q') : Kept(q'[i])
    BY <1>1, <1>2, <2>1, <2>2
  <2> QED
    BY <2>3, <2>4
<1>13. ASSUME SkipWake \/ TakeJob \/ Decide PROVE Good
  <2>1. lastId' = lastId /\ cl' = cl
    BY <1>13 DEF SkipWake, TakeJob, Decide, callVars
  <2>2. q' = q \/ (q # << >> /\ q' = Tail(q))
    BY <1>13 DEF SkipWake, TakeJob, Decide
  <2>3. lastId' \in Nat /\ cl' \in [Clients -> Handlers]
    BY <1>1, <2>1
  <2>4. q' \in Seq(JobSet) /\ \A i \in 1..Len(q') : Kept(q'[i])
    BY <1>3, <1>4, <2>2
  <2> QED
    BY <2>3, <2>4
<1>14. ASSUME Joined \/ UNCHANGED vars \/ Dies \/ Hand PROVE Good
  <2>1. lastId' = lastId /\ q' = q /\ cl' = cl
    BY <1>14 DEF Joined, vars, Dies, Hand, busVars, callVars
  <2> QED
    BY <1>1, <1>4, <2>1
<1>15. ASSUME AskOutput \/ SetOutput \/ Take \/ BeginSource \/ Write \/ Applied PROVE Good
  <2>1. lastId' = lastId /\ q' = q
    BY <1>15 DEF AskOutput, SetOutput, Take, BeginSource, Write, Applied, busVars
  <2>2. (\E what : Ends(what)) \/ cl' = cl
    BY <1>15 DEF AskOutput, SetOutput, Switched, Take, BeginSource, Write, Applied, Goes, Stuck
  <2>3. cl' \in [Clients -> Handlers]
    BY <1>1, <2>2, EndsSo
  <2> QED
    BY <1>1, <1>4, <2>1, <2>3
<1> QED
  BY <1>5, <1>6, <1>7, <1>8, <1>9, <1>10, <1>11, <1>12, <1>13, <1>14, <1>15
     DEF StepsAre, Outside, Kept

-----------------------------------------------------------------------------
\* A job that begins asks for the output first if it changes the source.
LEMMA BeginIs ==
    ASSUME NEW j \in JobSet, NEW d \in BOOLEAN
    PROVE  /\ Begin(j, d) \in Threads /\ Begin(j, d).kind = j.kind /\ Begin(j, d).body = j.body
           /\ Begin(j, d).pc \in {"ask", "act"}
           /\ j.kind = "source" => Begin(j, d).pc = "ask" /\ j.body \in Bodies
<1>1. << >> \in Seq(Orders)
  OBVIOUS
<1>2. /\ j.kind \in Kinds /\ j.who \in Clients \cup {None} /\ j.id \in Nat
      /\ j.body \in Bodies \cup {None} /\ (j.kind = "source" => j.body \in Bodies)
  BY DEF JobSet
<1>3. (IF j.kind \in AsksFirst THEN "ask" ELSE "act") \in {"ask", "act"}
      /\ (j.kind = "source" => (IF j.kind \in AsksFirst THEN "ask" ELSE "act") = "ask")
  BY DEF AsksFirst
<1> QED
  BY <1>1, <1>2, <1>3 DEF Begin, Threads

\* What the thread turns to between jobs.
LEMMA BetweenIs ==
    ASSUME Types, WayOut, TakeJob \/ Decide \/ Dies
    PROVE  /\ Between /\ wk' \in Threads
           /\ wk'.pc \in {"timed", "asleep", "drain", "dead", "ask", "act"}
           /\ wk'.kind = "source" => wk'.pc = "ask" /\ wk'.body \in Bodies
           /\ wk'.kind = "on" => sealed # TRUE
           /\ wk'.kind = "closing" => sealed = TRUE
           /\ wk'.pc \in {"timed", "asleep", "drain"} => wk'.kind = "none"
<1>1. Between
  BY DEF TakeJob, Decide, Dies, Between, endVars, busVars
<1>2. wk \in Threads /\ q \in Seq(JobSet) /\ (wk.kind = "source" => wk.body \in Bodies)
  BY DEF Types
<1> DEFINE Fine(w) == /\ w \in Threads
                      /\ w.pc \in {"timed", "asleep", "drain", "dead", "ask", "act"}
                      /\ w.kind = "source" => w.pc = "ask" /\ w.body \in Bodies
                      /\ w.kind = "on" => sealed # TRUE
                      /\ w.kind = "closing" => sealed = TRUE
                      /\ w.pc \in {"timed", "asleep", "drain"} => w.kind = "none"
<1>3. Fine(Rest) /\ Fine([Calm EXCEPT !.pc = "dead"])
  BY RestIsCalm
<1>4. ASSUME TakeJob PROVE Fine(wk')
  <2>1. Head(q) \in JobSet /\ Head(q) = q[1] /\ 1 \in 1..Len(q)
    BY <1>2, <1>4 DEF TakeJob
  <2>2. Head(q).kind = "closing" => sealed = TRUE
    BY <2>1 DEF WayOut
  <2>3. Head(q).kind = "on" => sealed # TRUE
    BY <2>1 DEF WayOut
  <2>4. (wk.pc = "drain") \in BOOLEAN
    OBVIOUS
  <2> DEFINE w == Begin(Head(q), wk.pc = "drain")
  <2>5. /\ w \in Threads /\ w.kind = Head(q).kind /\ w.pc \in {"ask", "act"}
        /\ w.kind = "source" => w.pc = "ask" /\ w.body \in Bodies
    BY <2>1, <2>4, BeginIs
  <2>6. wk' = w \/ (wk' = wk /\ wk.pc = "drain") \/ wk' = Rest
    BY <1>4 DEF TakeJob
  <2> HIDE DEF w
  <2>7. Fine(w)
    BY <2>2, <2>3, <2>5
  <2>8. (wk' = wk /\ wk.pc = "drain") => Fine(wk')
    BY <1>2 DEF Types
  <2> HIDE DEF Fine
  <2> QED
    BY <1>3, <2>6, <2>7, <2>8
<1>5. ASSUME Decide PROVE Fine(wk')
  <2>1. wk' = Rest \/ wk' = Begin(Job("idle", None, 0, None), FALSE)
    BY <1>5 DEF Decide
  <2>2. Job("idle", None, 0, None) \in JobSet /\ Job("idle", None, 0, None).kind = "idle"
    BY DEF Job, JobSet, Kinds
  <2>3. Fine(Begin(Job("idle", None, 0, None), FALSE))
    BY <2>2, BeginIs
  <2> QED
    BY <1>3, <2>1, <2>3
<1>6. ASSUME Dies PROVE Fine(wk')
  BY <1>3, <1>6 DEF Dies
<1> QED
  BY <1>1, <1>4, <1>5, <1>6

-----------------------------------------------------------------------------
\* The queue and the handlers after a step, as QueueStep has them.
Queued == q' \in Seq(JobSet) /\ cl' \in [Clients -> Handlers] /\ lastId' \in Nat

\* A step that leaves the instrument and its thread alone keeps everything about them.
LEMMA BesideKeeps == ASSUME Core, Beside, Queued PROVE Core'
<1>1. /\ inst' = inst /\ byHand' = byHand /\ handSince' = handSince /\ flag' = flag
      /\ panel' = panel /\ asked' = asked /\ shown' = shown /\ wk' = wk
      /\ reading' \in {reading, None}
  BY DEF Beside, hardVars
<1>2. Types'
  BY <1>1 DEF Core, Types, Queued
<1>3. Asked' /\ Changing'
  BY <1>1 DEF Core, Asked, Changing
<1>4. Standing' /\ Reading'
  BY <1>1 DEF Core, Standing, Reading
<1>5. Covered(inst, byHand, asked)'
  BY <1>1 DEF Core
<1> QED
  BY <1>2, <1>3, <1>4, <1>5 DEF Core

\* Taking up a job, waiting and ending do so too.
LEMMA BetweenKeeps == ASSUME Core, WayOut, TakeJob \/ Decide \/ Dies, Queued PROVE Core'
<1>1. /\ inst' = inst /\ byHand' = byHand /\ handSince' = handSince /\ flag' = flag
      /\ panel' = panel /\ asked' = asked /\ shown' = shown /\ reading' = reading
      /\ wk.pc \in {"timed", "asleep", "drain"}
      /\ wk' \in Threads
      /\ wk'.pc \in {"timed", "asleep", "drain", "dead", "ask", "act"}
      /\ wk'.kind = "source" => wk'.pc = "ask" /\ wk'.body \in Bodies
      /\ wk'.pc \in {"timed", "asleep", "drain"} => wk'.kind = "none"
  BY BetweenIs DEF Core, Between, hardVars, driveVars, pageVars
<1>2. Types'
  BY <1>1 DEF Core, Types, Queued
<1>3. Asked' /\ Changing'
  BY <1>1 DEF Core, Asked, Changing
<1>4. Standing' /\ Reading'
  BY <1>1 DEF Core, Standing, Reading
<1>5. Covered(inst, byHand, asked)'
  BY <1>1 DEF Core
<1> QED
  BY <1>2, <1>3, <1>4, <1>5 DEF Core

\* A hand on the OUTPUT key.
LEMMA HandKeeps == ASSUME Core, Hand, Queued PROVE Core'
<1>1. /\ inst' = [inst EXCEPT !.out = ~@] /\ byHand' = TRUE /\ handSince' = TRUE /\ flag' = flag
      /\ panel' = panel /\ asked' = asked /\ shown' = shown /\ wk' = wk /\ reading' = reading
  BY DEF Hand, driveVars, pageVars
<1>2. inst' \in Insts /\ inst'.fn = inst.fn /\ inst'.level = inst.level /\ inst'.limit = inst.limit
  <2>1. inst \in Insts /\ (~inst.out) \in BOOLEAN
    BY DEF Core, Types
  <2> QED
    BY <1>1, <2>1 DEF Insts
<1>3. Types'
  BY <1>1, <1>2 DEF Core, Types, Queued
<1>4. ByHand(inst', byHand', handSince') /\ Covered(inst', byHand', asked')
  BY <1>1 DEF ByHand, Covered
<1>5. Asked'
  BY <1>4 DEF Asked
<1>6. Changing'
  <2> SUFFICES ASSUME wk.pc = "write" PROVE Changing'
    BY <1>1 DEF Changing
  <2>1. /\ wk.next \in Setups
        /\ \/ wk.writes = Anew(wk.next)
           \/ wk.next \in asked /\ Left(wk.writes, wk.next, inst, byHand, handSince)
    BY DEF Core, Changing
  <2>2. Left(wk.writes, wk.next, inst, byHand, handSince)
          => Left(wk.writes, wk.next, inst', byHand', handSince')
    BY <1>2, <1>4 DEF Left, Conforms
  <2> QED
    BY <1>1, <2>1, <2>2 DEF Changing
<1>7. Standing' /\ Reading'
  BY <1>1, <1>2 DEF Core, Standing, Reading, Conforms
<1> QED
  BY <1>3, <1>4, <1>5, <1>6, <1>7 DEF Core

\* _fresh_output: what was heard is in the flag, unless nothing was.
LEMMA AskOutputKeeps == ASSUME Core, AskOutput, Queued PROVE Core'
<1>1. /\ inst' = inst /\ byHand' = byHand /\ panel' = panel /\ asked' = asked
      /\ reading' = reading /\ wk.pc = "ask" /\ wk \in Threads /\ inst \in Insts
      /\ handSince \in BOOLEAN /\ flag \in BOOLEAN /\ inst.out \in BOOLEAN
  BY DEF AskOutput, Core, Types, Insts
<1>2. \/ HearsAnything(inst.out) /\ (Ends("refused") \/ Goes("act"))
      \/ Stuck /\ UNCHANGED <<handSince, flag, shown>>
  BY DEF AskOutput
<1>3. \/ /\ wk' \in Threads /\ wk'.kind = "none" /\ wk'.pc \in {"timed", "asleep", "drain"}
      \/ /\ wk' \in Threads /\ wk'.kind = wk.kind /\ wk'.body = wk.body
         /\ wk'.pc = "stuck" \/ (wk'.pc = "act" /\ HearsAnything(inst.out))
  BY <1>2, EndsSo, GoesSo DEF Core, Stuck
<1>4. HearsAnything(inst.out) =>
         /\ flag' \in BOOLEAN /\ handSince' \in BOOLEAN
         /\ shown' = None \/ (shown' = inst.out /\ flag' = inst.out)
  <2>1. inst.out # None
    BY <1>1, PanelAssumption
  <2>2. (handSince /\ inst.out = None) \in BOOLEAN /\ (handSince /\ None = None) \in BOOLEAN
    BY <1>1
  <2> QED
    BY <1>1, <2>1, <2>2 DEF HearsAnything, Hears
<1>5. flag' \in BOOLEAN /\ handSince' \in BOOLEAN
  BY <1>1, <1>2, <1>4
<1>6. Types'
  BY <1>1, <1>3, <1>5 DEF Core, Types, Queued
<1>7. Asked'
  <2> SUFFICES ASSUME wk'.pc = "act", wk'.kind = "source"
               PROVE  shown' = None \/ flag' = TRUE \/ ByHand(inst', byHand', handSince')
    BY DEF Asked
  <2>1. shown' = None \/ flag' = inst.out
    BY <1>3, <1>4
  <2> QED
    BY <1>1, <2>1 DEF ByHand
<1>8. Changing' /\ Standing' /\ Reading'
  BY <1>1, <1>3 DEF Core, Changing, Standing, Reading
<1>9. Covered(inst, byHand, asked)'
  BY <1>1 DEF Core
<1> QED
  BY <1>6, <1>7, <1>8, <1>9 DEF Core

\* An output-on needs a panel, and the panel's setup is one it was asked for.
LEMMA SetOutputKeeps == ASSUME Core, SetOutput, Queued PROVE Core'
<1>1. /\ panel' = panel /\ asked' = asked /\ reading' = reading /\ wk \in Threads /\ inst \in Insts
      /\ handSince \in BOOLEAN /\ flag \in BOOLEAN /\ byHand \in BOOLEAN /\ inst.out \in BOOLEAN
      /\ wk.pc = "act" /\ wk.kind \in {"on", "off", "closing"}
  BY DEF SetOutput, Core, Types, Insts
<1>2. \/ /\ wk' \in Threads /\ wk'.kind = "none" /\ wk'.pc \in {"timed", "asleep", "drain"}
      \/ /\ wk' \in Threads /\ wk'.kind = wk.kind /\ wk'.body = wk.body /\ wk'.pc = "stuck"
  BY EndsSo, GoesSo DEF SetOutput, Switched, Core, Stuck
<1> DEFINE on == wk.kind = "on"
<1>3. on \in BOOLEAN
  OBVIOUS
<1>4. \/ inst' = inst /\ byHand' = byHand
      \/ panel # None /\ inst' = [inst EXCEPT !.out = TRUE]
      \/ inst' = [inst EXCEPT !.out = FALSE]
  <2>1. CASE on /\ panel = None
    BY <2>1 DEF SetOutput
  <2>2. CASE on /\ panel # None
    <3>1. on = TRUE
      BY <2>2
    <3>2. Switch(TRUE, TRUE) \/ Switch(TRUE, FALSE) \/ (inst' = inst /\ byHand' = byHand)
      BY <2>2, <3>1 DEF SetOutput, Switched
    <3>3. Switch(TRUE, TRUE) => inst' = [inst EXCEPT !.out = TRUE]
      BY DEF Switch
    <3>4. Switch(TRUE, FALSE) => inst' = inst /\ byHand' = byHand
      BY <1>1 DEF Switch, Insts
    <3> QED
      BY <2>2, <3>2, <3>3, <3>4
  <2>3. CASE ~on
    <3>1. on = FALSE
      BY <2>3
    <3>2. Switch(FALSE, TRUE) \/ Switch(FALSE, FALSE) \/ (inst' = inst /\ byHand' = byHand)
      BY <2>3, <3>1 DEF SetOutput, Switched
    <3>3. Switch(FALSE, TRUE) => inst' = [inst EXCEPT !.out = FALSE]
      BY DEF Switch
    <3>4. Switch(FALSE, FALSE) => inst' = inst /\ byHand' = byHand
      BY <1>1 DEF Switch, Insts
    <3> QED
      BY <3>2, <3>3, <3>4
  <2> QED
    BY <2>1, <2>2, <2>3
<1>5. inst' \in Insts /\ inst'.fn = inst.fn /\ inst'.level = inst.level /\ inst'.limit = inst.limit
  BY <1>1, <1>4 DEF Insts
<1>6. byHand' \in BOOLEAN /\ handSince' \in BOOLEAN /\ flag' \in BOOLEAN
  <2>1. ASSUME NEW o \in BOOLEAN, NEW landed \in BOOLEAN, Switch(o, landed)
        PROVE  byHand' \in BOOLEAN
    BY <1>1, <2>1 DEF Switch
  <2>2. byHand' \in BOOLEAN
    BY <1>1, <1>3, <2>1 DEF SetOutput, Switched
  <2>3. handSince' \in BOOLEAN
    BY <1>1 DEF SetOutput, Switched, Hears
  <2>4. flag' \in BOOLEAN
    BY <1>1, <1>3 DEF SetOutput, Switched, Hears
  <2> QED
    BY <2>2, <2>3, <2>4
<1>7. Types'
  BY <1>1, <1>2, <1>5, <1>6 DEF Core, Types, Queued
<1>8. Asked' /\ Changing'
  BY <1>2 DEF Asked, Changing
<1>9. Standing' /\ Reading'
  BY <1>1, <1>2, <1>5 DEF Core, Standing, Reading, Conforms
<1>10. Covered(inst', byHand', asked')
  <2>1. CASE inst' = inst /\ byHand' = byHand
    BY <1>1, <2>1 DEF Core
  <2>2. CASE panel # None /\ inst' = [inst EXCEPT !.out = TRUE]
    <3>1. panel \in asked /\ Conforms(inst, panel)
      BY <1>1, <2>2 DEF Core, Standing
    <3>2. panel.limit \in Nat
      BY <2>2 DEF Core, Types, Setups
    <3> QED
      BY <1>1, <1>5, <3>1, <3>2 DEF Conforms, Covered
  <2>3. CASE inst' = [inst EXCEPT !.out = FALSE]
    <3>1. inst'.out = FALSE
      BY <1>1, <2>3 DEF Insts
    <3> QED
      BY <3>1 DEF Covered
  <2> QED
    BY <1>4, <2>1, <2>2, <2>3
<1> QED
  BY <1>7, <1>8, <1>9, <1>10 DEF Core

\* A reading is the setup it was taken under.
LEMMA TakeKeeps == ASSUME Core, Take, Queued PROVE Core'
<1>1. /\ inst' = inst /\ byHand' = byHand /\ handSince' = handSince /\ flag' = flag
      /\ panel' = panel /\ asked' = asked /\ shown' = shown
      /\ reading' = reading \/ reading' = panel
      /\ wk.pc = "act"
  BY DEF Take, hardVars, driveVars
<1>2. \/ /\ wk' \in Threads /\ wk'.kind = "none" /\ wk'.pc \in {"timed", "asleep", "drain"}
      \/ /\ wk' \in Threads /\ wk'.kind = wk.kind /\ wk'.body = wk.body /\ wk'.pc = "stuck"
  BY EndsSo, GoesSo DEF Take, Core, Stuck
<1>3. Types'
  BY <1>1, <1>2 DEF Core, Types, Queued
<1>4. Asked' /\ Changing'
  BY <1>2 DEF Asked, Changing
<1>5. Standing' /\ Reading'
  BY <1>1, <1>2 DEF Core, Standing, Reading
<1>6. Covered(inst, byHand, asked)'
  BY <1>1 DEF Core
<1> QED
  BY <1>3, <1>4, <1>5, <1>6 DEF Core

\* A change that is not refused starts from the panel, or from the cold; a function changes
\* only when what was heard says that the output is off.
LEMMA BeginSourceKeeps == ASSUME Core, BeginSource, Queued PROVE Core'
<1> DEFINE s == Merged(wk.body)
<1>1. /\ inst' = inst /\ byHand' = byHand /\ handSince' = handSince /\ flag' = flag
      /\ panel' = panel /\ shown' = shown /\ reading' = reading
      /\ wk.pc = "act" /\ wk.kind = "source" /\ wk \in Threads /\ inst \in Insts
  BY DEF BeginSource, hardVars, pageVars, Core, Types
<1>2. s \in Setups /\ (panel # None => Base = panel)
  BY <1>1, MergedIs DEF Core
<1>3. CASE Refuses(s)
  <2>1. /\ asked' = asked /\ wk' \in Threads /\ wk'.kind = "none"
        /\ wk'.pc \in {"timed", "asleep", "drain"}
    BY <1>3, EndsSo DEF BeginSource, Core
  <2>2. Types'
    BY <1>1, <2>1 DEF Core, Types, Queued
  <2>3. Asked' /\ Changing'
    BY <2>1 DEF Asked, Changing
  <2>4. Standing' /\ Reading'
    BY <1>1, <2>1 DEF Core, Standing, Reading
  <2>5. Covered(inst, byHand, asked)'
    BY <1>1, <2>1 DEF Core
  <2> QED
    BY <2>2, <2>3, <2>4, <2>5 DEF Core
<1>4. CASE ~Refuses(s)
  <2> DEFINE w == IF panel = None THEN Cold(s) ELSE Moved(panel, s)
  <2>1. /\ wk' = [wk EXCEPT !.pc = "write", !.next = s, !.writes = w]
        /\ asked' = IF panel = None THEN asked ELSE asked \cup {s}
    BY <1>4 DEF BeginSource
  <2>2. w \in Seq(Orders) /\ \/ w = Anew(s)
                             \/ panel # None /\ Left(w, s, inst, byHand, handSince)
    <3>1. /\ s.fn \in Fns /\ s.limit \in Nat /\ s.level \in Nat
          /\ To("rst", None) \in Orders /\ To("fn", s.fn) \in Orders
          /\ To("limit", s.limit) \in Orders /\ To("level", s.level) \in Orders
      <4>1. s.fn \in Fns /\ s.limit \in Nat /\ s.level \in Nat
        BY <1>2 DEF Setups
      <4> HIDE DEF s
      <4> QED
        BY <4>1 DEF To, Orders
    <3>2. CASE panel = None
      <4>1. w = Anew(s)
        BY <3>2, ColdIs
      <4>2. Anew(s) \in Seq(Orders)
        <5> HIDE DEF s
        <5> QED
          BY <3>1 DEF Anew
      <4> QED
        BY <4>1, <4>2
    <3>3. CASE panel # None
      <4>1. panel \in Setups /\ Conforms(inst, panel) /\ w = Moved(panel, s) /\ Base = panel
        BY <1>1, <1>2, <3>3 DEF Core, Types, Standing
      <4>2. s.fn # panel.fn => ByHand(inst, byHand, handSince)
        <5> SUFFICES ASSUME s.fn # panel.fn PROVE ByHand(inst, byHand, handSince)
          OBVIOUS
        <5>1. shown # None /\ ~flag
          BY <1>4, <3>3, <4>1 DEF Refuses
        <5> QED
          BY <1>1, <5>1 DEF Core, Asked
      <4> DEFINE F == To("fn", s.fn)
                 V == To("level", s.level)
                 L == To("limit", s.limit)
      <4>3. \/ w = << >> /\ panel.fn = s.fn /\ panel.level = s.level /\ panel.limit = s.limit
            \/ w = <<V>> /\ panel.fn = s.fn /\ panel.limit = s.limit
            \/ w = <<L>> /\ panel.fn = s.fn /\ panel.level = s.level
            \/ w = <<L, V>> /\ panel.fn = s.fn /\ s.limit <= panel.limit
            \/ w = <<V, L>> /\ panel.fn = s.fn /\ panel.limit <= s.limit
            \/ w = <<F, V>> /\ panel.fn # s.fn /\ panel.limit = s.limit
            \/ w = <<F, L, V>> /\ panel.fn # s.fn
            \/ w = <<F, V, L>> /\ panel.fn # s.fn
        BY <1>2, <4>1, MovedIs
      <4> HIDE DEF w, s
      <4>4. Left(w, s, inst, byHand, handSince)
        BY <4>1, <4>2, <4>3 DEF Left, Conforms
      <4>5. w \in Seq(Orders)
        <5>1. F \in Orders /\ V \in Orders /\ L \in Orders
          BY <3>1
        <5> HIDE DEF F, V, L
        <5>2. /\ << >> \in Seq(Orders) /\ <<V>> \in Seq(Orders) /\ <<L>> \in Seq(Orders)
              /\ <<L, V>> \in Seq(Orders) /\ <<V, L>> \in Seq(Orders) /\ <<F, V>> \in Seq(Orders)
              /\ <<F, L, V>> \in Seq(Orders) /\ <<F, V, L>> \in Seq(Orders)
          BY <5>1
        <5> QED
          BY <4>3, <5>2
      <4> QED
        BY <3>3, <4>4, <4>5
    <3> QED
      BY <3>2, <3>3
  <2> HIDE DEF w, s
  <2>3. /\ wk' \in Threads /\ wk'.pc = "write" /\ wk'.next = s /\ wk'.writes = w
        /\ wk'.kind = wk.kind /\ wk'.body = wk.body
    BY <1>1, <1>2, <2>1, <2>2 DEF Threads
  <2>4. asked \subseteq asked' /\ asked' \subseteq Setups /\ (panel # None => s \in asked')
    BY <1>2, <2>1 DEF Core, Types
  <2>5. Types'
    BY <1>1, <2>3, <2>4 DEF Core, Types, Queued
  <2>6. Asked' /\ Standing'
    BY <2>3 DEF Asked, Standing
  <2>7. Changing'
    BY <1>1, <1>2, <2>2, <2>3, <2>4 DEF Changing
  <2>8. Reading'
    BY <1>1 DEF Core, Reading
  <2>9. Covered(inst', byHand', asked')
    BY <1>1, <2>4 DEF Core, Covered
  <2> QED
    BY <2>5, <2>6, <2>7, <2>8, <2>9 DEF Core
<1> QED
  BY <1>3, <1>4

\* A write of a change lands or not, and one that raises leaves no panel.
LEMMA WriteKeeps ==
    ASSUME Core, Write, Queued
    PROVE  Core' /\ ((inst'.fn # inst.fn /\ inst'.out = TRUE) => handSince = TRUE)
           /\ (inst'.out = TRUE => inst.out = TRUE)
<1>1. /\ byHand' = byHand /\ handSince' = handSince /\ shown' = shown /\ reading' = reading
      /\ wk.pc = "write" /\ wk.writes # << >> /\ wk \in Threads /\ inst \in Insts
      /\ wk.writes \in Seq(Orders)
  BY DEF Write, pageVars, Core, Types, Threads
<1> DEFINE Landed == Effect(Head(wk.writes), TRUE)
<1>2. Landed => /\ inst' \in Insts /\ (inst'.out = TRUE => inst.out = TRUE)
                /\ wk.next \in asked'
                /\ Left(Tail(wk.writes), wk.next, inst', byHand, handSince)
                /\ Covered(inst', byHand, asked')
                /\ (inst'.fn # inst.fn /\ inst'.out = TRUE) => handSince = TRUE
  BY <1>1, WriteLands DEF Core
<1>3. Landed => asked' \subseteq Setups
  BY <1>1 DEF Core, Types, Changing, Effect
<1>4. Effect(Head(wk.writes), FALSE) => inst' = inst /\ asked' = asked
  BY DEF Effect
<1>5. CASE /\ Landed /\ wk' = [wk EXCEPT !.writes = Tail(@)] /\ panel' = panel
           /\ flag' = IF Head(wk.writes).what = "rst" THEN FALSE ELSE flag
  <2>1. Tail(wk.writes) \in Seq(Orders)
    BY <1>1
  <2>2. /\ wk' \in Threads /\ wk'.pc = "write" /\ wk'.kind = wk.kind /\ wk'.body = wk.body
        /\ wk'.next = wk.next /\ wk'.writes = Tail(wk.writes)
    BY <1>1, <1>5, <2>1 DEF Threads
  <2>3. flag' \in BOOLEAN
    BY <1>5 DEF Core, Types
  <2>4. Types'
    BY <1>1, <1>2, <1>3, <1>5, <2>2, <2>3 DEF Core, Types, Queued
  <2>5. Asked' /\ Standing'
    BY <2>2 DEF Asked, Standing
  <2>6. Changing'
    BY <1>1, <1>2, <1>5, <2>2 DEF Core, Changing
  <2>7. Reading'
    BY <1>1, <1>5 DEF Core, Reading
  <2> QED
    BY <1>1, <1>2, <1>5, <2>4, <2>5, <2>6, <2>7 DEF Core
<1>6. CASE /\ Landed \/ Effect(Head(wk.writes), FALSE)
           /\ panel' = None /\ flag' = flag /\ Ends("error")
  <2>1. wk' \in Threads /\ wk'.kind = "none" /\ wk'.pc \in {"timed", "asleep", "drain"}
    BY <1>6, EndsSo DEF Core
  <2>2. inst' \in Insts /\ asked' \subseteq Setups
    BY <1>1, <1>2, <1>3, <1>4, <1>6 DEF Core, Types
  <2>3. Types'
    BY <1>1, <1>6, <2>1, <2>2 DEF Core, Types, Queued
  <2>4. Asked' /\ Changing'
    BY <2>1 DEF Asked, Changing
  <2>5. Standing' /\ Reading'
    BY <1>6 DEF Standing, Reading
  <2>6. Covered(inst', byHand', asked')
    BY <1>1, <1>2, <1>4, <1>6 DEF Core
  <2> QED
    BY <1>2, <1>4, <1>6, <2>3, <2>4, <2>5, <2>6 DEF Core
<1>7. CASE Stuck /\ UNCHANGED <<inst, driveVars>>
  <2>1. wk' \in Threads /\ wk'.kind = wk.kind /\ wk'.body = wk.body /\ wk'.pc = "stuck"
    BY <1>7, GoesSo DEF Stuck, Core
  <2>2. inst' = inst /\ flag' = flag /\ panel' = panel /\ asked' = asked
    BY <1>7 DEF driveVars
  <2>3. Types'
    BY <1>1, <2>1, <2>2 DEF Core, Types, Queued
  <2>4. Asked' /\ Changing' /\ Standing'
    BY <2>1 DEF Asked, Changing, Standing
  <2>5. Reading' /\ Covered(inst', byHand', asked')
    BY <1>1, <2>2 DEF Core, Reading
  <2> QED
    BY <2>2, <2>3, <2>4, <2>5 DEF Core
<1> QED
  <2>1. (\E landed \in BOOLEAN : Effect(Head(wk.writes), landed))
          => Landed \/ Effect(Head(wk.writes), FALSE)
    OBVIOUS
  <2> QED
    BY <1>5, <1>6, <1>7, <2>1 DEF Write

\* The change is done: the 2400 is what the new panel says.
LEMMA AppliedKeeps == ASSUME Core, Applied, Queued PROVE Core'
<1>1. /\ inst' = inst /\ byHand' = byHand /\ handSince' = handSince /\ flag' = flag
      /\ shown' = shown /\ panel' = wk.next /\ asked' = {wk.next}
      /\ reading' = wk.next \/ reading' = None
      /\ wk.pc = "write" /\ wk.writes = << >>
  BY DEF Applied, hardVars, NewReading, ClearsReading
<1>2. wk' \in Threads /\ wk'.kind = "none" /\ wk'.pc \in {"timed", "asleep", "drain"}
  BY EndsSo DEF Applied, Core
<1>3. wk.next \in Setups /\ Conforms(inst, wk.next)
  <2>1. /\ wk.next \in Setups
        /\ \/ wk.writes = Anew(wk.next)
           \/ Left(wk.writes, wk.next, inst, byHand, handSince)
    BY <1>1 DEF Core, Changing
  <2> QED
    BY <1>1, <2>1 DEF Anew, Left
<1>4. Types'
  BY <1>1, <1>2, <1>3 DEF Core, Types, Queued
<1>5. Asked' /\ Changing'
  BY <1>2 DEF Asked, Changing
<1>6. Standing' /\ Reading'
  BY <1>1, <1>3 DEF Standing, Reading
<1>7. Covered(inst', byHand', asked')
  <2>1. wk.next.limit \in Nat
    BY <1>3 DEF Setups
  <2> QED
    BY <1>1, <1>3, <2>1 DEF Conforms, Covered
<1> QED
  BY <1>4, <1>5, <1>6, <1>7 DEF Core

-----------------------------------------------------------------------------
\* Once the queue is sealed nothing but the closing off is left to do, and after it no
\* output-on is under way.
LEMMA WayOutStep == ASSUME PanelInv, StepsAre PROVE WayOut'
<1>1. Types /\ WayOut
  BY DEF PanelInv, Core
<1>2. /\ q' \in Seq(JobSet)
      /\ \A i \in 1..Len(q') : \/ q'[i] \in {q[j] : j \in 1..Len(q)} \/ q'[i] = Wake
                               \/ q'[i].kind = "closing" /\ sealed' = TRUE
                               \/ q'[i].kind \notin {"wake", "closing"} /\ sealed' # TRUE
  BY <1>1, QueueStep
<1>3. /\ sealed \in BOOLEAN /\ sealed' \in BOOLEAN /\ (sealed = TRUE => sealed' = TRUE)
      /\ (sealed' = TRUE <=> phase' # "serving")
      /\ (sealed' = sealed \/ Seal)
  <2>1. CASE Seal
    BY <1>1, <2>1 DEF Seal, WayOut
  <2>2. CASE Stop \/ Joined
    BY <1>1, <2>2 DEF Stop, Joined, WayOut, busVars
  <2>3. CASE ~Seal /\ ~Stop /\ ~Joined
    <3>1. sealed' = sealed /\ phase' = phase
      <4>1. ASSUME NEW c \in Clients, Asking(c) PROVE sealed' = sealed /\ phase' = phase
        BY <4>1 DEF Asking, Submit, endVars
      <4>2. ASSUME NEW c \in Clients, NEW on \in BOOLEAN, SetPoll(c, on)
            PROVE  sealed' = sealed /\ phase' = phase
        BY <4>2 DEF SetPoll, busVars, endVars
      <4>3. ASSUME NEW c \in Clients, TimesOut(c) \/ SubmitTick(c) \/ Blank(c) \/ SetIdle(c)
            PROVE  sealed' = sealed /\ phase' = phase
        BY <4>3 DEF TimesOut, SubmitTick, Blank, SetIdle, busVars, endVars
      <4>4. CASE AskState \/ SkipWake \/ UNCHANGED vars \/ TakeJob \/ Decide \/ Dies \/ Hand
        BY <4>4 DEF AskState, SkipWake, vars, TakeJob, Decide, Dies, Hand, busVars, endVars
      <4>5. CASE AskOutput \/ SetOutput \/ Take \/ BeginSource \/ Write \/ Applied
        BY <4>5 DEF AskOutput, SetOutput, Take, BeginSource, Write, Applied, busVars, endVars
      <4> QED
        BY <2>3, <4>1, <4>2, <4>3, <4>4, <4>5 DEF StepsAre, Outside
    <3> QED
      BY <1>1, <3>1 DEF WayOut
  <2> QED
    BY <2>1, <2>2, <2>3
<1>4. \A i \in 1..Len(q') : /\ sealed' = TRUE => q'[i].kind \in {"wake", "closing"}
                            /\ q'[i].kind = "closing" => sealed' = TRUE
  <2> SUFFICES ASSUME NEW i \in 1..Len(q')
               PROVE  /\ sealed' = TRUE => q'[i].kind \in {"wake", "closing"}
                      /\ q'[i].kind = "closing" => sealed' = TRUE
    OBVIOUS
  <2>1. CASE Seal
    <3>1. q' = <<Wake, Job("closing", None, 0, None)>> /\ sealed' = TRUE
      BY <2>1 DEF Seal
    <3>2. i = 1 \/ i = 2
      BY <3>1
    <3> QED
      BY <3>1, <3>2 DEF Wake, Job
  <2>2. CASE sealed' = sealed
    <3>1. CASE q'[i] \in {q[j] : j \in 1..Len(q)}
      BY <1>1, <2>2, <3>1 DEF WayOut
    <3>2. CASE q'[i] = Wake
      BY <3>2 DEF Wake, Job
    <3>3. CASE \/ q'[i].kind = "closing" /\ sealed' = TRUE
               \/ q'[i].kind \notin {"wake", "closing"} /\ sealed' # TRUE
      BY <3>3
    <3> QED
      BY <1>2, <3>1, <3>2, <3>3
  <2> QED
    BY <1>3, <2>1, <2>2
<1> DEFINE Done == /\ confirmed' \in BOOLEAN
                   /\ (confirmed' = TRUE \/ wk'.kind = "closing") => sealed' = TRUE
                   /\ confirmed' = TRUE => wk'.kind # "on" /\ (inst'.out = TRUE => byHand' = TRUE)
                   /\ verdict' = TRUE => confirmed' = TRUE
<1>5. ASSUME Outside PROVE Done
  <2>1. /\ inst' = inst /\ byHand' = byHand /\ wk' = wk /\ confirmed' = confirmed
    BY <1>5, OutsideIsBeside DEF Beside, hardVars
  <2>2. verdict' = verdict \/ verdict' = confirmed
    <3>1. ASSUME NEW c \in Clients, Asking(c) PROVE verdict' = verdict
      BY <3>1 DEF Asking, Submit, endVars
    <3>2. ASSUME NEW c \in Clients, NEW on \in BOOLEAN, SetPoll(c, on) PROVE verdict' = verdict
      BY <3>2 DEF SetPoll, endVars
    <3>3. ASSUME NEW c \in Clients, TimesOut(c) \/ SubmitTick(c) \/ Blank(c) \/ SetIdle(c)
          PROVE  verdict' = verdict
      BY <3>3 DEF TimesOut, SubmitTick, Blank, SetIdle, endVars
    <3>4. CASE AskState \/ SkipWake \/ Seal \/ Stop \/ Joined \/ UNCHANGED vars
      BY <3>4 DEF AskState, SkipWake, Seal, Stop, Joined, endVars, vars
    <3> QED
      BY <1>5, <3>1, <3>2, <3>3, <3>4 DEF Outside
  <2> QED
    BY <1>1, <1>3, <2>1, <2>2 DEF WayOut
<1>6. ASSUME TakeJob \/ Decide \/ Dies PROVE Done
  <2>1. /\ inst' = inst /\ byHand' = byHand /\ confirmed' = confirmed /\ verdict' = verdict
        /\ sealed' = sealed
        /\ wk'.kind = "on" => sealed # TRUE
        /\ wk'.kind = "closing" => sealed = TRUE
    BY <1>1, <1>6, BetweenIs DEF Between, hardVars
  <2> QED
    BY <1>1, <2>1 DEF WayOut
<1>7. ASSUME AskOutput \/ Take \/ BeginSource \/ Applied PROVE Done
  <2>1. /\ inst' = inst /\ byHand' = byHand /\ confirmed' = confirmed /\ verdict' = verdict
    BY <1>7 DEF AskOutput, Take, BeginSource, Applied, hardVars, endVars
  <2>2. wk'.kind \in {"none", wk.kind}
    <3>1. (\E what : Ends(what)) \/ Goes("stuck") \/ Goes("act")
          \/ wk' = [wk EXCEPT !.pc = "write", !.next = wk'.next, !.writes = wk'.writes]
      BY <1>7 DEF AskOutput, Take, BeginSource, Applied, Stuck
    <3>2. wk \in Threads
      BY <1>1 DEF Types
    <3> QED
      BY <1>1, <3>1, <3>2, EndsSo, GoesSo DEF Threads
  <2> QED
    BY <1>1, <1>3, <2>1, <2>2 DEF WayOut
<1>8. ASSUME Write PROVE Done
  <2>1. (inst'.out = TRUE => inst.out = TRUE)
    <3>1. Queued
      BY <1>1, <1>8, QueueStep DEF Queued, StepsAre
    <3> QED
      BY <1>8, <3>1, WriteKeeps DEF PanelInv
  <2>2. byHand' = byHand /\ confirmed' = confirmed /\ verdict' = verdict
    BY <1>8 DEF Write, endVars
  <2>3. wk'.kind \in {"none", wk.kind}
    <3>1. (\E what : Ends(what)) \/ Goes("stuck") \/ wk' = [wk EXCEPT !.writes = Tail(@)]
      BY <1>8 DEF Write, Stuck
    <3>2. wk \in Threads
      BY <1>1 DEF Types
    <3> QED
      BY <1>1, <3>1, <3>2, EndsSo, GoesSo DEF Threads
  <2> QED
    BY <1>1, <1>3, <2>1, <2>2, <2>3 DEF WayOut
<1>9. ASSUME Hand PROVE Done
  <2>1. byHand' = TRUE /\ confirmed' = confirmed /\ verdict' = verdict /\ wk' = wk
    BY <1>9 DEF Hand, endVars
  <2> QED
    BY <1>1, <1>3, <2>1 DEF WayOut
<1>10. ASSUME SetOutput PROVE Done
  <2>1. verdict' = verdict /\ wk.kind \in {"on", "off", "closing"} /\ inst \in Insts
    BY <1>1, <1>10 DEF SetOutput, Types
  <2>2. wk'.kind \in {"none", wk.kind}
    <3>1. (\E what : Ends(what)) \/ Goes("stuck")
      BY <1>10 DEF SetOutput, Switched, Stuck
    <3> QED
      BY <1>1, <3>1, EndsSo, GoesSo
  <2>3. CASE wk.kind = "on"
    <3>1. confirmed' = confirmed /\ confirmed # TRUE
      BY <1>1, <1>10, <2>3 DEF SetOutput, Switched, WayOut
    <3> QED
      BY <1>1, <1>3, <2>1, <2>2, <2>3, <3>1 DEF WayOut
  <2>4. CASE wk.kind # "on"
    <3>1. (wk.kind = "on") = FALSE
      BY <2>4
    <3>2. \/ Switch(FALSE, TRUE)
          \/ Switch(FALSE, FALSE) /\ confirmed' = confirmed
          \/ inst' = inst /\ byHand' = byHand /\ confirmed' = confirmed
      BY <1>10, <2>4, <3>1 DEF SetOutput, Switched
    <3>3. Switch(FALSE, TRUE) => inst'.out = FALSE
      BY <2>1 DEF Switch, Insts
    <3>4. Switch(FALSE, FALSE) => inst' = inst /\ byHand' = byHand
      BY <1>1, <2>1 DEF Switch, Insts, Types
    <3>5. confirmed' \in BOOLEAN /\ (confirmed' = TRUE => confirmed = TRUE \/ wk.kind = "closing")
          /\ (confirmed = TRUE => confirmed' = TRUE)
      BY <1>1, <1>10 DEF SetOutput, Switched, WayOut
    <3>6. confirmed' = TRUE => (inst'.out = TRUE => byHand' = TRUE)
      BY <1>1, <3>2, <3>3, <3>4 DEF WayOut
    <3> QED
      BY <1>1, <1>3, <2>1, <2>2, <2>4, <3>5, <3>6 DEF WayOut
  <2> QED
    BY <2>3, <2>4
<1>11. Done
  BY <1>5, <1>6, <1>7, <1>8, <1>9, <1>10 DEF StepsAre
<1> QED
  BY <1>3, <1>4, <1>11 DEF WayOut

-----------------------------------------------------------------------------
\* The invariant of the console is inductive.
THEOREM PanelHolds == Spec => []PanelInv
<1>1. Init => PanelInv
  <2> SUFFICES ASSUME Init PROVE PanelInv
    OBVIOUS
  <2>1. /\ inst \in Insts /\ inst.out \in BOOLEAN
    <3>1. Defaults.fn \in Fns /\ Ceiling \in Nat
      BY PanelAssumption
    <3>2. inst \in [out : BOOLEAN, fn : {Defaults.fn}, level : [Fns -> {0}], limit : {Ceiling}]
      BY DEF Init
    <3> QED
      BY <3>1, <3>2 DEF Insts
  <2>2. /\ byHand = TRUE /\ handSince = TRUE /\ flag \in {inst.out, FALSE} /\ panel = None
        /\ asked = {} /\ q = << >> /\ sealed = FALSE /\ wk = Calm /\ lastId = 0
        /\ cl = [c \in Clients |-> Quiet] /\ phase = "serving" /\ confirmed = FALSE
        /\ verdict = None
    BY DEF Init
  <2>3. Calm \in Threads /\ Calm.kind = "none" /\ Calm.pc = "asleep"
    <3>1. << >> \in Seq(Orders)
      OBVIOUS
    <3> QED
      BY <3>1 DEF Calm, Threads
  <2>4. q \in Seq(JobSet) /\ Len(q) = 0
    BY <2>2
  <2>5. cl \in [Clients -> Handlers]
    BY <2>2, RestIsCalm
  <2>6. Types
    BY <2>1, <2>2, <2>3, <2>4, <2>5 DEF Types
  <2>7. WayOut
    <3>1. 1..Len(q) = {}
      BY <2>4
    <3>2. verdict # TRUE
      BY <2>2, PanelAssumption
    <3> QED
      BY <2>2, <2>3, <3>1, <3>2 DEF WayOut
  <2>8. Asked /\ Changing /\ Standing /\ Reading
    BY <2>2, <2>3 DEF Asked, Changing, Standing, Reading
  <2>9. Covered(inst, byHand, asked)
    BY <2>2 DEF Covered
  <2> QED
    BY <2>6, <2>7, <2>8, <2>9 DEF PanelInv, Core
<1>2. PanelInv /\ [Next]_vars => PanelInv'
  <2> SUFFICES ASSUME PanelInv, [Next]_vars PROVE PanelInv'
    OBVIOUS
  <2>1. StepsAre
    BY StepsSplit
  <2>2. Core /\ WayOut /\ Types
    BY DEF PanelInv, Core
  <2>3. Queued
    BY <2>1, <2>2, QueueStep DEF Queued
  <2>4. Core'
    BY <2>1, <2>2, <2>3, OutsideIsBeside, BesideKeeps, BetweenKeeps, HandKeeps, AskOutputKeeps,
       SetOutputKeeps, TakeKeeps, BeginSourceKeeps, WriteKeeps, AppliedKeeps DEF StepsAre
  <2>5. WayOut'
    BY <2>1, WayOutStep
  <2> QED
    BY <2>4, <2>5 DEF PanelInv
<1>3. QED
  BY <1>1, <1>2, PTL DEF Spec

\* panel.py, _Bus.seal and close; smu.py, _panel_write: what was closed stays dark but for a
\* hand on the key, and no level stands under a looser compliance than it was asked for with.
THEOREM DeviceStaysWithinLimits == Spec => []DeviceWithinLimits
<1>1. PanelInv => DeviceWithinLimits
  <2> SUFFICES ASSUME PanelInv PROVE DeviceWithinLimits
    OBVIOUS
  <2>1. /\ Types /\ WayOut /\ Covered(inst, byHand, asked) /\ inst.out \in BOOLEAN
        /\ byHand \in BOOLEAN
    BY DEF PanelInv, Core, Types, Insts
  <2>2. ClosedIsDark
    BY <2>1 DEF ClosedIsDark, WayOut
  <2>3. LimitComesFirst
    BY <2>1 DEF LimitComesFirst, Covered
  <2> QED
    BY <2>2, <2>3 DEF DeviceWithinLimits
<1>2. QED
  BY <1>1, PanelHolds, PTL

\* panel.py, set_source; smu.py, apply_panel: the function changes under a live output only
\* if a hand reached the key after the instrument was asked.
THEOREM FunctionStaysPut == Spec => FunctionChangesDark
<1> DEFINE Dark == inst'.fn # inst.fn /\ inst'.out => handSince
<1>1. PanelInv /\ [Next]_vars => [Dark]_vars
  <2> SUFFICES ASSUME PanelInv, [Next]_vars, inst'.fn # inst.fn, inst'.out PROVE handSince
    OBVIOUS
  <2>1. StepsAre /\ Core /\ WayOut /\ Types
    BY StepsSplit DEF PanelInv, Core
  <2>2. Queued
    BY <2>1, QueueStep DEF Queued
  <2>3. inst \in Insts /\ handSince \in BOOLEAN
    BY <2>1 DEF Types
  <2>4. CASE Write
    <3>1. Core' /\ ((inst'.fn # inst.fn /\ inst'.out = TRUE) => handSince = TRUE)
      BY <2>1, <2>2, <2>4, WriteKeeps
    <3>2. inst'.out = TRUE
      BY <3>1 DEF Core, Types, Insts
    <3> QED
      BY <3>1, <3>2
  <2>5. CASE Outside \/ TakeJob \/ Decide \/ Dies \/ AskOutput \/ Take \/ BeginSource \/ Applied
    <3>1. inst' = inst
      BY <2>1, <2>5, OutsideIsBeside, BetweenIs
         DEF Beside, Between, AskOutput, Take, BeginSource, Applied, hardVars
    <3> QED
      BY <3>1
  <2>6. CASE SetOutput \/ Hand
    <3>1. inst' = inst \/ (\E on : inst' = [inst EXCEPT !.out = on])
      BY <2>6 DEF SetOutput, Switched, Switch, Hand
    <3> QED
      BY <2>3, <3>1 DEF Insts
  <2> QED
    BY <2>1, <2>4, <2>5, <2>6 DEF StepsAre
<1>2. QED
  BY <1>1, PanelHolds, PTL DEF Spec, FunctionChangesDark

\* panel.py, apply_panel: between jobs, a reading on the screen is of the setup beside it.
THEOREM ReadingStaysTrue == Spec => []ReadingIsOfTheSetup
<1>1. PanelInv => ReadingIsOfTheSetup
  BY DEF PanelInv, Core, Reading, ReadingIsOfTheSetup
<1>2. QED
  BY <1>1, PanelHolds, PTL
=============================================================================
