----------------------------- MODULE StorageProofs -----------------------------
(***************************************************************************)
(* What RunFiles promises for every number of points, loops and readings,  *)
(* of one recorder and of a whole run of modules (RunRecords), which uses  *)
(* a fresh one for each; and what the session's file (Journal) promises    *)
(* over any number of crashes, restarts, refused appends and runs.         *)
(***************************************************************************)
EXTENDS RunRecords, Journal, TLAPS, FiniteSetTheorems, SequenceTheorems, WellFoundedInduction

-----------------------------------------------------------------------------
(* The curves of a J-V measurement.                                       *)

Shutters == {"shut", "open"}
Tables == {"data", "jv.h5"}                 \* the two files that hold the curves

\* One list of curves holds every point of another.
Within(few, many) ==
    /\ Len(few) <= Len(many)
    /\ \A i \in 1..Len(few) : few[i] <= many[i]

\* A file is neither missing nor cut short and holds all of these curves.
Full(text, curves) == text \notin {None, Torn} /\ Within(curves, text.curves)

\* The curves so far, given those that are done and the points of the one that is not.
Swept(curves, partial) == curves \o (IF partial > 0 THEN <<partial>> ELSE << >>)
Tagged(states, partial, resolved) ==
    states \o (IF partial > 0 THEN <<resolved>> ELSE << >>)

\* Every curve has a state, the one it was swept under.
Matches(states, curves, shutter) ==
    /\ Len(states) = Len(curves) /\ Len(curves) <= Len(shutter)
    /\ \A i \in 1..Len(curves) : states[i] = shutter[i]

Table(curves) == [file |-> "data", text |-> [curves |-> curves, states |-> << >>]]
Settings(curves) == [file |-> "parameters", text |-> [curves |-> curves, states |-> << >>]]
Archive(curves, states) == [file |-> "jv.h5", text |-> [curves |-> curves, states |-> states]]

-----------------------------------------------------------------------------
\* Where a flush stands: it has a file to write exactly while it runs.
FlushStands ==
    /\ pc \in {"run", "write", "raised", "over", "dead"} /\ opened \in BOOLEAN
    /\ finished \in BOOLEAN /\ refusals \in Nat
    /\ disk = [f \in Files |-> disk[f]]
    /\ pc = "write" => todo # << >>
    /\ pc \in {"run", "raised", "over"} => todo = << >>
    /\ opened => todo # << >>

\* The recorder of a J-V run: one state a finished curve, one shutter setting a curve begun.
SweepStands ==
    /\ sweep = [curves |-> sweep.curves, states |-> sweep.states, partial |-> sweep.partial,
                resolved |-> sweep.resolved]
    /\ sweep.curves \in Seq(Nat) /\ sweep.states \in Seq(Shutters) /\ sweep.partial \in Nat
    /\ light \in Seq(Shutters) /\ flushed \in Seq(Nat)
    /\ Matches(sweep.states, sweep.curves, light)
    /\ Len(light) <= Len(sweep.curves) + 1
    /\ sweep.partial > 0 => Len(light) = Len(sweep.curves) + 1
    /\ Len(light) = Len(sweep.curves) + 1 =>
            sweep.resolved = light[Len(light)] /\ sweep.resolved \in Shutters
    /\ Within(flushed, Swept(sweep.curves, sweep.partial))
    /\ program # "sweep" => sweep = EmptySweep /\ light = << >> /\ flushed = << >>

\* What a flush has yet to write is the end of its list, with what was measured by now.
ScanText == [q |-> scan.q, light |-> scan.light, sync |-> scan.sync]
Shots(name, text) == [file |-> name, text |-> text]
Rest4(text) == <<Shots("averages_q", text), Shots("all_loops_q", text), Shots("traces", text),
                 Shots("run.h5", text)>>
Rest3(text) == <<Shots("all_loops_q", text), Shots("traces", text), Shots("run.h5", text)>>
Rest2(text) == <<Shots("traces", text), Shots("run.h5", text)>>
Rest1(text) == <<Shots("run.h5", text)>>
SweepTodo(curves, states) ==
    {<< >>, <<Archive(curves, states)>>, <<Settings(curves), Archive(curves, states)>>,
     <<Table(curves), Settings(curves), Archive(curves, states)>>}
FlushTodo ==
    /\ program = "sweep" =>
         todo \in SweepTodo(Swept(sweep.curves, sweep.partial),
                            Tagged(sweep.states, sweep.partial, sweep.resolved))
    /\ program = "scan" =>
         todo \in {<< >>, Rest1(ScanText), Rest2(ScanText), Rest3(ScanText), Rest4(ScanText)}
    /\ program \notin {"scan", "sweep"} => todo = << >>

\* The disk: before the first refusal only the file being rewritten may miss what the last
\* flush saved, and what this flush has written holds all there is.
CurvesOnDisk ==
    LET all == Swept(sweep.curves, sweep.partial)
    IN  /\ disk["jv.h5"] \notin {None, Torn} =>
                Matches(disk["jv.h5"].states, disk["jv.h5"].curves, light)
        /\ refusals = 0 /\ flushed # << >> =>
                \A f \in Tables : (opened /\ Head(todo).file = f) \/ Full(disk[f], flushed)
        /\ pc = "write" /\ program = "sweep" /\ Len(todo) < 3 => Full(disk["data"], all)
        /\ pc = "over" /\ refusals <= 1 /\ flushed # << >> =>
                Full(disk["data"], flushed) \/ Full(disk["jv.h5"], flushed)
        /\ pc = "over" /\ refusals = 0 /\ all # << >> =>
                Full(disk["data"], all) /\ Full(disk["jv.h5"], all)

SweepInv == FlushStands /\ SweepStands /\ FlushTodo /\ CurvesOnDisk

-----------------------------------------------------------------------------
\* A list with one more reading: what the unfinished curve adds.
LEMMA SweptLists ==
  ASSUME NEW S, NEW list \in Seq(S), NEW last \in S
  PROVE  /\ list \o <<last>> = Append(list, last)
         /\ Append(list, last) \in Seq(S) /\ Len(Append(list, last)) = Len(list) + 1
         /\ \A i \in 1..Len(list) : Append(list, last)[i] = list[i]
         /\ Append(list, last)[Len(list) + 1] = last
         /\ list \o << >> = list
  OBVIOUS

\* The curves so far are a list of numbers of readings.
LEMMA SweptIs ==
  ASSUME NEW curves \in Seq(Nat), NEW partial \in Nat
  PROVE  /\ Swept(curves, partial) \in Seq(Nat)
         /\ partial = 0 => Swept(curves, partial) = curves
         /\ partial > 0 => Swept(curves, partial) = Append(curves, partial)
<1>1. CASE partial = 0
  BY <1>1, SweptLists DEF Swept
<1>2. CASE partial > 0
  BY <1>2, SweptLists DEF Swept
<1> QED
  BY <1>1, <1>2

\* A list holds itself, and what holds a list that holds another holds that one.
LEMMA WithinOrder ==
  ASSUME NEW a \in Seq(Nat), NEW b \in Seq(Nat), NEW c \in Seq(Nat)
  PROVE  Within(a, a) /\ (Within(a, b) /\ Within(b, c) => Within(a, c))
<1>1. Within(a, a)
  BY DEF Within
<1>2. ASSUME Within(a, b), Within(b, c) PROVE Within(a, c)
  <2>1. Len(a) <= Len(c)
    BY <1>2 DEF Within
  <2>2. ASSUME NEW i \in 1..Len(a) PROVE a[i] <= c[i]
    <3>1. i \in 1..Len(b) /\ i \in 1..Len(c)
      BY <1>2, <2>1 DEF Within
    <3>2. a[i] \in Nat /\ b[i] \in Nat /\ c[i] \in Nat
      BY <3>1
    <3>3. a[i] <= b[i] /\ b[i] <= c[i]
      BY <3>1, <1>2 DEF Within
    <3> QED
      BY <3>2, <3>3
  <2> QED
    BY <2>1, <2>2 DEF Within
<1> QED
  BY <1>1, <1>2

\* One more reading leaves a curve that holds the one before.
LEMMA SweptGrows ==
  ASSUME NEW curves \in Seq(Nat), NEW partial \in Nat
  PROVE  Within(Swept(curves, partial), Swept(curves, partial + 1))
<1> partial + 1 \in Nat /\ partial + 1 > 0
  OBVIOUS
<1>1. Swept(curves, partial + 1) = Append(curves, partial + 1)
  BY SweptIs
<1>2. CASE partial = 0
  <2>1. Swept(curves, partial) = curves
    BY <1>2, SweptIs
  <2> QED
    BY <1>1, <2>1 DEF Within
<1>3. CASE partial > 0
  <2>1. Swept(curves, partial) = Append(curves, partial)
    BY <1>3, SweptIs
  <2> QED
    BY <1>1, <2>1 DEF Within
<1> QED
  BY <1>2, <1>3

\* Every curve that is saved, the unfinished one too, has the state it was swept under.
LEMMA TaggedMatches ==
  ASSUME NEW curves \in Seq(Nat), NEW partial \in Nat, NEW states \in Seq(Shutters),
         NEW resolved, NEW shutter \in Seq(Shutters), Matches(states, curves, shutter),
         partial > 0 => Len(shutter) = Len(curves) + 1,
         Len(shutter) = Len(curves) + 1 =>
             resolved = shutter[Len(shutter)] /\ resolved \in Shutters
  PROVE  /\ Tagged(states, partial, resolved) \in Seq(Shutters)
         /\ Matches(Tagged(states, partial, resolved), Swept(curves, partial), shutter)
<1>1. CASE partial = 0
  <2>1. Tagged(states, partial, resolved) = states
    BY <1>1, SweptLists DEF Tagged
  <2> QED
    BY <1>1, <2>1, SweptIs
<1>2. CASE partial > 0
  <2>1. resolved \in Shutters /\ Len(shutter) = Len(curves) + 1
        /\ resolved = shutter[Len(curves) + 1]
    BY <1>2
  <2>2. Tagged(states, partial, resolved) = Append(states, resolved)
    BY <1>2, <2>1, SweptLists DEF Tagged
  <2>3. Swept(curves, partial) = Append(curves, partial)
    BY <1>2, SweptIs
  <2>4. Len(states) = Len(curves) /\ \A i \in 1..Len(curves) : states[i] = shutter[i]
    BY DEF Matches
  <2> QED
    BY <2>1, <2>2, <2>3, <2>4 DEF Matches
<1> QED
  BY <1>1, <1>2

-----------------------------------------------------------------------------
\* Nothing is written yet: SweepInv holds initially.
LEMMA InitSweep == Init => SweepInv
<1> SUFFICES ASSUME Init PROVE SweepInv
  OBVIOUS
<1> USE DEF Init
<1>1. FlushStands
  BY DEF FlushStands, Files
<1>2. /\ sweep = EmptySweep /\ sweep.curves = << >> /\ sweep.states = << >> /\ sweep.partial = 0
      /\ light = << >> /\ flushed = << >>
  BY DEF EmptySweep
<1>3. Swept(<< >>, 0) = << >>
  BY DEF Swept
<1>4. SweepStands
  BY <1>2, <1>3 DEF SweepStands, Matches, Within, EmptySweep
<1>5. FlushTodo
  BY DEF FlushTodo, SweepTodo
<1>6. CurvesOnDisk
  BY <1>2, <1>3, <1>1 DEF CurvesOnDisk, Files, FlushStands
<1> QED
  BY <1>1, <1>4, <1>5, <1>6 DEF SweepInv

\* What the J-V recorder and its files rest on.
sweepVars == <<program, pc, sweep, finished, todo, opened, disk, refusals, flushed, light>>

\* A step that leaves them alone keeps SweepInv.
LEMMA SweepAside ==
  ASSUME SweepInv, UNCHANGED sweepVars, todo = << >> \/ UNCHANGED scan
  PROVE  SweepInv'
<1> USE DEF SweepInv, sweepVars
<1>1. FlushStands'
  BY DEF FlushStands
<1>2. SweepStands'
  BY DEF SweepStands
<1>3. FlushTodo'
  BY DEF FlushTodo, SweepTodo, ScanText
<1>4. CurvesOnDisk'
  BY DEF CurvesOnDisk
<1> QED
  BY <1>1, <1>2, <1>3, <1>4

\* The shutter of the next curve is set: the light list grows by what resolved says.
LEMMA SweepShutter == SweepInv /\ SetShutter => SweepInv'
<1> SUFFICES ASSUME SweepInv, SetShutter PROVE SweepInv'
  OBVIOUS
<1> DEFINE next == Curves[Len(light) + 1]
<1>1. /\ program = "sweep" /\ pc = "run" /\ Len(light) = Len(sweep.curves)
      /\ Len(light) < Len(Curves) /\ light' = Append(light, next)
      /\ sweep' = [sweep EXCEPT !.resolved = next]
      /\ UNCHANGED <<pc, todo, flushed, program, finished, disk, refusals, opened>>
  BY DEF SetShutter, Running, Kept
<1>2. light \in Seq(Shutters) /\ FlushStands /\ SweepStands /\ FlushTodo /\ CurvesOnDisk
  BY DEF SweepInv, SweepStands
<1>3. next \in Shutters
  BY <1>1, <1>2 DEF Curves, Shutters
<1> HIDE DEF next
<1>4. /\ light' \in Seq(Shutters) /\ Len(light') = Len(light) + 1 /\ light'[Len(light')] = next
      /\ \A i \in 1..Len(light) : light'[i] = light[i]
  BY <1>1, <1>2, <1>3
<1>5. /\ sweep'.curves = sweep.curves /\ sweep'.states = sweep.states
      /\ sweep'.partial = sweep.partial /\ sweep'.resolved = next
      /\ sweep' = [curves |-> sweep'.curves, states |-> sweep'.states,
                   partial |-> sweep'.partial, resolved |-> sweep'.resolved]
  BY <1>1, <1>2 DEF SweepStands
<1>6. sweep.partial = 0
  BY <1>1, <1>2 DEF SweepStands
<1>7. SweepStands'
  BY <1>1, <1>2, <1>3, <1>4, <1>5, <1>6 DEF SweepStands, Matches
<1>8. FlushStands'
  BY <1>1, <1>2 DEF FlushStands
<1>9. todo = << >> /\ todo' = << >>
  BY <1>1, <1>2 DEF FlushStands
<1>10. FlushTodo'
  BY <1>9, <1>1 DEF FlushTodo, SweepTodo
<1>11. Swept(sweep.curves, sweep.partial)' = Swept(sweep.curves, sweep.partial)
  BY <1>5
<1>12. ASSUME NEW curves, NEW states, Matches(states, curves, light)
       PROVE  Matches(states, curves, light')
  BY <1>2, <1>4, <1>12 DEF Matches
<1>13. CurvesOnDisk'
  BY <1>1, <1>2, <1>11, <1>12 DEF CurvesOnDisk
<1> QED
  BY <1>7, <1>8, <1>10, <1>13 DEF SweepInv

\* A flush of curves writes three files; without a curve it writes none.
LEMMA FlushOfCurves ==
  /\ SweepFiles =
       IF All = << >> THEN << >> ELSE <<Table(All), Settings(All), Archive(All, States)>>
  /\ All = Swept(sweep.curves, sweep.partial)
  /\ States = Tagged(sweep.states, sweep.partial, sweep.resolved)
BY DEF SweepFiles, Table, Settings, Archive, All, States, Swept, Tagged

\* A step that writes nothing, and starts a flush at its first file if at all.
LEMMA DiskAside ==
  ASSUME CurvesOnDisk, ~opened, ~opened', pc' # "over", pc' = "write" => Len(todo') = 3,
         UNCHANGED <<disk, flushed, light, refusals>>
  PROVE  CurvesOnDisk'
<1>1. (disk["jv.h5"] \notin {None, Torn} =>
         Matches(disk["jv.h5"].states, disk["jv.h5"].curves, light))'
  BY DEF CurvesOnDisk
<1>2. (refusals = 0 /\ flushed # << >> =>
         \A f \in Tables : (opened /\ Head(todo).file = f) \/ Full(disk[f], flushed))'
  BY DEF CurvesOnDisk
<1>3. (~(pc = "write" /\ program = "sweep" /\ Len(todo) < 3))'
  OBVIOUS
<1> QED
  BY <1>1, <1>2, <1>3 DEF CurvesOnDisk

\* One reading of a curve, and perhaps a flush of what there is.
LEMMA SweepPoint == SweepInv /\ Point => SweepInv'
<1> SUFFICES ASSUME SweepInv, Point PROVE SweepInv'
  OBVIOUS
<1> DEFINE all == Swept(sweep'.curves, sweep'.partial)
           states == Tagged(sweep'.states, sweep'.partial, sweep'.resolved)
<1>1. /\ program = "sweep" /\ pc = "run" /\ todo = << >> /\ Len(light) > Len(sweep.curves)
      /\ sweep' = [sweep EXCEPT !.partial = @ + 1]
      /\ pc' \in {"run", "write"} /\ todo' = IF pc' = "write" THEN SweepFiles' ELSE << >>
      /\ UNCHANGED <<flushed, light, program, finished, disk, refusals, opened>>
  BY DEF Point, Running, Kept
<1>2. FlushStands /\ SweepStands /\ CurvesOnDisk
  BY DEF SweepInv
<1>3. /\ sweep'.curves = sweep.curves /\ sweep'.states = sweep.states
      /\ sweep'.partial = sweep.partial + 1 /\ sweep'.resolved = sweep.resolved
      /\ sweep' = [curves |-> sweep'.curves, states |-> sweep'.states,
                   partial |-> sweep'.partial, resolved |-> sweep'.resolved]
  BY <1>1, <1>2 DEF SweepStands
<1>4. /\ Within(Swept(sweep.curves, sweep.partial), all)
      /\ Swept(sweep.curves, sweep.partial) \in Seq(Nat) /\ all \in Seq(Nat) /\ all # << >>
  <2>1. sweep.curves \in Seq(Nat) /\ sweep.partial \in Nat
    BY <1>2 DEF SweepStands
  <2>2. sweep.partial + 1 \in Nat /\ sweep.partial + 1 > 0
    BY <2>1
  <2>3. all = Swept(sweep.curves, sweep.partial + 1)
    BY <1>3
  <2>4. all = Append(sweep.curves, sweep.partial + 1)
    BY <2>1, <2>2, <2>3, SweptIs
  <2>5. all \in Seq(Nat) /\ all # << >>
    BY <2>1, <2>2, <2>4
  <2> QED
    BY <2>1, <2>3, <2>5, SweptGrows, SweptIs
<1>5. ~opened
  BY <1>1, <1>2 DEF FlushStands
<1>6. todo' = << >> \/ todo' = <<Table(all), Settings(all), Archive(all, states)>>
  <2>1. SweepFiles' = <<Table(all), Settings(all), Archive(all, states)>>
    BY <1>4 DEF SweepFiles, All, States, Swept, Tagged, Table, Settings, Archive
  <2> QED
    BY <1>1, <2>1
<1>7. pc' = "write" => todo' = <<Table(all), Settings(all), Archive(all, states)>>
  BY <1>1, <1>4 DEF SweepFiles, All, States, Swept, Tagged, Table, Settings, Archive
<1>8. pc' = "run" => todo' = << >>
  BY <1>1
<1>9. Within(flushed, all)
  BY <1>2, <1>4, WithinOrder DEF SweepStands
<1> HIDE DEF all, states
<1>10. FlushStands'
  <2>1. pc' \in {"run", "write"} /\ (pc' = "run" => todo' = << >>)
        /\ (pc' = "write" => todo' # << >>) /\ ~opened'
    BY <1>1, <1>5, <1>7, <1>8
  <2> QED
    BY <1>1, <1>2, <2>1 DEF FlushStands
<1>11. SweepStands'
  <2>1. Within(flushed, Swept(sweep.curves, sweep.partial))'
    BY <1>1, <1>9 DEF all
  <2> QED
    BY <1>1, <1>2, <1>3, <2>1 DEF SweepStands, Matches
<1>12. FlushTodo'
  BY <1>1, <1>6 DEF FlushTodo, SweepTodo, all, states
<1>13. CurvesOnDisk'
  <2>1. (pc' = "write" => Len(todo') = 3) /\ pc' \in {"run", "write"} /\ ~opened'
    BY <1>1, <1>5, <1>7
  <2> QED
    BY <1>1, <1>2, <1>5, <2>1, DiskAside
<1> QED
  BY <1>10, <1>11, <1>12, <1>13 DEF SweepInv

\* The last reading of a curve is in; the flush that follows has the curve among the others.
LEMMA SweepCurveDone == SweepInv /\ CurveDone => SweepInv'
<1> SUFFICES ASSUME SweepInv, CurveDone PROVE SweepInv'
  OBVIOUS
<1> DEFINE all == Swept(sweep'.curves, sweep'.partial)
           states == Tagged(sweep'.states, sweep'.partial, sweep'.resolved)
<1>1. /\ program = "sweep" /\ pc = "run" /\ sweep.partial = Points /\ Points > 0
      /\ sweep' = [sweep EXCEPT !.curves = Append(@, Points), !.partial = 0,
                                !.states = Append(@, sweep.resolved)]
      /\ pc' = "write" /\ todo' = SweepFiles'
      /\ UNCHANGED <<flushed, light, program, finished, disk, refusals, opened>>
  BY ScanAssumption DEF CurveDone, Running, Kept
<1>2. FlushStands /\ SweepStands /\ CurvesOnDisk
  BY DEF SweepInv
<1>3. /\ sweep'.curves = Append(sweep.curves, Points)
      /\ sweep'.states = Append(sweep.states, sweep.resolved)
      /\ sweep'.partial = 0 /\ sweep'.resolved = sweep.resolved
      /\ sweep' = [curves |-> sweep'.curves, states |-> sweep'.states,
                   partial |-> sweep'.partial, resolved |-> sweep'.resolved]
  BY <1>1, <1>2 DEF SweepStands
<1>4. /\ sweep.curves \in Seq(Nat) /\ sweep.states \in Seq(Shutters) /\ Points \in Nat
      /\ light \in Seq(Shutters) /\ Len(light) = Len(sweep.curves) + 1
      /\ sweep.resolved = light[Len(light)] /\ sweep.resolved \in Shutters
  BY <1>1, <1>2, ScanAssumption DEF SweepStands
<1>5. /\ sweep'.curves \in Seq(Nat) /\ sweep'.states \in Seq(Shutters)
      /\ Len(sweep'.curves) = Len(light)
  BY <1>3, <1>4
<1>6. /\ all = Append(sweep.curves, Points) /\ all # << >>
      /\ all = Swept(sweep.curves, sweep.partial)
  <2>1. Swept(sweep.curves, sweep.partial) = Append(sweep.curves, Points)
    BY <1>1, <1>4, SweptIs
  <2>2. all = sweep'.curves
    BY <1>3, <1>5, SweptLists DEF Swept
  <2>3. Append(sweep.curves, Points) # << >>
    <3> DEFINE more == Append(sweep.curves, Points)
    <3>1. Len(more) = Len(sweep.curves) + 1 /\ Len(sweep.curves) \in Nat
      BY <1>4
    <3> HIDE DEF more
    <3>2. more # << >>
      BY <3>1
    <3> QED
      BY <3>2 DEF more
  <2> QED
    BY <2>1, <2>2, <2>3, <1>3
<1>7. todo' = <<Table(all), Settings(all), Archive(all, states)>>
  BY <1>1, <1>6 DEF SweepFiles, All, States, Swept, Tagged, Table, Settings, Archive
<1>8. ~opened
  BY <1>1, <1>2 DEF FlushStands
<1>9. Matches(sweep'.states, sweep'.curves, light)
  <2>1. Len(sweep.states) = Len(sweep.curves) /\ \A i \in 1..Len(sweep.curves) :
            sweep.states[i] = light[i]
    BY <1>2 DEF SweepStands, Matches
  <2> QED
    BY <2>1, <1>3, <1>4 DEF Matches
<1>10. Within(flushed, all)
  BY <1>2, <1>6 DEF SweepStands
<1> HIDE DEF all, states
<1>11. FlushStands'
  BY <1>1, <1>2, <1>8, <1>7 DEF FlushStands
<1>12. SweepStands'
  <2>1. Within(flushed, Swept(sweep.curves, sweep.partial))'
    BY <1>1, <1>10 DEF all
  <2> QED
    BY <1>1, <1>2, <1>3, <1>4, <1>5, <1>9, <2>1 DEF SweepStands
<1>13. FlushTodo'
  BY <1>1, <1>7 DEF FlushTodo, SweepTodo, all, states
<1>14. CurvesOnDisk'
  <2>1. Len(todo') = 3 /\ pc' = "write"
    BY <1>1, <1>7
  <2> QED
    BY <1>1, <1>2, <1>8, <2>1, DiskAside
<1> QED
  BY <1>11, <1>12, <1>13, <1>14 DEF SweepInv

\* The recorder is finished: everything is written once more, if there is anything.
LEMMA SweepFinish == SweepInv /\ Finish => SweepInv'
<1> SUFFICES ASSUME SweepInv, Finish PROVE SweepInv'
  OBVIOUS
<1> DEFINE all == Swept(sweep.curves, sweep.partial)
           states == Tagged(sweep.states, sweep.partial, sweep.resolved)
<1>1. /\ pc \in {"run", "raised"} /\ finished' = TRUE
      /\ todo' = IF program = "scan" THEN ScanFiles ELSE SweepFiles
      /\ pc' = IF todo' = << >> THEN "over" ELSE "write"
      /\ opened' = FALSE
      /\ UNCHANGED <<program, sweep, scan, disk, refusals, flushed, light>>
  BY DEF Finish
<1>2. FlushStands /\ SweepStands /\ FlushTodo /\ CurvesOnDisk /\ ~opened
  BY <1>1 DEF SweepInv, FlushStands
<1>3. SweepFiles = IF all = << >> THEN << >>
                   ELSE <<Table(all), Settings(all), Archive(all, states)>>
  BY FlushOfCurves
<1>4. all \in Seq(Nat) /\ Within(flushed, all) /\ flushed \in Seq(Nat)
  BY <1>2, SweptIs DEF SweepStands
<1>5. program # "sweep" => all = << >> /\ flushed = << >>
  BY <1>2, SweptIs DEF SweepStands, EmptySweep, Swept
<1>6. todo' = << >> => all = << >> \/ program # "sweep"
  BY <1>1, <1>3
<1>7. all = << >> => flushed = << >>
  BY <1>4 DEF Within
<1> HIDE DEF all, states
<1>8. FlushStands'
  BY <1>1, <1>2 DEF FlushStands
<1>9. SweepStands'
  BY <1>1, <1>2 DEF SweepStands
<1>10. FlushTodo'
  <2>1. CASE program = "scan"
    <3>1. ScanFiles \in {<< >>, Rest4(ScanText)}
      BY DEF ScanFiles, Rest4, Shots, ScanText
    <3> QED
      BY <1>1, <2>1, <3>1 DEF FlushTodo, ScanText
  <2>2. CASE program = "sweep"
    BY <1>1, <1>3, <2>2 DEF FlushTodo, SweepTodo, all, states
  <2>3. CASE program \notin {"scan", "sweep"}
    BY <1>1, <1>3, <1>5, <2>3 DEF FlushTodo
  <2> QED
    BY <2>1, <2>2, <2>3
<1>11. CurvesOnDisk'
  <2>1. CASE todo' = << >>
    <3>1. pc' = "over" /\ flushed' = << >> /\ Swept(sweep.curves, sweep.partial)' = << >>
      BY <1>1, <1>5, <1>6, <1>7, <2>1 DEF all
    <3>2. (disk["jv.h5"] \notin {None, Torn} =>
             Matches(disk["jv.h5"].states, disk["jv.h5"].curves, light))'
      BY <1>1, <1>2 DEF CurvesOnDisk
    <3> QED
      BY <3>1, <3>2 DEF CurvesOnDisk
  <2>2. CASE todo' # << >>
    <3>1. CASE program = "sweep"
      <4>1. pc' = "write" /\ Len(todo') = 3 /\ ~opened'
        BY <1>1, <1>3, <2>2, <3>1
      <4> QED
        BY <4>1, <1>1, <1>2, DiskAside
    <3>2. CASE program # "sweep"
      <4>1. pc' = "write" /\ flushed' = << >> /\ program' # "sweep"
        BY <1>1, <1>5, <2>2, <3>2
      <4>2. (disk["jv.h5"] \notin {None, Torn} =>
               Matches(disk["jv.h5"].states, disk["jv.h5"].curves, light))'
        BY <1>1, <1>2 DEF CurvesOnDisk
      <4> QED
        BY <4>1, <4>2 DEF CurvesOnDisk
    <3> QED
      BY <3>1, <3>2
  <2> QED
    BY <2>1, <2>2
<1> QED
  BY <1>8, <1>9, <1>10, <1>11 DEF SweepInv

\* The first element and the rest of a short list.
LEMMA ShortLists ==
  ASSUME NEW a, NEW b, NEW c, NEW d
  PROVE  /\ Head(<<a>>) = a /\ Tail(<<a>>) = << >> /\ Len(<<a>>) = 1
         /\ Head(<<a, b>>) = a /\ Tail(<<a, b>>) = <<b>> /\ Len(<<a, b>>) = 2
         /\ Head(<<a, b, c>>) = a /\ Tail(<<a, b, c>>) = <<b, c>> /\ Len(<<a, b, c>>) = 3
         /\ Head(<<a, b, c, d>>) = a /\ Tail(<<a, b, c, d>>) = <<b, c, d>>
  OBVIOUS

\* The file a flush is at, and what is left behind it.
LEMMA HeadOf ==
  ASSUME SweepInv, pc = "write"
  PROVE  /\ program = "sweep" =>
              LET all == Swept(sweep.curves, sweep.partial)
                  states == Tagged(sweep.states, sweep.partial, sweep.resolved)
              IN  \/ /\ Head(todo) = Archive(all, states) /\ Tail(todo) = << >>
                     /\ Len(todo) = 1
                  \/ /\ Head(todo) = Settings(all) /\ Tail(todo) = <<Archive(all, states)>>
                     /\ Len(todo) = 2
                  \/ /\ Head(todo) = Table(all)
                     /\ Tail(todo) = <<Settings(all), Archive(all, states)>>
                     /\ Len(todo) = 3
         /\ program = "scan" =>
              \/ Head(todo) = Shots("run.h5", ScanText) /\ Tail(todo) = << >>
              \/ Head(todo) = Shots("traces", ScanText) /\ Tail(todo) = Rest1(ScanText)
              \/ Head(todo) = Shots("all_loops_q", ScanText) /\ Tail(todo) = Rest2(ScanText)
              \/ Head(todo) = Shots("averages_q", ScanText) /\ Tail(todo) = Rest3(ScanText)
         /\ program \in {"scan", "sweep"} /\ todo # << >>
<1>1. todo # << >> /\ FlushTodo
  BY DEF SweepInv, FlushStands
<1>2. CASE program = "sweep"
  <2> DEFINE all == Swept(sweep.curves, sweep.partial)
             states == Tagged(sweep.states, sweep.partial, sweep.resolved)
             a == Archive(all, states)  s == Settings(all)  t == Table(all)
  <2>1. todo = <<a>> \/ todo = <<s, a>> \/ todo = <<t, s, a>>
    BY <1>1, <1>2 DEF FlushTodo, SweepTodo
  <2> HIDE DEF a, s, t
  <2>2. \/ Head(todo) = a /\ Tail(todo) = << >> /\ Len(todo) = 1
        \/ Head(todo) = s /\ Tail(todo) = <<a>> /\ Len(todo) = 2
        \/ Head(todo) = t /\ Tail(todo) = <<s, a>> /\ Len(todo) = 3
    <3>1. CASE todo = <<a>>
      BY <3>1, ShortLists
    <3>2. CASE todo = <<s, a>>
      BY <3>2, ShortLists
    <3>3. CASE todo = <<t, s, a>>
      BY <3>3, ShortLists
    <3> QED
      BY <2>1, <3>1, <3>2, <3>3
  <2> QED
    BY <1>1, <1>2, <2>2 DEF a, s, t
<1>3. CASE program = "scan"
  <2> DEFINE a == Shots("run.h5", ScanText)  b == Shots("traces", ScanText)
             c == Shots("all_loops_q", ScanText)  d == Shots("averages_q", ScanText)
  <2>1. todo = <<a>> \/ todo = <<b, a>> \/ todo = <<c, b, a>> \/ todo = <<d, c, b, a>>
    BY <1>1, <1>3 DEF FlushTodo, Rest1, Rest2, Rest3, Rest4
  <2> HIDE DEF a, b, c, d
  <2>2. \/ Head(todo) = a /\ Tail(todo) = << >>
        \/ Head(todo) = b /\ Tail(todo) = <<a>>
        \/ Head(todo) = c /\ Tail(todo) = <<b, a>>
        \/ Head(todo) = d /\ Tail(todo) = <<c, b, a>>
    <3>1. todo = <<a>> => Head(todo) = a /\ Tail(todo) = << >>
      BY ShortLists
    <3>2. todo = <<b, a>> => Head(todo) = b /\ Tail(todo) = <<a>>
      BY ShortLists
    <3>3. todo = <<c, b, a>> => Head(todo) = c /\ Tail(todo) = <<b, a>>
      BY ShortLists
    <3>4. todo = <<d, c, b, a>> => Head(todo) = d /\ Tail(todo) = <<c, b, a>>
      BY ShortLists
    <3> QED
      BY <2>1, <3>1, <3>2, <3>3, <3>4
  <2> QED
    BY <1>1, <1>3, <2>2 DEF a, b, c, d, Rest1, Rest2, Rest3
<1>4. program \in {"scan", "sweep"}
  BY <1>1 DEF FlushTodo
<1> QED
  BY <1>1, <1>2, <1>3, <1>4

\* A file is emptied: only the one the flush is at.
LEMMA SweepOpen == SweepInv /\ Open => SweepInv'
<1> SUFFICES ASSUME SweepInv, Open PROVE SweepInv'
  OBVIOUS
<1> DEFINE head == Head(todo).file
<1>1. /\ pc = "write" /\ ~opened /\ opened' = TRUE /\ disk' = [disk EXCEPT ![head] = Torn]
      /\ UNCHANGED <<program, pc, scan, sweep, finished, todo, refusals, flushed, light>>
  BY DEF Open, Opened
<1>2. FlushStands /\ SweepStands /\ FlushTodo /\ CurvesOnDisk /\ todo # << >>
  BY <1>1 DEF SweepInv, FlushStands
<1>3. program = "sweep" /\ Len(todo) < 3 => head # "data"
  BY <1>1, HeadOf DEF Archive, Settings
<1>4. disk' = [f \in Files |-> disk'[f]]
  BY <1>1, <1>2 DEF FlushStands
<1>5. \A f \in Files : disk'[f] = IF f = head THEN Torn ELSE disk[f]
  BY <1>1, <1>2 DEF FlushStands
<1> HIDE DEF head
<1>6. FlushStands'
  BY <1>1, <1>2, <1>4 DEF FlushStands
<1>7. SweepStands'
  BY <1>1, <1>2 DEF SweepStands
<1>8. FlushTodo'
  BY <1>1, <1>2 DEF FlushTodo, ScanText
<1>9. CurvesOnDisk'
  <2>1. (disk["jv.h5"] \notin {None, Torn} =>
           Matches(disk["jv.h5"].states, disk["jv.h5"].curves, light))'
    BY <1>1, <1>2, <1>5 DEF CurvesOnDisk, Files
  <2>2. (refusals = 0 /\ flushed # << >> =>
           \A f \in Tables : (opened /\ Head(todo).file = f) \/ Full(disk[f], flushed))'
    BY <1>1, <1>2, <1>5 DEF CurvesOnDisk, Files, Tables, head
  <2>3. (pc = "write" /\ program = "sweep" /\ Len(todo) < 3
           => Full(disk["data"], Swept(sweep.curves, sweep.partial)))'
    BY <1>1, <1>2, <1>3, <1>5 DEF CurvesOnDisk, Files
  <2> QED
    BY <1>1, <2>1, <2>2, <2>3 DEF CurvesOnDisk
<1> QED
  BY <1>6, <1>7, <1>8, <1>9 DEF SweepInv

\* What a flush of curves puts in a file is no missing or torn file, and holds them all.
LEMMA TextFull ==
  ASSUME NEW all \in Seq(Nat), NEW states \in Seq(Shutters), NEW curves, Within(curves, all)
  PROVE  Full([curves |-> all, states |-> states], curves)
<1> DEFINE text == [curves |-> all, states |-> states]
<1>1. text \in [curves : Seq(Nat), states : Seq({"shut", "open"})]
  BY DEF Shutters
<1>2. text \notin {None, Torn}
  BY <1>1, NothingAssumption
<1>3. text.curves = all
  OBVIOUS
<1> QED
  BY <1>2, <1>3 DEF Full

\* A file is written: it holds what this flush began with.
LEMMA SweepFill == SweepInv /\ Fill => SweepInv'
<1> SUFFICES ASSUME SweepInv, Fill PROVE SweepInv'
  OBVIOUS
<1> DEFINE head == Head(todo)
           all == Swept(sweep.curves, sweep.partial)
           states == Tagged(sweep.states, sweep.partial, sweep.resolved)
<1>1. /\ pc = "write" /\ opened /\ opened' = FALSE /\ todo' = Tail(todo)
      /\ disk' = [disk EXCEPT ![head.file] = head.text]
      /\ pc' = IF todo' # << >> THEN "write" ELSE IF finished THEN "over" ELSE "run"
      /\ flushed' = IF todo' = << >> /\ program = "sweep" THEN all ELSE flushed
      /\ UNCHANGED <<program, scan, sweep, finished, refusals, light>>
  BY DEF Fill, All, Swept
<1>2. FlushStands /\ SweepStands /\ FlushTodo /\ CurvesOnDisk /\ todo # << >>
  BY <1>1 DEF SweepInv, FlushStands
<1>3. /\ disk' = [f \in Files |-> disk'[f]]
      /\ \A f \in Files : disk'[f] = IF f = head.file THEN head.text ELSE disk[f]
  BY <1>1, <1>2 DEF FlushStands
<1>4. /\ all \in Seq(Nat) /\ states \in Seq(Shutters) /\ Matches(states, all, light)
      /\ flushed \in Seq(Nat) /\ Within(flushed, all) /\ Within(all, all)
  BY <1>2, SweptIs, TaggedMatches, WithinOrder DEF SweepStands
<1>5. program = "sweep" =>
         \/ head = Archive(all, states) /\ todo' = << >> /\ Len(todo) = 1
         \/ head = Settings(all) /\ todo' = <<Archive(all, states)>> /\ Len(todo) = 2
         \/ /\ head = Table(all) /\ todo' = <<Settings(all), Archive(all, states)>>
            /\ Len(todo) = 3
  BY <1>1, HeadOf
<1>6. program # "sweep" => head.file \notin Tables /\ all = << >> /\ flushed' = << >>
  <2> SUFFICES ASSUME program # "sweep"
               PROVE  head.file \notin Tables /\ all = << >> /\ flushed' = << >>
    OBVIOUS
  <2>1. head.file \notin Tables
    BY <1>1, HeadOf DEF Shots, Tables
  <2> QED
    BY <1>1, <1>2, <2>1, SweptIs DEF SweepStands, EmptySweep, Swept
<1> HIDE DEF head, all, states
<1>7. FlushStands'
  BY <1>1, <1>2, <1>3 DEF FlushStands
<1>8. SweepStands'
  <2>1. flushed' \in Seq(Nat) /\ Within(flushed', all)
    BY <1>1, <1>4
  <2>2. Within(flushed, Swept(sweep.curves, sweep.partial))'
    BY <1>1, <2>1 DEF all
  <2> QED
    BY <1>1, <1>2, <1>6, <2>1, <2>2 DEF SweepStands
<1>9. FlushTodo'
  <2>1. CASE program = "sweep"
    BY <1>1, <1>5, <2>1 DEF FlushTodo, SweepTodo, all, states
  <2>2. CASE program = "scan"
    BY <1>1, <2>2, HeadOf DEF FlushTodo, ScanText
  <2> QED
    BY <1>1, <2>1, <2>2, HeadOf
<1>10. CurvesOnDisk'
  <2>1. CASE program # "sweep"
    <3>1. disk'["jv.h5"] = disk["jv.h5"]
      BY <1>3, <1>6, <2>1 DEF Files, Tables
    <3>2. (disk["jv.h5"] \notin {None, Torn} =>
             Matches(disk["jv.h5"].states, disk["jv.h5"].curves, light))'
      BY <1>1, <1>2, <3>1 DEF CurvesOnDisk
    <3>3. flushed' = << >> /\ Swept(sweep.curves, sweep.partial)' = << >> /\ program' # "sweep"
      BY <1>1, <1>6, <2>1 DEF all
    <3> QED
      BY <3>2, <3>3 DEF CurvesOnDisk
  <2>2. CASE program = "sweep"
    <3>0. all = Swept(sweep.curves, sweep.partial)'
      BY <1>1 DEF all
    <3>1. CASE head = Archive(all, states) /\ todo' = << >> /\ Len(todo) = 1
      <4>1. disk'["jv.h5"] = [curves |-> all, states |-> states] /\ disk'["data"] = disk["data"]
        BY <1>3, <3>1 DEF Archive, Files
      <4>2. Full(disk'["data"], all)
        BY <1>1, <1>2, <2>2, <3>1, <4>1 DEF CurvesOnDisk, all
      <4>3. Full(disk'["jv.h5"], all)
        BY <1>4, <4>1, TextFull
      <4>4. flushed' = all /\ pc' # "write" /\ ~opened'
        BY <1>1, <2>2, <3>1
      <4>5. Matches(disk'["jv.h5"].states, disk'["jv.h5"].curves, light')
        BY <1>1, <1>4, <4>1
      <4> QED
        BY <4>2, <4>3, <4>4, <4>5, <3>0 DEF CurvesOnDisk, Tables
    <3>2. CASE head = Settings(all) /\ todo' = <<Archive(all, states)>> /\ Len(todo) = 2
      <4>1. disk'["jv.h5"] = disk["jv.h5"] /\ disk'["data"] = disk["data"]
            /\ head.file \notin Tables
        BY <1>3, <3>2 DEF Settings, Files, Tables
      <4>2. flushed' = flushed /\ pc' = "write" /\ ~opened'
        BY <1>1, <3>2
      <4>3. (refusals = 0 /\ flushed # << >> => \A f \in Tables : Full(disk[f], flushed))'
        BY <1>1, <1>2, <4>1, <4>2 DEF CurvesOnDisk, Tables, head
      <4>4. Full(disk'["data"], all)
        BY <1>1, <1>2, <2>2, <3>2, <4>1 DEF CurvesOnDisk, all
      <4>5. (disk["jv.h5"] \notin {None, Torn} =>
             Matches(disk["jv.h5"].states, disk["jv.h5"].curves, light))'
        BY <1>1, <1>2, <4>1 DEF CurvesOnDisk
      <4> QED
        BY <4>2, <4>3, <4>4, <4>5, <3>0 DEF CurvesOnDisk
    <3>3. CASE /\ head = Table(all) /\ todo' = <<Settings(all), Archive(all, states)>>
               /\ Len(todo) = 3
      <4>1. disk'["jv.h5"] = disk["jv.h5"] /\ head.file # "jv.h5"
            /\ disk'["data"] = [curves |-> all, states |-> << >>]
        BY <1>3, <3>3 DEF Table, Files, Tables
      <4>2. flushed' = flushed /\ pc' = "write" /\ ~opened'
        BY <1>1, <3>3
      <4>3. << >> \in Seq(Shutters)
        OBVIOUS
      <4>4. Full(disk'["data"], all) /\ Full(disk'["data"], flushed)
        BY <1>4, <4>1, <4>2, <4>3, TextFull
      <4>5. (refusals = 0 /\ flushed # << >> => Full(disk["jv.h5"], flushed))'
        BY <1>1, <1>2, <4>1, <4>2 DEF CurvesOnDisk, Tables, head
      <4>6. (disk["jv.h5"] \notin {None, Torn} =>
             Matches(disk["jv.h5"].states, disk["jv.h5"].curves, light))'
        BY <1>1, <1>2, <4>1 DEF CurvesOnDisk
      <4> QED
        BY <4>2, <4>4, <4>5, <4>6, <3>0 DEF CurvesOnDisk, Tables
    <3> QED
      BY <1>5, <2>2, <3>1, <3>2, <3>3
  <2> QED
    BY <2>1, <2>2
<1> QED
  BY <1>7, <1>8, <1>9, <1>10 DEF SweepInv

\* The disk refuses a write: the flush ends there, and costs one file at most.
LEMMA SweepRefuse == SweepInv /\ Refuse => SweepInv'
<1> SUFFICES ASSUME SweepInv, Refuse PROVE SweepInv'
  OBVIOUS
<1>1. /\ pc = "write" /\ refusals' = refusals + 1 /\ opened' = FALSE /\ todo' = << >>
      /\ pc' = IF finished THEN "over" ELSE "raised"
      /\ UNCHANGED <<program, scan, sweep, finished, disk, flushed, light>>
  BY DEF Refuse, AfterRaise
<1>2. FlushStands /\ SweepStands /\ FlushTodo /\ CurvesOnDisk /\ refusals \in Nat
  BY DEF SweepInv, FlushStands
<1>3. FlushStands'
  <2>1. pc' \in {"over", "raised"} /\ refusals' \in Nat
    BY <1>1, <1>2
  <2> QED
    BY <1>1, <1>2, <2>1 DEF FlushStands
<1>4. SweepStands'
  BY <1>1, <1>2 DEF SweepStands
<1>5. FlushTodo'
  BY <1>1 DEF FlushTodo, SweepTodo
<1>6. CurvesOnDisk'
  <2>1. (disk["jv.h5"] \notin {None, Torn} =>
           Matches(disk["jv.h5"].states, disk["jv.h5"].curves, light))'
    BY <1>1, <1>2 DEF CurvesOnDisk
  <2>2. refusals' # 0 /\ pc' # "write"
    BY <1>1, <1>2
  <2>3. ASSUME refusals' <= 1, flushed' # << >>
        PROVE  Full(disk'["data"], flushed') \/ Full(disk'["jv.h5"], flushed')
    <3>1. refusals = 0 /\ flushed # << >>
      BY <1>1, <1>2, <2>3
    <3>2. /\ Head(todo).file = "data" \/ Full(disk["data"], flushed)
          /\ Head(todo).file = "jv.h5" \/ Full(disk["jv.h5"], flushed)
      BY <1>2, <3>1 DEF CurvesOnDisk, Tables
    <3> QED
      BY <1>1, <3>2
  <2> QED
    BY <2>1, <2>2, <2>3 DEF CurvesOnDisk
<1> QED
  BY <1>3, <1>4, <1>5, <1>6 DEF SweepInv

\* Only the tables of a scan can lack a column: the curves are not concerned.
LEMMA SweepMismatch == SweepInv /\ Mismatch => SweepInv'
<1> SUFFICES ASSUME SweepInv, Mismatch PROVE SweepInv'
  OBVIOUS
<1>1. /\ pc = "write" /\ ~opened /\ todo' = << >> /\ ~Renders(Head(todo).file)
      /\ pc' = IF finished THEN "over" ELSE "raised"
      /\ UNCHANGED <<program, scan, sweep, finished, opened, disk, refusals, flushed, light>>
  BY DEF Mismatch, AfterRaise
<1>2. FlushStands /\ SweepStands /\ FlushTodo /\ CurvesOnDisk
  BY DEF SweepInv
<1>3. program # "sweep"
  BY <1>1, HeadOf DEF Renders, Table, Settings, Archive
<1>4. flushed = << >> /\ Swept(sweep.curves, sweep.partial) = << >>
  BY <1>2, <1>3, SweptIs DEF SweepStands, EmptySweep, Swept
<1>5. FlushStands'
  BY <1>1, <1>2 DEF FlushStands
<1>6. SweepStands'
  BY <1>1, <1>2 DEF SweepStands
<1>7. FlushTodo'
  BY <1>1 DEF FlushTodo, SweepTodo
<1>8. CurvesOnDisk'
  <2>1. (disk["jv.h5"] \notin {None, Torn} =>
           Matches(disk["jv.h5"].states, disk["jv.h5"].curves, light))'
    BY <1>1, <1>2 DEF CurvesOnDisk
  <2>2. flushed' = << >> /\ Swept(sweep.curves, sweep.partial)' = << >> /\ program' # "sweep"
    BY <1>1, <1>3, <1>4
  <2> QED
    BY <2>1, <2>2 DEF CurvesOnDisk
<1> QED
  BY <1>5, <1>6, <1>7, <1>8 DEF SweepInv

\* A process that dies leaves the disk as it is.
LEMMA SweepCrash == SweepInv /\ Crash => SweepInv'
<1> SUFFICES ASSUME SweepInv, Crash PROVE SweepInv'
  OBVIOUS
<1>1. /\ pc' = "dead"
      /\ UNCHANGED <<program, scan, sweep, finished, todo, opened, disk, refusals, flushed, light>>
  BY DEF Crash
<1>2. FlushStands /\ SweepStands /\ FlushTodo /\ CurvesOnDisk
  BY DEF SweepInv
<1>3. FlushStands'
  BY <1>1, <1>2 DEF FlushStands
<1>4. SweepStands'
  BY <1>1, <1>2 DEF SweepStands
<1>5. FlushTodo'
  BY <1>1, <1>2 DEF FlushTodo, SweepTodo, ScanText
<1>6. CurvesOnDisk'
  <2>1. (disk["jv.h5"] \notin {None, Torn} =>
           Matches(disk["jv.h5"].states, disk["jv.h5"].curves, light))'
    BY <1>1, <1>2 DEF CurvesOnDisk
  <2>2. (refusals = 0 /\ flushed # << >> =>
           \A f \in Tables : (opened /\ Head(todo).file = f) \/ Full(disk[f], flushed))'
    BY <1>1, <1>2 DEF CurvesOnDisk
  <2> QED
    BY <1>1, <2>1, <2>2 DEF CurvesOnDisk
<1> QED
  BY <1>3, <1>4, <1>5, <1>6 DEF SweepInv

\* Every step of a recorder keeps SweepInv.
LEMMA NextSweep == SweepInv /\ [Next]_vars => SweepInv'
<1> SUFFICES ASSUME SweepInv, [Next]_vars PROVE SweepInv'
  OBVIOUS
<1>0. pc = "run" => todo = << >>
  BY DEF SweepInv, FlushStands
<1>1. ASSUME ScanStarts PROVE SweepInv'
  BY <1>1, <1>0, SweepAside DEF ScanStarts, Running, Kept, sweepVars
<1>2. ASSUME Shot PROVE SweepInv'
  BY <1>2, <1>0, SweepAside DEF Shot, Running, Kept, sweepVars
<1>3. ASSUME AskStop PROVE SweepInv'
  BY <1>3, SweepAside DEF AskStop, Kept, sweepVars
<1>4. ASSUME UNCHANGED vars PROVE SweepInv'
  BY <1>4, SweepAside DEF vars, sweepVars
<1> QED
  BY <1>1, <1>2, <1>3, <1>4, SweepShutter, SweepPoint, SweepCurveDone, SweepFinish, SweepOpen,
     SweepFill, SweepRefuse, SweepMismatch, SweepCrash DEF Next

\* The next module of a run has a recorder of its own, with nothing in it.
LEMMA EnterSweep == SweepInv /\ EnterModule => SweepInv'
<1> SUFFICES ASSUME SweepInv, EnterModule PROVE SweepInv'
  OBVIOUS
<1>1. /\ pc' \in {"run", "over"} /\ finished' = FALSE /\ sweep' = EmptySweep
      /\ todo' = << >> /\ opened' = FALSE /\ disk' = [f \in Files |-> None]
      /\ flushed' = << >> /\ light' = << >> /\ refusals' = refusals /\ refusals \in Nat
  BY DEF EnterModule, SweepInv, FlushStands
<1>2. /\ sweep'.curves = << >> /\ sweep'.states = << >> /\ sweep'.partial = 0
  BY <1>1 DEF EmptySweep
<1>3. Swept(<< >>, 0) = << >>
  BY DEF Swept
<1>4. FlushStands'
  BY <1>1 DEF FlushStands, Files
<1>5. SweepStands'
  BY <1>1, <1>2, <1>3 DEF SweepStands, Matches, Within, EmptySweep
<1>6. FlushTodo'
  BY <1>1 DEF FlushTodo, SweepTodo
<1>7. CurvesOnDisk'
  BY <1>1, <1>2, <1>3, <1>4 DEF CurvesOnDisk, Files, FlushStands
<1> QED
  BY <1>4, <1>5, <1>6, <1>7 DEF SweepInv

\* What a run of modules does to the recorder of the one it is at.
LEMMA RecordsAreFiles == RecordsNext => [Next]_vars \/ EnterModule
<1> SUFFICES ASSUME RecordsNext PROVE [Next]_vars \/ EnterModule
  OBVIOUS
<1>1. UNCHANGED files => UNCHANGED vars
  BY DEF files, vars
<1> QED
  BY <1>1 DEF RecordsNext, Tell, StopBetween, WalkEnds, TellScanStarts, TellShot, TellStop,
     TellShutter, TellPoint, TellCurve, ScanStops, Unwind, Writes, WriteRaises, EndModule,
     Close, TellEnd, Evict, Dies, Next

\* SweepInv says what CurvesAreWhole asks for, of the curves and of the shutter positions.
LEMMA WholeCurves == SweepInv => CurvesAreWhole
<1> SUFFICES ASSUME SweepInv PROVE CurvesAreWhole
  OBVIOUS
<1>1. FlushStands /\ CurvesOnDisk
  BY DEF SweepInv
<1>2. All = Swept(sweep.curves, sweep.partial)
  BY FlushOfCurves
<1>3. \A f, curves : Full(disk[f], curves) => Covers(f, curves)
  BY DEF Full, Covers, Within
<1>4. CurveKeepsItsShutter
  BY <1>1 DEF CurvesOnDisk, CurveKeepsItsShutter, Matches
<1>5. CASE pc = "over"
  <2>1. Faults = refusals
    BY <1>1, <1>5 DEF Faults, FlushStands
  <2> QED
    BY <1>1, <1>2, <1>3, <1>4, <1>5, <2>1 DEF CurvesOnDisk, CurvesAreWhole, CurvesSurviveOneFault
<1>6. CASE pc = "dead"
  <2>1. Faults = refusals + 1 /\ refusals \in Nat
    BY <1>1, <1>6 DEF Faults, FlushStands
  <2>2. Faults <= 1 => refusals = 0
    BY <2>1
  <2>3. Faults # 0
    BY <2>1
  <2>4. refusals = 0 /\ flushed # << >> =>
           Full(disk["data"], flushed) \/ Full(disk["jv.h5"], flushed)
    BY <1>1 DEF CurvesOnDisk, Tables
  <2> QED
    BY <1>3, <1>4, <1>6, <2>2, <2>3, <2>4 DEF CurvesAreWhole, CurvesSurviveOneFault
<1>7. CASE pc \notin {"over", "dead"}
  BY <1>4, <1>7 DEF CurvesAreWhole, CurvesSurviveOneFault
<1> QED
  BY <1>5, <1>6, <1>7

\* Whatever ends a J-V measurement, one fault leaves its curves in one file, each with its
\* shutter position (jv.py:299, 350, 360-385): of one recorder, and of each in a run.
THEOREM CurvesTheorem == (Spec => []CurvesAreWhole) /\ (RecordsSpec => []CurvesAreWhole)
<1>1. Spec => []CurvesAreWhole
  BY InitSweep, NextSweep, WholeCurves, PTL DEF Spec
<1>2. SweepInv /\ [RecordsNext]_<<files, records>> => SweepInv'
  <2>1. UNCHANGED <<files, records>> => [Next]_vars
    BY DEF files, vars
  <2> QED
    BY <2>1, RecordsAreFiles, NextSweep, EnterSweep
<1>3. RecordsInit => SweepInv
  BY InitSweep DEF RecordsInit
<1>4. RecordsSpec => []CurvesAreWhole
  BY <1>2, <1>3, WholeCurves, PTL DEF RecordsSpec
<1> QED
  BY <1>1, <1>4

-----------------------------------------------------------------------------
(* The shots of a scan.                                                    *)

LoopsOf(seen, point) == {e.loop : e \in {x \in seen : x.step = point}}
Arrived(seen) == {e \in seen : e.sync}

\* The shots are the first of the scan: loops outside, points inside.
ShotsInOrder ==
    /\ shots \subseteq [loop : 1..Loops, step : 1..Steps, sync : BOOLEAN]
    /\ IsFiniteSet(shots) /\ Cardinality(shots) <= Steps * Loops
    /\ \A e \in shots : (e.loop - 1) * Steps + e.step <= Cardinality(shots)
    /\ \A l \in 1..Loops, s \in 1..Steps : (l - 1) * Steps + s <= Cardinality(shots)
            => \E e \in shots : e.loop = l /\ e.step = s

\* The recorder has them all, and the plain means of what arrived.
ShotsRecorded ==
    /\ scan = [started |-> scan.started, axis |-> scan.axis, q |-> scan.q,
               setpoints |-> scan.setpoints, light |-> scan.light, sync |-> scan.sync,
               fetched |-> scan.fetched]
    /\ scan.q = {<<e.loop, e.step>> : e \in shots} /\ scan.setpoints = {e.step : e \in shots}
    /\ shots = {} => scan.light = None
    /\ shots # {} => scan.axis /\ scan.light = [s \in 1..Steps |-> Mean(LoopsOf(shots, s))]
    /\ scan.sync = [s \in 1..Steps |-> Mean(LoopsOf(Arrived(shots), s))]
    /\ scan.fetched = [s \in 1..Steps |-> Cardinality(LoopsOf(Arrived(shots), s))]
    /\ program # "scan" => shots = {}

\* A scan that measured every point and was refused no write has its HDF5 file.
ShotsOnDisk ==
    Ended /\ scan.setpoints = 1..Steps => disk["run.h5"] = ScanText

ShotsInv == ShotsInOrder /\ ShotsRecorded /\ ShotsOnDisk

-----------------------------------------------------------------------------
\* Division: the shot that follows n others.
LEMMA ShotPlace ==
  ASSUME NEW n \in Nat, n < Steps * Loops
  PROVE  LET l == 1 + (n \div Steps)  s == 1 + (n % Steps)
         IN  l \in 1..Loops /\ s \in 1..Steps /\ (l - 1) * Steps + s = n + 1
<1> USE ScanAssumption
<1> DEFINE a == n \div Steps  b == n % Steps
<1>1. a \in Nat /\ b \in 0..(Steps - 1) /\ a * Steps + b = n
  OBVIOUS
<1> HIDE DEF a, b
<1>2. a < Loops
  <2>1. SUFFICES ASSUME a >= Loops PROVE FALSE
    BY <1>1
  <2>2. a * Steps >= Loops * Steps
    BY <1>1, <2>1
  <2> QED
    BY <1>1, <2>2
<1>3. 1 + a \in 1..Loops /\ 1 + b \in 1..Steps /\ (1 + a - 1) * Steps + (1 + b) = n + 1
  BY <1>1, <1>2
<1> QED
  BY <1>3 DEF a, b

\* Places are told apart by loop and point.
LEMMA PlacesDiffer ==
  ASSUME NEW l \in Nat \ {0}, NEW k \in Nat \ {0}, NEW s \in 1..Steps, NEW t \in 1..Steps
  PROVE  /\ (l - 1) * Steps + s <= (k - 1) * Steps + t => l <= k
         /\ l < k => (l - 1) * Steps + s < (k - 1) * Steps + t
         /\ l = k /\ (l - 1) * Steps + s < (k - 1) * Steps + t => s < t
<1> USE ScanAssumption
<1> DEFINE a == (l - 1) * Steps  b == (k - 1) * Steps
<1>1. a \in Nat /\ b \in Nat /\ (l = k => a = b)
  OBVIOUS
<1>2. l < k => a + Steps <= b
  <2>1. ASSUME l < k PROVE a + Steps <= b
    <3>1. l * Steps = a + Steps
      OBVIOUS
    <3>2. l <= k - 1 /\ k - 1 \in Nat
      BY <2>1
    <3>3. l * Steps <= (k - 1) * Steps
      BY <3>2
    <3> QED
      BY <3>1, <3>3
  <2> QED
    BY <2>1
<1>3. k < l => b + Steps <= a
  <2>1. ASSUME k < l PROVE b + Steps <= a
    <3>1. k * Steps = b + Steps
      OBVIOUS
    <3>2. k <= l - 1 /\ l - 1 \in Nat
      BY <2>1
    <3>3. k * Steps <= (l - 1) * Steps
      BY <3>2
    <3> QED
      BY <3>1, <3>3
  <2> QED
    BY <2>1
<1> HIDE DEF a, b
<1>4. /\ a + s <= b + t => l <= k
      /\ l < k => a + s < b + t
      /\ l = k /\ a + s < b + t => s < t
  BY <1>1, <1>2, <1>3
<1> QED
  BY <1>4 DEF a, b

\* A mean that takes in one more trace is the mean of one loop more.
LEMMA AveragedMean ==
  ASSUME NEW A \in SUBSET (1..Loops), NEW l \in (1..Loops) \ A
  PROVE  Averaged(Mean(A), Cardinality(A) + 1, l) = Mean(A \cup {l})
<1> USE ScanAssumption
<1> DEFINE k == Cardinality(A)
<1>1. /\ IsFiniteSet(1..Loops) /\ Cardinality(1..Loops) = Loops
      /\ IsFiniteSet(A) /\ k \in Nat /\ k <= Loops
  <2>1. IsFiniteSet(1..Loops) /\ Cardinality(1..Loops) = Loops
    BY FS_Interval
  <2>2. IsFiniteSet(A) /\ k <= Loops
    BY <2>1, FS_Subset
  <2>3. k \in Nat
    BY <2>2, FS_CardinalityType
  <2> QED
    BY <2>1, <2>2, <2>3
<1>2. Cardinality(A \cup {l}) = k + 1 /\ k + 1 <= Loops
  <2>1. Cardinality(A \cup {l}) = k + 1
    BY <1>1, FS_AddElement
  <2>2. A \cup {l} \in SUBSET (1..Loops)
    OBVIOUS
  <2> QED
    BY <1>1, <2>1, <2>2, FS_Subset
<1>3. k = 0 <=> A = {}
  BY <1>1, FS_EmptySet
<1> HIDE DEF k
<1>4. Mean(A \cup {l}) =
        [i \in 1..Loops |-> IF i \in A \cup {l} THEN Whole \div (k + 1) ELSE 0]
  BY <1>2 DEF Mean
<1>5. CASE A = {}
  <2>1. k + 1 = 1
    BY <1>3, <1>5
  <2>2. Averaged(Mean(A), k + 1, l) = Only(l)
    BY <2>1 DEF Averaged
  <2>3. Whole \div 1 = Whole
    OBVIOUS
  <2> QED
    BY <1>4, <1>5, <2>1, <2>2, <2>3 DEF Only, k
<1>6. CASE A # {}
  <2>1. k \in Nat \ {0} /\ k + 1 # 1 /\ Whole % k = 0 /\ Whole % (k + 1) = 0 /\ k + 1 \in Nat
    <3>1. k # 0 /\ k \in Nat /\ k <= Loops /\ k + 1 <= Loops
      BY <1>1, <1>2, <1>3, <1>6
    <3>2. k \in 1..Loops /\ k + 1 \in 1..Loops /\ k + 1 # 1 /\ k \in Nat \ {0}
      BY <3>1
    <3>3. Whole % k = 0 /\ Whole % (k + 1) = 0
      BY <3>2
    <3> QED
      BY <3>2, <3>3
  <2>2. Mean(A) = [i \in 1..Loops |-> IF i \in A THEN Whole \div k ELSE 0]
    BY <1>6 DEF Mean, k
  <2>3. Whole \div k \in Nat /\ k * (Whole \div k) = Whole
    BY <2>1
  <2>4. Mean(A) # None
    <3>1. Mean(A) \in [1..Loops -> Nat]
      BY <2>2, <2>3
    <3> QED
      BY <3>1, NothingAssumption
  <2>5. Averaged(Mean(A), k + 1, l) =
          [i \in 1..Loops |-> (Only(l)[i] + (k + 1 - 1) * Mean(A)[i]) \div (k + 1)]
    BY <2>1, <2>4 DEF Averaged
  <2>6. ASSUME NEW i \in 1..Loops
        PROVE  (Only(l)[i] + (k + 1 - 1) * Mean(A)[i]) \div (k + 1)
                 = IF i \in A \cup {l} THEN Whole \div (k + 1) ELSE 0
    <3>0. k + 1 - 1 = k
      BY <2>1
    <3>1. CASE i = l
      <4>1. Only(l)[i] = Whole /\ Mean(A)[i] = 0
        BY <2>2, <3>1 DEF Only
      <4>2. k * 0 = 0 /\ Whole + 0 = Whole
        BY <2>1
      <4> QED
        BY <3>0, <3>1, <4>1, <4>2
    <3>2. CASE i \in A
      <4>1. Only(l)[i] = 0 /\ Mean(A)[i] = Whole \div k
        BY <2>2, <3>2 DEF Only
      <4>2. 0 + Whole = Whole
        OBVIOUS
      <4> QED
        BY <2>3, <3>0, <3>2, <4>1, <4>2
    <3>3. CASE i \notin A \cup {l}
      <4>1. Only(l)[i] = 0 /\ Mean(A)[i] = 0
        BY <2>2, <3>3 DEF Only
      <4>2. k * 0 = 0 /\ 0 + 0 = 0 /\ 0 \div (k + 1) = 0
        BY <2>1
      <4> QED
        BY <3>0, <3>3, <4>1, <4>2
    <3> QED
      BY <3>1, <3>2, <3>3
  <2> HIDE DEF Mean
  <2>7. Averaged(Mean(A), k + 1, l) =
          [i \in 1..Loops |-> IF i \in A \cup {l} THEN Whole \div (k + 1) ELSE 0]
    BY <2>5, <2>6
  <2> QED
    BY <1>4, <2>7 DEF k
<1> QED
  BY <1>5, <1>6

\* A row of averages is not None.
LEMMA LightIsSomething ==
  ASSUME NEW row, row = [s \in 1..Steps |-> Mean(LoopsOf(shots, s))], ShotsInOrder
  PROVE  row # None
<1> USE ScanAssumption
<1>1. ASSUME NEW s \in 1..Steps PROVE Mean(LoopsOf(shots, s)) \in [1..Loops -> Nat] \cup {None}
  <2> DEFINE A == LoopsOf(shots, s)
  <2>1. A \subseteq 1..Loops
    BY DEF ShotsInOrder, LoopsOf
  <2>2. IsFiniteSet(1..Loops) /\ Cardinality(1..Loops) = Loops
    BY FS_Interval
  <2>3. IsFiniteSet(A) /\ Cardinality(A) \in Nat /\ Cardinality(A) <= Loops
    BY <2>1, <2>2, FS_Subset, FS_CardinalityType
  <2>4. A # {} => Cardinality(A) # 0
    BY <2>3, FS_EmptySet
  <2> HIDE DEF A
  <2>5. CASE A = {}
    BY <2>5 DEF Mean, A
  <2>6. CASE A # {}
    <3>1. Cardinality(A) \in Nat \ {0}
      BY <2>3, <2>4, <2>6
    <3>2. Whole \div Cardinality(A) \in Nat
      BY <3>1
    <3>3. Mean(A) = [l \in 1..Loops |-> IF l \in A THEN Whole \div Cardinality(A) ELSE 0]
      BY <2>6 DEF Mean
    <3>4. Mean(A) \in [1..Loops -> Nat]
      BY <3>2, <3>3
    <3> QED
      BY <3>4 DEF A
  <2> QED
    BY <2>5, <2>6
<1>2. row \in [1..Steps -> [1..Loops -> Nat] \cup {None}]
  BY <1>1
<1> QED
  BY <1>2, NothingAssumption

\* A shot is taken: the next in order, its traces into the averages of its point.
LEMMA ShotTaken == FlushStands /\ ShotsInv /\ Shot => ShotsInv'
<1> SUFFICES ASSUME FlushStands, ShotsInv, Shot PROVE ShotsInv'
  OBVIOUS
<1> USE ScanAssumption
<1> DEFINE n == Cardinality(shots)
           loop == 1 + (n \div Steps)  step == 1 + (n % Steps)
<1>1. PICK sync \in BOOLEAN :
        /\ shots' = shots \cup {[loop |-> loop, step |-> step, sync |-> sync]}
        /\ scan' = Stepped(IF sync THEN Synced(scan, loop, step) ELSE scan, loop, step)
  BY DEF Shot, At
<1> DEFINE e0 == [loop |-> loop, step |-> step, sync |-> sync]
<1>2. /\ pc = "run" /\ pc' = "run" /\ program = "scan" /\ scan.axis /\ n < Steps * Loops
      /\ program' = program
  BY DEF Shot, Running, Kept
<1>3. n \in Nat /\ IsFiniteSet(shots)
  BY FS_CardinalityType DEF ShotsInv, ShotsInOrder
<1>4. loop \in 1..Loops /\ step \in 1..Steps /\ (loop - 1) * Steps + step = n + 1
  BY <1>2, <1>3, ShotPlace
<1> HIDE DEF n, loop, step
<1>5. e0 \notin shots /\ e0.loop = loop /\ e0.step = step /\ e0.sync = sync
      /\ e0 \in [loop : 1..Loops, step : 1..Steps, sync : BOOLEAN]
  <2>1. e0.loop = loop /\ e0.step = step /\ e0.sync = sync
    OBVIOUS
  <2>2. \A e \in shots : (e.loop - 1) * Steps + e.step <= n
    BY DEF ShotsInv, ShotsInOrder, n
  <2>3. e0 \in shots => (loop - 1) * Steps + step <= n
    BY <2>1, <2>2
  <2> QED
    BY <1>3, <1>4, <2>1, <2>3
<1>6. shots' = shots \cup {e0}
  BY <1>1
<1> HIDE DEF e0
<1>7. IsFiniteSet(shots') /\ Cardinality(shots') = n + 1
  BY <1>3, <1>5, <1>6, FS_AddElement DEF n
<1>8. \A e \in shots : e.loop \in 1..Loops /\ e.step \in 1..Steps /\ e.sync \in BOOLEAN
  BY DEF ShotsInv, ShotsInOrder
<1>9. LoopsOf(shots, step) = 1..(loop - 1)
  <2>1. ASSUME NEW e \in shots, e.step = step PROVE e.loop \in 1..(loop - 1)
    <3>1. (e.loop - 1) * Steps + step <= n
      BY <2>1 DEF ShotsInv, ShotsInOrder, n
    <3>2. e.loop \in Nat \ {0} /\ loop \in Nat \ {0}
      BY <1>4, <1>8
    <3>3. (e.loop - 1) * Steps + step \in Int
      BY <3>2, <1>4
    <3>4. (e.loop - 1) * Steps + step <= (loop - 1) * Steps + step
      BY <3>1, <3>3, <1>3, <1>4
    <3>5. e.loop <= loop
      BY <1>4, <3>2, <3>4, PlacesDiffer
    <3>6. e.loop # loop
      BY <3>1, <1>3, <1>4
    <3> QED
      BY <3>2, <3>5, <3>6
  <2>2. ASSUME NEW l \in 1..(loop - 1) PROVE \E e \in shots : e.loop = l /\ e.step = step
    <3>1. l \in 1..Loops /\ l < loop /\ l \in Nat \ {0} /\ loop \in Nat \ {0}
      BY <1>4
    <3>2. (l - 1) * Steps + step < (loop - 1) * Steps + step
      BY <1>4, <3>1, PlacesDiffer
    <3>3. (l - 1) * Steps + step \in Int
      BY <1>4, <3>1
    <3>4. (l - 1) * Steps + step <= n
      BY <1>3, <1>4, <3>2, <3>3
    <3> QED
      BY <1>4, <3>1, <3>4 DEF ShotsInv, ShotsInOrder, n
  <2> QED
    BY <2>1, <2>2 DEF LoopsOf
<1>10. LoopsOf(Arrived(shots), step) \subseteq 1..(loop - 1)
  BY <1>9 DEF LoopsOf, Arrived
<1>11. ShotsInOrder'
  <2>1. shots' \subseteq [loop : 1..Loops, step : 1..Steps, sync : BOOLEAN]
    BY <1>5, <1>6 DEF ShotsInv, ShotsInOrder
  <2>2. n + 1 <= Steps * Loops
    BY <1>2, <1>3
  <2>3. ASSUME NEW e \in shots' PROVE (e.loop - 1) * Steps + e.step <= n + 1
    <3>1. CASE e = e0
      BY <1>3, <1>4, <1>5, <3>1
    <3>2. CASE e \in shots
      <4>1. (e.loop - 1) * Steps + e.step <= n
        BY <3>2 DEF ShotsInv, ShotsInOrder, n
      <4>2. (e.loop - 1) * Steps + e.step \in Int
        BY <1>8, <3>2
      <4> QED
        BY <1>3, <4>1, <4>2
    <3> QED
      BY <1>6, <3>1, <3>2
  <2>4. ASSUME NEW l \in 1..Loops, NEW s \in 1..Steps, (l - 1) * Steps + s <= n + 1
        PROVE  \E e \in shots' : e.loop = l /\ e.step = s
    <3>0. (l - 1) * Steps + s \in Int /\ l \in Nat \ {0} /\ loop \in Nat \ {0}
      BY <1>4
    <3>1. CASE (l - 1) * Steps + s <= n
      BY <1>6, <3>1 DEF ShotsInv, ShotsInOrder, n
    <3>2. CASE (l - 1) * Steps + s = n + 1
      <4>1. /\ (l - 1) * Steps + s <= (loop - 1) * Steps + step
            /\ (loop - 1) * Steps + step <= (l - 1) * Steps + s
        BY <1>3, <1>4, <3>2
      <4>2. l <= loop /\ loop <= l
        BY <1>4, <3>0, <4>1, PlacesDiffer
      <4>3. l = loop
        BY <3>0, <4>2
      <4>4. s = step
        <5> DEFINE a == (l - 1) * Steps
        <5>1. a \in Int /\ a + s = a + step
          BY <1>4, <3>2, <4>3
        <5> HIDE DEF a
        <5> QED
          BY <5>1, <1>4
      <4> QED
        BY <1>5, <1>6, <4>3, <4>4
    <3> QED
      BY <2>4, <3>0, <3>1, <3>2, <1>3
  <2> QED
    BY <1>7, <2>1, <2>2, <2>3, <2>4 DEF ShotsInOrder
<1>12. \A s \in 1..Steps : LoopsOf(shots', s) =
          IF s = step THEN LoopsOf(shots, s) \cup {loop} ELSE LoopsOf(shots, s)
  BY <1>5, <1>6 DEF LoopsOf
<1>13. \A s \in 1..Steps : LoopsOf(Arrived(shots'), s) =
          IF s = step /\ sync = TRUE THEN LoopsOf(Arrived(shots), s) \cup {loop}
          ELSE LoopsOf(Arrived(shots), s)
  <2>1. sync = TRUE => Arrived(shots') = Arrived(shots) \cup {e0}
    BY <1>5, <1>6 DEF Arrived
  <2>2. sync # TRUE => Arrived(shots') = Arrived(shots)
    BY <1>5, <1>6 DEF Arrived
  <2> QED
    BY <1>5, <2>1, <2>2 DEF LoopsOf
<1>14. /\ LoopsOf(shots, step) \in SUBSET (1..Loops) /\ loop \in (1..Loops) \ LoopsOf(shots, step)
       /\ LoopsOf(Arrived(shots), step) \in SUBSET (1..Loops)
       /\ loop \in (1..Loops) \ LoopsOf(Arrived(shots), step)
  BY <1>4, <1>9, <1>10
<1>15. Cardinality(LoopsOf(shots, step)) + 1 = loop
  <2>1. Cardinality(1..(loop - 1)) = loop - 1
    BY <1>4, FS_Interval
  <2> QED
    BY <1>4, <1>9, <2>1
<1>16. Cardinality(LoopsOf(Arrived(shots), step) \cup {loop})
         = Cardinality(LoopsOf(Arrived(shots), step)) + 1
  <2>1. IsFiniteSet(1..Loops)
    BY FS_Interval
  <2>2. IsFiniteSet(LoopsOf(Arrived(shots), step))
    BY <1>14, <2>1, FS_Subset
  <2> QED
    BY <1>14, <2>2, FS_AddElement
<1> DEFINE before == IF sync THEN Synced(scan, loop, step) ELSE scan
           seen == IF before.light = None THEN [s \in 1..Steps |-> None] ELSE before.light
<1>17. /\ before = [started |-> before.started, axis |-> before.axis, q |-> before.q,
                    setpoints |-> before.setpoints, light |-> before.light,
                    sync |-> before.sync, fetched |-> before.fetched]
       /\ before.q = scan.q /\ before.setpoints = scan.setpoints /\ before.light = scan.light
       /\ before.axis = scan.axis
  BY DEF ShotsInv, ShotsRecorded, Synced
<1>18. before.sync = [s \in 1..Steps |-> Mean(LoopsOf(Arrived(shots'), s))]
       /\ before.fetched = [s \in 1..Steps |-> Cardinality(LoopsOf(Arrived(shots'), s))]
  <2>1. CASE sync # TRUE
    BY <1>13, <2>1 DEF ShotsInv, ShotsRecorded
  <2>2. CASE sync = TRUE
    <3> DEFINE m == Cardinality(LoopsOf(Arrived(shots), step)) + 1
    <3>1. scan.fetched[step] + 1 = m
      BY <1>4 DEF ShotsInv, ShotsRecorded
    <3>2. scan.sync[step] = Mean(LoopsOf(Arrived(shots), step))
      BY <1>4 DEF ShotsInv, ShotsRecorded
    <3>3. Averaged(scan.sync[step], m, loop) = Mean(LoopsOf(Arrived(shots), step) \cup {loop})
      BY <1>14, <3>2, AveragedMean
    <3> HIDE DEF m
    <3>4. /\ before.fetched = [scan.fetched EXCEPT ![step] = m]
          /\ before.sync = [scan.sync EXCEPT ![step] = Averaged(@, m, loop)]
      BY <2>2, <3>1 DEF Synced, ShotsInv, ShotsRecorded
    <3>5. before.sync = [scan.sync EXCEPT ![step] =
                           Mean(LoopsOf(Arrived(shots), step) \cup {loop})]
      BY <3>3, <3>4
    <3>6. before.sync = [s \in 1..Steps |-> Mean(LoopsOf(Arrived(shots'), s))]
      <4>1. scan.sync = [s \in 1..Steps |-> Mean(LoopsOf(Arrived(shots), s))]
        BY DEF ShotsInv, ShotsRecorded
      <4>2. before.sync = [s \in 1..Steps |->
                IF s = step THEN Mean(LoopsOf(Arrived(shots), step) \cup {loop})
                ELSE Mean(LoopsOf(Arrived(shots), s))]
        BY <3>5, <4>1
      <4>3. ASSUME NEW s \in 1..Steps
            PROVE  Mean(LoopsOf(Arrived(shots'), s)) =
                     IF s = step THEN Mean(LoopsOf(Arrived(shots), step) \cup {loop})
                     ELSE Mean(LoopsOf(Arrived(shots), s))
        BY <1>13, <2>2
      <4> QED
        BY <4>2, <4>3
    <3>7. before.fetched = [s \in 1..Steps |-> Cardinality(LoopsOf(Arrived(shots'), s))]
      <4>1. scan.fetched = [s \in 1..Steps |-> Cardinality(LoopsOf(Arrived(shots), s))]
        BY DEF ShotsInv, ShotsRecorded
      <4>2. before.fetched = [s \in 1..Steps |->
                IF s = step THEN m ELSE Cardinality(LoopsOf(Arrived(shots), s))]
        BY <3>4, <4>1
      <4>3. ASSUME NEW s \in 1..Steps
            PROVE  Cardinality(LoopsOf(Arrived(shots'), s)) =
                     IF s = step THEN m ELSE Cardinality(LoopsOf(Arrived(shots), s))
        BY <1>13, <1>16, <2>2 DEF m
      <4> QED
        BY <4>2, <4>3
    <3> QED
      BY <3>6, <3>7
  <2> QED
    BY <2>1, <2>2
<1>19. seen = [s \in 1..Steps |-> Mean(LoopsOf(shots, s))]
  <2>1. CASE shots = {}
    <3>1. \A s \in 1..Steps : Mean(LoopsOf(shots, s)) = None
      BY <2>1 DEF LoopsOf, Mean
    <3>2. scan.light = None
      BY <2>1 DEF ShotsInv, ShotsRecorded
    <3> QED
      BY <1>17, <3>1, <3>2
  <2>2. CASE shots # {}
    <3>1. scan.light = [s \in 1..Steps |-> Mean(LoopsOf(shots, s))]
      BY <2>2 DEF ShotsInv, ShotsRecorded
    <3>2. scan.light # None
      BY <3>1, LightIsSomething DEF ShotsInv
    <3> QED
      BY <1>17, <3>1, <3>2
  <2> QED
    BY <2>1, <2>2
<1>20. scan' = [before EXCEPT !.light = [seen EXCEPT ![step] = Averaged(@, loop, loop)],
                              !.q = @ \cup {<<loop, step>>}, !.setpoints = @ \cup {step}]
  BY <1>1 DEF Stepped
<1> HIDE DEF before, seen
<1>21. /\ scan' = [started |-> scan'.started, axis |-> scan'.axis, q |-> scan'.q,
                   setpoints |-> scan'.setpoints, light |-> scan'.light,
                   sync |-> scan'.sync, fetched |-> scan'.fetched]
       /\ scan'.q = scan.q \cup {<<loop, step>>} /\ scan'.setpoints = scan.setpoints \cup {step}
       /\ scan'.light = [seen EXCEPT ![step] = Averaged(@, loop, loop)]
       /\ scan'.sync = before.sync /\ scan'.fetched = before.fetched /\ scan'.axis = scan.axis
  BY <1>17, <1>20
<1>22. scan'.light = [s \in 1..Steps |-> Mean(LoopsOf(shots', s))]
  <2>1. Averaged(seen[step], loop, loop) = Mean(LoopsOf(shots, step) \cup {loop})
    <3>1. Averaged(Mean(LoopsOf(shots, step)), Cardinality(LoopsOf(shots, step)) + 1, loop)
            = Mean(LoopsOf(shots, step) \cup {loop})
      BY <1>14, AveragedMean
    <3>2. seen[step] = Mean(LoopsOf(shots, step))
      BY <1>4, <1>19
    <3> QED
      BY <1>15, <3>1, <3>2
  <2>2. scan'.light = [seen EXCEPT ![step] = Mean(LoopsOf(shots, step) \cup {loop})]
    BY <1>21, <2>1
  <2> QED
    BY <1>4, <1>12, <1>19, <2>2
<1>23. ShotsRecorded'
  <2>1. scan'.q = {<<e.loop, e.step>> : e \in shots'}
    BY <1>5, <1>6, <1>21 DEF ShotsInv, ShotsRecorded
  <2>2. scan'.setpoints = {e.step : e \in shots'}
    BY <1>5, <1>6, <1>21 DEF ShotsInv, ShotsRecorded
  <2>3. shots' # {} /\ scan'.axis
    BY <1>2, <1>6, <1>21
  <2>4. /\ scan'.sync = [s \in 1..Steps |-> Mean(LoopsOf(Arrived(shots'), s))]
        /\ scan'.fetched = [s \in 1..Steps |-> Cardinality(LoopsOf(Arrived(shots'), s))]
    BY <1>18, <1>21
  <2>5. program' = "scan"
    BY <1>2
  <2> QED
    BY <1>21, <1>22, <2>1, <2>2, <2>3, <2>4, <2>5 DEF ShotsRecorded
<1>24. ShotsOnDisk'
  BY <1>2 DEF ShotsOnDisk, Ended
<1> QED
  BY <1>11, <1>23, <1>24 DEF ShotsInv

\* What the recorder of a scan rests on.
scanVars == <<program, scan, shots>>

\* A step that leaves it alone keeps what it has recorded.
LEMMA ShotsAside ==
  ASSUME ShotsInv, UNCHANGED scanVars, ShotsOnDisk'
  PROVE  ShotsInv'
<1>1. ShotsInOrder'
  BY DEF ShotsInv, ShotsInOrder, scanVars
<1>2. ShotsRecorded'
  BY DEF ShotsInv, ShotsRecorded, LoopsOf, Arrived, scanVars
<1> QED
  BY <1>1, <1>2 DEF ShotsInv

\* Before the first shot nothing is recorded.
LEMMA NoShots ==
  ASSUME shots = {}, scan = EmptyScan, ~Ended \/ scan.setpoints # 1..Steps
  PROVE  ShotsInv
<1> USE ScanAssumption
<1>1. IsFiniteSet(shots) /\ Cardinality(shots) = 0
  BY FS_EmptySet
<1>2. ShotsInOrder
  <2>1. 0 <= Steps * Loops
    OBVIOUS
  <2>2. ASSUME NEW l \in 1..Loops, NEW s \in 1..Steps PROVE ~((l - 1) * Steps + s <= 0)
    <3>1. (l - 1) * Steps \in Nat
      OBVIOUS
    <3> DEFINE a == (l - 1) * Steps
    <3> HIDE DEF a
    <3>2. a \in Nat => ~(a + s <= 0)
      OBVIOUS
    <3> QED
      BY <3>1, <3>2 DEF a
  <2> QED
    BY <1>1, <2>1, <2>2 DEF ShotsInOrder
<1>3. \A s \in 1..Steps : LoopsOf(Arrived(shots), s) = {}
  BY DEF LoopsOf, Arrived
<1>4. Mean({}) = None /\ Cardinality({}) = 0
  BY FS_EmptySet DEF Mean
<1>5. ShotsRecorded
  <2>1. /\ scan = [started |-> scan.started, axis |-> scan.axis, q |-> scan.q,
                   setpoints |-> scan.setpoints, light |-> scan.light, sync |-> scan.sync,
                   fetched |-> scan.fetched]
        /\ scan.q = {} /\ scan.setpoints = {} /\ scan.light = None
        /\ scan.sync = [s \in 1..Steps |-> None] /\ scan.fetched = [s \in 1..Steps |-> 0]
    BY DEF EmptyScan
  <2>2. scan.sync = [s \in 1..Steps |-> Mean(LoopsOf(Arrived(shots), s))]
    BY <1>3, <1>4, <2>1
  <2>3. scan.fetched = [s \in 1..Steps |-> Cardinality(LoopsOf(Arrived(shots), s))]
    BY <1>3, <1>4, <2>1
  <2>4. {<<e.loop, e.step>> : e \in shots} = {} /\ {e.step : e \in shots} = {}
    OBVIOUS
  <2> QED
    BY <2>1, <2>2, <2>3, <2>4 DEF ShotsRecorded
<1>6. ShotsOnDisk
  BY DEF ShotsOnDisk
<1> QED
  BY <1>2, <1>5, <1>6 DEF ShotsInv

\* RunStarted and AxisResolved are recorded before the first shot.
LEMMA ScanStarted == ShotsInv /\ ScanStarts => ShotsInv'
<1> SUFFICES ASSUME ShotsInv, ScanStarts PROVE ShotsInv'
  OBVIOUS
<1>1. /\ pc' = "run" /\ UNCHANGED <<program, shots>> /\ ~scan.axis
      /\ scan' = IF scan.started THEN [scan EXCEPT !.axis = TRUE]
                 ELSE [scan EXCEPT !.started = TRUE]
  BY DEF ScanStarts, Running, Kept
<1>2. ShotsInOrder'
  BY <1>1 DEF ShotsInv, ShotsInOrder
<1>3. ShotsRecorded /\ shots = {}
  BY <1>1 DEF ShotsInv, ShotsRecorded
<1>4. /\ scan' = [started |-> scan'.started, axis |-> scan'.axis, q |-> scan'.q,
                  setpoints |-> scan'.setpoints, light |-> scan'.light,
                  sync |-> scan'.sync, fetched |-> scan'.fetched]
      /\ scan'.q = scan.q /\ scan'.setpoints = scan.setpoints /\ scan'.light = scan.light
      /\ scan'.sync = scan.sync /\ scan'.fetched = scan.fetched
  BY <1>1, <1>3 DEF ShotsRecorded
<1>5. ShotsRecorded'
  BY <1>1, <1>3, <1>4 DEF ShotsRecorded, LoopsOf, Arrived
<1>6. ShotsOnDisk'
  BY <1>1 DEF ShotsOnDisk, Ended
<1> QED
  BY <1>2, <1>5, <1>6 DEF ShotsInv

\* Once every point is measured the tables have a column for each.
LEMMA AllRender == scan.setpoints = 1..Steps => \A name : Renders(name)
<1>1. Cardinality(1..Steps) = Steps
  BY ScanAssumption, FS_Interval
<1> QED
  BY <1>1 DEF Renders

\* The end of a scan's flush, of whatever kind, leaves its HDF5 file or is no such end.
LEMMA ScanEnds ==
  ASSUME SweepInv, ShotsInv, Finish \/ Open \/ Fill \/ Refuse \/ Mismatch \/ Crash
  PROVE  ShotsInv'
<1>1. FlushStands /\ FlushTodo /\ ShotsInOrder /\ ShotsRecorded /\ ShotsOnDisk
  BY DEF SweepInv, ShotsInv
<1>2. UNCHANGED scanVars
  BY DEF Finish, Open, Fill, Refuse, Mismatch, Crash, scanVars
<1>3. ASSUME Finish PROVE ShotsOnDisk'
  <2> SUFFICES ASSUME Ended', scan'.setpoints = 1..Steps PROVE FALSE
    BY DEF ShotsOnDisk
  <2>1. /\ program = "scan" /\ UNCHANGED scan /\ scan.setpoints = 1..Steps
        /\ ScanFiles = << >>
    BY <1>3 DEF Finish, Ended
  <2>2. shots # {}
    <3>1. 1 \in 1..Steps
      BY ScanAssumption
    <3>2. 1 \in {e.step : e \in shots}
      BY <1>1, <2>1, <3>1 DEF ShotsRecorded
    <3> QED
      BY <3>2
  <2>3. scan.light # None /\ scan.axis
    BY <1>1, <2>2, LightIsSomething DEF ShotsRecorded
  <2>4. ScanFiles # << >>
    BY <2>3 DEF ScanFiles
  <2> QED
    BY <2>1, <2>4
<1>4. ASSUME Fill PROVE ShotsOnDisk'
  <2> SUFFICES ASSUME Ended', scan'.setpoints = 1..Steps PROVE disk'["run.h5"] = ScanText'
    BY DEF ShotsOnDisk
  <2>1. /\ pc = "write" /\ program = "scan" /\ UNCHANGED scan /\ todo' = Tail(todo)
        /\ todo' = << >> /\ disk' = [disk EXCEPT ![Head(todo).file] = Head(todo).text]
    BY <1>4 DEF Fill, Ended
  <2>2. Head(todo) = Shots("run.h5", ScanText)
    BY <2>1, HeadOf DEF Rest1, Rest2, Rest3
  <2>3. disk'["run.h5"] = ScanText
    BY <1>1, <2>1, <2>2 DEF FlushStands, Files, Shots
  <2> QED
    BY <2>1, <2>3 DEF ScanText
<1>5. ASSUME Refuse PROVE ShotsOnDisk'
  BY <1>1, <1>5 DEF Refuse, ShotsOnDisk, Ended, FlushStands
<1>6. ASSUME Mismatch PROVE ShotsOnDisk'
  <2>1. UNCHANGED scan /\ ~Renders(Head(todo).file)
    BY <1>6 DEF Mismatch
  <2> QED
    BY <2>1, AllRender DEF ShotsOnDisk
<1>7. ASSUME Open \/ Crash PROVE ShotsOnDisk'
  BY <1>7 DEF Open, Crash, ShotsOnDisk, Ended
<1> QED
  BY <1>2, <1>3, <1>4, <1>5, <1>6, <1>7, ShotsAside

\* Every step of a recorder keeps ShotsInv.
LEMMA NextShots == SweepInv /\ ShotsInv /\ [Next]_vars => ShotsInv'
<1> SUFFICES ASSUME SweepInv, ShotsInv, [Next]_vars PROVE ShotsInv'
  OBVIOUS
<1>1. ASSUME AskStop \/ SetShutter PROVE ShotsInv'
  BY <1>1, ShotsAside DEF AskStop, SetShutter, Running, Kept, scanVars, ShotsOnDisk, Ended
<1>2. ASSUME Point \/ CurveDone PROVE ShotsInv'
  BY <1>2, ShotsAside DEF Point, CurveDone, Running, Kept, scanVars, ShotsOnDisk, Ended
<1>3. ASSUME UNCHANGED vars PROVE ShotsInv'
  BY <1>3, ShotsAside DEF vars, scanVars, ShotsOnDisk, ShotsInv, Ended, ScanText
<1> QED
  BY <1>1, <1>2, <1>3, ScanStarted, ShotTaken, ScanEnds DEF Next, SweepInv

\* The invariant is what the run checks: the file holds the shots and the means of theirs.
LEMMA ShotsReach == ShotsInv => ShotsReachTheFile
<1> SUFFICES ASSUME ShotsInv, Ended, {e.step : e \in shots} = 1..Steps
             PROVE  disk["run.h5"] = Expected
  BY DEF ShotsReachTheFile
<1> USE ScanAssumption
<1>1. ShotsRecorded /\ disk["run.h5"] = ScanText
  BY DEF ShotsInv, ShotsOnDisk, ShotsRecorded
<1>2. shots # {}
  OBVIOUS
<1>3. /\ scan.q = {<<e.loop, e.step>> : e \in shots}
      /\ scan.light = [s \in 1..Steps |-> Mean(LoopsOf(shots, s))]
      /\ scan.sync = [s \in 1..Steps |-> Mean(LoopsOf(Arrived(shots), s))]
  BY <1>1, <1>2 DEF ShotsRecorded
<1> QED
  BY <1>1, <1>3 DEF Expected, ScanText, LoopsOf, Arrived

\* However a scan ends once every point is measured, its HDF5 file holds the shots and the
\* means of what arrived (recorder.py:126, 155): of one recorder, and of each in a run.
THEOREM ShotsTheorem == (Spec => []ShotsReachTheFile) /\ (RecordsSpec => []ShotsReachTheFile)
<1> DEFINE Both == SweepInv /\ ShotsInv
<1>1. Init => Both
  <2>1. Init => ShotsInv
    BY NoShots DEF Init, Ended
  <2> QED
    BY <2>1, InitSweep
<1>2. Both /\ [Next]_vars => Both'
  BY NextSweep, NextShots
<1>3. Both => ShotsReachTheFile
  BY ShotsReach
<1>4. Spec => []ShotsReachTheFile
  <2> HIDE DEF Both
  <2> QED
    BY <1>1, <1>2, <1>3, PTL DEF Spec
<1> DEFINE Fresh == shots = {} /\ scan = EmptyScan /\ (~Ended \/ scan.setpoints # 1..Steps)
<1>5. Fresh => ShotsInv
  BY NoShots
<1>6. Fresh' => ShotsInv'
  <2> HIDE DEF Fresh
  <2> QED
    BY <1>5, PTL
<1>7. ShotsInv /\ EnterModule => ShotsInv'
  <2> SUFFICES ASSUME EnterModule PROVE ShotsInv'
    OBVIOUS
  <2>1. shots' = {} /\ scan' = EmptyScan /\ scan'.setpoints = {}
    BY DEF EnterModule, EmptyScan
  <2>2. scan'.setpoints # 1..Steps
    BY <2>1, ScanAssumption
  <2> QED
    BY <2>1, <2>2, <1>6
<1>8. Both /\ [RecordsNext]_<<files, records>> => Both'
  <2>1. UNCHANGED <<files, records>> => [Next]_vars
    BY DEF files, vars
  <2> QED
    BY <1>2, <1>7, <2>1, RecordsAreFiles, EnterSweep
<1>9. RecordsInit => Both
  BY <1>1 DEF RecordsInit
<1>10. RecordsSpec => []ShotsReachTheFile
  <2> HIDE DEF Both
  <2> QED
    BY <1>3, <1>8, <1>9, PTL DEF RecordsSpec
<1> QED
  BY <1>4, <1>10

-----------------------------------------------------------------------------
(* The session's file.                                                     *)

\* The file of a process with the bytes it has not flushed.
WithPending(p) == file[proc[p].sid] \o proc[p].pend
\* The file once those bytes are flushed.
Flushed(p) == Joined(file[proc[p].sid], tail[proc[p].sid], proc[p].pend)

\* The types of the state.
JournalTypes ==
    /\ file \in [Sessions -> Seq(Lines)] /\ tail \in [Sessions -> {"end", "whole", "cut"}]
    /\ proc \in [Processes -> Process \cup {Null}]
    /\ returned \subseteq [sid : Sessions, line : Lines] /\ IsFiniteSet(returned)
    /\ subs \in Seq([sid : Sessions, run : Nat])
    /\ {lines, fails, crashes} \subseteq Nat /\ dropped \in BOOLEAN
    /\ \A s \in Sessions : tail[s] # "end" => file[s] # << >>

-----------------------------------------------------------------------------
\* A line is safe in a file when it can be read there and nothing written later joins it.
Safe(f, end, line) == \E i \in Read(f) : f[i] = line /\ (i < Len(f) \/ end = "end")
\* Accepted lines that are not safe.
Hurt == {r \in returned : ~Safe(file[r.sid], tail[r.sid], r.line)}
\* Files without a newline at their end.
Unended == {s \in Sessions : tail[s] # "end"}
\* Every line hurt, and every line that may still be, was paid for by a crash.
CrashesPay == Cardinality(Hurt) + Cardinality(Unended) <= crashes

-----------------------------------------------------------------------------
\* The numbers of a list of lines rise, and stay below a bound.
Rising(f) == \A i, j \in Numbered(f) : i < j => f[i].seq < f[j].seq
UpTo(f, n) == \A i \in Numbered(f) : f[i].seq <= n

\* The numbers on disk rise, and so will those of each process once it has flushed.
Numbers ==
    /\ \A s \in Sessions : Rising(file[s]) /\ UpTo(file[s], lines)
    /\ \A p \in Up :
          Rising(WithPending(p)) /\ UpTo(WithPending(p), proc[p].seq) /\ proc[p].seq <= lines

-----------------------------------------------------------------------------
\* A line that tells the outcome of a run.
Outcome(line) == line.type = "RunStateChanged" /\ line.state \in Terminal
\* A run id names one submission.
Apart(f) ==
    \A i, j \in Read(f) : f[i].run # Null /\ f[i].run = f[j].run => f[i].sub = f[j].sub
\* After the outcome of a run it is only told parked.
Settled(f) ==
    \A i, j \in Read(f) :
        i < j /\ f[i].run = f[j].run /\ Outcome(f[i]) /\ f[j].type = "RunStateChanged"
          => f[j].state = "parked"

\* What a file knows of the runs of a process, and of no others to come.
Agrees(f, q) ==
    /\ \A i \in Read(f) : f[i].run # Null => f[i].run \in 1..q.count
    /\ \A i \in Read(f), k \in DOMAIN q.runs : f[i].run = q.runs[k].run =>
          /\ f[i].sub = q.runs[k].sub
          /\ Outcome(f[i]) => q.runs[k].state \in Terminal \cup {"parked"}
\* The three together.
Story(f, q) == Apart(f) /\ Settled(f) /\ Agrees(f, q)

\* A file that nobody writes knows the runs 1, 2, ... of its session; one that is written
\* knows them too but for a run that has not been queued yet.
InOrder(f) == RunsSeen(f) \in Nat /\ Ids(f) = 1..RunsSeen(f)
RunsInStep ==
    /\ \A s \in Sessions : (\A p \in Up : proc[p].sid # s) => InOrder(file[s])
    /\ \A p \in Up :
          \/ Ids(Flushed(p)) = 1..proc[p].count
          \/ Submitting(p) /\ Ids(Flushed(p)) = 1..(proc[p].count - 1)
\* While nothing is dropped, what is missing a newline is a torn line.
Torned ==
    \A s \in Sessions : tail[s] # "end" => tail[s] = "cut" /\ file[s][Len(file[s])] = TornLine
\* What a process holds of the runs it was given itself.
Given ==
    \A p \in Up :
        LET q == proc[p] IN
        /\ \A k, l \in DOMAIN q.runs : q.runs[k].run = q.runs[l].run => k = l
        /\ \A k \in DOMAIN q.runs : /\ q.runs[k].run \in 1..q.count
                                    /\ q.runs[k].sub \in 1..Len(subs)
                                    /\ q.runs[k].state = "new" => q.runs[k].run = q.count
        /\ \A r \in Up \ {p} : \A k \in DOMAIN q.runs, l \in DOMAIN proc[r].runs :
              q.runs[k].sub # proc[r].runs[l].sub
        /\ Submitting(p) => tail[q.sid] = "end" \/ q.pend # << >>
        /\ \A i \in DOMAIN q.pend : q.pend[i].type = "RunStateChanged" =>
              \E k \in DOMAIN q.runs : q.pend[i].sub = q.runs[k].sub
\* Every file, with and without the bytes its process has not flushed, and every memory.
Stories ==
    /\ \A s \in Sessions : Apart(file[s]) /\ Settled(file[s])
    /\ \A p \in Up : Story(WithPending(p), proc[p]) /\ Story(proc[p].own, proc[p])
\* A process's memory has a line.
Owned(q, line) == \E i \in Read(q.own) : q.own[i] = line
\* The lines accepted for the runs of a process are in its memory.
Remembered ==
    /\ \A r \in returned : r.line.sub <= Len(subs)
    /\ \A p \in Up : \A r \in returned :
        /\ \A k \in DOMAIN proc[p].runs : r.line.sub = proc[p].runs[k].sub =>
              r.sid = proc[p].sid /\ Owned(proc[p], r.line)
        /\ r.sid = proc[p].sid /\ r.line.type = "RunStateChanged" /\ r.line \in Readable(r.sid)
              => Owned(proc[p], r.line)

\* What the files and the processes remember of the runs.
Memory == Torned /\ RunsInStep /\ Given /\ Stories /\ Remembered
\* It is complete while no readable line was dropped.
MemoryKept == dropped = FALSE => Memory

-----------------------------------------------------------------------------
\* The torn line and the header are lines.
LEMMA TornIsALine == TornLine \in Lines /\ Header \in Lines /\ TornLine.type = "torn"
BY DEF TornLine, Header, Line, Lines, Kinds, RunStates

\* Line by line, what a file holds once bytes are written after its end.
LEMMA JoinedShape ==
  ASSUME NEW f \in Seq(Lines), NEW new \in Seq(Lines), NEW end, end # "end" => f # << >>
  PROVE  LET J == Joined(f, end, new) IN
         /\ J \in Seq(Lines)
         /\ (new = << >> \/ end = "end") => J = f \o new
         /\ ~(new = << >> \/ end = "end") =>
              /\ Len(J) = Len(f) + Len(new) - 1 /\ Len(f) > 0 /\ Len(new) > 0
              /\ \A i \in 1..(Len(f) - 1) : J[i] = f[i]
              /\ J[Len(f)] = TornLine
              /\ \A i \in (Len(f) + 1)..Len(J) : J[i] = new[i - Len(f) + 1]
<1>1. CASE new = << >> \/ end = "end"
  <2>1. Joined(f, end, new) = f \o new
    BY <1>1 DEF Joined
  <2>2. f \o new \in Seq(Lines)
    BY ConcatProperties
  <2> QED
    BY <1>1, <2>1, <2>2
<1>2. CASE ~(new = << >> \/ end = "end")
  <2>1. Len(f) \in Nat \ {0} /\ Len(new) \in Nat \ {0}
    BY <1>2, EmptySeq
  <2> DEFINE A == [f EXCEPT ![Len(f)] = TornLine]
             C == Tail(new)
  <2>2. /\ A \in Seq(Lines) /\ Len(A) = Len(f)
        /\ \A i \in 1..Len(f) : A[i] = IF i = Len(f) THEN TornLine ELSE f[i]
    BY <2>1, TornIsALine, ExceptSeq
  <2>3. C \in Seq(Lines) /\ Len(C) = Len(new) - 1 /\ \A i \in 1..Len(C) : C[i] = new[i + 1]
    BY <1>2, HeadTailProperties
  <2>4. Joined(f, end, new) = A \o C
    BY <1>2 DEF Joined
  <2> HIDE DEF A, C
  <2> DEFINE J == A \o C
  <2>5. /\ J \in Seq(Lines) /\ Len(J) = Len(A) + Len(C)
        /\ \A i \in 1..(Len(A) + Len(C)) : J[i] = IF i <= Len(A) THEN A[i] ELSE C[i - Len(A)]
    BY <2>2, <2>3, ConcatProperties
  <2> HIDE DEF J
  <2>6. Len(J) = Len(f) + Len(new) - 1
    BY <2>1, <2>2, <2>3, <2>5
  <2>7. ASSUME NEW i \in 1..(Len(f) - 1) PROVE J[i] = f[i]
    <3>1. i \in 1..Len(f) /\ i # Len(f) /\ i <= Len(A) /\ i \in 1..(Len(A) + Len(C))
      BY <2>1, <2>2, <2>3
    <3>2. J[i] = A[i]
      BY <2>5, <3>1
    <3> QED
      BY <2>2, <3>1, <3>2
  <2>8. J[Len(f)] = TornLine
    BY <2>1, <2>2, <2>3, <2>5
  <2>9. ASSUME NEW i \in (Len(f) + 1)..Len(J) PROVE J[i] = new[i - Len(f) + 1]
    <3>1. J[i] = C[i - Len(f)]
      BY <2>1, <2>2, <2>3, <2>5, <2>6, <2>9
    <3>2. i - Len(f) \in 1..Len(C)
      BY <2>1, <2>3, <2>6, <2>9
    <3> QED
      BY <2>3, <3>1, <3>2
  <2>10. Joined(f, end, new) = J
    BY <2>4 DEF J
  <2> QED
    BY <1>2, <2>1, <2>5, <2>6, <2>7, <2>8, <2>9, <2>10
<1> QED
  BY <1>1, <1>2

\* A list is another one with lines torn or left out.
Thin(f, g) ==
    /\ \A i \in Read(f) : \E k \in Read(g) : f[i] = g[k]
    /\ \A i, j \in Read(f) : i < j => \E k, l \in Read(g) : k < l /\ f[i] = g[k] /\ f[j] = g[l]

\* Joining bytes to a file loses or tears lines and never moves one.
LEMMA JoinedIsThin ==
  ASSUME NEW f \in Seq(Lines), NEW new \in Seq(Lines), NEW end, end # "end" => f # << >>
  PROVE  Thin(Joined(f, end, new), f \o new)
<1> DEFINE J == Joined(f, end, new)
           G == f \o new
           From(i) == IF i < Len(f) THEN i ELSE i + 1
<1>0. G \in Seq(Lines) /\ Len(G) = Len(f) + Len(new)
      /\ \A i \in 1..Len(G) : G[i] = IF i <= Len(f) THEN f[i] ELSE new[i - Len(f)]
  BY ConcatProperties
<1>1. CASE new = << >> \/ end = "end"
  <2>1. J = G
    BY <1>1, JoinedShape
  <2> HIDE DEF J, G
  <2> QED
    BY <2>1 DEF Thin, J, G
<1>2. CASE ~(new = << >> \/ end = "end")
  <2>1. /\ J \in Seq(Lines) /\ Len(J) = Len(f) + Len(new) - 1 /\ Len(f) > 0 /\ Len(new) > 0
        /\ \A i \in 1..(Len(f) - 1) : J[i] = f[i]
        /\ J[Len(f)] = TornLine
        /\ \A i \in (Len(f) + 1)..Len(J) : J[i] = new[i - Len(f) + 1]
    BY <1>2, JoinedShape
  <2> HIDE DEF J, G
  <2>2. ASSUME NEW i \in Read(J) PROVE From(i) \in Read(G) /\ J[i] = G[From(i)] /\ i \in 1..Len(J)
    <3>1. i \in 1..Len(J) /\ J[i].type # "torn"
      BY <2>1 DEF Read
    <3>2. i # Len(f)
      BY <2>1, <3>1, TornIsALine
    <3>3. From(i) \in 1..Len(G)
      BY <1>0, <2>1, <3>1, <3>2
    <3>4. J[i] = G[From(i)]
      <4>1. CASE i < Len(f)
        <5>1. From(i) = i /\ i \in 1..(Len(f) - 1) /\ i \in 1..Len(G) /\ i <= Len(f)
          BY <2>1, <3>1, <3>3, <4>1
        <5>2. J[i] = f[i]
          BY <2>1, <5>1
        <5>3. G[i] = f[i]
          BY <1>0, <5>1
        <5> QED
          BY <5>1, <5>2, <5>3
      <4>2. CASE i > Len(f)
        <5>1. /\ From(i) = i + 1 /\ ~(i + 1 <= Len(f)) /\ (i + 1) - Len(f) = i - Len(f) + 1
              /\ i \in (Len(f) + 1)..Len(J) /\ i + 1 \in 1..Len(G)
          BY <2>1, <3>1, <3>3, <4>2
        <5>2. J[i] = new[i - Len(f) + 1]
          BY <2>1, <5>1
        <5>3. G[i + 1] = new[(i + 1) - Len(f)]
          BY <1>0, <5>1
        <5> QED
          BY <5>1, <5>2, <5>3
      <4> QED
        BY <2>1, <3>1, <3>2, <4>1, <4>2
    <3> QED
      BY <1>0, <3>1, <3>3, <3>4 DEF Read
  <2>3. ASSUME NEW i \in 1..Len(J), NEW j \in 1..Len(J), i < j PROVE From(i) < From(j)
    BY <2>1, <2>3
  <2> HIDE DEF From
  <2>4. Thin(J, G)
    BY <2>2, <2>3 DEF Thin
  <2> QED
    BY <2>4 DEF J, G
<1> QED
  BY <1>1, <1>2

\* What is said here of the lines of a file holds when some are torn or left out.
LEMMA ThinIsAlike ==
  ASSUME NEW f, NEW g, Thin(f, g)
  PROVE  /\ Rising(g) => Rising(f)
         /\ \A n : UpTo(g, n) => UpTo(f, n)
         /\ Apart(g) => Apart(f)
         /\ Settled(g) => Settled(f)
         /\ \A q : Agrees(g, q) => Agrees(f, q)
<1>1. Rising(g) => Rising(f)
  BY DEF Thin, Rising, Numbered
<1>2. \A n : UpTo(g, n) => UpTo(f, n)
  BY DEF Thin, UpTo, Numbered
<1>3. Apart(g) => Apart(f)
  <2> SUFFICES ASSUME Apart(g), NEW i \in Read(f), NEW j \in Read(f),
                      f[i].run # Null, f[i].run = f[j].run
               PROVE  f[i].sub = f[j].sub
    BY DEF Apart
  <2>1. PICK k \in Read(g) : f[i] = g[k]
    BY DEF Thin
  <2>2. PICK l \in Read(g) : f[j] = g[l]
    BY DEF Thin
  <2> QED
    BY <2>1, <2>2 DEF Apart
<1>4. Settled(g) => Settled(f)
  BY DEF Thin, Settled
<1>5. \A q : Agrees(g, q) => Agrees(f, q)
  BY DEF Thin, Agrees
<1> QED
  BY <1>1, <1>2, <1>3, <1>4, <1>5

\* How a file may end.
TailEnds == {"end", "whole", "cut"}

\* A file after a write, and the others.
LEMMA DiskTypes ==
  ASSUME JournalTypes, NEW sid \in Sessions, NEW f \in Seq(Lines), NEW end \in TailEnds,
         end # "end" => f # << >>, OnDisk(sid, f, end)
  PROVE  /\ file' \in [Sessions -> Seq(Lines)] /\ tail' \in [Sessions -> TailEnds]
         /\ file'[sid] = f /\ tail'[sid] = end
         /\ \A s \in Sessions \ {sid} : file'[s] = file[s] /\ tail'[s] = tail[s]
         /\ \A s \in Sessions : tail'[s] # "end" => file'[s] # << >>
<1>1. file' = [file EXCEPT ![sid] = f] /\ tail' = [tail EXCEPT ![sid] = end]
  BY DEF OnDisk
<1>2. file \in [Sessions -> Seq(Lines)] /\ tail \in [Sessions -> TailEnds]
  BY DEF JournalTypes, TailEnds
<1>3. file'[sid] = f /\ tail'[sid] = end
  BY <1>1, <1>2
<1>4. \A s \in Sessions \ {sid} : file'[s] = file[s] /\ tail'[s] = tail[s]
  BY <1>1, <1>2
<1>5. \A s \in Sessions : tail'[s] # "end" => file'[s] # << >>
  BY <1>3, <1>4 DEF JournalTypes
<1> QED
  BY <1>1, <1>2, <1>3, <1>4, <1>5

\* Bytes that reach a file, of lines that were pending and a new one.
LEMMA AppendedType ==
  ASSUME JournalTypes, NEW sid \in Sessions, NEW pend \in Seq(Lines), NEW line \in Lines
  PROVE  LET J == Joined(file[sid], tail[sid], Append(pend, line)) IN
         /\ Append(pend, line) \in Seq(Lines) /\ Append(pend, line) # << >>
         /\ J \in Seq(Lines) /\ J # << >>
<1> DEFINE f == file[sid]
           new == Append(pend, line)
           J == Joined(f, tail[sid], new)
<1>1. f \in Seq(Lines) /\ (tail[sid] # "end" => f # << >>)
  BY DEF JournalTypes
<1>2. new \in Seq(Lines) /\ new # << >> /\ Len(new) = Len(pend) + 1
  BY AppendProperties
<1> HIDE DEF f, new
<1>3. J \in Seq(Lines)
  BY <1>1, <1>2, JoinedShape
<1>4. Len(J) # 0
  <2>1. Len(f) \in Nat /\ Len(pend) \in Nat
    BY <1>1
  <2>2. CASE tail[sid] = "end"
    <3>1. J = f \o new
      BY <1>1, <1>2, <2>2, JoinedShape
    <3>2. Len(J) = Len(f) + Len(new)
      BY <1>1, <1>2, <3>1, ConcatProperties
    <3> QED
      BY <1>2, <2>1, <3>2
  <2>3. CASE tail[sid] # "end"
    <3>1. Len(J) = Len(f) + Len(new) - 1 /\ Len(f) > 0
      BY <1>1, <1>2, <2>3, JoinedShape
    <3> QED
      BY <1>2, <2>1, <3>1
  <2> QED
    BY <2>2, <2>3
<1> QED
  BY <1>2, <1>3, <1>4, EmptySeq DEF f, new

\* A flushed file is a list of lines, the same one when nothing was pending.
LEMMA FlushedType ==
  ASSUME JournalTypes, NEW sid \in Sessions, NEW pend \in Seq(Lines)
  PROVE  LET J == Joined(file[sid], tail[sid], pend) IN
         J \in Seq(Lines) /\ (pend = << >> => J = file[sid])
<1>1. file[sid] \in Seq(Lines) /\ (tail[sid] # "end" => file[sid] # << >>)
  BY DEF JournalTypes
<1>2. pend = << >> => Joined(file[sid], tail[sid], pend) = file[sid]
  BY <1>1, ConcatEmptySeq DEF Joined
<1> QED
  BY <1>1, <1>2, JoinedShape

\* An append keeps the types.
LEMMA PutTypes ==
  ASSUME JournalTypes, NEW p \in Processes, NEW q \in Process, NEW line \in Lines,
         lines' = lines + 1, subs' \in Seq([sid : Sessions, run : Nat]),
         Written(p, q, line) \/ Refused(p, q, line) \/ CutShort(p, q, line)
  PROVE  JournalTypes'
<1>1. /\ q.sid \in Sessions /\ q.pend \in Seq(Lines) /\ q.own \in Seq(Lines)
      /\ lines' \in Nat
  BY DEF Process, JournalTypes
<1> DEFINE new == Append(q.pend, line)
           J == Joined(file[q.sid], tail[q.sid], new)
           T == Joined(file[q.sid], tail[q.sid], Append(q.pend, TornLine))
<1>2. /\ J \in Seq(Lines) /\ J # << >> /\ new \in Seq(Lines)
      /\ T \in Seq(Lines) /\ T # << >>
  BY <1>1, AppendedType, TornIsALine
<1>3. CASE Written(p, q, line)
  <2>1. [q EXCEPT !.own = Append(@, line), !.pend = << >>] \in Process
    <3>1. Append(q.own, line) \in Seq(Lines) /\ << >> \in Seq(Lines)
      BY <1>1, AppendProperties, EmptySeq
    <3> QED
      BY <3>1 DEF Process
  <2>2. proc' \in [Processes -> Process \cup {Null}]
    BY <1>3, <2>1 DEF Written, Keep, JournalTypes
  <2>3. OnDisk(q.sid, J, "end")
    BY <1>3 DEF Written
  <2> HIDE DEF J
  <2>4. /\ file' \in [Sessions -> Seq(Lines)] /\ tail' \in [Sessions -> TailEnds]
        /\ \A s \in Sessions : tail'[s] # "end" => file'[s] # << >>
    BY <1>1, <1>2, <2>3, DiskTypes DEF TailEnds
  <2>5. returned' \subseteq [sid : Sessions, line : Lines] /\ IsFiniteSet(returned')
    <3>1. returned' = returned \cup {[sid |-> q.sid, line |-> line]}
      BY <1>3 DEF Written
    <3>2. [sid |-> q.sid, line |-> line] \in [sid : Sessions, line : Lines]
      BY <1>1
    <3>3. IsFiniteSet(returned) /\ returned \subseteq [sid : Sessions, line : Lines]
      BY DEF JournalTypes
    <3>4. IsFiniteSet(returned')
      BY <3>1, <3>3, FS_AddElement
    <3> QED
      BY <3>1, <3>2, <3>3, <3>4
  <2> QED
    BY <1>1, <1>3, <2>2, <2>4, <2>5 DEF Written, JournalTypes, TailEnds
<1>4. CASE Refused(p, q, line)
  <2>1. [q EXCEPT !.pend = Append(@, line)] \in Process
    BY <1>2 DEF Process
  <2>2. proc' \in [Processes -> Process \cup {Null}]
    BY <1>4, <2>1 DEF Refused, Keep, JournalTypes
  <2>3. fails' \in Nat
    BY <1>4 DEF Refused, JournalTypes
  <2>4. dropped' \in BOOLEAN
    <3>1. dropped' = dropped \/ dropped' = TRUE
      BY <1>4 DEF Refused
    <3> QED
      BY <3>1, Zenon DEF JournalTypes
  <2> QED
    BY <1>1, <1>4, <2>2, <2>3, <2>4 DEF Refused, JournalTypes
<1>5. CASE CutShort(p, q, line)
  <2>1. proc' \in [Processes -> Process \cup {Null}]
    BY <1>5 DEF CutShort, Keep, JournalTypes
  <2>2. crashes' \in Nat
    BY <1>5 DEF CutShort, JournalTypes
  <2>5. dropped' \in BOOLEAN
    <3>1. dropped' = dropped \/ dropped' = TRUE
      BY <1>5 DEF CutShort
    <3> QED
      BY <3>1, Zenon DEF JournalTypes
  <2>3. OnDisk(q.sid, J, "whole") \/ OnDisk(q.sid, T, "cut")
    BY <1>5 DEF CutShort
  <2> HIDE DEF J, T
  <2>4. /\ file' \in [Sessions -> Seq(Lines)] /\ tail' \in [Sessions -> TailEnds]
        /\ \A s \in Sessions : tail'[s] # "end" => file'[s] # << >>
    BY <1>1, <1>2, <2>3, DiskTypes DEF TailEnds
  <2> QED
    BY <1>1, <1>5, <2>1, <2>2, <2>4, <2>5 DEF CutShort, JournalTypes, TailEnds
<1> QED
  BY <1>3, <1>4, <1>5

\* No number is above the lines attempted.
Bounded ==
    /\ \A s \in Sessions : UpTo(file[s], lines)
    /\ \A p \in Up : UpTo(proc[p].pend, lines) /\ proc[p].seq <= lines

\* A bounded set of numbers has its greatest element.
LEMMA HasMax ==
  ASSUME NEW S \in SUBSET Nat, NEW n \in Nat, S # {}, \A s \in S : s <= n
  PROVE  Max(S) \in S /\ \A s \in S : s <= Max(S)
<1> DEFINE Bounds == {k \in Nat : \A s \in S : s <= k}
<1>1. Bounds \subseteq Nat /\ Bounds # {}
  OBVIOUS
<1>2. PICK m \in Bounds : \A k \in Bounds : ~(<<k, m>> \in OpToRel(<, Nat))
  BY <1>1, WFMin, NatLessThanWellFounded
<1>3. m \in Nat /\ \A s \in S : s <= m
  BY <1>2
<1>4. m \in S
  <2> SUFFICES ASSUME m \notin S PROVE FALSE
    OBVIOUS
  <2>1. \A s \in S : s <= m - 1
    BY <1>3
  <2>2. PICK s \in S : TRUE
    OBVIOUS
  <2>3. m - 1 \in Nat
    BY <1>3, <2>1, <2>2
  <2>4. m - 1 \in Bounds
    BY <2>1, <2>3
  <2>5. <<m - 1, m>> \in OpToRel(<, Nat)
    BY <1>3, <2>3 DEF OpToRel
  <2> QED
    BY <1>2, <2>4, <2>5
<1>5. \E x \in S : \A y \in S : x >= y
  BY <1>3, <1>4
<1> DEFINE P(x) == x \in S /\ \A y \in S : x >= y
<1>6. P(CHOOSE x \in S : \A y \in S : x >= y)
  BY <1>5
<1> QED
  BY <1>6 DEF Max

\* The lines that can be read are finitely many and are not torn.
LEMMA ReadType ==
  ASSUME NEW f \in Seq(Lines)
  PROVE  /\ Read(f) \subseteq 1..Len(f) /\ IsFiniteSet(Read(f)) /\ Len(f) \in Nat
         /\ \A i \in 1..Len(f) : f[i] \in Lines
         /\ \A i \in Read(f) : f[i].type # "torn"
         /\ \A i \in 1..Len(f) : f[i].type # "torn" => i \in Read(f)
<1>1. Len(f) \in Nat /\ DOMAIN f = 1..Len(f) /\ \A i \in 1..Len(f) : f[i] \in Lines
  OBVIOUS
<1>2. IsFiniteSet(1..Len(f))
  BY <1>1, FS_Interval
<1>3. Read(f) \in SUBSET (1..Len(f))
  BY <1>1 DEF Read
<1>4. IsFiniteSet(Read(f))
  BY <1>2, <1>3, FS_Subset
<1> QED
  BY <1>1, <1>3, <1>4 DEF Read

\* The run ids that can be read are finitely many numbers.
LEMMA CountType ==
  ASSUME NEW f \in Seq(Lines)
  PROVE  IsFiniteSet(Ids(f)) /\ RunsSeen(f) \in Nat /\ Ids(f) \subseteq Nat
<1> DEFINE R == Read(f)
           T == {f[i].run : i \in R}
           g == [i \in R |-> f[i].run]
<1>1. IsFiniteSet(R)
  BY ReadType
<1>2. g \in Surjection(R, T)
  BY DEF Surjection
<1>3. IsFiniteSet(T)
  BY <1>1, <1>2, FS_Surjection
<1>4. Ids(f) \in SUBSET T
  BY DEF Ids
<1>5. IsFiniteSet(Ids(f))
  BY <1>3, <1>4, FS_Subset
<1>6. Ids(f) \subseteq Nat
  BY ReadType DEF Ids, Lines
<1> QED
  BY <1>5, <1>6, FS_CardinalityType DEF RunsSeen

\* The number a process goes on from is above no bound on its lines, and below none of them.
LEMMA HighestType ==
  ASSUME NEW f \in Seq(Lines), NEW n \in Nat, UpTo(f, n)
  PROVE  Highest(f) \in Nat /\ UpTo(f, Highest(f)) /\ Highest(f) <= n
<1> DEFINE S == {0} \cup {f[i].seq : i \in Numbered(f)}
<1>1. \A i \in Numbered(f) : f[i].seq \in Nat /\ f[i].seq <= n
  BY ReadType DEF Numbered, UpTo, Lines
<1>2. S \in SUBSET Nat /\ S # {} /\ \A s \in S : s <= n
  BY <1>1
<1> HIDE DEF S
<1>3. Max(S) \in S /\ \A s \in S : s <= Max(S)
  BY <1>2, HasMax
<1>4. \A i \in Numbered(f) : f[i].seq \in S
  BY DEF S
<1> QED
  BY <1>2, <1>3, <1>4 DEF Highest, UpTo, S

\* The kinds of list that the steps build.
LEMMA ConcatRead ==
  ASSUME NEW f \in Seq(Lines), NEW g \in Seq(Lines)
  PROVE  LET h == f \o g IN
         /\ h \in Seq(Lines) /\ Len(h) = Len(f) + Len(g)
         /\ \A i \in Read(f) : i \in Read(h) /\ h[i] = f[i]
         /\ \A i \in Read(g) : i + Len(f) \in Read(h) /\ h[i + Len(f)] = g[i]
         /\ \A i \in Read(h) : \/ i \in Read(f) /\ h[i] = f[i]
                               \/ i > Len(f) /\ i - Len(f) \in Read(g) /\ h[i] = g[i - Len(f)]
<1> DEFINE h == f \o g
<1>1. /\ h \in Seq(Lines) /\ Len(h) = Len(f) + Len(g)
      /\ \A i \in 1 .. Len(f) + Len(g) : h[i] = IF i <= Len(f) THEN f[i] ELSE g[i - Len(f)]
  BY ConcatProperties
<1> HIDE DEF h
<1>2. Len(f) \in Nat /\ Len(g) \in Nat
  OBVIOUS
<1>3. DOMAIN f = 1..Len(f) /\ DOMAIN g = 1..Len(g) /\ DOMAIN h = 1..Len(h)
  BY <1>1
<1>4. ASSUME NEW i \in Read(f) PROVE i \in Read(h) /\ h[i] = f[i]
  <2>1. i \in 1..Len(f) /\ f[i].type # "torn"
    BY <1>3 DEF Read
  <2>2. i \in 1..(Len(f) + Len(g)) /\ i <= Len(f)
    BY <1>2, <2>1
  <2> QED
    BY <1>1, <1>3, <2>1, <2>2 DEF Read
<1>5. ASSUME NEW i \in Read(g) PROVE i + Len(f) \in Read(h) /\ h[i + Len(f)] = g[i]
  <2>1. i \in 1..Len(g) /\ g[i].type # "torn"
    BY <1>3 DEF Read
  <2>2. /\ i + Len(f) \in 1..(Len(f) + Len(g)) /\ ~(i + Len(f) <= Len(f))
        /\ i + Len(f) - Len(f) = i
    BY <1>2, <2>1
  <2> QED
    BY <1>1, <1>3, <2>1, <2>2 DEF Read
<1>6. ASSUME NEW i \in Read(h)
      PROVE  \/ i \in Read(f) /\ h[i] = f[i]
             \/ i > Len(f) /\ i - Len(f) \in Read(g) /\ h[i] = g[i - Len(f)]
  <2>1. i \in 1..(Len(f) + Len(g)) /\ h[i].type # "torn"
    BY <1>1, <1>3 DEF Read
  <2>2. CASE i <= Len(f)
    <3>1. i \in 1..Len(f) /\ h[i] = f[i]
      BY <1>1, <1>2, <2>1, <2>2
    <3> QED
      BY <1>3, <2>1, <3>1 DEF Read
  <2>3. CASE i > Len(f)
    <3>1. i - Len(f) \in 1..Len(g) /\ h[i] = g[i - Len(f)]
      BY <1>1, <1>2, <2>1, <2>3
    <3> QED
      BY <1>3, <2>1, <2>3, <3>1 DEF Read
  <2> QED
    BY <1>2, <2>1, <2>2, <2>3
<1> QED
  BY <1>1, <1>4, <1>5, <1>6 DEF h

\* A list with one line more.
Longer(h, f, line) == h = Append(f, line)
\* What can be read once a line is appended.
LEMMA AppendRead ==
  ASSUME NEW f \in Seq(Lines), NEW line \in Lines, NEW h, Longer(h, f, line)
  PROVE  /\ h \in Seq(Lines) /\ Len(h) = Len(f) + 1 /\ Len(f) \in Nat /\ h[Len(h)] = line
         /\ \A i \in Read(f) : i \in Read(h) /\ h[i] = f[i] /\ i < Len(h) /\ i \in Nat
         /\ line.type # "torn" => Len(h) \in Read(h)
         /\ \A i \in Read(h) : \/ i \in Read(f) /\ h[i] = f[i] /\ i < Len(h)
                               \/ i = Len(h) /\ h[i] = line /\ line.type # "torn"
<1>1. /\ h \in Seq(Lines) /\ Len(h) = Len(f) + 1 /\ h[Len(f) + 1] = line
      /\ \A i \in 1 .. Len(f) : h[i] = f[i]
  BY AppendProperties DEF Longer
<1>2. Len(f) \in Nat /\ DOMAIN f = 1..Len(f) /\ DOMAIN h = 1..Len(h)
  BY <1>1
<1>3. \A i \in 1..Len(h) : i \in 1..Len(f) \/ i = Len(h)
  BY <1>1, <1>2
<1>4. \A i \in 1..Len(f) : i \in 1..Len(h) /\ i < Len(h) /\ i \in Nat
  BY <1>1, <1>2
<1>5. Len(h) \in 1..Len(h)
  BY <1>1, <1>2
<1> QED
  BY <1>1, <1>2, <1>3, <1>4, <1>5 DEF Read

\* Thinning twice is thinning.
LEMMA ThinTwice == ASSUME NEW f, NEW g, NEW h, Thin(f, g), Thin(g, h) PROVE Thin(f, h)
<1>1. ASSUME NEW i \in Read(f) PROVE \E k \in Read(h) : f[i] = h[k]
  BY DEF Thin
<1>2. ASSUME NEW i \in Read(f), NEW j \in Read(f), i < j
      PROVE  \E k, l \in Read(h) : k < l /\ f[i] = h[k] /\ f[j] = h[l]
  <2>1. PICK k \in Read(g), l \in Read(g) : k < l /\ f[i] = g[k] /\ f[j] = g[l]
    BY <1>2 DEF Thin
  <2> QED
    BY <2>1 DEF Thin
<1> QED
  BY <1>1, <1>2 DEF Thin

\* A file, its lines with others after them, and one line more or torn.
LEMMA ThinParts ==
  ASSUME NEW f \in Seq(Lines), NEW g \in Seq(Lines), NEW line \in Lines
  PROVE  /\ Thin(f, f) /\ Thin(f, f \o g) /\ Thin(f, Append(f, line))
         /\ Thin(Append(f, TornLine), f)
         /\ f \o Append(g, line) = Append(f \o g, line)
<1>1. Thin(f, f)
  BY DEF Thin
<1>2. Thin(f, f \o g)
  BY ConcatRead DEF Thin
<1>3. ASSUME NEW h, Longer(h, f, line) PROVE Thin(f, h)
  <2>1. \A i \in Read(f) : i \in Read(h) /\ h[i] = f[i]
    BY <1>3, AppendRead
  <2> QED
    BY <2>1 DEF Thin
<1>4. ASSUME NEW h, Longer(h, f, TornLine) PROVE Thin(h, f)
  <2>1. TornLine \in Lines /\ TornLine.type = "torn"
    BY TornIsALine
  <2>2. \A i \in Read(h) : i \in Read(f) /\ h[i] = f[i]
    BY <1>4, <2>1, AppendRead
  <2> QED
    BY <2>2 DEF Thin
<1>5. f \o Append(g, line) = Append(f \o g, line)
  <2>1. <<line>> \in Seq(Lines) /\ f \o g \in Seq(Lines)
    BY ConcatProperties
  <2>2. Append(g, line) = g \o <<line>> /\ Append(f \o g, line) = (f \o g) \o <<line>>
    BY <2>1, AppendIsConcat
  <2> QED
    BY <2>1, <2>2, ConcatAssociative
<1> QED
  BY <1>1, <1>2, <1>3, <1>4, <1>5 DEF Longer

\* Whatever becomes of an append, its file and what its process holds of it are the lines
\* that were there, the pending ones and the new one, thinned.
LEMMA PutReaches ==
  ASSUME JournalTypes, NEW p \in Processes, NEW q \in Process, NEW line \in Lines,
         Written(p, q, line) \/ Refused(p, q, line) \/ CutShort(p, q, line)
  PROVE  LET G == Append(file[q.sid] \o q.pend, line) IN
         /\ G \in Seq(Lines) /\ Thin(file'[q.sid], G)
         /\ \A s \in Sessions \ {q.sid} : file'[s] = file[s] /\ tail'[s] = tail[s]
         /\ \A r \in Processes \ {p} : proc'[r] = proc[r]
         /\ proc'[p] # Null =>
              /\ proc'[p].sid = q.sid /\ proc'[p].seq = q.seq
              /\ proc'[p].count = q.count /\ proc'[p].runs = q.runs
              /\ proc'[p].own \in {q.own, Append(q.own, line)}
              /\ proc'[p].pend \in {<< >>, q.pend, Append(q.pend, line)}
              /\ Thin(file'[q.sid] \o proc'[p].pend, G)
<1> DEFINE f == file[q.sid]
           new == Append(q.pend, line)
           torn == Append(q.pend, TornLine)
           J == Joined(f, tail[q.sid], new)
           T == Joined(f, tail[q.sid], torn)
           G == Append(f \o q.pend, line)
<1>1. /\ q.sid \in Sessions /\ q.pend \in Seq(Lines) /\ f \in Seq(Lines)
      /\ tail[q.sid] \in TailEnds /\ (tail[q.sid] # "end" => f # << >>)
  BY DEF Process, JournalTypes, TailEnds
<1>2. /\ J \in Seq(Lines) /\ J # << >> /\ new \in Seq(Lines)
      /\ T \in Seq(Lines) /\ T # << >> /\ torn \in Seq(Lines)
  BY <1>1, AppendedType, TornIsALine
<1>3. G = f \o new /\ G \in Seq(Lines) /\ f \o torn = Append(f \o q.pend, TornLine)
      /\ f \o q.pend \in Seq(Lines)
  <2>1. f \o q.pend \in Seq(Lines)
    BY <1>1, ConcatProperties
  <2> QED
    BY <1>1, <2>1, ThinParts, AppendProperties, TornIsALine
<1>4. Thin(J, G)
  BY <1>1, <1>2, <1>3, JoinedIsThin
<1>5. Thin(T, G)
  <2>1. Thin(T, f \o torn)
    BY <1>1, <1>2, JoinedIsThin
  <2>2. Thin(f \o torn, f \o q.pend) /\ Thin(f \o q.pend, G)
    BY <1>3, ThinParts, TornIsALine
  <2> HIDE DEF T, torn, G
  <2> QED
    BY <2>1, <2>2, ThinTwice
<1>6. Thin(f, G) /\ Thin(f \o q.pend, G) /\ Thin(f \o new, G)
  <2>1. Thin(f \o q.pend, G) /\ Thin(f, f \o q.pend)
    BY <1>1, <1>3, ThinParts
  <2>2. Thin(f \o new, G)
    BY <1>3, ThinParts
  <2> HIDE DEF f, G
  <2> QED
    BY <2>1, <2>2, ThinTwice
<1>7. proc \in [Processes -> Process \cup {Null}]
  BY DEF JournalTypes
<1>8. CASE Written(p, q, line)
  <2>1. OnDisk(q.sid, J, "end") /\ Keep(p, [q EXCEPT !.own = Append(@, line), !.pend = << >>])
    BY <1>8 DEF Written
  <2> HIDE DEF J
  <2>2. file'[q.sid] = J /\ \A s \in Sessions \ {q.sid} : file'[s] = file[s] /\ tail'[s] = tail[s]
    BY <1>1, <1>2, <2>1, DiskTypes DEF TailEnds
  <2>3. /\ proc'[p] = [q EXCEPT !.own = Append(@, line), !.pend = << >>]
        /\ \A r \in Processes \ {p} : proc'[r] = proc[r]
    BY <1>7, <2>1 DEF Keep
  <2>4. /\ proc'[p].sid = q.sid /\ proc'[p].seq = q.seq
        /\ proc'[p].count = q.count /\ proc'[p].runs = q.runs
        /\ proc'[p].own = Append(q.own, line) /\ proc'[p].pend = << >>
    BY <2>3 DEF Process
  <2>5. J \o << >> = J
    BY <1>2, ConcatEmptySeq
  <2> QED
    BY <1>3, <1>4, <2>2, <2>3, <2>4, <2>5
<1>9. CASE Refused(p, q, line)
  <2>1. file' = file /\ tail' = tail
    BY <1>9 DEF Refused
  <2>2. CASE Keep(p, [q EXCEPT !.pend = Append(@, line)])
    <3>1. /\ proc'[p] = [q EXCEPT !.pend = Append(@, line)]
          /\ \A r \in Processes \ {p} : proc'[r] = proc[r]
      BY <1>7, <2>2 DEF Keep
    <3>2. /\ proc'[p].sid = q.sid /\ proc'[p].seq = q.seq
          /\ proc'[p].count = q.count /\ proc'[p].runs = q.runs
          /\ proc'[p].own = q.own /\ proc'[p].pend = new
      BY <3>1 DEF Process
    <3> QED
      BY <1>3, <1>6, <2>1, <3>1, <3>2
  <2>3. CASE Keep(p, q)
    <3>1. proc'[p] = q /\ \A r \in Processes \ {p} : proc'[r] = proc[r]
      BY <1>7, <2>3 DEF Keep
    <3> QED
      BY <1>3, <1>6, <2>1, <3>1
  <2> QED
    BY <1>9, <2>2, <2>3 DEF Refused
<1>10. CASE CutShort(p, q, line)
  <2>1. OnDisk(q.sid, J, "whole") \/ OnDisk(q.sid, T, "cut")
    BY <1>10 DEF CutShort
  <2> HIDE DEF J, T
  <2>2. /\ file'[q.sid] \in {J, T}
        /\ \A s \in Sessions \ {q.sid} : file'[s] = file[s] /\ tail'[s] = tail[s]
    BY <1>1, <1>2, <2>1, DiskTypes DEF TailEnds
  <2>3. proc'[p] = Null /\ \A r \in Processes \ {p} : proc'[r] = proc[r]
    BY <1>7, <1>10 DEF CutShort, Keep
  <2> QED
    BY <1>3, <1>4, <1>5, <2>2, <2>3
<1> QED
  BY <1>8, <1>9, <1>10

\* What has been opened has its header; and no number is above the lines attempted.
Begun == \A p \in Up : file[proc[p].sid] # << >>
\* The types with the bound on the numbers.
FileTypes == JournalTypes /\ Bounded /\ Begun

\* A run id, its submission and its state, as a process keeps them.
RunEntry == [run : Nat, sub : Nat, state : RunStates \cup {"new"}]

\* What the three appends of a process that is up have in common.
Appends(p, q, line) ==
    /\ proc[p] # Null /\ proc[p] \in Process /\ lines' = lines + 1
    /\ q.sid = proc[p].sid /\ q.own = proc[p].own /\ q.pend = proc[p].pend
    /\ \/ q.seq = proc[p].seq + 1 /\ line.seq = q.seq
       \/ q.seq = proc[p].seq /\ line.seq = Null
    /\ line.type # "torn"
    /\ subs' \in Seq([sid : Sessions, run : Nat])
    /\ Written(p, q, line) \/ Refused(p, q, line) \/ CutShort(p, q, line)

\* One of them, with the process and the line as they are after it.
Queues(p, q, line) ==
    LET new == [run |-> proc[p].count + 1, sub |-> Len(subs) + 1, state |-> "new"] IN
    /\ ~Submitting(p) /\ subs' = Append(subs, [sid |-> proc[p].sid, run |-> new.run])
    /\ q.count = new.run /\ q.runs = Append(proc[p].runs, new)
    /\ line.type = "RunQueued" /\ line.run = new.run /\ line.sub = new.sub /\ line.state = Null
Tells(p, q, line) ==
    \E i \in DOMAIN proc[p].runs : \E state \in After(proc[p].runs[i].state) :
        /\ Submitting(p) => state = "queued"
        /\ subs' = subs /\ q.count = proc[p].count
        /\ q.runs = [proc[p].runs EXCEPT ![i].state = state]
        /\ line.type = "RunStateChanged" /\ line.run = proc[p].runs[i].run
        /\ line.sub = proc[p].runs[i].sub /\ line.state = state
Refuses(p, q, line) ==
    /\ ~Submitting(p) /\ subs' = subs /\ q = proc[p]
    /\ line.type = "RunRefused" /\ line.run = Null /\ line.sub = 0 /\ line.state = Null

\* What may follow a state.
LEMMA AfterType ==
  ASSUME NEW s, NEW t \in After(s)
  PROVE  /\ t \in RunStates
         /\ s \in Terminal \cup {"parked"} => t = "parked"
         /\ t # "new" /\ (s = "new" => t = "queued") /\ (t = "queued" => s = "new")
  BY DEF After, RunStates, Terminal

\* A submission is an append of a RunQueued line.
LEMMA SubmitAppends ==
  ASSUME JournalTypes, NEW p \in Processes, Submit(p)
  PROVE  \E q \in Process, line \in Lines : Appends(p, q, line) /\ Queues(p, q, line)
<1> DEFINE pq == proc[p]
           id == pq.count + 1
           sub == Len(subs) + 1
           new == [run |-> id, sub |-> sub, state |-> "new"]
           q == [pq EXCEPT !.count = id, !.seq = @ + 1, !.runs = Append(@, new)]
           line == Line("RunQueued", pq.seq + 1, id, sub, Null)
<1>1. proc[p] # Null /\ pq \in Process
  BY DEF Submit, JournalTypes
<1>2. /\ pq.sid \in Sessions /\ pq.own \in Seq(Lines) /\ pq.pend \in Seq(Lines)
      /\ pq.seq \in Nat /\ pq.count \in Nat /\ pq.runs \in Seq(RunEntry)
  BY <1>1 DEF Process, RunEntry
<1>3. subs \in Seq([sid : Sessions, run : Nat]) /\ sub \in Nat /\ id \in Nat
  BY <1>2 DEF JournalTypes
<1>4. new \in RunEntry /\ Append(pq.runs, new) \in Seq(RunEntry)
  BY <1>2, <1>3 DEF RunEntry
<1>5. /\ q \in Process /\ q.sid = pq.sid /\ q.own = pq.own /\ q.pend = pq.pend
      /\ q.seq = pq.seq + 1 /\ q.count = id /\ q.runs = Append(pq.runs, new)
  <2> DEFINE runs == Append(pq.runs, new)
             seq == pq.seq + 1
  <2>1. runs \in Seq(RunEntry) /\ id \in Nat /\ seq \in Nat
    BY <1>2, <1>3, <1>4
  <2>2. q = [pq EXCEPT !.count = id, !.seq = seq, !.runs = runs]
    BY <1>1 DEF Process
  <2> HIDE DEF q, id, runs, seq, new
  <2>3. q = [sid |-> pq.sid, own |-> pq.own, pend |-> pq.pend, seq |-> seq, count |-> id,
             runs |-> runs]
    BY <1>1, <2>2 DEF Process
  <2>4. q \in Process
    BY <1>2, <2>1, <2>3 DEF Process, RunEntry
  <2> QED
    BY <2>3, <2>4 DEF seq, runs
<1>6. line \in Lines /\ line.type = "RunQueued" /\ line.seq = pq.seq + 1 /\ line.run = id
      /\ line.sub = sub /\ line.state = Null
  BY <1>2, <1>3 DEF Line, Lines, Kinds
<1>7. subs' = Append(subs, [sid |-> q.sid, run |-> id])
      /\ Put(p, q, line) /\ ~Submitting(p)
  BY <1>5 DEF Submit
<1>8. subs' \in Seq([sid : Sessions, run : Nat])
  BY <1>2, <1>3, <1>5, <1>7
<1>9. new.run = id /\ new.sub = sub
  OBVIOUS
<1> HIDE DEF q, line, new, id, sub
<1>10. Appends(p, q, line)
  BY <1>1, <1>5, <1>6, <1>7, <1>8 DEF Appends, Put
<1>11. Queues(p, q, line)
  BY <1>5, <1>6, <1>7, <1>9 DEF Queues, new, id, sub
<1> QED
  BY <1>5, <1>6, <1>10, <1>11

\* A told state is an append of a RunStateChanged line.
LEMMA TellAppends ==
  ASSUME JournalTypes, NEW p \in Processes, TellState(p)
  PROVE  \E q \in Process, line \in Lines : Appends(p, q, line) /\ Tells(p, q, line)
<1> DEFINE pq == proc[p]
<1>1. proc[p] # Null /\ pq \in Process
  BY DEF TellState, JournalTypes
<1>2. /\ pq.sid \in Sessions /\ pq.own \in Seq(Lines) /\ pq.pend \in Seq(Lines)
      /\ pq.seq \in Nat /\ pq.count \in Nat /\ pq.runs \in Seq(RunEntry)
  BY <1>1 DEF Process, RunEntry
<1>0. PICK i \in DOMAIN pq.runs : \E state \in After(pq.runs[i].state) :
        /\ Submitting(p) => state = "queued"
        /\ Put(p, [pq EXCEPT !.seq = @ + 1, !.runs[i].state = state],
               Line("RunStateChanged", pq.seq + 1, pq.runs[i].run, pq.runs[i].sub, state))
  BY DEF TellState
<1>3. PICK state \in After(pq.runs[i].state) :
        /\ Submitting(p) => state = "queued"
        /\ Put(p, [pq EXCEPT !.seq = @ + 1, !.runs[i].state = state],
               Line("RunStateChanged", pq.seq + 1, pq.runs[i].run, pq.runs[i].sub, state))
  BY <1>0
<1> DEFINE q == [pq EXCEPT !.seq = @ + 1, !.runs[i].state = state]
           line == Line("RunStateChanged", pq.seq + 1, pq.runs[i].run, pq.runs[i].sub, state)
<1>4. state \in RunStates
  BY AfterType
<1>5. pq.runs[i] \in RunEntry
  BY <1>2
<1>6. [pq.runs EXCEPT ![i].state = state] \in Seq(RunEntry)
  <2>1. [pq.runs[i] EXCEPT !.state = state] \in RunEntry
    BY <1>4, <1>5 DEF RunEntry
  <2>2. [pq.runs EXCEPT ![i] = [pq.runs[i] EXCEPT !.state = state]] \in Seq(RunEntry)
    BY <1>2, <2>1, ExceptSeq
  <2> QED
    BY <2>2
<1>7. /\ q \in Process /\ q.sid = pq.sid /\ q.own = pq.own /\ q.pend = pq.pend
      /\ q.seq = pq.seq + 1 /\ q.count = pq.count
      /\ q.runs = [pq.runs EXCEPT ![i].state = state]
  <2> DEFINE runs == [pq.runs EXCEPT ![i].state = state]
             seq == pq.seq + 1
  <2>1. runs \in Seq(RunEntry) /\ seq \in Nat
    BY <1>2, <1>6
  <2>2. q = [pq EXCEPT !.seq = seq, !.runs = runs]
    BY <1>1 DEF Process
  <2> HIDE DEF q, runs, seq
  <2>3. q = [sid |-> pq.sid, own |-> pq.own, pend |-> pq.pend, seq |-> seq,
             count |-> pq.count, runs |-> runs]
    BY <1>1, <2>2 DEF Process
  <2>4. q \in Process
    BY <1>2, <2>1, <2>3 DEF Process, RunEntry
  <2> QED
    BY <2>3, <2>4 DEF seq, runs
<1>8. line \in Lines /\ line.type = "RunStateChanged" /\ line.seq = pq.seq + 1
      /\ line.run = pq.runs[i].run /\ line.sub = pq.runs[i].sub /\ line.state = state
  <2> DEFINE r == pq.runs[i].run
             b == pq.runs[i].sub
             n == pq.seq + 1
  <2>1. r \in Nat /\ b \in Nat /\ n \in Nat
    BY <1>2, <1>5 DEF RunEntry
  <2>2. line = [type |-> "RunStateChanged", seq |-> n, run |-> r, sub |-> b, state |-> state]
    BY DEF Line
  <2> HIDE DEF r, b, n, line
  <2>3. line \in Lines
    BY <1>4, <2>1, <2>2 DEF Lines, Kinds
  <2> QED
    BY <2>2, <2>3 DEF r, b, n
<1>9. subs' = subs /\ subs \in Seq([sid : Sessions, run : Nat])
  BY DEF TellState, JournalTypes
<1>10. Put(p, q, line)
  BY <1>3
<1> HIDE DEF q, line
<1>11. Appends(p, q, line)
  BY <1>1, <1>7, <1>8, <1>9, <1>10 DEF Appends, Put
<1>12. Tells(p, q, line)
  BY <1>3, <1>7, <1>8, <1>9 DEF Tells
<1> QED
  BY <1>7, <1>8, <1>11, <1>12

\* A refused submission is an append without a number.
LEMMA RefusedAppends ==
  ASSUME JournalTypes, NEW p \in Processes, RunRefused(p)
  PROVE  \E q \in Process, line \in Lines : Appends(p, q, line) /\ Refuses(p, q, line)
<1> DEFINE line == Line("RunRefused", Null, Null, 0, Null)
<1>1. proc[p] # Null /\ proc[p] \in Process /\ ~Submitting(p) /\ subs' = subs
      /\ Put(p, proc[p], line) /\ subs \in Seq([sid : Sessions, run : Nat])
  BY DEF RunRefused, JournalTypes
<1>2. line \in Lines /\ line.type = "RunRefused" /\ line.seq = Null /\ line.run = Null
      /\ line.sub = 0 /\ line.state = Null
  BY DEF Line, Lines, Kinds
<1> HIDE DEF line
<1> QED
  BY <1>1, <1>2 DEF Appends, Refuses, Put

\* How the numbers of a file grow with its lines.
LEMMA UpToParts ==
  ASSUME NEW f \in Seq(Lines), NEW m \in Nat, UpTo(f, m)
  PROVE  /\ \A n \in Nat : m <= n => UpTo(f, n)
         /\ \A g \in Seq(Lines) : UpTo(g, m) => UpTo(f \o g, m)
         /\ \A line \in Lines : line.seq = Null \/ line.seq <= m => UpTo(Append(f, line), m)
         /\ UpTo(<< >>, m) /\ Rising(<< >>)
         /\ \A line \in Lines : Rising(f) /\ (line.seq = Null \/ line.seq > m)
              => Rising(Append(f, line))
<1>0. \A i \in Numbered(f) : i \in Read(f) /\ f[i].seq \in Nat /\ f[i].seq # Null /\ i \in Nat
  <2> SUFFICES ASSUME NEW i \in Numbered(f)
               PROVE  i \in Read(f) /\ f[i].seq \in Nat /\ f[i].seq # Null /\ i \in Nat
    OBVIOUS
  <2>1. i \in Read(f) /\ f[i].seq # Null
    BY DEF Numbered
  <2>2. i \in 1..Len(f) /\ Len(f) \in Nat /\ f[i] \in Lines
    BY <2>1, ReadType
  <2> QED
    BY <2>1, <2>2 DEF Lines
<1>1. ASSUME NEW n \in Nat, m <= n PROVE UpTo(f, n)
  BY <1>0, <1>1 DEF UpTo
<1>2. ASSUME NEW g \in Seq(Lines), UpTo(g, m) PROVE UpTo(f \o g, m)
  <2> DEFINE h == f \o g
  <2>1. \A i \in Read(h) : \/ i \in Read(f) /\ h[i] = f[i]
                           \/ i > Len(f) /\ i - Len(f) \in Read(g) /\ h[i] = g[i - Len(f)]
    BY ConcatRead
  <2> HIDE DEF h
  <2>2. UpTo(h, m)
    BY <1>2, <2>1 DEF UpTo, Numbered
  <2> QED
    BY <2>2 DEF h
<1>3. ASSUME NEW line \in Lines, NEW h, Longer(h, f, line)
      PROVE  \A i \in Read(h) : \/ i \in Read(f) /\ h[i] = f[i] /\ i < Len(h)
                                \/ i = Len(h) /\ h[i] = line
  BY <1>3, AppendRead
<1>4. ASSUME NEW line \in Lines, line.seq = Null \/ line.seq <= m PROVE UpTo(Append(f, line), m)
  <2>0. PICK h : h = Append(f, line)
    OBVIOUS
  <2>1. /\ h = Append(f, line)
        /\ \A i \in Read(h) : \/ i \in Read(f) /\ h[i] = f[i] /\ i < Len(h)
                              \/ i = Len(h) /\ h[i] = line
    BY <1>3, <2>0 DEF Longer
  <2>2. UpTo(h, m)
    BY <1>4, <2>1 DEF UpTo, Numbered
  <2> QED
    BY <2>1, <2>2
<1>5. UpTo(<< >>, m) /\ Rising(<< >>)
  BY DEF UpTo, Rising, Numbered, Read
<1>6. ASSUME NEW line \in Lines, Rising(f), line.seq = Null \/ line.seq > m
      PROVE  Rising(Append(f, line))
  <2>0. PICK h : h = Append(f, line)
    OBVIOUS
  <2>1. /\ h = Append(f, line)
        /\ \A i \in Read(h) : \/ i \in Read(f) /\ h[i] = f[i] /\ i < Len(h)
                              \/ i = Len(h) /\ h[i] = line
    BY <1>3, <2>0 DEF Longer
  <2>2. ASSUME NEW i \in Numbered(h), NEW j \in Numbered(h), i < j PROVE h[i].seq < h[j].seq
    <3>1. i \in Numbered(f) /\ h[i] = f[i]
      <4>1. i \in Read(h) /\ j \in Read(h)
        BY DEF Numbered
      <4>2. Len(h) \in Nat /\ i <= Len(h) /\ j <= Len(h) /\ i \in Nat /\ j \in Nat
        <5>1. h \in Seq(Lines)
          BY <2>1, AppendProperties
        <5> QED
          BY <4>1, <5>1, ReadType
      <4>3. i # Len(h)
        BY <2>2, <4>2
      <4>4. i \in Read(f) /\ h[i] = f[i]
        BY <2>1, <4>1, <4>3
      <4> QED
        BY <4>4 DEF Numbered
    <3>2. f[i].seq \in Nat /\ f[i].seq <= m
      BY <1>0, <3>1 DEF UpTo
    <3>3. CASE j = Len(h) /\ h[j] = line
      BY <1>6, <3>1, <3>2, <3>3 DEF Numbered, Lines
    <3>4. CASE j \in Read(f) /\ h[j] = f[j]
      BY <1>6, <2>2, <3>1, <3>4 DEF Numbered, Rising
    <3> QED
      BY <2>1, <3>3, <3>4 DEF Numbered
  <2>3. Rising(h)
    BY <2>2 DEF Rising
  <2> QED
    BY <2>1, <2>3
<1> QED
  BY <1>1, <1>2, <1>4, <1>5, <1>6

\* No append numbers a line above the lines attempted.
LEMMA AppendBounded ==
  ASSUME FileTypes, NEW p \in Processes, NEW q \in Process, NEW line \in Lines,
         Written(p, q, line) \/ Refused(p, q, line) \/ CutShort(p, q, line),
         lines' = lines + 1, q.seq <= lines + 1, line.seq = Null \/ line.seq <= lines + 1,
         UpTo(q.pend, lines), Refused(p, q, line) => file[q.sid] # << >>
  PROVE  Bounded' /\ Begun'
<1> DEFINE n == lines + 1
           G == Append(file[q.sid] \o q.pend, line)
           new == Append(q.pend, line)
<1>0. lines \in Nat /\ n \in Nat /\ lines <= n
  BY DEF FileTypes, JournalTypes
<1>1. /\ q.sid \in Sessions /\ q.pend \in Seq(Lines) /\ q.seq \in Nat
      /\ file \in [Sessions -> Seq(Lines)] /\ proc \in [Processes -> Process \cup {Null}]
  BY DEF FileTypes, JournalTypes, Process
<1>2. \A s \in Sessions : UpTo(file[s], n)
  BY <1>0, <1>1, UpToParts DEF FileTypes, Bounded
<1>3. UpTo(q.pend, n)
  BY <1>0, <1>1, UpToParts
<1>4. ASSUME NEW r \in Processes, proc[r] # Null
      PROVE  /\ UpTo(proc[r].pend, n) /\ proc[r].seq <= n
             /\ proc[r].sid \in Sessions /\ file[proc[r].sid] # << >>
  <2>1. r \in Up /\ proc[r] \in Process
    BY <1>1, <1>4 DEF Up
  <2>2. proc[r].pend \in Seq(Lines) /\ proc[r].seq \in Nat /\ proc[r].sid \in Sessions
    BY <2>1 DEF Process
  <2>3. UpTo(proc[r].pend, lines) /\ proc[r].seq <= lines /\ file[proc[r].sid] # << >>
    BY <2>1 DEF FileTypes, Bounded, Begun
  <2> QED
    BY <1>0, <2>2, <2>3, UpToParts
<1>5. UpTo(new, n) /\ UpTo(<< >>, n)
  BY <1>0, <1>1, <1>3, UpToParts
<1>6. UpTo(G, n)
  <2>1. file[q.sid] \o q.pend \in Seq(Lines)
    BY <1>1, ConcatProperties
  <2>2. UpTo(file[q.sid] \o q.pend, n)
    BY <1>0, <1>1, <1>2, <1>3, UpToParts
  <2> HIDE DEF n
  <2> QED
    BY <1>0, <2>1, <2>2, UpToParts DEF n
<1>7. /\ Thin(file'[q.sid], G)
      /\ \A s \in Sessions \ {q.sid} : file'[s] = file[s]
      /\ \A r \in Processes \ {p} : proc'[r] = proc[r]
      /\ proc'[p] # Null =>
              /\ proc'[p].sid = q.sid /\ proc'[p].seq = q.seq
              /\ proc'[p].pend \in {<< >>, q.pend, new}
  BY PutReaches DEF FileTypes
<1>8. file'[q.sid] # << >>
  <2>1. CASE Written(p, q, line) \/ CutShort(p, q, line)
    <3> DEFINE J == Joined(file[q.sid], tail[q.sid], Append(q.pend, line))
               T == Joined(file[q.sid], tail[q.sid], Append(q.pend, TornLine))
    <3>1. J \in Seq(Lines) /\ J # << >> /\ T \in Seq(Lines) /\ T # << >>
      BY <1>1, AppendedType, TornIsALine DEF FileTypes
    <3>2. OnDisk(q.sid, J, "end") \/ OnDisk(q.sid, J, "whole") \/ OnDisk(q.sid, T, "cut")
      BY <2>1 DEF Written, CutShort
    <3> HIDE DEF J, T
    <3>3. file'[q.sid] \in {J, T}
      BY <1>1, <3>1, <3>2 DEF OnDisk
    <3> QED
      BY <3>1, <3>3
  <2>2. CASE Refused(p, q, line)
    BY <2>2 DEF Refused
  <2> QED
    BY <2>1, <2>2
<1> HIDE DEF G, new
<1>9. UpTo(file'[q.sid], n)
  BY <1>6, <1>7, ThinIsAlike
<1>10. \A s \in Sessions : UpTo(file'[s], lines')
  BY <1>2, <1>7, <1>9
<1>11. ASSUME NEW r \in Processes, proc'[r] # Null
       PROVE  /\ UpTo(proc'[r].pend, lines') /\ proc'[r].seq <= lines'
              /\ file'[proc'[r].sid] # << >>
  <2>1. CASE r = p
    BY <1>3, <1>5, <1>7, <1>8, <1>11, <2>1
  <2>2. CASE r # p
    <3>1. proc'[r] = proc[r]
      BY <1>7, <2>2
    <3>2. file'[proc[r].sid] # << >>
      BY <1>4, <1>7, <1>8, <1>11, <3>1
    <3> QED
      BY <1>4, <1>11, <3>1, <3>2
  <2> QED
    BY <2>1, <2>2
<1> QED
  BY <1>10, <1>11 DEF Bounded, Up, Begun

\* What a process holds when it opens a file.
Opens(p, q) ==
    /\ proc[p] = Null /\ subs' = subs
    /\ q.own = file[q.sid] /\ q.pend = << >> /\ q.runs = << >>
    /\ q.seq = Highest(file[q.sid]) /\ q.count = RunsSeen(file[q.sid])
    /\ q.seq <= lines /\ UpTo(file[q.sid], q.seq)
Continues(p, q) ==
    /\ file[q.sid] # << >> /\ Keep(p, q)
    /\ UNCHANGED <<file, tail, returned, lines, fails, dropped, crashes>>
\* One whose file is empty.
Starts(q) ==
    /\ file[q.sid] = << >> /\ tail[q.sid] = "end" /\ q.own = << >> /\ q.seq = 0 /\ q.count = 0
    /\ lines' = lines + 1
NotBegun(q) ==
    /\ \/ OnDisk(q.sid, <<Header>>, "end")
       \/ UNCHANGED <<file, tail>>
    /\ fails' = fails + 1 /\ UNCHANGED <<proc, returned, dropped, crashes>>

\* An empty file, and one with its header.
LEMMA EmptyFile ==
  /\ << >> \in Seq(Lines) /\ Highest(<< >>) = 0 /\ RunsSeen(<< >>) = 0 /\ Read(<< >>) = {}
  /\ <<Header>> \in Seq(Lines) /\ <<Header>> # << >> /\ Append(<< >>, Header) = <<Header>>
<1>1. Read(<< >>) = {} /\ Numbered(<< >>) = {} /\ Ids(<< >>) = {}
  BY DEF Read, Numbered, Ids
<1>2. RunsSeen(<< >>) = 0
  BY <1>1, FS_EmptySet DEF RunsSeen
<1>3. UpTo(<< >>, 0) /\ << >> \in Seq(Lines)
  BY <1>1 DEF UpTo
<1>4. Highest(<< >>) \in Nat /\ Highest(<< >>) <= 0
  BY <1>3, HighestType
<1>5. Highest(<< >>) = 0
  BY <1>4
<1> QED
  BY <1>1, <1>2, <1>3, <1>5, TornIsALine

\* Opening a file continues it, or starts it with a header that is written, cut or refused.
LEMMA OpensAs ==
  ASSUME FileTypes, NEW p \in Processes, OpenFile(p)
  PROVE  \E q \in Process :
            Opens(p, q) /\ (\/ Continues(p, q)
                            \/ Starts(q) /\ (\/ Written(p, q, Header)
                                             \/ CutShort(p, q, Header)
                                             \/ NotBegun(q)))
<1>1. PICK sid \in Sessions :
        LET own == file[sid]
            q == [sid |-> sid, own |-> own, pend |-> << >>,
                  seq |-> Highest(own), count |-> RunsSeen(own), runs |-> << >>]
        IN IF own = << >> THEN Begin(p, q)
           ELSE /\ Keep(p, q)
                /\ UNCHANGED <<file, tail, returned, lines, fails, dropped, crashes>>
  BY DEF OpenFile
<1> DEFINE own == file[sid]
           q == [sid |-> sid, own |-> own, pend |-> << >>,
                 seq |-> Highest(own), count |-> RunsSeen(own), runs |-> << >>]
<1>2. own \in Seq(Lines) /\ lines \in Nat /\ UpTo(own, lines) /\ (own = << >> => tail[sid] = "end")
  BY DEF FileTypes, JournalTypes, Bounded
<1> HIDE DEF own
<1>3. Highest(own) \in Nat /\ UpTo(own, Highest(own)) /\ Highest(own) <= lines
  BY <1>2, HighestType
<1>4. RunsSeen(own) \in Nat
  BY <1>2, CountType
<1>5. q \in Process
  BY <1>2, <1>3, <1>4, EmptyFile DEF Process
<1>6. /\ q.sid = sid /\ q.own = own /\ q.pend = << >> /\ q.runs = << >>
      /\ q.seq = Highest(own) /\ q.count = RunsSeen(own)
  OBVIOUS
<1>7. IF own = << >> THEN Begin(p, q)
      ELSE Keep(p, q) /\ UNCHANGED <<file, tail, returned, lines, fails, dropped, crashes>>
  BY <1>1 DEF own
<1> HIDE DEF q
<1>8. Opens(p, q)
  BY <1>3, <1>6 DEF Opens, OpenFile, own
<1>9. CASE own = << >>
  <2>1. Begin(p, q)
    BY <1>7, <1>9
  <2>2. lines' = lines + 1 /\ (Written(p, q, Header) \/ CutShort(p, q, Header) \/ NotBegun(q))
    BY <2>1 DEF Begin, NotBegun
  <2>3. Starts(q)
    BY <1>2, <1>6, <1>9, <2>2, EmptyFile DEF Starts, own
  <2> QED
    BY <1>5, <1>8, <2>2, <2>3
<1>10. CASE own # << >>
  <2>1. Continues(p, q)
    BY <1>6, <1>7, <1>10 DEF Continues, own
  <2> QED
    BY <1>5, <1>8, <2>1
<1> QED
  BY <1>9, <1>10

\* The file of a process that closes it is flushed, if the disk takes the bytes.
Closes(p) ==
    /\ proc[p] # Null /\ proc[p] \in Process /\ Keep(p, Null)
    /\ UNCHANGED <<returned, subs, lines, fails, crashes>>
    /\ \/ /\ OnDisk(proc[p].sid, Flushed(p),
                    IF proc[p].pend = << >> THEN tail[proc[p].sid] ELSE "end")
          /\ UNCHANGED dropped
       \/ dropped' = TRUE /\ UNCHANGED <<file, tail>>

\* Closing a file flushes it or drops what was pending.
LEMMA ClosesAs ==
  ASSUME JournalTypes, NEW p \in Processes, CloseFile(p)
  PROVE  Closes(p)
  BY Zenon DEF CloseFile, Closes, Flushed, JournalTypes

\* Whatever becomes of a close, it leaves the lines that were there and those pending, thinned.
LEMMA CloseReaches ==
  ASSUME JournalTypes, NEW p \in Processes, Closes(p)
  PROVE  LET sid == proc[p].sid IN
         /\ sid \in Sessions /\ proc[p].pend \in Seq(Lines)
         /\ WithPending(p) \in Seq(Lines) /\ Thin(file'[sid], WithPending(p))
         /\ file' \in [Sessions -> Seq(Lines)] /\ tail' \in [Sessions -> TailEnds]
         /\ \A s \in Sessions : tail'[s] # "end" => file'[s] # << >>
         /\ \A s \in Sessions \ {sid} : file'[s] = file[s] /\ tail'[s] = tail[s]
         /\ proc'[p] = Null /\ \A r \in Processes \ {p} : proc'[r] = proc[r]
         /\ file[sid] # << >> => file'[sid] # << >>
<1> DEFINE sid == proc[p].sid
           f == file[sid]
           pend == proc[p].pend
           F == Flushed(p)
           end == IF pend = << >> THEN tail[sid] ELSE "end"
           W == WithPending(p)
<1>1. /\ sid \in Sessions /\ pend \in Seq(Lines) /\ f \in Seq(Lines)
      /\ tail[sid] \in TailEnds /\ (tail[sid] # "end" => f # << >>)
  BY DEF Closes, Process, JournalTypes, TailEnds
<1>2. F \in Seq(Lines) /\ (pend = << >> => F = f)
  BY <1>1, FlushedType DEF Flushed
<1>3. W \in Seq(Lines) /\ W = f \o pend
  BY <1>1, ConcatProperties DEF WithPending
<1>4. Thin(F, W)
  BY <1>1, JoinedIsThin DEF Flushed, WithPending
<1>5. Thin(f, W)
  BY <1>1, <1>3, ThinParts, TornIsALine
<1>6. f # << >> => F # << >>
  <2> SUFFICES ASSUME f # << >> PROVE F # << >>
    OBVIOUS
  <2>1. Len(f) \in Nat \ {0} /\ Len(pend) \in Nat /\ (pend # << >> => Len(pend) > 0)
    BY <1>1, EmptySeq
  <2>2. \/ F = f \o pend
        \/ pend # << >> /\ Len(F) = Len(f) + Len(pend) - 1
    <3>1. CASE pend = << >> \/ tail[sid] = "end"
      <4>1. F = f \o pend
        BY <3>1 DEF Flushed, Joined
      <4> QED
        BY <4>1
    <3>2. CASE ~(pend = << >> \/ tail[sid] = "end")
      <4>1. Len(F) = Len(f) + Len(pend) - 1
        <5> DEFINE end0 == tail[sid]
        <5>1. F = Joined(f, end0, pend)
          BY DEF Flushed
        <5>2. f \in Seq(Lines) /\ pend \in Seq(Lines) /\ (end0 # "end" => f # << >>)
              /\ ~(pend = << >> \/ end0 = "end")
          BY <1>1, <3>2
        <5> HIDE DEF F, f, pend, end0
        <5>3. Len(Joined(f, end0, pend)) = Len(f) + Len(pend) - 1
          BY <5>2, JoinedShape
        <5> QED
          BY <5>1, <5>3
      <4> QED
        BY <3>2, <4>1
    <3> QED
      BY <3>1, <3>2
  <2>3. Len(f \o pend) = Len(f) + Len(pend)
    BY <1>1, ConcatProperties
  <2>4. Len(F) > 0
    <3> HIDE DEF F, f, pend
    <3> QED
      BY <2>1, <2>2, <2>3
  <2> QED
    BY <1>2, <2>4, EmptySeq
<1>7. proc \in [Processes -> Process \cup {Null}]
  BY DEF JournalTypes
<1>8. proc'[p] = Null /\ \A r \in Processes \ {p} : proc'[r] = proc[r]
  BY <1>7 DEF Closes, Keep
<1>9. end \in TailEnds /\ (end # "end" => F # << >>)
  BY <1>1, <1>2 DEF TailEnds
<1>10. CASE OnDisk(sid, F, end)
  <2> HIDE DEF F, end
  <2>1. /\ file' \in [Sessions -> Seq(Lines)] /\ tail' \in [Sessions -> TailEnds]
        /\ file'[sid] = F
        /\ \A s \in Sessions : tail'[s] # "end" => file'[s] # << >>
        /\ \A s \in Sessions \ {sid} : file'[s] = file[s] /\ tail'[s] = tail[s]
    BY <1>1, <1>2, <1>9, <1>10, DiskTypes
  <2> QED
    BY <1>1, <1>3, <1>4, <1>6, <1>8, <2>1
<1>11. CASE UNCHANGED <<file, tail>>
  BY <1>1, <1>3, <1>5, <1>8, <1>11 DEF JournalTypes, TailEnds
<1> QED
  BY <1>10, <1>11 DEF Closes

\* Every step keeps the types and the bound on the numbers.
LEMMA NextTypes == FileTypes /\ [JournalNext]_journalVars => FileTypes'
<1> SUFFICES ASSUME FileTypes, [JournalNext]_journalVars PROVE FileTypes'
  OBVIOUS
<1>0. lines \in Nat /\ JournalTypes
  BY DEF FileTypes, JournalTypes
<1>1. ASSUME NEW p \in Processes, NEW q \in Process, NEW line \in Lines, Appends(p, q, line)
      PROVE  FileTypes'
  <2>1. p \in Up /\ proc[p].seq \in Nat
    BY <1>1 DEF Appends, Up, Process
  <2>2. proc[p].seq <= lines /\ UpTo(proc[p].pend, lines) /\ file[proc[p].sid] # << >>
    BY <2>1 DEF FileTypes, Bounded, Begun
  <2>3. /\ lines' = lines + 1 /\ q.sid = proc[p].sid /\ q.pend = proc[p].pend
        /\ \/ q.seq = proc[p].seq + 1 /\ line.seq = q.seq
           \/ q.seq = proc[p].seq /\ line.seq = Null
        /\ subs' \in Seq([sid : Sessions, run : Nat])
        /\ Written(p, q, line) \/ Refused(p, q, line) \/ CutShort(p, q, line)
    BY <1>1 DEF Appends
  <2>4. q.seq <= lines + 1 /\ (line.seq = Null \/ line.seq <= lines + 1)
    BY <1>0, <2>1, <2>2, <2>3
  <2>5. JournalTypes'
    BY <1>0, <2>3, PutTypes
  <2>6. Bounded' /\ Begun'
    BY <2>2, <2>3, <2>4, AppendBounded
  <2> QED
    BY <2>5, <2>6 DEF FileTypes
<1>2. ASSUME NEW p \in Processes, OpenFile(p) PROVE FileTypes'
  <2>1. PICK q \in Process :
            Opens(p, q) /\ (\/ Continues(p, q)
                            \/ Starts(q) /\ (\/ Written(p, q, Header)
                                             \/ CutShort(p, q, Header)
                                             \/ NotBegun(q)))
    BY <1>2, OpensAs
  <2>2. /\ q.seq <= lines /\ q.pend = << >> /\ UpTo(<< >>, lines) /\ q.sid \in Sessions
        /\ subs' \in Seq([sid : Sessions, run : Nat])
    <3>1. UpTo(<< >>, lines)
      BY DEF UpTo, Numbered, Read
    <3> QED
      BY <2>1, <3>1 DEF Opens, FileTypes, JournalTypes, Process
  <2>3. CASE Continues(p, q)
    <3>1. /\ \A r \in Processes \ {p} : proc'[r] = proc[r]
          /\ proc'[p] = q /\ proc' \in [Processes -> Process \cup {Null}]
          /\ UNCHANGED <<file, tail, returned, subs, lines, fails, dropped, crashes>>
          /\ file[q.sid] # << >>
      BY <2>1, <2>3 DEF Continues, Opens, Keep, FileTypes, JournalTypes
    <3>2. JournalTypes'
      BY <3>1 DEF FileTypes, JournalTypes
    <3>3. Bounded' /\ Begun'
      BY <2>2, <3>1 DEF FileTypes, Bounded, Begun, Up
    <3> QED
      BY <3>2, <3>3 DEF FileTypes
  <2>4. CASE Starts(q) /\ (Written(p, q, Header) \/ CutShort(p, q, Header))
    <3>1. /\ lines' = lines + 1 /\ Header \in Lines /\ Header.seq = 0
          /\ q.seq <= lines + 1 /\ Header.seq <= lines + 1 /\ UpTo(q.pend, lines)
      <4>1. lines' = lines + 1 /\ q.seq = 0
        BY <2>4 DEF Starts
      <4>2. Header \in Lines /\ Header.seq = 0
        BY TornIsALine DEF Header, Line
      <4> QED
        BY <1>0, <2>2, <4>1, <4>2
    <3>2. JournalTypes'
      BY <1>0, <2>2, <2>4, <3>1, PutTypes
    <3>3. Refused(p, q, Header) => file[q.sid] # << >>
      <4>1. Refused(p, q, Header) => file' = file
        BY DEF Refused
      <4>2. file'[q.sid] # << >>
        <5> DEFINE J == Joined(file[q.sid], tail[q.sid], Append(q.pend, Header))
                   T == Joined(file[q.sid], tail[q.sid], Append(q.pend, TornLine))
        <5>1. J # << >> /\ T # << >>
          BY <1>0, <2>2, AppendedType, TornIsALine, EmptyFile
        <5>2. OnDisk(q.sid, J, "end") \/ OnDisk(q.sid, J, "whole") \/ OnDisk(q.sid, T, "cut")
          BY <2>4 DEF Written, CutShort
        <5> HIDE DEF J, T
        <5>3. file'[q.sid] \in {J, T}
          BY <1>0, <2>2, <5>1, <5>2 DEF OnDisk, JournalTypes
        <5> QED
          BY <5>1, <5>3
      <4> QED
        BY <4>1, <4>2
    <3>4. Bounded' /\ Begun'
      BY <2>4, <3>1, <3>3, AppendBounded
    <3> QED
      BY <3>2, <3>4 DEF FileTypes
  <2>5. CASE Starts(q) /\ NotBegun(q)
    <3>1. /\ file' \in [Sessions -> Seq(Lines)] /\ tail' \in [Sessions -> TailEnds]
          /\ \A s \in Sessions : tail'[s] # "end" => file'[s] # << >>
          /\ \A s \in Sessions : file'[s] = file[s] \/ file'[s] = <<Header>>
      <4>1. CASE UNCHANGED <<file, tail>>
        BY <4>1 DEF FileTypes, JournalTypes, TailEnds
      <4>2. CASE OnDisk(q.sid, <<Header>>, "end")
        <5>1. PICK h \in Seq(Lines) : h = <<Header>> /\ h # << >>
          BY EmptyFile
        <5>2. OnDisk(q.sid, h, "end") /\ "end" \in TailEnds
          BY <4>2, <5>1 DEF TailEnds
        <5>3. /\ file' \in [Sessions -> Seq(Lines)] /\ tail' \in [Sessions -> TailEnds]
              /\ file'[q.sid] = h
              /\ \A s \in Sessions \ {q.sid} : file'[s] = file[s] /\ tail'[s] = tail[s]
              /\ \A s \in Sessions : tail'[s] # "end" => file'[s] # << >>
          BY <1>0, <2>2, <5>1, <5>2, DiskTypes
        <5> QED
          BY <5>1, <5>3
      <4> QED
        BY <2>5, <4>1, <4>2 DEF NotBegun
    <3>2. lines' = lines + 1 /\ lines' \in Nat /\ fails' \in Nat /\ crashes' \in Nat /\ subs' = subs
          /\ UNCHANGED <<proc, returned, dropped, crashes>>
      BY <1>0, <2>1, <2>5 DEF Starts, NotBegun, Opens, JournalTypes
    <3>3. JournalTypes'
      BY <1>0, <2>2, <3>1, <3>2 DEF JournalTypes, TailEnds
    <3>4. \A s \in Sessions : UpTo(file[s], lines')
      BY <1>0, <3>2, UpToParts DEF FileTypes, Bounded, JournalTypes
    <3>5. UpTo(<<Header>>, lines')
      BY <3>2 DEF UpTo, Numbered, Read, Header, Line
    <3>6. \A r \in Up : UpTo(proc[r].pend, lines') /\ proc[r].seq <= lines'
      <4> SUFFICES ASSUME NEW r \in Up PROVE UpTo(proc[r].pend, lines') /\ proc[r].seq <= lines'
        OBVIOUS
      <4>1. proc[r].pend \in Seq(Lines) /\ proc[r].seq \in Nat
        BY <1>0 DEF Up, JournalTypes, Process
      <4>2. UpTo(proc[r].pend, lines) /\ proc[r].seq <= lines
        BY DEF FileTypes, Bounded
      <4> QED
        BY <1>0, <3>2, <4>1, <4>2, UpToParts
    <3>7. \A r \in Up : proc[r].sid \in Sessions /\ file[proc[r].sid] # << >>
      BY <1>0 DEF FileTypes, Begun, Up, JournalTypes, Process
    <3> QED
      BY <3>1, <3>2, <3>3, <3>4, <3>5, <3>6, <3>7, EmptyFile DEF FileTypes, Bounded, Begun, Up
  <2> QED
    BY <2>1, <2>3, <2>4, <2>5
<1>3. ASSUME NEW p \in Processes, CloseFile(p) PROVE FileTypes'
  <2>1. Closes(p)
    BY <1>0, <1>3, ClosesAs
  <2> DEFINE sid == proc[p].sid
  <2>2. /\ sid \in Sessions /\ proc[p].pend \in Seq(Lines)
        /\ WithPending(p) \in Seq(Lines) /\ Thin(file'[sid], WithPending(p))
        /\ file' \in [Sessions -> Seq(Lines)] /\ tail' \in [Sessions -> TailEnds]
        /\ \A s \in Sessions : tail'[s] # "end" => file'[s] # << >>
        /\ \A s \in Sessions \ {sid} : file'[s] = file[s] /\ tail'[s] = tail[s]
        /\ proc'[p] = Null /\ \A r \in Processes \ {p} : proc'[r] = proc[r]
        /\ file[sid] # << >> => file'[sid] # << >>
    BY <1>0, <2>1, CloseReaches
  <2>3. p \in Up /\ UNCHANGED <<returned, subs, lines, fails, crashes>> /\ Keep(p, Null)
    BY <2>1 DEF Closes, Up
  <2>4. UpTo(WithPending(p), lines)
    <3>1. UpTo(file[sid], lines) /\ UpTo(proc[p].pend, lines) /\ file[sid] \in Seq(Lines)
      BY <2>2, <2>3 DEF FileTypes, Bounded, JournalTypes
    <3> QED
      BY <1>0, <2>2, <3>1, UpToParts DEF WithPending
  <2> HIDE DEF sid
  <2>5. UpTo(file'[sid], lines)
    BY <2>2, <2>4, ThinIsAlike
  <2>6. dropped' \in BOOLEAN
    <3>1. dropped' = dropped \/ dropped' = TRUE
      BY <2>1 DEF Closes
    <3> QED
      BY <1>0, <3>1, Zenon DEF JournalTypes
  <2>7. JournalTypes'
    BY <1>0, <2>2, <2>3, <2>6 DEF JournalTypes, TailEnds, Keep
  <2>8. Bounded' /\ Begun'
    <3>1. \A s \in Sessions : UpTo(file'[s], lines')
      BY <2>2, <2>3, <2>5 DEF FileTypes, Bounded
    <3>2. \A s \in Sessions : file[s] # << >> => file'[s] # << >>
      BY <2>2
    <3>3. \A r \in Up : proc[r].sid \in Sessions
      BY <1>0 DEF Up, JournalTypes, Process
    <3>4. \A r \in Processes : proc'[r] # Null => r \in Up /\ proc'[r] = proc[r]
      BY <2>2 DEF Up
    <3> QED
      BY <2>3, <3>1, <3>2, <3>3, <3>4 DEF FileTypes, Bounded, Begun, Up
  <2> QED
    BY <2>7, <2>8 DEF FileTypes
<1>4. ASSUME UNCHANGED journalVars PROVE FileTypes'
  BY <1>4 DEF journalVars, FileTypes, JournalTypes, Bounded, Begun, Up
<1>5. ASSUME NEW p \in Processes, Submit(p) \/ TellState(p) \/ RunRefused(p) PROVE FileTypes'
  BY <1>0, <1>1, <1>5, SubmitAppends, TellAppends, RefusedAppends
<1> QED
  BY <1>2, <1>3, <1>4, <1>5 DEF JournalNext

\* Lines hurt, files unended and crashes, before and after a step.
Pays(H, H2, U, U2, c, c2) ==
    \/ H2 \subseteq H /\ U2 \subseteq U /\ c2 = c
    \/ c2 = c /\ \E x, s : H2 \subseteq H \cup {x} /\ s \in U /\ U2 \subseteq U \ {s}
    \/ c2 = c + 1 /\ \E s : H2 \subseteq H /\ U2 \subseteq U \cup {s}
\* A step that hurts one line, or leaves one file without a newline, is paid for by a crash.
LEMMA PaidFor ==
  ASSUME NEW H, NEW H2, NEW U, NEW U2, NEW c \in Nat, NEW c2 \in Nat,
         IsFiniteSet(H), IsFiniteSet(U), Cardinality(H) + Cardinality(U) <= c,
         Pays(H, H2, U, U2, c, c2)
  PROVE  Cardinality(H2) + Cardinality(U2) <= c2
<1>1. /\ Cardinality(H) \in Nat /\ Cardinality(U) \in Nat
      /\ \A V \in SUBSET H : Cardinality(V) \in Nat /\ Cardinality(V) <= Cardinality(H)
      /\ \A V \in SUBSET U : Cardinality(V) \in Nat /\ Cardinality(V) <= Cardinality(U)
  BY FS_CardinalityType, FS_Subset
<1>2. CASE H2 \subseteq H /\ U2 \subseteq U /\ c2 = c
  BY <1>1, <1>2
<1>3. CASE c2 = c /\ \E x, s : H2 \subseteq H \cup {x} /\ s \in U /\ U2 \subseteq U \ {s}
  <2>1. PICK x, s : H2 \subseteq H \cup {x} /\ s \in U /\ U2 \subseteq U \ {s}
    BY <1>3
  <2>2. IsFiniteSet(H \cup {x}) /\ Cardinality(H \cup {x}) \in {Cardinality(H), Cardinality(H) + 1}
    BY FS_AddElement
  <2>3. Cardinality(H2) <= Cardinality(H \cup {x}) /\ Cardinality(H2) \in Nat
    BY <2>1, <2>2, FS_Subset, FS_CardinalityType
  <2>4. IsFiniteSet(U \ {s}) /\ Cardinality(U \ {s}) = Cardinality(U) - 1
    BY <2>1, FS_RemoveElement
  <2>5. Cardinality(U2) <= Cardinality(U \ {s}) /\ Cardinality(U2) \in Nat
    BY <2>1, <2>4, FS_Subset, FS_CardinalityType
  <2> QED
    BY <1>1, <1>3, <2>2, <2>3, <2>4, <2>5
<1>4. CASE c2 = c + 1 /\ \E s : H2 \subseteq H /\ U2 \subseteq U \cup {s}
  <2>1. PICK s : H2 \subseteq H /\ U2 \subseteq U \cup {s}
    BY <1>4
  <2>2. IsFiniteSet(U \cup {s}) /\ Cardinality(U \cup {s}) \in {Cardinality(U), Cardinality(U) + 1}
    BY FS_AddElement
  <2>3. Cardinality(U2) <= Cardinality(U \cup {s}) /\ Cardinality(U2) \in Nat
    BY <2>1, <2>2, FS_Subset, FS_CardinalityType
  <2> QED
    BY <1>1, <1>4, <2>1, <2>2, <2>3
<1> QED
  BY <1>2, <1>3, <1>4 DEF Pays

\* What is counted is finite.
LEMMA HurtIsFinite ==
  ASSUME JournalTypes
  PROVE  IsFiniteSet(Hurt) /\ IsFiniteSet(Unended) /\ crashes \in Nat
<1>1. Hurt \in SUBSET returned /\ Unended \in SUBSET Sessions
  BY DEF Hurt, Unended
<1>2. IsFiniteSet(returned) /\ IsFiniteSet(Sessions) /\ crashes \in Nat
  BY JournalAssumption DEF JournalTypes
<1> QED
  BY <1>1, <1>2, FS_Subset

\* A safe line stays safe whatever is written after it.
LEMMA SafeStays ==
  ASSUME NEW f \in Seq(Lines), NEW new \in Seq(Lines), NEW end, end # "end" => f # << >>,
         NEW line, Safe(f, end, line), NEW end2, new # << >> \/ end2 = end
  PROVE  Safe(Joined(f, end, new), end2, line)
<1> DEFINE J == Joined(f, end, new)
<1>1. PICK i \in Read(f) : f[i] = line /\ (i < Len(f) \/ end = "end")
  BY DEF Safe
<1>2. i \in 1..Len(f) /\ f[i].type # "torn" /\ Len(f) \in Nat
  BY ReadType
<1>3. CASE new = << >> \/ end = "end"
  <2>1. J = f \o new
    BY <1>3 DEF Joined
  <2>2. i \in Read(f \o new) /\ (f \o new)[i] = f[i] /\ Len(f \o new) = Len(f) + Len(new)
    BY ConcatRead
  <2>3. Len(new) \in Nat /\ (new # << >> => Len(new) > 0)
    BY EmptySeq
  <2>4. i < Len(f) + Len(new) \/ end2 = "end"
    BY <1>1, <1>2, <1>3, <2>3
  <2> QED
    BY <1>1, <2>1, <2>2, <2>4 DEF Safe
<1>4. CASE ~(new = << >> \/ end = "end")
  <2> HIDE DEF J
  <2>1. /\ J \in Seq(Lines) /\ Len(J) = Len(f) + Len(new) - 1 /\ Len(f) > 0 /\ Len(new) > 0
        /\ \A k \in 1..(Len(f) - 1) : J[k] = f[k]
    BY <1>4, JoinedShape DEF J
  <2>2. i < Len(f) /\ Len(new) \in Nat
    BY <1>1, <1>4
  <2>3. i \in 1..(Len(f) - 1) /\ i \in 1..Len(J) /\ (i < Len(J))
    BY <1>2, <2>1, <2>2
  <2>4. J[i] = f[i]
    BY <2>1, <2>3
  <2>5. i \in Read(J)
    BY <1>2, <2>1, <2>3, <2>4, ReadType
  <2>6. Safe(J, end2, line)
    BY <1>1, <2>3, <2>4, <2>5 DEF Safe
  <2> QED
    BY <2>6 DEF J
<1> QED
  BY <1>3, <1>4

\* One line after bytes without a newline tears their line.
LEMMA JoinedLast ==
  ASSUME NEW f \in Seq(Lines), f # << >>, NEW line \in Lines, NEW end, end # "end"
  PROVE  Joined(f, end, Append(<< >>, line)) = [f EXCEPT ![Len(f)] = TornLine]
<1> DEFINE A == [f EXCEPT ![Len(f)] = TornLine]
           new == Append(<< >>, line)
<1>1. Len(f) \in Nat \ {0}
  BY EmptySeq
<1>2. A \in Seq(Lines)
  BY <1>1, TornIsALine, ExceptSeq
<1>3. new # << >> /\ Tail(new) = << >>
  OBVIOUS
<1>4. Joined(f, end, new) = A \o Tail(new)
  BY <1>3 DEF Joined
<1> HIDE DEF A, new
<1>5. A \o << >> = A
  BY <1>2, ConcatEmptySeq
<1> QED
  BY <1>3, <1>4, <1>5 DEF A, new

\* Bytes after a newline end in the new line.
LEMMA JoinedAppend ==
  ASSUME NEW f \in Seq(Lines), NEW pend \in Seq(Lines), NEW line \in Lines, NEW end,
         end # "end" => f # << >>, end = "end" \/ pend # << >>
  PROVE  Joined(f, end, Append(pend, line)) = Append(Joined(f, end, pend), line)
<1> DEFINE new == Append(pend, line)
<1>1. new # << >> /\ new \in Seq(Lines) /\ new = pend \o <<line>> /\ <<line>> \in Seq(Lines)
  BY AppendProperties, AppendIsConcat
<1>2. CASE end = "end"
  <2>1. Joined(f, end, new) = f \o new /\ Joined(f, end, pend) = f \o pend
    BY <1>2 DEF Joined
  <2>2. f \o Append(pend, line) = Append(f \o pend, line)
    BY ThinParts
  <2> QED
    BY <1>2, <2>1, <2>2
<1>3. CASE end # "end" /\ pend # << >>
  <2> DEFINE A == [f EXCEPT ![Len(f)] = TornLine]
  <2>0. Len(f) \in Nat \ {0}
    BY <1>3, EmptySeq
  <2>1. A \in Seq(Lines)
    BY <2>0, TornIsALine, ExceptSeq
  <2>2. Joined(f, end, new) = A \o Tail(new) /\ Joined(f, end, pend) = A \o Tail(pend)
    BY <1>1, <1>3 DEF Joined
  <2> HIDE DEF A
  <2>3. Tail(pend) \in Seq(Lines)
    BY <1>3, HeadTailProperties
  <2>4. Tail(new) = Append(Tail(pend), line)
    <3>1. Len(pend) \in Nat \ {0}
      BY <1>3, EmptySeq
    <3> QED
      BY <1>3, <3>1
  <2>5. A \o Append(Tail(pend), line) = Append(A \o Tail(pend), line)
    BY <2>1, <2>3, ThinParts
  <2> QED
    BY <1>3, <2>2, <2>4, <2>5
<1> QED
  BY <1>2, <1>3

\* A step that only writes after what is there: what it hurts and what it leaves unended.
LEMMA HurtGrows ==
  ASSUME JournalTypes, NEW sid \in Sessions, NEW new \in Seq(Lines), NEW end \in TailEnds,
         OnDisk(sid, Joined(file[sid], tail[sid], new), end), new # << >> \/ end = tail[sid],
         Joined(file[sid], tail[sid], new) \in Seq(Lines),
         end # "end" => Joined(file[sid], tail[sid], new) # << >>
  PROVE  /\ \A r \in Hurt' : r \in Hurt \/ r \in returned' \ returned
         /\ end = "end" => Unended' = Unended \ {sid}
         /\ end # "end" => Unended' = Unended \cup {sid}
         /\ \A r \in returned' : r.sid = sid /\ Safe(Joined(file[sid], tail[sid], new), end, r.line)
              => r \notin Hurt'
<1> DEFINE J == Joined(file[sid], tail[sid], new)
<1>1. /\ file'[sid] = J /\ tail'[sid] = end
      /\ \A s \in Sessions \ {sid} : file'[s] = file[s] /\ tail'[s] = tail[s]
  BY DiskTypes DEF TailEnds
<1>2. file[sid] \in Seq(Lines) /\ (tail[sid] # "end" => file[sid] # << >>)
  BY DEF JournalTypes
<1>3. \A line : Safe(file[sid], tail[sid], line) => Safe(J, end, line)
  BY <1>2, SafeStays
<1> HIDE DEF J
<1>4. ASSUME NEW r \in Hurt', r \in returned PROVE r \in Hurt
  <2>1. r.sid \in Sessions
    BY <1>4 DEF JournalTypes
  <2>2. ~Safe(file'[r.sid], tail'[r.sid], r.line)
    BY DEF Hurt
  <2>3. ~Safe(file[r.sid], tail[r.sid], r.line)
    BY <1>1, <1>3, <2>1, <2>2
  <2> QED
    BY <1>4, <2>3 DEF Hurt
<1>5. \A r \in Hurt' : r \in returned'
  BY DEF Hurt
<1>6. end = "end" => Unended' = Unended \ {sid}
  BY <1>1 DEF Unended
<1>7. end # "end" => Unended' = Unended \cup {sid}
  BY <1>1 DEF Unended
<1>8. \A r \in returned' : r.sid = sid /\ Safe(J, end, r.line) => r \notin Hurt'
  BY <1>1 DEF Hurt
<1> QED
  BY <1>4, <1>5, <1>6, <1>7, <1>8 DEF J

\* An append that hurts a line ends what a crash left.
LEMMA PutPays ==
  ASSUME JournalTypes, CrashesPay, NEW p \in Processes, NEW q \in Process, NEW line \in Lines,
         line.type # "torn",
         Written(p, q, line) \/ Refused(p, q, line) \/ CutShort(p, q, line), JournalTypes'
  PROVE  CrashesPay'
<1> DEFINE f == file[q.sid]
           new == Append(q.pend, line)
           torn == Append(q.pend, TornLine)
           J == Joined(f, tail[q.sid], new)
           T == Joined(f, tail[q.sid], torn)
           noted == [sid |-> q.sid, line |-> line]
<1>1. /\ q.sid \in Sessions /\ q.pend \in Seq(Lines) /\ f \in Seq(Lines)
      /\ tail[q.sid] \in TailEnds /\ (tail[q.sid] # "end" => f # << >>)
  BY DEF Process, JournalTypes, TailEnds
<1>2. /\ J \in Seq(Lines) /\ J # << >> /\ new \in Seq(Lines) /\ new # << >>
      /\ T \in Seq(Lines) /\ T # << >> /\ torn \in Seq(Lines) /\ torn # << >>
  BY <1>1, AppendedType, TornIsALine
<1>3. /\ IsFiniteSet(Hurt) /\ IsFiniteSet(Unended) /\ crashes \in Nat /\ crashes' \in Nat
      /\ Cardinality(Hurt) + Cardinality(Unended) <= crashes
  BY HurtIsFinite DEF CrashesPay, JournalTypes
<1> SUFFICES Pays(Hurt, Hurt', Unended, Unended', crashes, crashes')
  BY <1>3, PaidFor DEF CrashesPay
<1>4. CASE Written(p, q, line)
  <2>1. OnDisk(q.sid, J, "end") /\ returned' = returned \cup {noted} /\ crashes' = crashes
    BY <1>4 DEF Written
  <2>2. /\ \A r \in Hurt' : r \in Hurt \/ r \in returned' \ returned
        /\ Unended' = Unended \ {q.sid}
        /\ \A r \in returned' : r.sid = q.sid /\ Safe(J, "end", r.line) => r \notin Hurt'
    BY <1>1, <1>2, <2>1, HurtGrows DEF TailEnds
  <2>3. CASE tail[q.sid] = "end"
    <3>1. J = Append(Joined(f, tail[q.sid], q.pend), line)
      BY <1>1, <2>3, JoinedAppend
    <3> DEFINE F == Joined(f, tail[q.sid], q.pend)
    <3>2. F \in Seq(Lines)
      BY <1>1, JoinedShape
    <3> HIDE DEF J, F
    <3>3. Longer(J, F, line)
      BY <3>1 DEF Longer, F
    <3>4. Len(J) \in Read(J) /\ J[Len(J)] = line
      BY <3>2, <3>3, AppendRead
    <3>5. Safe(J, "end", line)
      BY <3>4 DEF Safe
    <3>6. noted \notin Hurt'
      BY <2>1, <2>2, <3>5
    <3> QED
      BY <2>1, <2>2, <3>6 DEF Pays
  <2>4. CASE tail[q.sid] # "end"
    <3>1. q.sid \in Unended
      BY <1>1, <2>4 DEF Unended
    <3>2. Hurt' \subseteq Hurt \cup {noted}
      BY <2>1, <2>2
    <3> QED
      BY <2>1, <2>2, <3>1, <3>2 DEF Pays
  <2> QED
    BY <2>3, <2>4
<1>5. CASE Refused(p, q, line)
  BY <1>5 DEF Refused, Hurt, Unended, Pays
<1>6. CASE CutShort(p, q, line)
  <2>1. /\ OnDisk(q.sid, J, "whole") \/ OnDisk(q.sid, T, "cut")
        /\ crashes' = crashes + 1 /\ returned' = returned
    BY <1>6 DEF CutShort
  <2>2. CASE OnDisk(q.sid, J, "whole")
    BY <1>1, <1>2, <2>1, <2>2, HurtGrows DEF TailEnds, Pays
  <2>3. CASE OnDisk(q.sid, T, "cut")
    BY <1>1, <1>2, <2>1, <2>3, HurtGrows DEF TailEnds, Pays
  <2> QED
    BY <2>1, <2>2, <2>3
<1> QED
  BY <1>4, <1>5, <1>6

\* So every step pays for what it hurts (journal.py, append and the mode of open).
LEMMA NextPays == FileTypes /\ CrashesPay /\ [JournalNext]_journalVars => CrashesPay'
<1> SUFFICES ASSUME FileTypes, CrashesPay, [JournalNext]_journalVars PROVE CrashesPay'
  OBVIOUS
<1>0. JournalTypes /\ JournalTypes'
  BY NextTypes DEF FileTypes
<1>1. ASSUME NEW p \in Processes, NEW q \in Process, NEW line \in Lines, Appends(p, q, line)
      PROVE  CrashesPay'
  BY <1>0, <1>1, PutPays DEF Appends
<1>2. ASSUME NEW p \in Processes, OpenFile(p) PROVE CrashesPay'
  <2>1. PICK q \in Process :
            Opens(p, q) /\ (\/ Continues(p, q)
                            \/ Starts(q) /\ (\/ Written(p, q, Header)
                                             \/ CutShort(p, q, Header)
                                             \/ NotBegun(q)))
    BY <1>2, OpensAs DEF FileTypes
  <2>2. CASE Continues(p, q)
    BY <2>2 DEF Continues, CrashesPay, Hurt, Unended
  <2>3. CASE Written(p, q, Header) \/ CutShort(p, q, Header)
    <3>1. Header \in Lines /\ Header.type # "torn"
      BY TornIsALine DEF Header, Line
    <3> QED
      BY <1>0, <2>3, <3>1, PutPays
  <2>4. CASE Starts(q) /\ NotBegun(q)
    <3>1. q.sid \in Sessions /\ file[q.sid] = << >> /\ tail[q.sid] = "end"
          /\ returned' = returned /\ crashes' = crashes
      BY <2>4 DEF Starts, NotBegun, Process
    <3>2. CASE UNCHANGED <<file, tail>>
      BY <3>1, <3>2 DEF CrashesPay, Hurt, Unended
    <3>3. CASE OnDisk(q.sid, <<Header>>, "end")
      <4> DEFINE J == Joined(file[q.sid], tail[q.sid], <<Header>>)
      <4>1. J = <<Header>>
        <5>1. J = << >> \o <<Header>>
          BY <3>1 DEF Joined
        <5> QED
          BY <5>1, ConcatEmptySeq, EmptyFile
      <4>2. OnDisk(q.sid, J, "end")
        BY <3>3, <4>1
      <4>3. J \in Seq(Lines)
        BY <4>1, EmptyFile
      <4> HIDE DEF J
      <4>4. Hurt' \subseteq Hurt /\ Unended' = Unended \ {q.sid}
        BY <1>0, <3>1, <4>2, <4>3, EmptyFile, HurtGrows DEF J, TailEnds
      <4>5. /\ IsFiniteSet(Hurt) /\ IsFiniteSet(Unended) /\ crashes \in Nat /\ crashes' \in Nat
            /\ Cardinality(Hurt) + Cardinality(Unended) <= crashes
        BY <1>0, HurtIsFinite DEF CrashesPay, JournalTypes
      <4> QED
        BY <3>1, <4>4, <4>5, PaidFor DEF CrashesPay, Pays
    <3> QED
      BY <2>4, <3>2, <3>3 DEF NotBegun
  <2> QED
    BY <2>1, <2>2, <2>3, <2>4
<1>3. ASSUME NEW p \in Processes, CloseFile(p) PROVE CrashesPay'
  <2>1. Closes(p)
    BY <1>0, <1>3, ClosesAs
  <2> DEFINE sid == proc[p].sid
             pend == proc[p].pend
             end == IF pend = << >> THEN tail[sid] ELSE "end"
             F == Joined(file[sid], tail[sid], pend)
  <2>2. sid \in Sessions /\ pend \in Seq(Lines) /\ tail[sid] \in TailEnds
    BY <1>0, <2>1 DEF Closes, Process, JournalTypes, TailEnds
  <2>3. returned' = returned /\ crashes' = crashes
    BY <2>1 DEF Closes
  <2>4. CASE OnDisk(sid, F, end)
    <3>1. end \in TailEnds /\ (pend # << >> \/ end = tail[sid])
      BY <2>2 DEF TailEnds
    <3>2. F \in Seq(Lines) /\ (end # "end" => F # << >>)
      BY <1>0, <2>2, FlushedType DEF JournalTypes
    <3> HIDE DEF end, F
    <3>3. Hurt' \subseteq Hurt /\ (end = "end" => Unended' = Unended \ {sid})
          /\ (end # "end" => Unended' = Unended \cup {sid})
      BY <1>0, <2>2, <2>3, <2>4, <3>1, <3>2, HurtGrows DEF F
    <3>4. Unended' \subseteq Unended
      BY <2>2, <3>3 DEF Unended, end
    <3>5. /\ IsFiniteSet(Hurt) /\ IsFiniteSet(Unended) /\ crashes \in Nat /\ crashes' \in Nat
          /\ Cardinality(Hurt) + Cardinality(Unended) <= crashes
      BY <1>0, HurtIsFinite DEF CrashesPay, JournalTypes
    <3> QED
      BY <2>3, <3>3, <3>4, <3>5, PaidFor DEF CrashesPay, Pays
  <2>5. CASE UNCHANGED <<file, tail>>
    BY <2>3, <2>5 DEF CrashesPay, Hurt, Unended
  <2> QED
    BY <2>1, <2>4, <2>5 DEF Closes, Flushed
<1>4. ASSUME UNCHANGED journalVars PROVE CrashesPay'
  BY <1>4 DEF journalVars, CrashesPay, Hurt, Unended
<1>5. ASSUME NEW p \in Processes, Submit(p) \/ TellState(p) \/ RunRefused(p) PROVE CrashesPay'
  BY <1>0, <1>1, <1>5, SubmitAppends, TellAppends, RefusedAppends
<1> QED
  BY <1>2, <1>3, <1>4, <1>5 DEF JournalNext

\* At first no file has a line.
LEMMA InitTypes == JournalInit => FileTypes /\ CrashesPay
<1> SUFFICES ASSUME JournalInit PROVE FileTypes /\ CrashesPay
  OBVIOUS
<1>1. JournalTypes
  <2>1. << >> \in Seq(Lines) /\ << >> \in Seq([sid : Sessions, run : Nat])
    BY EmptyFile
  <2>2. file \in [Sessions -> Seq(Lines)] /\ tail = [s \in Sessions |-> "end"]
    BY <2>1 DEF JournalInit
  <2>3. proc \in [Processes -> Process \cup {Null}]
    BY DEF JournalInit
  <2>4. returned \subseteq [sid : Sessions, line : Lines] /\ IsFiniteSet(returned)
    BY FS_EmptySet DEF JournalInit
  <2>5. subs \in Seq([sid : Sessions, run : Nat]) /\ {lines, fails, crashes} \subseteq Nat
        /\ dropped \in BOOLEAN
    <3>1. subs = << >> /\ lines = 0 /\ fails = 0 /\ crashes = 0
      BY DEF JournalInit
    <3>2. dropped = FALSE
      BY Zenon DEF JournalInit
    <3>3. dropped \in BOOLEAN
      BY <3>2, Zenon
    <3> QED
      BY <2>1, <3>1, <3>3
  <2>6. tail \in [Sessions -> {"end", "whole", "cut"}] /\ \A s \in Sessions : tail[s] = "end"
    BY <2>2
  <2> QED
    BY <2>2, <2>3, <2>4, <2>5, <2>6 DEF JournalTypes
<1>2. Up = {}
  BY DEF JournalInit, Up
<1>3. Bounded /\ Begun
  BY <1>2 DEF JournalInit, Bounded, Begun, UpTo, Numbered, Read
<1>4. Hurt = {} /\ Unended = {} /\ crashes = 0
  BY DEF JournalInit, Hurt, Unended
<1> QED
  BY <1>1, <1>3, <1>4, FS_EmptySet DEF FileTypes, CrashesPay

\* A line that cannot be read has been hurt.
LEMMA PaidIsOne == FileTypes /\ CrashesPay => OneLinePerCrash
<1> SUFFICES ASSUME FileTypes, CrashesPay PROVE OneLinePerCrash
  OBVIOUS
<1>1. Unreadable \in SUBSET Hurt
  BY DEF Unreadable, Hurt, Safe, Readable
<1>2. IsFiniteSet(Hurt) /\ IsFiniteSet(Unended) /\ crashes \in Nat
  BY HurtIsFinite DEF FileTypes
<1>3. Cardinality(Unreadable) <= Cardinality(Hurt) /\ IsFiniteSet(Unreadable)
  BY <1>1, <1>2, FS_Subset
<1>4. Cardinality(Unreadable) \in Nat /\ Cardinality(Hurt) \in Nat /\ Cardinality(Unended) \in Nat
  BY <1>2, <1>3, FS_CardinalityType
<1> QED
  BY <1>2, <1>3, <1>4 DEF CrashesPay, OneLinePerCrash

\* A crash costs one accepted line at most, whoever writes what (journal.py, _read and the
\* mode of open).
THEOREM CrashesTheorem == JournalSpec => []OneLinePerCrash
<1>1. FileTypes /\ CrashesPay /\ [JournalNext]_journalVars => (FileTypes /\ CrashesPay)'
  BY NextTypes, NextPays
<1> QED
  BY <1>1, InitTypes, PaidIsOne, PTL DEF JournalSpec

\* What a process that is up holds.
LEMMA UpType ==
  ASSUME JournalTypes
  PROVE  /\ \A p \in Up : /\ p \in Processes /\ proc[p] \in Process /\ proc[p].sid \in Sessions
                          /\ proc[p].own \in Seq(Lines) /\ proc[p].pend \in Seq(Lines)
                          /\ proc[p].seq \in Nat /\ proc[p].count \in Nat
                          /\ proc[p].runs \in Seq(RunEntry)
                          /\ WithPending(p) \in Seq(Lines)
         /\ \A s \in Sessions : file[s] \in Seq(Lines) /\ tail[s] \in TailEnds
         /\ lines \in Nat
<1>1. ASSUME NEW p \in Up
      PROVE  /\ p \in Processes /\ proc[p] \in Process /\ proc[p].sid \in Sessions
             /\ proc[p].own \in Seq(Lines) /\ proc[p].pend \in Seq(Lines)
             /\ proc[p].seq \in Nat /\ proc[p].count \in Nat
             /\ proc[p].runs \in Seq(RunEntry)
  BY DEF Up, JournalTypes, Process, RunEntry
<1>2. \A s \in Sessions : file[s] \in Seq(Lines) /\ tail[s] \in TailEnds
  BY DEF JournalTypes, TailEnds
<1>3. lines \in Nat
  BY DEF JournalTypes
<1>4. \A p \in Up : WithPending(p) \in Seq(Lines)
  BY <1>1, <1>2, ConcatProperties DEF WithPending
<1> QED
  BY <1>1, <1>2, <1>3, <1>4

\* A step of one process, on a file that no other has.
Alone(p, sid) ==
    /\ \A r \in Up \ {p} : proc[r].sid # sid
    /\ \A s \in Sessions \ {sid} : file'[s] = file[s] /\ tail'[s] = tail[s]
    /\ \A r \in Processes \ {p} : proc'[r] = proc[r]
\* A step of one process leaves what the others hold and their files.
LEMMA Others ==
  ASSUME JournalTypes, NEW p, NEW sid, Alone(p, sid), NEW r, r \in Up', r # p
  PROVE  /\ r \in Up /\ proc'[r] = proc[r] /\ proc[r].sid \in Sessions /\ proc[r].sid # sid
         /\ file'[proc[r].sid] = file[proc[r].sid] /\ tail'[proc[r].sid] = tail[proc[r].sid]
         /\ WithPending(r)' = WithPending(r) /\ Flushed(r)' = Flushed(r)
<1>1. r \in Up /\ proc'[r] = proc[r]
  BY DEF Up, Alone
<1>2. proc[r].sid \in Sessions /\ proc[r].sid # sid
  BY <1>1, UpType DEF Alone
<1> QED
  BY <1>1, <1>2 DEF WithPending, Flushed, Alone

\* A bound on the numbers stays one.
LEMMA UpAsBefore ==
  ASSUME JournalTypes, NEW n \in Nat, lines' = n, lines <= n, Numbers
  PROVE  \A s \in Sessions : UpTo(file[s], n)
  BY UpType, UpToParts DEF Numbers

\* An append of the next number keeps the numbers rising.
LEMMA PutNumbers ==
  ASSUME FileTypes, Numbers, NEW p \in Processes, NEW q \in Process, NEW line \in Lines,
         NEW G, Longer(G, file[q.sid] \o q.pend, line),
         Written(p, q, line) \/ Refused(p, q, line) \/ CutShort(p, q, line),
         lines' = lines + 1, \A r \in Up \ {p} : proc[r].sid # q.sid,
         Rising(G), UpTo(G, q.seq), q.seq <= lines + 1
  PROVE  Numbers'
<1>0. JournalTypes /\ lines \in Nat /\ q.seq \in Nat /\ q.sid \in Sessions
  BY UpType DEF FileTypes, Process
<1>1. /\ G \in Seq(Lines) /\ Thin(file'[q.sid], G)
      /\ \A s \in Sessions \ {q.sid} : file'[s] = file[s] /\ tail'[s] = tail[s]
      /\ \A r \in Processes \ {p} : proc'[r] = proc[r]
      /\ proc'[p] # Null =>
           /\ proc'[p].sid = q.sid /\ proc'[p].seq = q.seq
           /\ Thin(file'[q.sid] \o proc'[p].pend, G)
  BY <1>0, PutReaches DEF Longer
<1>2. UpTo(G, lines')
  BY <1>0, <1>1, UpToParts
<1>3. \A s \in Sessions : Rising(file'[s]) /\ UpTo(file'[s], lines')
  <2>1. Rising(file'[q.sid]) /\ UpTo(file'[q.sid], lines')
    BY <1>1, <1>2, ThinIsAlike
  <2>2. \A s \in Sessions : UpTo(file[s], lines')
    BY <1>0, UpAsBefore
  <2> QED
    BY <1>1, <2>1, <2>2 DEF Numbers
<1>4. ASSUME NEW r \in Up'
      PROVE  /\ Rising(WithPending(r)') /\ UpTo(WithPending(r)', proc'[r].seq)
             /\ proc'[r].seq <= lines'
  <2>1. CASE r = p
    <3>1. proc'[p] # Null
      BY <2>1 DEF Up
    <3>2. WithPending(p)' = file'[q.sid] \o proc'[p].pend
      BY <1>1, <3>1 DEF WithPending
    <3> QED
      BY <1>1, <2>1, <3>1, <3>2, ThinIsAlike
  <2>2. CASE r # p
    <3>1. r \in Up /\ proc'[r] = proc[r] /\ WithPending(r)' = WithPending(r)
      <4>1. Alone(p, q.sid)
        BY <1>1 DEF Alone
      <4> QED
        BY <1>0, <2>2, <4>1, Others
    <3>2. Rising(WithPending(r)) /\ UpTo(WithPending(r), proc[r].seq) /\ proc[r].seq <= lines
          /\ proc[r].seq \in Nat
      BY <1>0, <3>1, UpType DEF Numbers
    <3> QED
      BY <1>0, <3>1, <3>2
  <2> QED
    BY <2>1, <2>2
<1> QED
  BY <1>3, <1>4 DEF Numbers

\* A file that starts has its header and nothing else.
LEMMA HeaderAlone ==
  ASSUME NEW q \in Process, Starts(q), q.pend = << >>
  PROVE  /\ Longer(<<Header>>, file[q.sid] \o q.pend, Header)
         /\ Rising(<<Header>>) /\ UpTo(<<Header>>, 0) /\ Header \in Lines /\ Header.type # "torn"
         /\ Read(<<Header>>) = {1} /\ Ids(<<Header>>) = {}
<1>1. file[q.sid] \o q.pend = << >>
  BY EmptyFile, ConcatEmptySeq DEF Starts
<1>2. Longer(<<Header>>, file[q.sid] \o q.pend, Header)
  BY <1>1, EmptyFile DEF Longer
<1>3. Header \in Lines /\ Header.type # "torn" /\ Header.seq = 0 /\ Header.run = Null
  BY TornIsALine DEF Header, Line
<1>4. Read(<<Header>>) = {1}
  BY <1>3 DEF Read
<1>5. Rising(<<Header>>) /\ UpTo(<<Header>>, 0) /\ Ids(<<Header>>) = {}
  BY <1>3, <1>4 DEF Rising, UpTo, Numbered, Ids
<1> QED
  BY <1>2, <1>3, <1>4, <1>5

\* Who else is up when a file is opened.
LEMMA OpensAlone ==
  ASSUME FileTypes, OneWriter', NEW p \in Processes, NEW q \in Process, Opens(p, q),
         \/ Continues(p, q)
         \/ Starts(q)
  PROVE  \A r \in Up \ {p} : proc[r].sid # q.sid
<1>1. CASE Continues(p, q)
  <2>1. \A r \in Processes \ {p} : proc'[r] = proc[r]
    BY <1>1 DEF Continues, Keep, FileTypes, JournalTypes
  <2>2. proc'[p] = q /\ q # Null
    BY <1>1, JournalAssumption DEF Continues, Keep, FileTypes, JournalTypes
  <2> QED
    BY <2>1, <2>2 DEF OneWriter, Up
<1>2. CASE Starts(q)
  BY <1>2 DEF Starts, FileTypes, Begun
<1> QED
  BY <1>1, <1>2

\* With one writer to a file every step keeps its numbers rising (Journal.seq, Session._seq).
LEMMA NextNumbers ==
  FileTypes /\ Numbers /\ OneWriter /\ OneWriter' /\ [JournalNext]_journalVars => Numbers'
<1> SUFFICES ASSUME FileTypes, Numbers, OneWriter, OneWriter', [JournalNext]_journalVars
             PROVE  Numbers'
  OBVIOUS
<1>0. JournalTypes /\ lines \in Nat
  BY UpType DEF FileTypes
<1>1. ASSUME NEW p \in Processes, NEW q \in Process, NEW line \in Lines, Appends(p, q, line)
      PROVE  Numbers'
  <2>1. p \in Up
    BY <1>1 DEF Appends, Up
  <2>2. /\ WithPending(p) \in Seq(Lines) /\ proc[p].seq \in Nat /\ proc[p].seq <= lines
        /\ Rising(WithPending(p)) /\ UpTo(WithPending(p), proc[p].seq)
    BY <1>0, <2>1, UpType DEF Numbers
  <2>3. /\ lines' = lines + 1 /\ q.sid = proc[p].sid /\ q.pend = proc[p].pend
        /\ \/ q.seq = proc[p].seq + 1 /\ line.seq = q.seq
           \/ q.seq = proc[p].seq /\ line.seq = Null
        /\ Written(p, q, line) \/ Refused(p, q, line) \/ CutShort(p, q, line)
    BY <1>1 DEF Appends
  <2>4. PICK G : G = Append(WithPending(p), line)
    OBVIOUS
  <2>5. Longer(G, file[q.sid] \o q.pend, line)
    BY <2>3, <2>4 DEF Longer, WithPending
  <2>6. Rising(G) /\ UpTo(G, q.seq) /\ q.seq <= lines + 1
    <3>1. Rising(G)
      BY <2>2, <2>3, <2>4, UpToParts
    <3>2. q.seq \in Nat /\ proc[p].seq <= q.seq /\ UpTo(WithPending(p), q.seq) /\ q.seq <= lines + 1
      BY <1>0, <2>2, <2>3, UpToParts
    <3>3. line.seq = Null \/ line.seq <= q.seq
      BY <2>3, <3>2
    <3>4. UpTo(G, q.seq)
      BY <2>2, <2>4, <3>2, <3>3, UpToParts
    <3> QED
      BY <3>1, <3>2, <3>4
  <2>7. \A r \in Up \ {p} : proc[r].sid # q.sid
    BY <2>1, <2>3 DEF OneWriter
  <2> QED
    BY <2>3, <2>5, <2>6, <2>7, PutNumbers
<1>2. ASSUME NEW p \in Processes, OpenFile(p) PROVE Numbers'
  <2>1. PICK q \in Process :
            Opens(p, q) /\ (\/ Continues(p, q)
                            \/ Starts(q) /\ (\/ Written(p, q, Header)
                                             \/ CutShort(p, q, Header)
                                             \/ NotBegun(q)))
    BY <1>2, OpensAs
  <2>2. \A r \in Up \ {p} : proc[r].sid # q.sid
    BY <2>1, OpensAlone
  <2>3. q.sid \in Sessions /\ file[q.sid] \in Seq(Lines) /\ q.pend = << >> /\ q.seq <= lines
        /\ UpTo(file[q.sid], q.seq) /\ proc[p] = Null
    BY <1>0, <2>1, UpType DEF Opens, Process
  <2>4. CASE Continues(p, q)
    <3>1. /\ \A r \in Processes \ {p} : proc'[r] = proc[r]
          /\ proc'[p] = q /\ file' = file /\ tail' = tail /\ lines' = lines
      BY <2>4, <1>0 DEF Continues, Keep, JournalTypes
    <3>2. WithPending(p)' = file[q.sid]
      BY <2>3, <3>1, ConcatEmptySeq DEF WithPending
    <3>3. \A r \in Up' :
            r = p \/ (r \in Up /\ proc'[r] = proc[r] /\ WithPending(r)' = WithPending(r))
      BY <3>1 DEF Up, WithPending
    <3> QED
      BY <2>3, <3>1, <3>2, <3>3 DEF Numbers
  <2>5. CASE Starts(q) /\ (Written(p, q, Header) \/ CutShort(p, q, Header))
    <3>1. lines' = lines + 1 /\ q.seq = 0
      BY <2>5 DEF Starts
    <3>2. /\ Longer(<<Header>>, file[q.sid] \o q.pend, Header)
          /\ Rising(<<Header>>) /\ UpTo(<<Header>>, 0) /\ Header \in Lines
      BY <2>3, <2>5, HeaderAlone
    <3> HIDE DEF Header
    <3> QED
      BY <1>0, <2>2, <2>5, <3>1, <3>2, PutNumbers
  <2>6. CASE Starts(q) /\ NotBegun(q)
    <3>1. lines' = lines + 1 /\ proc' = proc
      BY <2>6 DEF Starts, NotBegun
    <3>2. /\ Rising(<<Header>>) /\ UpTo(<<Header>>, 0)
          /\ <<Header>> \in Seq(Lines) /\ <<Header>> # << >>
      BY <2>3, <2>6, HeaderAlone, EmptyFile
    <3>3. UpTo(<<Header>>, lines')
      <4>1. PICK h : h = <<Header>>
        OBVIOUS
      <4>2. h \in Seq(Lines) /\ UpTo(h, 0) /\ lines' \in Nat /\ 0 <= lines'
        BY <1>0, <3>1, <3>2, <4>1
      <4>3. UpTo(h, lines')
        BY <4>2, UpToParts
      <4> QED
        BY <4>1, <4>3
    <3>4. file'[q.sid] \in {file[q.sid], <<Header>>}
          /\ \A s \in Sessions \ {q.sid} : file'[s] = file[s] /\ tail'[s] = tail[s]
      <4>1. CASE UNCHANGED <<file, tail>>
        BY <4>1
      <4>2. CASE OnDisk(q.sid, <<Header>>, "end")
        BY <1>0, <2>3, <3>2, <4>2, DiskTypes DEF TailEnds
      <4> QED
        BY <2>6, <4>1, <4>2 DEF NotBegun
    <3>5. \A s \in Sessions : UpTo(file[s], lines')
      BY <1>0, <3>1, UpAsBefore
    <3>6. \A s \in Sessions : Rising(file'[s]) /\ UpTo(file'[s], lines')
      BY <3>2, <3>3, <3>4, <3>5 DEF Numbers
    <3>7. ASSUME NEW r \in Up'
          PROVE  /\ Rising(WithPending(r)') /\ UpTo(WithPending(r)', proc'[r].seq)
                 /\ proc'[r].seq <= lines'
      <4>1. r \in Up /\ proc'[r] = proc[r] /\ r # p
        BY <2>3, <3>1 DEF Up
      <4>2. WithPending(r)' = WithPending(r)
        <5>1. Alone(p, q.sid)
          BY <2>2, <3>1, <3>4 DEF Alone
        <5> QED
          BY <1>0, <4>1, <5>1, Others
      <4>3. Rising(WithPending(r)) /\ UpTo(WithPending(r), proc[r].seq) /\ proc[r].seq <= lines
            /\ proc[r].seq \in Nat
        BY <1>0, <4>1, UpType DEF Numbers
      <4> QED
        BY <1>0, <3>1, <4>1, <4>2, <4>3
    <3> QED
      BY <3>6, <3>7 DEF Numbers
  <2> QED
    BY <2>1, <2>4, <2>5, <2>6
<1>3. ASSUME NEW p \in Processes, CloseFile(p) PROVE Numbers'
  <2>1. Closes(p)
    BY <1>0, <1>3, ClosesAs
  <2> DEFINE sid == proc[p].sid
  <2>2. /\ sid \in Sessions /\ WithPending(p) \in Seq(Lines) /\ Thin(file'[sid], WithPending(p))
        /\ \A s \in Sessions \ {sid} : file'[s] = file[s] /\ tail'[s] = tail[s]
        /\ proc'[p] = Null /\ \A r \in Processes \ {p} : proc'[r] = proc[r]
    BY <1>0, <2>1, CloseReaches
  <2>3. p \in Up /\ lines' = lines
    BY <2>1 DEF Closes, Up
  <2>4. \A r \in Up \ {p} : proc[r].sid # sid
    BY <2>3 DEF OneWriter
  <2>5. Rising(WithPending(p)) /\ UpTo(WithPending(p), lines)
    <3>1. Rising(WithPending(p)) /\ UpTo(WithPending(p), proc[p].seq) /\ proc[p].seq <= lines
          /\ proc[p].seq \in Nat
      BY <1>0, <2>3, UpType DEF Numbers
    <3> QED
      BY <1>0, <2>2, <3>1, UpToParts
  <2> HIDE DEF sid
  <2>6. Rising(file'[sid]) /\ UpTo(file'[sid], lines)
    BY <2>2, <2>5, ThinIsAlike
  <2>7. \A s \in Sessions : Rising(file'[s]) /\ UpTo(file'[s], lines')
    BY <2>2, <2>3, <2>6 DEF Numbers
  <2>8. ASSUME NEW r \in Up'
        PROVE  r \in Up /\ proc'[r] = proc[r] /\ WithPending(r)' = WithPending(r)
    <3>1. r # p
      BY <2>2 DEF Up
    <3> QED
      <4>1. Alone(p, sid)
        BY <2>2, <2>4 DEF Alone
      <4> QED
        BY <1>0, <3>1, <4>1, Others
  <2> QED
    BY <2>3, <2>7, <2>8 DEF Numbers
<1>4. ASSUME UNCHANGED journalVars PROVE Numbers'
  BY <1>4 DEF journalVars, Numbers, Up, WithPending
<1>5. ASSUME NEW p \in Processes, Submit(p) \/ TellState(p) \/ RunRefused(p) PROVE Numbers'
  BY <1>0, <1>1, <1>5, SubmitAppends, TellAppends, RefusedAppends
<1> QED
  BY <1>2, <1>3, <1>4, <1>5 DEF JournalNext

\* At first nothing is numbered.
LEMMA InitNumbers == JournalInit => Numbers
  BY DEF JournalInit, Numbers, Up, Rising, UpTo, Numbered, Read

\* A session's file stays usable over any crashes, restarts and refused appends, if no other
\* process has it: a crash costs one line, and the numbers that can be read rise.
THEOREM FilesTheorem == JournalSpec /\ []OneWriter => []FilesStayUsable
<1>1. FileTypes /\ CrashesPay /\ Numbers /\ OneWriter /\ OneWriter' /\ [JournalNext]_journalVars
        => (FileTypes /\ CrashesPay /\ Numbers)'
  BY NextTypes, NextPays, NextNumbers
<1>2. FileTypes /\ CrashesPay /\ Numbers => FilesStayUsable
  BY PaidIsOne DEF FilesStayUsable, Numbers, NumbersRise, Rising
<1> QED
  BY <1>1, <1>2, InitTypes, InitNumbers, PTL DEF JournalSpec

\* A line adds its run id to those that can be read, unless it is torn.
LEMMA LongerIds ==
  ASSUME NEW f \in Seq(Lines), NEW line \in Lines, NEW h, Longer(h, f, line)
  PROVE  Ids(h) = Ids(f) \cup (IF line.type = "torn" THEN {} ELSE {line.run} \ {Null})
<1>1. /\ \A i \in Read(f) : i \in Read(h) /\ h[i] = f[i]
      /\ line.type # "torn" => Len(h) \in Read(h)
      /\ h[Len(h)] = line
      /\ \A i \in Read(h) : \/ i \in Read(f) /\ h[i] = f[i]
                            \/ i = Len(h) /\ h[i] = line /\ line.type # "torn"
  BY AppendRead
<1>2. Ids(h) \subseteq Ids(f) \cup (IF line.type = "torn" THEN {} ELSE {line.run} \ {Null})
  BY <1>1 DEF Ids
<1>3. Ids(f) \subseteq Ids(h)
  BY <1>1 DEF Ids
<1>4. line.type # "torn" => {line.run} \ {Null} \subseteq Ids(h)
  BY <1>1 DEF Ids
<1> QED
  BY <1>2, <1>3, <1>4

\* What a file knows once bytes reach it, if what is missing a newline is torn anyway.
LEMMA JoinedIds ==
  ASSUME NEW f \in Seq(Lines), NEW pend \in Seq(Lines), NEW line \in Lines, NEW end,
         end # "end" => f # << >> /\ f[Len(f)] = TornLine
  PROVE  LET F == Joined(f, end, pend)
             J == Joined(f, end, Append(pend, line))
         IN  /\ line.type = "torn" => Ids(J) = Ids(F)
             /\ line.type # "torn" /\ (end = "end" \/ pend # << >>) =>
                  Ids(J) = Ids(F) \cup ({line.run} \ {Null})
             /\ ~(end = "end" \/ pend # << >>) => Ids(J) = Ids(F)
<1> DEFINE F == Joined(f, end, pend)
           J == Joined(f, end, Append(pend, line))
<1>1. F \in Seq(Lines)
  BY JoinedShape
<1>2. CASE end = "end" \/ pend # << >>
  <2>1. J = Append(F, line)
    BY <1>2, JoinedAppend
  <2> HIDE DEF J, F
  <2>2. Longer(J, F, line)
    BY <2>1 DEF Longer
  <2>3. /\ line.type = "torn" => Ids(J) = Ids(F) \cup {}
        /\ line.type # "torn" => Ids(J) = Ids(F) \cup ({line.run} \ {Null})
    BY <1>1, <2>2, LongerIds
  <2>4. Ids(F) \cup {} = Ids(F)
    OBVIOUS
  <2> QED
    BY <1>2, <2>3, <2>4 DEF J, F
<1>3. CASE end # "end" /\ pend = << >>
  <2>1. J = [f EXCEPT ![Len(f)] = TornLine]
    <3>1. J = Joined(f, end, Append(<< >>, line)) /\ f # << >>
      BY <1>3
    <3> QED
      BY <1>3, <3>1, JoinedLast
  <2>2. J = f
    <3>1. f[Len(f)] = TornLine /\ f = [i \in 1..Len(f) |-> f[i]]
      BY <1>3
    <3> QED
      BY <2>1, <3>1
  <2>3. F = f
    <3>1. F = f \o << >>
      BY <1>3 DEF Joined
    <3> QED
      BY <3>1, ConcatEmptySeq
  <2> QED
    BY <1>3, <2>2, <2>3
<1> QED
  BY <1>2, <1>3

\* What becomes of an append when no line is dropped.
LEMMA PutMemory ==
  ASSUME JournalTypes, NEW p \in Processes, NEW q \in Process, NEW line \in Lines,
         Written(p, q, line) \/ Refused(p, q, line) \/ CutShort(p, q, line), dropped' = FALSE
  PROVE  LET J == Joined(file[q.sid], tail[q.sid], Append(q.pend, line))
             T == Joined(file[q.sid], tail[q.sid], Append(q.pend, TornLine))
             noted == [sid |-> q.sid, line |-> line]
         IN  /\ dropped = FALSE
             /\ p \in Up' =>
                  /\ Flushed(p)' = J /\ (tail'[q.sid] = "end" \/ proc'[p].pend # << >>)
                  /\ \/ file'[q.sid] = J /\ tail'[q.sid] = "end"
                     \/ file'[q.sid] = file[q.sid] /\ tail'[q.sid] = tail[q.sid]
                  /\ \/ proc'[p].own = Append(q.own, line) /\ returned' = returned \cup {noted}
                     \/ proc'[p].own = q.own /\ returned' = returned
             /\ p \notin Up' => file'[q.sid] = T /\ tail'[q.sid] = "cut" /\ returned' = returned
<1> DEFINE f == file[q.sid]
           new == Append(q.pend, line)
           torn == Append(q.pend, TornLine)
           J == Joined(f, tail[q.sid], new)
           T == Joined(f, tail[q.sid], torn)
           noted == [sid |-> q.sid, line |-> line]
<1>1. /\ q.sid \in Sessions /\ q.pend \in Seq(Lines) /\ f \in Seq(Lines)
      /\ tail[q.sid] \in TailEnds /\ (tail[q.sid] # "end" => f # << >>)
  BY DEF Process, JournalTypes, TailEnds
<1>2. /\ J \in Seq(Lines) /\ J # << >> /\ new \in Seq(Lines) /\ new # << >>
      /\ T \in Seq(Lines) /\ T # << >> /\ torn \in Seq(Lines)
  BY <1>1, AppendedType, TornIsALine
<1>3. proc \in [Processes -> Process \cup {Null}]
  BY DEF JournalTypes
<1>4. CASE Written(p, q, line)
  <2>1. /\ OnDisk(q.sid, J, "end") /\ Keep(p, [q EXCEPT !.own = Append(@, line), !.pend = << >>])
        /\ returned' = returned \cup {noted}
    BY <1>4 DEF Written
  <2>2. dropped = FALSE
    BY <1>4, Zenon DEF Written
  <2> HIDE DEF J
  <2>3. file'[q.sid] = J /\ tail'[q.sid] = "end"
    BY <1>1, <1>2, <2>1, DiskTypes DEF TailEnds
  <2>4. proc'[p] = [q EXCEPT !.own = Append(@, line), !.pend = << >>]
    BY <1>3, <2>1 DEF Keep
  <2>5. /\ proc'[p].sid = q.sid /\ proc'[p].own = Append(q.own, line) /\ proc'[p].pend = << >>
        /\ proc'[p] \in Process
    <3>1. Append(q.own, line) \in Seq(Lines) /\ << >> \in Seq(Lines)
      BY EmptyFile, AppendProperties DEF Process
    <3> QED
      BY <2>4, <3>1 DEF Process
  <2>6. p \in Up'
    BY <2>5, JournalAssumption DEF Up
  <2>7. Joined(J, "end", << >>) = J
    <3>1. Joined(J, "end", << >>) = J \o << >>
      BY DEF Joined
    <3> QED
      BY <1>2, <3>1, ConcatEmptySeq
  <2>8. Flushed(p)' = J
    BY <2>3, <2>5, <2>7 DEF Flushed
  <2> QED
    BY <2>1, <2>2, <2>3, <2>5, <2>6, <2>8 DEF J
<1>5. CASE Refused(p, q, line)
  <2>1. /\ file' = file /\ tail' = tail /\ returned' = returned
    BY <1>5 DEF Refused
  <2>2. Keep(p, [q EXCEPT !.pend = Append(@, line)]) /\ dropped' = dropped
    BY <1>5, Zenon DEF Refused
  <2>3. dropped = FALSE
    BY <2>2, Zenon
  <2>4. proc'[p] = [q EXCEPT !.pend = Append(@, line)]
    BY <1>3, <2>2 DEF Keep
  <2>5. proc'[p].sid = q.sid /\ proc'[p].own = q.own /\ proc'[p].pend = new /\ proc'[p] \in Process
    BY <1>2, <2>4 DEF Process
  <2>6. p \in Up'
    BY <2>5, JournalAssumption DEF Up
  <2>7. Flushed(p)' = J
    BY <2>1, <2>5 DEF Flushed
  <2> QED
    BY <1>2, <2>1, <2>3, <2>5, <2>6, <2>7
<1>6. CASE CutShort(p, q, line)
  <2>1. returned' = returned /\ Keep(p, Null)
    BY <1>6 DEF CutShort
  <2>2. OnDisk(q.sid, T, "cut") /\ dropped' = dropped
    BY <1>6, Zenon DEF CutShort
  <2>3. dropped = FALSE
    BY <2>2, Zenon
  <2>4. p \notin Up'
    BY <1>3, <2>1 DEF Keep, Up
  <2> HIDE DEF T
  <2>5. file'[q.sid] = T /\ tail'[q.sid] = "cut"
    BY <1>1, <1>2, <2>2, DiskTypes DEF TailEnds
  <2> QED
    BY <2>1, <2>3, <2>4, <2>5 DEF T
<1> QED
  BY <1>4, <1>5, <1>6

\* Where torn bytes end, the last line is torn.
LEMMA TornEnds ==
  ASSUME NEW f \in Seq(Lines), NEW pend \in Seq(Lines), NEW end, end # "end" => f # << >>
  PROVE  LET T == Joined(f, end, Append(pend, TornLine)) IN T[Len(T)] = TornLine
<1> DEFINE T == Joined(f, end, Append(pend, TornLine))
           F == Joined(f, end, pend)
<1>1. F \in Seq(Lines) /\ TornLine \in Lines
  BY JoinedShape, TornIsALine
<1>2. CASE end = "end" \/ pend # << >>
  <2>1. T = Append(F, TornLine)
    BY <1>1, <1>2, JoinedAppend
  <2> HIDE DEF F, T
  <2>2. Longer(T, F, TornLine)
    BY <2>1 DEF Longer
  <2>3. T[Len(T)] = TornLine
    BY <1>1, <2>2, AppendRead
  <2> QED
    BY <2>3 DEF T
<1>3. CASE end # "end" /\ pend = << >>
  <2>1. T = [f EXCEPT ![Len(f)] = TornLine]
    <3>1. T = Joined(f, end, Append(<< >>, TornLine)) /\ f # << >>
      BY <1>3
    <3> QED
      BY <1>1, <1>3, <3>1, JoinedLast
  <2>2. Len(f) \in Nat \ {0}
    BY <1>3, EmptySeq
  <2>3. Len(T) = Len(f) /\ T[Len(f)] = TornLine
    BY <1>1, <2>1, <2>2, ExceptSeq
  <2> QED
    BY <2>3
<1> QED
  BY <1>2, <1>3

\* The three appends.
Kind(p, q, line) == Queues(p, q, line) \/ Tells(p, q, line) \/ Refuses(p, q, line)

\* What an append makes of the runs of its process, as Given has them.
LEMMA AppendRuns ==
  ASSUME JournalTypes, Given, NEW p \in Up, NEW q \in Process, NEW line \in Lines, Kind(p, q, line)
  PROVE  /\ \A k, l \in DOMAIN q.runs : q.runs[k].run = q.runs[l].run => k = l
         /\ \A k \in DOMAIN q.runs : /\ q.runs[k].run \in 1..q.count
                                     /\ q.runs[k].sub \in 1..Len(subs')
                                     /\ q.runs[k].state = "new" => q.runs[k].run = q.count
         /\ \A k \in DOMAIN q.runs : \/ q.runs[k].sub = Len(subs) + 1
                                     \/ /\ k \in DOMAIN proc[p].runs
                                        /\ q.runs[k].sub = proc[p].runs[k].sub
         /\ \A k \in DOMAIN proc[p].runs :
               k \in DOMAIN q.runs /\ q.runs[k].sub = proc[p].runs[k].sub
         /\ line.type = "RunStateChanged" => \E k \in DOMAIN q.runs : line.sub = q.runs[k].sub
         /\ line.sub = 0 \/ \E k \in DOMAIN q.runs : line.sub = q.runs[k].sub
         /\ line.sub <= Len(subs') /\ Len(subs) \in Nat /\ Len(subs') \in Nat
         /\ Len(subs) <= Len(subs')
<1> DEFINE c == proc[p].count
           R == proc[p].runs
           new == [run |-> c + 1, sub |-> Len(subs) + 1, state |-> "new"]
<1>1. c \in Nat /\ R \in Seq(RunEntry) /\ Len(R) \in Nat /\ DOMAIN R = 1..Len(R)
  BY UpType
<1>2. /\ \A k, l \in DOMAIN R : R[k].run = R[l].run => k = l
      /\ \A k \in DOMAIN R : /\ R[k].run \in 1..c /\ R[k].sub \in 1..Len(subs)
                             /\ R[k].state = "new" => R[k].run = c
  BY Zenon DEF Given
<1>3. subs \in Seq([sid : Sessions, run : Nat]) /\ Len(subs) \in Nat
  BY DEF JournalTypes
<1> HIDE DEF c, R
<1>4. CASE Queues(p, q, line)
  <2>1. /\ ~Submitting(p) /\ subs' = Append(subs, [sid |-> proc[p].sid, run |-> new.run])
        /\ q.count = c + 1 /\ q.runs = Append(R, new)
        /\ line.type = "RunQueued" /\ line.run = c + 1 /\ line.sub = Len(subs) + 1
    BY <1>4 DEF Queues, c, R
  <2>2. Len(subs') = Len(subs) + 1
    BY <1>3, <2>1
  <2>3. /\ Len(q.runs) = Len(R) + 1 /\ DOMAIN q.runs = 1..(Len(R) + 1)
        /\ \A k \in 1..Len(R) : q.runs[k] = R[k]
        /\ q.runs[Len(R) + 1] = new
    BY <1>1, <2>1
  <2>4. new.run = c + 1 /\ new.sub = Len(subs) + 1
    OBVIOUS
  <2> HIDE DEF new
  <2>5. \A k \in DOMAIN q.runs : k \in DOMAIN R \/ k = Len(R) + 1
    BY <1>1, <2>3
  <2>6. \A k \in DOMAIN R : k \in DOMAIN q.runs /\ q.runs[k] = R[k] /\ k # Len(R) + 1
                            /\ R[k].run # c + 1 /\ R[k].state # "new"
    BY <1>1, <1>2, <2>1, <2>3 DEF Submitting, R
  <2>7. Len(R) + 1 \in DOMAIN q.runs
    BY <1>1, <2>3
  <2>8. \A k, l \in DOMAIN q.runs : q.runs[k].run = q.runs[l].run => k = l
    BY <1>2, <2>3, <2>4, <2>5, <2>6
  <2>9. ASSUME NEW k \in DOMAIN q.runs
        PROVE  /\ q.runs[k].run \in 1..q.count /\ q.runs[k].sub \in 1..Len(subs')
               /\ q.runs[k].state = "new" => q.runs[k].run = q.count
               /\ \/ q.runs[k].sub = Len(subs) + 1
                  \/ k \in DOMAIN R /\ q.runs[k].sub = R[k].sub
    <3>1. CASE k \in DOMAIN R
      <4>1. q.runs[k] = R[k] /\ R[k].run \in 1..c /\ R[k].sub \in 1..Len(subs) /\ R[k].state # "new"
        BY <1>2, <2>6, <3>1
      <4> QED
        BY <1>1, <1>3, <2>1, <2>2, <3>1, <4>1
    <3>2. CASE k = Len(R) + 1
      BY <1>1, <1>3, <2>1, <2>2, <2>3, <2>4, <3>2
    <3> QED
      BY <2>5, <3>1, <3>2
  <2>10. \E k \in DOMAIN q.runs : line.sub = q.runs[k].sub
    BY <2>1, <2>3, <2>4, <2>7
  <2>11. line.sub <= Len(subs') /\ Len(subs') \in Nat /\ Len(subs) <= Len(subs')
    BY <1>3, <2>1, <2>2
  <2>12. line.type # "RunStateChanged"
    BY <2>1
  <2>13. \A k \in DOMAIN R : k \in DOMAIN q.runs /\ q.runs[k].sub = R[k].sub
    BY <2>6
  <2> QED
    BY <1>3, <2>8, <2>9, <2>10, <2>11, <2>12, <2>13 DEF R
<1>5. CASE Tells(p, q, line)
  <2>1. PICK i \in DOMAIN R : \E state \in After(R[i].state) :
          /\ subs' = subs /\ q.count = c /\ q.runs = [R EXCEPT ![i].state = state]
          /\ line.type = "RunStateChanged" /\ line.sub = R[i].sub
    BY <1>5 DEF Tells, c, R
  <2>2. PICK state \in After(R[i].state) :
          /\ subs' = subs /\ q.count = c /\ q.runs = [R EXCEPT ![i].state = state]
          /\ line.type = "RunStateChanged" /\ line.sub = R[i].sub
    BY <2>1
  <2>3. state # "new"
    BY AfterType
  <2>4. /\ DOMAIN q.runs = DOMAIN R
        /\ \A k \in DOMAIN R : /\ q.runs[k].run = R[k].run /\ q.runs[k].sub = R[k].sub
                               /\ q.runs[k].state = IF k = i THEN state ELSE R[k].state
    <3>1. \A k \in DOMAIN R : R[k] \in RunEntry
      BY <1>1
    <3>2. \A k \in DOMAIN R : q.runs[k] = IF k = i THEN [R[i] EXCEPT !.state = state] ELSE R[k]
      BY <2>2
    <3>3. [R[i] EXCEPT !.state = state].run = R[i].run
          /\ [R[i] EXCEPT !.state = state].sub = R[i].sub
          /\ [R[i] EXCEPT !.state = state].state = state
      BY <3>1 DEF RunEntry
    <3> QED
      BY <2>2, <3>2, <3>3
  <2>5. line.sub \in 1..Len(subs)
    BY <1>2, <2>1, <2>2
  <2>6. line.sub <= Len(subs') /\ Len(subs') \in Nat /\ Len(subs) <= Len(subs')
    BY <1>3, <2>2, <2>5
  <2>7. \A k, l \in DOMAIN q.runs : q.runs[k].run = q.runs[l].run => k = l
    BY <1>2, <2>4
  <2>8. \A k \in DOMAIN q.runs : /\ q.runs[k].run \in 1..q.count
                                 /\ q.runs[k].sub \in 1..Len(subs')
                                 /\ q.runs[k].state = "new" => q.runs[k].run = q.count
                                 /\ k \in DOMAIN R /\ q.runs[k].sub = R[k].sub
    BY <1>2, <2>2, <2>3, <2>4
  <2>9. \A k \in DOMAIN R : k \in DOMAIN q.runs /\ q.runs[k].sub = R[k].sub
    BY <2>4
  <2>10. \E k \in DOMAIN q.runs : line.sub = q.runs[k].sub
    BY <2>2, <2>4
  <2> QED
    BY <1>3, <2>6, <2>7, <2>8, <2>9, <2>10 DEF R
<1>6. CASE Refuses(p, q, line)
  <2>1. subs' = subs /\ q.runs = R /\ q.count = c /\ line.type = "RunRefused" /\ line.sub = 0
    BY <1>6 DEF Refuses, c, R
  <2> QED
    BY <1>2, <1>3, <2>1 DEF R
<1> QED
  BY <1>4, <1>5, <1>6 DEF Kind

\* What is known of the runs of a process stays so with its next line.
LEMMA StoryGrows ==
  ASSUME JournalTypes, Given, NEW p \in Up, NEW q \in Process, NEW line \in Lines, Kind(p, q, line),
         NEW W \in Seq(Lines), Story(W, proc[p]), NEW H, Longer(H, W, line)
  PROVE  Story(H, q)
<1> DEFINE c == proc[p].count
           R == proc[p].runs
           new == [run |-> c + 1, sub |-> Len(subs) + 1, state |-> "new"]
<1>1. c \in Nat /\ R \in Seq(RunEntry) /\ Len(R) \in Nat /\ DOMAIN R = 1..Len(R)
      /\ \A k \in DOMAIN R : R[k] \in RunEntry
  BY UpType
<1>2. /\ \A k, l \in DOMAIN R : R[k].run = R[l].run => k = l
      /\ \A k \in DOMAIN R : R[k].run \in 1..c
  BY Zenon DEF Given
<1>3. /\ \A i \in Read(W) : i \in Read(H) /\ H[i] = W[i] /\ i < Len(H) /\ i \in Nat
      /\ Len(H) \in Nat
      /\ \A i \in Read(H) : \/ i \in Read(W) /\ H[i] = W[i] /\ i < Len(H)
                            \/ i = Len(H) /\ H[i] = line
  BY AppendRead
<1>4. /\ Apart(W) /\ Settled(W)
      /\ \A i \in Read(W) : W[i].run # Null => W[i].run \in 1..c
      /\ \A i \in Read(W), k \in DOMAIN R : W[i].run = R[k].run =>
          /\ W[i].sub = R[k].sub
          /\ Outcome(W[i]) => R[k].state \in Terminal \cup {"parked"}
  BY DEF Story, Agrees, c, R
<1> HIDE DEF c, R
\* The new line against the old ones, and against the runs.
<1>5. ASSUME \A i \in Read(W) : line.run # Null /\ W[i].run = line.run => W[i].sub = line.sub,
             \A i \in Read(W) : W[i].run = line.run /\ Outcome(W[i])
                                  /\ line.type = "RunStateChanged" => line.state = "parked",
             line.run # Null => line.run \in 1..q.count, c <= q.count, q.count \in Nat,
             \A i \in Read(W), k \in DOMAIN q.runs : W[i].run = q.runs[k].run =>
                /\ W[i].sub = q.runs[k].sub
                /\ Outcome(W[i]) => q.runs[k].state \in Terminal \cup {"parked"},
             \A k \in DOMAIN q.runs : line.run = q.runs[k].run =>
                /\ line.sub = q.runs[k].sub
                /\ Outcome(line) => q.runs[k].state \in Terminal \cup {"parked"}
      PROVE  Story(H, q)
  <2>1. Apart(H)
    BY <1>3, <1>4, <1>5 DEF Apart
  <2>2. ASSUME NEW i \in Read(H), NEW j \in Read(H), i < j, H[i].run = H[j].run, Outcome(H[i]),
               H[j].type = "RunStateChanged"
        PROVE  H[j].state = "parked"
    <3>1. i \in Read(W) /\ H[i] = W[i]
      BY <1>3, <2>2
    <3> QED
      BY <1>3, <1>4, <1>5, <2>2, <3>1 DEF Settled
  <2>3. Settled(H)
    BY <2>2 DEF Settled
  <2>4. \A i \in Read(H) : H[i].run # Null => H[i].run \in 1..q.count
    <3>1. \A n \in 1..c : n \in 1..q.count
      BY <1>1, <1>5
    <3> QED
      BY <1>3, <1>4, <1>5, <3>1
  <2>5. Agrees(H, q)
    BY <1>3, <1>5, <2>4 DEF Agrees
  <2> QED
    BY <2>1, <2>3, <2>5 DEF Story
<1>6. CASE Queues(p, q, line)
  <2>1. /\ q.count = c + 1 /\ q.runs = Append(R, new) /\ ~Submitting(p)
        /\ line.type = "RunQueued" /\ line.run = c + 1 /\ line.sub = Len(subs) + 1
    BY <1>6 DEF Queues, c, R
  <2>2. \A k \in DOMAIN q.runs : \/ k \in DOMAIN R /\ q.runs[k] = R[k]
                                 \/ q.runs[k] = new
    BY <1>1, <2>1
  <2>3. new.run = c + 1 /\ new.sub = Len(subs) + 1
    OBVIOUS
  <2> HIDE DEF new
  <2>4. c + 1 # Null
    BY <1>1, JournalAssumption
  <2>5. \A i \in Read(W) : W[i].run # c + 1
    BY <1>1, <1>4, <2>4
  <2>6. \A k \in DOMAIN R : R[k].run # c + 1
    BY <1>1, <1>2
  <2>7. ~Outcome(line)
    BY <2>1 DEF Outcome
  <2>8. line.run \in 1..q.count /\ c <= q.count /\ q.count \in Nat
    BY <1>1, <2>1
  <2> QED
    BY <1>4, <1>5, <2>1, <2>2, <2>3, <2>5, <2>6, <2>7, <2>8
<1>7. CASE Tells(p, q, line)
  <2>1. PICK i \in DOMAIN R : \E state \in After(R[i].state) :
          /\ q.count = c /\ q.runs = [R EXCEPT ![i].state = state]
          /\ line.type = "RunStateChanged" /\ line.run = R[i].run /\ line.sub = R[i].sub
          /\ line.state = state
    BY <1>7 DEF Tells, c, R
  <2>2. PICK state \in After(R[i].state) :
          /\ q.count = c /\ q.runs = [R EXCEPT ![i].state = state]
          /\ line.type = "RunStateChanged" /\ line.run = R[i].run /\ line.sub = R[i].sub
          /\ line.state = state
    BY <2>1
  <2>3. R[i].state \in Terminal \cup {"parked"} => state = "parked"
    BY AfterType
  <2>4. /\ DOMAIN q.runs = DOMAIN R
        /\ \A k \in DOMAIN R : /\ q.runs[k].run = R[k].run /\ q.runs[k].sub = R[k].sub
                               /\ q.runs[k].state = IF k = i THEN state ELSE R[k].state
    <3>1. \A k \in DOMAIN R : q.runs[k] = IF k = i THEN [R[i] EXCEPT !.state = state] ELSE R[k]
      BY <2>2
    <3>2. [R[i] EXCEPT !.state = state].run = R[i].run
          /\ [R[i] EXCEPT !.state = state].sub = R[i].sub
          /\ [R[i] EXCEPT !.state = state].state = state
      BY <1>1 DEF RunEntry
    <3> QED
      BY <2>2, <3>1, <3>2
  <2>5. line.run \in 1..q.count /\ c <= q.count /\ q.count \in Nat
    BY <1>1, <1>2, <2>2
  <2>6. Outcome(line) => state \in Terminal
    BY <2>2 DEF Outcome
  <2>7. \A j \in Read(W) : W[j].run = line.run => W[j].sub = line.sub
    BY <1>4, <2>2
  <2>8. \A j \in Read(W) : W[j].run = line.run /\ Outcome(W[j]) => line.state = "parked"
    BY <1>4, <2>2, <2>3
  <2>9. ASSUME NEW j \in Read(W), NEW k \in DOMAIN q.runs, W[j].run = q.runs[k].run
        PROVE  W[j].sub = q.runs[k].sub
               /\ (Outcome(W[j]) => q.runs[k].state \in Terminal \cup {"parked"})
    BY <1>4, <2>3, <2>4, <2>9
  <2>10. ASSUME NEW k \in DOMAIN q.runs, line.run = q.runs[k].run
         PROVE  line.sub = q.runs[k].sub
                /\ (Outcome(line) => q.runs[k].state \in Terminal \cup {"parked"})
    <3>1. k = i
      BY <1>2, <2>2, <2>4, <2>10
    <3> QED
      BY <2>2, <2>4, <2>6, <3>1
  <2> QED
    BY <1>5, <2>5, <2>7, <2>8, <2>9, <2>10
<1>8. CASE Refuses(p, q, line)
  <2>1. q.runs = R /\ q.count = c /\ line.type = "RunRefused" /\ line.run = Null
    BY <1>8 DEF Refuses, c, R
  <2>2. \A k \in DOMAIN R : R[k].run # Null
    BY <1>1, JournalAssumption DEF RunEntry
  <2> QED
    BY <1>1, <1>4, <1>5, <2>1, <2>2
<1> QED
  BY <1>6, <1>7, <1>8 DEF Kind

\* The ids of a file are those a process has counted, but for one it has not queued yet.
InStep(p, I) == I = 1..proc[p].count \/ (Submitting(p) /\ I = 1..(proc[p].count - 1))
\* The id of a line is among them afterwards, at least if a run is being submitted.
Adds(p, I, K, line) ==
    /\ K = I \/ K = I \cup ({line.run} \ {Null})
    /\ Submitting(p) => K = I \cup ({line.run} \ {Null})

\* What a file knows keeps up with the runs counted.
LEMMA AppendCounts ==
  ASSUME JournalTypes, Given, NEW p \in Up, NEW q \in Process, NEW line \in Lines, Kind(p, q, line),
         NEW I, NEW K, InStep(p, I), Adds(p, I, K, line)
  PROVE  /\ \/ K = 1..q.count
            \/ K = 1..(q.count - 1) /\ \E k \in DOMAIN q.runs : q.runs[k].state = "new"
         /\ \E n \in Nat : I = 1..n
<1>0. /\ K = I \/ K = I \cup ({line.run} \ {Null})
      /\ Submitting(p) => K = I \cup ({line.run} \ {Null})
  BY DEF Adds
<1> DEFINE c == proc[p].count
           R == proc[p].runs
           new == [run |-> c + 1, sub |-> Len(subs) + 1, state |-> "new"]
<1>1. c \in Nat /\ R \in Seq(RunEntry) /\ Len(R) \in Nat /\ DOMAIN R = 1..Len(R)
      /\ \A k \in DOMAIN R : R[k] \in RunEntry
  BY UpType
<1>2. \A k \in DOMAIN R : R[k].run \in 1..c /\ (R[k].state = "new" => R[k].run = c)
  BY Zenon DEF Given
<1>3. \/ I = 1..c
      \/ Submitting(p) /\ I = 1..(c - 1)
  BY DEF InStep
<1>4. Submitting(p) => c >= 1
  BY <1>1, <1>2 DEF Submitting
<1>5. \E n \in Nat : I = 1..n
  BY <1>1, <1>3, <1>4
<1> HIDE DEF c, R
<1>6. CASE Queues(p, q, line)
  <2>1. q.count = c + 1 /\ q.runs = Append(R, new) /\ ~Submitting(p) /\ line.run = c + 1
    BY <1>6 DEF Queues, c, R
  <2>2. Len(R) + 1 \in DOMAIN q.runs /\ q.runs[Len(R) + 1].state = "new"
    BY <1>1, <2>1
  <2>3. I = 1..c
    BY <1>3, <2>1
  <2>4. K = 1..c \/ K = 1..(c + 1)
    <3>1. 1..c \cup {c + 1} = 1..(c + 1)
      BY <1>1
    <3>2. c + 1 # Null
      BY <1>1, JournalAssumption
    <3> QED
      BY <1>0, <2>1, <2>3, <3>1, <3>2
  <2>5. q.count - 1 = c
    BY <1>1, <2>1
  <2> QED
    BY <1>5, <2>1, <2>2, <2>4, <2>5
<1>7. CASE Tells(p, q, line)
  <2>1. PICK i \in DOMAIN R : \E state \in After(R[i].state) :
          (Submitting(p) => state = "queued") /\ q.count = c /\ line.run = R[i].run
    BY <1>7 DEF Tells, c, R
  <2>2. PICK state \in After(R[i].state) :
          (Submitting(p) => state = "queued") /\ q.count = c /\ line.run = R[i].run
    BY <2>1
  <2>3. line.run \in 1..c /\ line.run # Null
    BY <1>1, <1>2, <2>2, JournalAssumption
  <2>4. Submitting(p) => line.run = c
    <3>1. state = "queued" => R[i].state = "new"
      BY AfterType
    <3> QED
      BY <1>2, <2>2, <3>1
  <2>5. CASE Submitting(p)
    <3>1. K = I \cup {c}
      BY <1>0, <2>2, <2>3, <2>4, <2>5
    <3>2. 1..(c - 1) \cup {c} = 1..c /\ 1..c \cup {c} = 1..c
      BY <1>1, <1>4, <2>5
    <3> QED
      BY <1>3, <1>5, <2>2, <3>1, <3>2
  <2>6. CASE ~Submitting(p)
    BY <1>0, <1>3, <1>5, <2>2, <2>3, <2>6
  <2> QED
    BY <2>5, <2>6
<1>8. CASE Refuses(p, q, line)
  BY <1>0, <1>3, <1>5, <1>8 DEF Refuses, c
<1> QED
  BY <1>6, <1>7, <1>8 DEF Kind

\* A file whose ids are 1 .. n is in order.
LEMMA KnownInOrder ==
  ASSUME NEW f, NEW n \in Nat, Ids(f) = 1..n
  PROVE  InOrder(f)
  BY FS_Interval DEF InOrder, RunsSeen

\* While nothing is dropped, a file without a newline at its end has a torn last line.
LEMMA AppendTorned ==
  ASSUME JournalTypes, Torned, NEW p \in Processes, NEW q \in Process, NEW line \in Lines,
         Written(p, q, line) \/ Refused(p, q, line) \/ CutShort(p, q, line), dropped' = FALSE,
         Alone(p, q.sid)
  PROVE  Torned'
<1> DEFINE T == Joined(file[q.sid], tail[q.sid], Append(q.pend, TornLine))
<1>1. /\ q.sid \in Sessions /\ q.pend \in Seq(Lines) /\ file[q.sid] \in Seq(Lines)
      /\ (tail[q.sid] # "end" => file[q.sid] # << >>)
  BY DEF Process, JournalTypes
<1>2. T[Len(T)] = TornLine
  BY <1>1, TornEnds
<1> HIDE DEF T
<1>3. \/ tail'[q.sid] = "end"
      \/ file'[q.sid] = file[q.sid] /\ tail'[q.sid] = tail[q.sid]
      \/ file'[q.sid] = T /\ tail'[q.sid] = "cut"
  BY PutMemory DEF T
<1>4. \A s \in Sessions \ {q.sid} : file'[s] = file[s] /\ tail'[s] = tail[s]
  BY DEF Alone
<1> QED
  BY <1>1, <1>2, <1>3, <1>4 DEF Torned

\* An append keeps the count of a process in step with the ids its file will hold.
LEMMA AppendCounted ==
  ASSUME JournalTypes, Torned, RunsInStep, Given, NEW p \in Up, NEW q \in Process,
         NEW line \in Lines, Appends(p, q, line), Kind(p, q, line), dropped' = FALSE,
         Alone(p, q.sid)
  PROVE  RunsInStep'
<1> DEFINE f == file[q.sid]
           J == Joined(f, tail[q.sid], Append(q.pend, line))
           T == Joined(f, tail[q.sid], Append(q.pend, TornLine))
           F == Joined(f, tail[q.sid], q.pend)
           X == {line.run} \ {Null}
<1>1. /\ p \in Processes /\ q.sid = proc[p].sid /\ q.pend = proc[p].pend /\ line.type # "torn"
      /\ Written(p, q, line) \/ Refused(p, q, line) \/ CutShort(p, q, line)
  BY DEF Appends, Up
<1>2. /\ q.sid \in Sessions /\ q.pend \in Seq(Lines) /\ f \in Seq(Lines)
      /\ (tail[q.sid] # "end" => f # << >> /\ f[Len(f)] = TornLine)
  BY DEF Process, JournalTypes, Torned
<1>3. F = Flushed(p)
  BY <1>1 DEF Flushed
<1>4. /\ tail[q.sid] = "end" \/ q.pend # << >> => Ids(J) = Ids(F) \cup X
      /\ ~(tail[q.sid] = "end" \/ q.pend # << >>) => Ids(J) = Ids(F)
  BY <1>1, <1>2, JoinedIds
<1>5. Ids(T) = Ids(F)
  <2>1. TornLine \in Lines /\ TornLine.type = "torn"
    BY TornIsALine
  <2> QED
    BY <1>2, <2>1, JoinedIds
<1>6. \/ Ids(F) = 1..proc[p].count
      \/ Submitting(p) /\ Ids(F) = 1..(proc[p].count - 1)
  BY <1>3 DEF RunsInStep
<1>7. Submitting(p) => tail[q.sid] = "end" \/ q.pend # << >>
  BY <1>1, Zenon DEF Given
<1>8. /\ p \in Up' => Flushed(p)' = J
      /\ p \notin Up' => file'[q.sid] = T
      /\ p \in Up' => proc'[p].sid = q.sid /\ proc'[p].count = q.count /\ proc'[p].runs = q.runs
  BY <1>1, PutMemory, PutReaches DEF Up
<1> HIDE DEF J, F, T
<1>9. /\ \/ Ids(J) = 1..q.count
         \/ Ids(J) = 1..(q.count - 1) /\ \E k \in DOMAIN q.runs : q.runs[k].state = "new"
      /\ \E n \in Nat : Ids(F) = 1..n
  <2>1. PICK I : I = Ids(F)
    OBVIOUS
  <2>2. PICK K : K = Ids(J)
    OBVIOUS
  <2>3. Adds(p, I, K, line)
    BY <1>4, <1>7, <2>1, <2>2 DEF Adds
  <2>4. InStep(p, I)
    BY <1>6, <2>1 DEF InStep
  <2>5. /\ \/ K = 1..q.count
           \/ K = 1..(q.count - 1) /\ \E k \in DOMAIN q.runs : q.runs[k].state = "new"
        /\ \E n \in Nat : I = 1..n
    BY <2>3, <2>4, AppendCounts
  <2> QED
    BY <2>1, <2>2, <2>5
<1>10. ASSUME NEW s \in Sessions, \A r \in Up' : proc'[r].sid # s PROVE InOrder(file'[s])
  <2>1. CASE s = q.sid
    <3>1. p \notin Up'
      BY <1>8, <1>10, <2>1
    <3> QED
      BY <1>5, <1>8, <1>9, <2>1, <3>1, KnownInOrder
  <2>2. CASE s # q.sid
    <3>1. file'[s] = file[s] /\ \A r \in Processes \ {p} : proc'[r] = proc[r]
      BY <2>2 DEF Alone
    <3>2. \A r \in Up : proc[r].sid # s
      BY <1>1, <1>10, <2>2, <3>1 DEF Up
    <3> QED
      BY <3>1, <3>2 DEF RunsInStep
  <2> QED
    BY <2>1, <2>2
<1>11. ASSUME NEW r, r \in Up'
       PROVE  \/ Ids(Flushed(r)') = 1..proc'[r].count
              \/ Submitting(r)' /\ Ids(Flushed(r)') = 1..(proc'[r].count - 1)
  <2>1. CASE r = p
    BY <1>8, <1>9, <1>11, <2>1 DEF Submitting
  <2>2. CASE r # p
    <3>1. r \in Up /\ proc'[r] = proc[r] /\ Flushed(r)' = Flushed(r)
      BY <1>11, <2>2, Others
    <3> QED
      BY <3>1 DEF RunsInStep, Submitting
  <2> QED
    BY <2>1, <2>2
<1> QED
  BY <1>10, <1>11 DEF RunsInStep, Ids, Read, InOrder, RunsSeen

\* An append keeps what a process holds of its own runs true.
LEMMA AppendGiven ==
  ASSUME JournalTypes, Given, NEW p \in Up, NEW q \in Process, NEW line \in Lines,
         Appends(p, q, line), Kind(p, q, line), dropped' = FALSE, Alone(p, q.sid)
  PROVE  Given'
<1>1. /\ p \in Processes /\ q.pend = proc[p].pend /\ q.pend \in Seq(Lines) /\ q.sid = proc[p].sid
      /\ Written(p, q, line) \/ Refused(p, q, line) \/ CutShort(p, q, line)
  BY DEF Appends, Up, Process
<1>2. /\ \A k, l \in DOMAIN q.runs : q.runs[k].run = q.runs[l].run => k = l
      /\ \A k \in DOMAIN q.runs : /\ q.runs[k].run \in 1..q.count
                                  /\ q.runs[k].sub \in 1..Len(subs')
                                  /\ q.runs[k].state = "new" => q.runs[k].run = q.count
      /\ \A k \in DOMAIN q.runs : \/ q.runs[k].sub = Len(subs) + 1
                                  \/ /\ k \in DOMAIN proc[p].runs
                                     /\ q.runs[k].sub = proc[p].runs[k].sub
      /\ \A k \in DOMAIN proc[p].runs :
            k \in DOMAIN q.runs /\ q.runs[k].sub = proc[p].runs[k].sub
      /\ line.type = "RunStateChanged" => \E k \in DOMAIN q.runs : line.sub = q.runs[k].sub
      /\ Len(subs) \in Nat /\ Len(subs') \in Nat /\ Len(subs) <= Len(subs')
  BY AppendRuns
<1>3. p \in Up' =>
        /\ proc'[p].sid = q.sid /\ proc'[p].count = q.count /\ proc'[p].runs = q.runs
        /\ proc'[p].pend \in {<< >>, q.pend, Append(q.pend, line)}
        /\ tail'[q.sid] = "end" \/ proc'[p].pend # << >>
  BY <1>1, PutMemory, PutReaches DEF Up
<1>4. \A x \in Up :
        /\ \A k, l \in DOMAIN proc[x].runs : proc[x].runs[k].run = proc[x].runs[l].run => k = l
        /\ \A k \in DOMAIN proc[x].runs :
              /\ proc[x].runs[k].run \in 1..proc[x].count /\ proc[x].runs[k].sub \in 1..Len(subs)
              /\ proc[x].runs[k].state = "new" => proc[x].runs[k].run = proc[x].count
        /\ \A r \in Up \ {x} : \A k \in DOMAIN proc[x].runs, l \in DOMAIN proc[r].runs :
              proc[x].runs[k].sub # proc[r].runs[l].sub
        /\ Submitting(x) => tail[proc[x].sid] = "end" \/ proc[x].pend # << >>
        /\ \A i \in DOMAIN proc[x].pend : proc[x].pend[i].type = "RunStateChanged" =>
              \E k \in DOMAIN proc[x].runs : proc[x].pend[i].sub = proc[x].runs[k].sub
  BY Zenon DEF Given
<1>5. \A x : x \in Up' /\ x # p =>
        /\ x \in Up /\ proc'[x] = proc[x] /\ tail'[proc[x].sid] = tail[proc[x].sid]
  BY Others
<1>6. ASSUME NEW x, x \in Up', x # p, NEW k \in DOMAIN q.runs, NEW l \in DOMAIN proc[x].runs
      PROVE  q.runs[k].sub # proc[x].runs[l].sub
  <2>1. x \in Up /\ proc[x].runs[l].sub \in 1..Len(subs)
    BY <1>4, <1>5, <1>6
  <2>2. CASE q.runs[k].sub = Len(subs) + 1
    BY <1>2, <2>1, <2>2
  <2>3. CASE k \in DOMAIN proc[p].runs /\ q.runs[k].sub = proc[p].runs[k].sub
    BY <1>4, <1>6, <2>1, <2>3
  <2> QED
    BY <1>2, <2>2, <2>3
<1>7. ASSUME p \in Up', NEW i \in DOMAIN proc'[p].pend, proc'[p].pend[i].type = "RunStateChanged"
      PROVE  \E k \in DOMAIN q.runs : proc'[p].pend[i].sub = q.runs[k].sub
  <2>1. CASE proc'[p].pend = << >>
    BY <1>7, <2>1
  <2>2. CASE proc'[p].pend = q.pend
    BY <1>1, <1>2, <1>4, <1>7, <2>2
  <2>3. CASE proc'[p].pend = Append(q.pend, line)
    <3>1. \/ i \in DOMAIN q.pend /\ proc'[p].pend[i] = q.pend[i]
          \/ proc'[p].pend[i] = line
      BY <1>1, <1>7, <2>3
    <3> QED
      BY <1>1, <1>2, <1>4, <1>7, <3>1
  <2> QED
    BY <1>3, <1>7, <2>1, <2>2, <2>3
<1>8. ASSUME NEW x, x \in Up'
      PROVE  /\ \A k, l \in DOMAIN proc'[x].runs :
                    proc'[x].runs[k].run = proc'[x].runs[l].run => k = l
             /\ \A k \in DOMAIN proc'[x].runs :
                  /\ proc'[x].runs[k].run \in 1..proc'[x].count
                  /\ proc'[x].runs[k].sub \in 1..Len(subs')
                  /\ proc'[x].runs[k].state = "new" => proc'[x].runs[k].run = proc'[x].count
             /\ \A r \in Up' \ {x} : \A k \in DOMAIN proc'[x].runs, l \in DOMAIN proc'[r].runs :
                  proc'[x].runs[k].sub # proc'[r].runs[l].sub
             /\ (\E k \in DOMAIN proc'[x].runs : proc'[x].runs[k].state = "new") =>
                  tail'[proc'[x].sid] = "end" \/ proc'[x].pend # << >>
             /\ \A i \in DOMAIN proc'[x].pend : proc'[x].pend[i].type = "RunStateChanged" =>
                  \E k \in DOMAIN proc'[x].runs : proc'[x].pend[i].sub = proc'[x].runs[k].sub
  <2>1. CASE x = p
    <3>1. ASSUME NEW r \in Up' \ {x}, NEW k \in DOMAIN proc'[x].runs, NEW l \in DOMAIN proc'[r].runs
          PROVE  proc'[x].runs[k].sub # proc'[r].runs[l].sub
      BY <1>3, <1>5, <1>6, <1>8, <2>1
    <3> QED
      BY <1>2, <1>3, <1>7, <1>8, <2>1, <3>1
  <2>2. CASE x # p
    <3>1. x \in Up /\ proc'[x] = proc[x] /\ tail'[proc[x].sid] = tail[proc[x].sid]
      BY <1>5, <1>8, <2>2
    <3>2. ASSUME NEW r \in Up' \ {x}, NEW k \in DOMAIN proc'[x].runs, NEW l \in DOMAIN proc'[r].runs
          PROVE  proc'[x].runs[k].sub # proc'[r].runs[l].sub
      <4>1. CASE r = p
        BY <1>3, <1>6, <1>8, <2>2, <3>1, <4>1
      <4>2. CASE r # p
        <5>1. r \in Up \ {x} /\ proc'[r] = proc[r]
          BY <1>5, <4>2
        <5> QED
          BY <1>4, <3>1, <5>1
      <4> QED
        BY <4>1, <4>2
    <3>3. \A k \in DOMAIN proc[x].runs : proc[x].runs[k].sub \in 1..Len(subs')
      BY <1>2, <1>4, <3>1
    <3> QED
      BY <1>4, <3>1, <3>2, <3>3 DEF Submitting
  <2> QED
    BY <2>1, <2>2
<1> QED
  BY <1>8 DEF Given, Submitting

\* An append keeps one submission to an id and nothing but parked after an outcome.
LEMMA AppendStories ==
  ASSUME JournalTypes, Given, Stories, NEW p \in Up, NEW q \in Process, NEW line \in Lines,
         Appends(p, q, line), Kind(p, q, line), dropped' = FALSE, Alone(p, q.sid)
  PROVE  Stories'
<1>1. /\ p \in Processes /\ q.sid = proc[p].sid /\ q.pend = proc[p].pend /\ q.own = proc[p].own
      /\ q.sid \in Sessions
      /\ Written(p, q, line) \/ Refused(p, q, line) \/ CutShort(p, q, line)
  BY DEF Appends, Up, Process
<1>2. WithPending(p) \in Seq(Lines) /\ q.own \in Seq(Lines)
  BY UpType, <1>1
<1>3. PICK G : G = Append(WithPending(p), line)
  OBVIOUS
<1>4. PICK O : O = Append(q.own, line)
  OBVIOUS
<1>5. Longer(G, WithPending(p), line) /\ Longer(O, q.own, line)
  BY <1>3, <1>4 DEF Longer
<1>6. Story(WithPending(p), proc[p]) /\ Story(q.own, proc[p])
  BY <1>1 DEF Stories
<1>7. Story(G, q) /\ Story(O, q)
  BY <1>2, <1>5, <1>6, StoryGrows
<1>8. Story(q.own, q)
  <2>1. Thin(q.own, O)
    BY <1>2, <1>4, ThinParts
  <2> QED
    BY <1>7, <2>1, ThinIsAlike DEF Story
<1>9. /\ Thin(file'[q.sid], G)
      /\ p \in Up' =>
              /\ proc'[p].sid = q.sid /\ proc'[p].count = q.count /\ proc'[p].runs = q.runs
              /\ proc'[p].own \in {q.own, O}
              /\ Thin(file'[q.sid] \o proc'[p].pend, G)
  BY <1>1, <1>3, <1>4, PutReaches DEF Up, WithPending
<1>10. Apart(file'[q.sid]) /\ Settled(file'[q.sid])
  BY <1>7, <1>9, ThinIsAlike DEF Story
<1>11. \A s \in Sessions : Apart(file'[s]) /\ Settled(file'[s])
  BY <1>10 DEF Stories, Alone
<1>12. ASSUME NEW x, x \in Up'
       PROVE  Story(WithPending(x)', proc'[x]) /\ Story(proc'[x].own, proc'[x])
  <2>1. CASE x = p
    <3>1. WithPending(p)' = file'[q.sid] \o proc'[p].pend
      BY <1>9, <1>12, <2>1 DEF WithPending
    <3>2. Story(WithPending(p)', q)
      BY <1>7, <1>9, <1>12, <2>1, <3>1, ThinIsAlike DEF Story
    <3>3. \A W : Story(W, q) => Story(W, proc'[p])
      BY <1>9, <1>12, <2>1 DEF Story, Agrees
    <3> QED
      BY <1>7, <1>8, <1>9, <1>12, <2>1, <3>2, <3>3
  <2>2. CASE x # p
    <3>1. x \in Up /\ proc'[x] = proc[x] /\ WithPending(x)' = WithPending(x)
      BY <1>12, <2>2, Others
    <3> QED
      BY <3>1 DEF Stories
  <2> QED
    BY <2>1, <2>2
<1> QED
  BY <1>11, <1>12 DEF Stories, Story, Agrees, Apart, Settled

\* An append keeps every accepted line of a process's runs in its memory.
LEMMA AppendRemembered ==
  ASSUME JournalTypes, Given, Remembered, NEW p \in Up, NEW q \in Process, NEW line \in Lines,
         Appends(p, q, line), Kind(p, q, line), dropped' = FALSE, Alone(p, q.sid)
  PROVE  Remembered'
<1> DEFINE noted == [sid |-> q.sid, line |-> line]
<1>1. /\ p \in Processes /\ q.sid = proc[p].sid /\ q.pend = proc[p].pend /\ q.own = proc[p].own
      /\ q.sid \in Sessions /\ q.own \in Seq(Lines) /\ q.pend \in Seq(Lines)
      /\ file[q.sid] \in Seq(Lines) /\ line.type # "torn"
      /\ Written(p, q, line) \/ Refused(p, q, line) \/ CutShort(p, q, line)
  BY DEF Appends, Up, Process, JournalTypes
<1>2. /\ \A k \in DOMAIN q.runs : \/ q.runs[k].sub = Len(subs) + 1
                                  \/ /\ k \in DOMAIN proc[p].runs
                                     /\ q.runs[k].sub = proc[p].runs[k].sub
      /\ \A k \in DOMAIN proc[p].runs :
            k \in DOMAIN q.runs /\ q.runs[k].sub = proc[p].runs[k].sub
      /\ line.type = "RunStateChanged" => \E k \in DOMAIN q.runs : line.sub = q.runs[k].sub
      /\ line.sub = 0 \/ \E k \in DOMAIN q.runs : line.sub = q.runs[k].sub
      /\ line.sub <= Len(subs') /\ Len(subs) \in Nat /\ Len(subs') \in Nat
      /\ Len(subs) <= Len(subs')
  BY AppendRuns
<1>3. PICK O : O = Append(q.own, line)
  OBVIOUS
<1>4. PICK G : G = Append(file[q.sid] \o q.pend, line)
  OBVIOUS
<1>5. /\ returned' = returned \/ returned' = returned \cup {noted}
      /\ p \in Up' =>
           /\ proc'[p].sid = q.sid /\ proc'[p].runs = q.runs
           /\ \/ proc'[p].own = O /\ returned' = returned \cup {noted}
              \/ proc'[p].own = q.own /\ returned' = returned
      /\ Thin(file'[q.sid], G)
  BY <1>1, <1>3, <1>4, PutMemory, PutReaches DEF Up
<1>6. /\ \A i \in Read(q.own) : i \in Read(O) /\ O[i] = q.own[i]
      /\ Len(O) \in Read(O) /\ O[Len(O)] = line
  <2>1. Longer(O, q.own, line)
    BY <1>3 DEF Longer
  <2> QED
    BY <1>1, <2>1, AppendRead
<1>7. \A i \in Read(G) : \/ \E j \in Read(file[q.sid]) : G[i] = file[q.sid][j]
                         \/ \E j \in Read(q.pend) : G[i] = q.pend[j]
                         \/ G[i] = line
  <2>1. PICK W : W = file[q.sid] \o q.pend
    OBVIOUS
  <2>2. /\ W \in Seq(Lines)
        /\ \A i \in Read(W) : \/ i \in Read(file[q.sid]) /\ W[i] = file[q.sid][i]
                              \/ /\ i - Len(file[q.sid]) \in Read(q.pend)
                                 /\ W[i] = q.pend[i - Len(file[q.sid])]
    BY <1>1, <2>1, ConcatRead
  <2>3. Longer(G, W, line)
    BY <1>4, <2>1 DEF Longer
  <2>4. \A i \in Read(G) : \/ i \in Read(W) /\ G[i] = W[i]
                           \/ G[i] = line
    BY <2>2, <2>3, AppendRead
  <2> QED
    BY <2>2, <2>4
<1>8. noted.sid = q.sid /\ noted.line = line
  OBVIOUS
<1> HIDE DEF noted
<1>9. \A r \in returned : r.line.sub <= Len(subs) /\ r.line.sub \in Nat /\ r.sid \in Sessions
  BY DEF Remembered, JournalTypes, Lines
<1>10. \A r \in returned' : r.line.sub <= Len(subs')
  BY <1>2, <1>5, <1>8, <1>9
<1>11. ASSUME p \in Up', NEW r \in returned'
       PROVE  /\ \A k \in DOMAIN q.runs : r.line.sub = q.runs[k].sub =>
                    r.sid = q.sid /\ Owned(proc'[p], r.line)
              /\ r.sid = q.sid /\ r.line.type = "RunStateChanged" /\ r.line \in Readable(r.sid)'
                    => Owned(proc'[p], r.line)
  <2>1. CASE r = noted /\ proc'[p].own = O
    BY <1>6, <1>8, <2>1 DEF Owned
  <2>2. CASE r \in returned
    <3>1. Owned(proc[p], r.line) => Owned(proc'[p], r.line)
      BY <1>1, <1>5, <1>6, <1>11 DEF Owned
    <3>2. ASSUME NEW k \in DOMAIN q.runs, r.line.sub = q.runs[k].sub
          PROVE  r.sid = q.sid /\ Owned(proc'[p], r.line)
      <4>1. k \in DOMAIN proc[p].runs /\ q.runs[k].sub = proc[p].runs[k].sub
        <5>1. q.runs[k].sub # Len(subs) + 1
          BY <1>2, <1>9, <2>2, <3>2
        <5> QED
          BY <1>2, <5>1
      <4> QED
        BY <1>1, <2>2, <3>1, <3>2, <4>1 DEF Remembered
    <3>3. ASSUME r.sid = q.sid, r.line.type = "RunStateChanged", r.line \in Readable(r.sid)'
          PROVE  Owned(proc'[p], r.line)
      <4>1. PICK i \in Read(G) : r.line = G[i]
        <5>1. PICK i \in Read(file'[q.sid]) : r.line = file'[q.sid][i]
          BY <3>3 DEF Readable, Read
        <5> QED
          BY <1>5, <5>1 DEF Thin
      <4>2. CASE \E j \in Read(file[q.sid]) : G[i] = file[q.sid][j]
        <5>1. r.line \in Readable(q.sid)
          BY <4>1, <4>2 DEF Readable
        <5> QED
          BY <1>1, <2>2, <3>1, <3>3, <5>1 DEF Remembered
      <4>3. CASE \E j \in Read(q.pend) : G[i] = q.pend[j]
        <5>1. PICK j \in Read(q.pend) : r.line = q.pend[j]
          BY <4>1, <4>3
        <5>2. j \in DOMAIN proc[p].pend /\ r.line = proc[p].pend[j]
          BY <1>1, <5>1 DEF Read
        <5>3. \E k \in DOMAIN proc[p].runs : r.line.sub = proc[p].runs[k].sub
          BY <3>3, <5>2 DEF Given
        <5> QED
          BY <1>1, <2>2, <3>1, <5>3 DEF Remembered
      <4>4. CASE G[i] = line
        BY <1>2, <3>2, <3>3, <4>1, <4>4
      <4> QED
        BY <1>7, <4>2, <4>3, <4>4
    <3> QED
      BY <3>2, <3>3
  <2> QED
    BY <1>5, <1>11, <2>1, <2>2
<1>12. ASSUME NEW x, x \in Up', x # p, NEW r \in returned'
       PROVE  /\ \A k \in DOMAIN proc[x].runs : r.line.sub = proc[x].runs[k].sub =>
                    r.sid = proc[x].sid /\ Owned(proc[x], r.line)
              /\ r.sid = proc[x].sid /\ r.line.type = "RunStateChanged"
                   /\ r.line \in Readable(r.sid)' => Owned(proc[x], r.line)
  <2>1. x \in Up /\ proc[x].sid \in Sessions /\ proc[x].sid # q.sid
        /\ file'[proc[x].sid] = file[proc[x].sid]
    BY <1>12, Others
  <2>2. CASE r \in returned
    <3>1. r.sid = proc[x].sid => Readable(r.sid)' = Readable(r.sid)
      BY <2>1 DEF Readable, Read
    <3> QED
      BY <2>1, <2>2, <3>1 DEF Remembered
  <2>3. CASE r = noted
    <3>1. ASSUME NEW k \in DOMAIN proc[x].runs PROVE line.sub # proc[x].runs[k].sub
      <4>1. proc[x].runs[k].sub \in 1..Len(subs)
        BY <2>1 DEF Given
      <4>2. \A l \in DOMAIN proc[p].runs : proc[p].runs[l].sub # proc[x].runs[k].sub
        BY <1>12, <2>1 DEF Given
      <4> QED
        BY <1>2, <4>1, <4>2
    <3> QED
      BY <1>8, <2>1, <2>3, <3>1
  <2> QED
    BY <1>5, <2>2, <2>3
<1>13. \A x : x \in Up' /\ x # p => proc'[x] = proc[x]
  BY Others
<1> QED
  BY <1>5, <1>10, <1>11, <1>12, <1>13 DEF Remembered, Owned

\* The steps in which no run is queued or told: a process comes up on a file, or its file is
\* left.  What the others are known to hold stays so.
LEMMA OthersKeep ==
  ASSUME JournalTypes, Memory, NEW p, NEW sid \in Sessions, Alone(p, sid), subs' = subs,
         p \in Up => proc[p].sid = sid,
         \A r \in returned' : r \in returned \/ (r.sid = sid /\ r.line.sub = 0)
  PROVE  /\ \A s \in Sessions \ {sid} : (\A r \in Up' : proc'[r].sid # s) => InOrder(file'[s])
         /\ \A s \in Sessions \ {sid} : Apart(file'[s]) /\ Settled(file'[s])
         /\ \A r \in returned' : r.line.sub <= Len(subs')
         /\ \A x : x \in Up' /\ x # p =>
              /\ \/ Ids(Flushed(x)') = 1..proc'[x].count
                 \/ Submitting(x)' /\ Ids(Flushed(x)') = 1..(proc'[x].count - 1)
              /\ Story(WithPending(x)', proc'[x]) /\ Story(proc'[x].own, proc'[x])
              /\ \A r \in returned' :
                   /\ \A k \in DOMAIN proc'[x].runs : r.line.sub = proc'[x].runs[k].sub =>
                         r.sid = proc'[x].sid /\ Owned(proc'[x], r.line)
                   /\ r.sid = proc'[x].sid /\ r.line.type = "RunStateChanged"
                        /\ r.line \in Readable(r.sid)' => Owned(proc'[x], r.line)
<1>1. Torned /\ RunsInStep /\ Given /\ Stories /\ Remembered
  BY DEF Memory
<1>2. \A x : x \in Up' /\ x # p =>
        /\ x \in Up /\ proc'[x] = proc[x] /\ proc[x].sid \in Sessions /\ proc[x].sid # sid
        /\ file'[proc[x].sid] = file[proc[x].sid] /\ tail'[proc[x].sid] = tail[proc[x].sid]
        /\ WithPending(x)' = WithPending(x) /\ Flushed(x)' = Flushed(x)
  BY Others
<1>3. ASSUME NEW s \in Sessions \ {sid}, \A r \in Up' : proc'[r].sid # s PROVE InOrder(file'[s])
  <2>1. file'[s] = file[s] /\ \A r \in Processes \ {p} : proc'[r] = proc[r]
    BY DEF Alone
  <2>2. \A r \in Up : proc[r].sid # s
    BY <1>3, <2>1 DEF Up
  <2> QED
    BY <1>1, <2>1, <2>2 DEF RunsInStep
<1>4. \A s \in Sessions \ {sid} : Apart(file'[s]) /\ Settled(file'[s])
  BY <1>1 DEF Stories, Alone
<1>5. Len(subs) \in Nat
  BY DEF JournalTypes
<1>6. \A r \in returned' : r.line.sub <= Len(subs')
  BY <1>1, <1>5 DEF Remembered
<1>7. ASSUME NEW x, x \in Up', x # p
      PROVE  /\ \/ Ids(Flushed(x)') = 1..proc'[x].count
                \/ Submitting(x)' /\ Ids(Flushed(x)') = 1..(proc'[x].count - 1)
             /\ Story(WithPending(x)', proc'[x]) /\ Story(proc'[x].own, proc'[x])
  BY <1>1, <1>2, <1>7 DEF RunsInStep, Stories, Submitting
<1>8. ASSUME NEW x, x \in Up', x # p, NEW r \in returned'
      PROVE  /\ \A k \in DOMAIN proc'[x].runs : r.line.sub = proc'[x].runs[k].sub =>
                   r.sid = proc'[x].sid /\ Owned(proc'[x], r.line)
             /\ r.sid = proc'[x].sid /\ r.line.type = "RunStateChanged"
                  /\ r.line \in Readable(r.sid)' => Owned(proc'[x], r.line)
  <2>1. x \in Up /\ proc'[x] = proc[x] /\ proc[x].sid # sid
        /\ file'[proc[x].sid] = file[proc[x].sid]
    BY <1>2, <1>8
  <2>2. CASE r \in returned
    <3>1. r.sid = proc[x].sid => Readable(r.sid)' = Readable(r.sid)
      BY <2>1 DEF Readable, Read
    <3> QED
      BY <1>1, <2>1, <2>2, <3>1 DEF Remembered
  <2>3. CASE r.sid = sid /\ r.line.sub = 0
    <3>1. \A k \in DOMAIN proc[x].runs : proc[x].runs[k].sub \in 1..Len(subs)
      BY <1>1, <2>1, Zenon DEF Given
    <3>2. \A k \in DOMAIN proc[x].runs : r.line.sub # proc[x].runs[k].sub
      BY <2>3, <3>1
    <3> QED
      BY <2>1, <2>3, <3>2
  <2> QED
    BY <2>2, <2>3
<1> QED
  BY <1>3, <1>4, <1>6, <1>7, <1>8

\* So do their runs.
LEMMA OthersGiven ==
  ASSUME JournalTypes, Given, NEW p, NEW sid \in Sessions, Alone(p, sid), subs' = subs,
         p \in Up' => /\ proc'[p].runs = << >>
                      /\ \A i \in DOMAIN proc'[p].pend : proc'[p].pend[i].type # "RunStateChanged"
  PROVE  Given'
<1>1. \A x : x \in Up' /\ x # p =>
        x \in Up /\ proc'[x] = proc[x] /\ tail'[proc[x].sid] = tail[proc[x].sid]
  BY Others
<1>2. \A x \in Up :
        /\ \A k, l \in DOMAIN proc[x].runs : proc[x].runs[k].run = proc[x].runs[l].run => k = l
        /\ \A k \in DOMAIN proc[x].runs :
              /\ proc[x].runs[k].run \in 1..proc[x].count /\ proc[x].runs[k].sub \in 1..Len(subs)
              /\ proc[x].runs[k].state = "new" => proc[x].runs[k].run = proc[x].count
        /\ \A r \in Up \ {x} : \A k \in DOMAIN proc[x].runs, l \in DOMAIN proc[r].runs :
              proc[x].runs[k].sub # proc[r].runs[l].sub
        /\ Submitting(x) => tail[proc[x].sid] = "end" \/ proc[x].pend # << >>
        /\ \A i \in DOMAIN proc[x].pend : proc[x].pend[i].type = "RunStateChanged" =>
              \E k \in DOMAIN proc[x].runs : proc[x].pend[i].sub = proc[x].runs[k].sub
  BY Zenon DEF Given
<1>3. p \in Up' => DOMAIN proc'[p].runs = {}
  OBVIOUS
<1>4. ASSUME NEW x, x \in Up'
      PROVE  /\ \A k, l \in DOMAIN proc'[x].runs :
                    proc'[x].runs[k].run = proc'[x].runs[l].run => k = l
             /\ \A k \in DOMAIN proc'[x].runs :
                  /\ proc'[x].runs[k].run \in 1..proc'[x].count
                  /\ proc'[x].runs[k].sub \in 1..Len(subs')
                  /\ proc'[x].runs[k].state = "new" => proc'[x].runs[k].run = proc'[x].count
             /\ \A r \in Up' \ {x} : \A k \in DOMAIN proc'[x].runs, l \in DOMAIN proc'[r].runs :
                  proc'[x].runs[k].sub # proc'[r].runs[l].sub
             /\ (\E k \in DOMAIN proc'[x].runs : proc'[x].runs[k].state = "new") =>
                  tail'[proc'[x].sid] = "end" \/ proc'[x].pend # << >>
             /\ \A i \in DOMAIN proc'[x].pend : proc'[x].pend[i].type = "RunStateChanged" =>
                  \E k \in DOMAIN proc'[x].runs : proc'[x].pend[i].sub = proc'[x].runs[k].sub
  <2>1. CASE x = p
    BY <1>3, <1>4, <2>1
  <2>2. CASE x # p
    <3>1. x \in Up /\ proc'[x] = proc[x] /\ tail'[proc[x].sid] = tail[proc[x].sid]
      BY <1>1, <1>4, <2>2
    <3>2. ASSUME NEW r \in Up' \ {x}, NEW k \in DOMAIN proc'[x].runs, NEW l \in DOMAIN proc'[r].runs
          PROVE  proc'[x].runs[k].sub # proc'[r].runs[l].sub
      <4>1. CASE r = p
        BY <1>3, <4>1
      <4>2. CASE r # p
        BY <1>1, <1>2, <3>1, <4>2
      <4> QED
        BY <4>1, <4>2
    <3> QED
      BY <1>2, <3>1, <3>2 DEF Submitting
  <2> QED
    BY <2>1, <2>2
<1> QED
  BY <1>4 DEF Given, Submitting

\* A process is gone, and the file it leaves is in order.
LEMMA LeavesMemory ==
  ASSUME JournalTypes, Memory, NEW p, NEW sid \in Sessions, Alone(p, sid), subs' = subs,
         p \in Up => proc[p].sid = sid, returned' = returned, p \notin Up', Torned',
         InOrder(file'[sid]), Apart(file'[sid]), Settled(file'[sid])
  PROVE  Memory'
<1>1. Given'
  BY OthersGiven DEF Memory
<1>2. /\ \A s \in Sessions \ {sid} : (\A r \in Up' : proc'[r].sid # s) => InOrder(file'[s])
      /\ \A s \in Sessions \ {sid} : Apart(file'[s]) /\ Settled(file'[s])
      /\ \A r \in returned' : r.line.sub <= Len(subs')
      /\ \A x \in Up' :
              /\ \/ Ids(Flushed(x)') = 1..proc'[x].count
                 \/ Submitting(x)' /\ Ids(Flushed(x)') = 1..(proc'[x].count - 1)
              /\ Story(WithPending(x)', proc'[x]) /\ Story(proc'[x].own, proc'[x])
              /\ \A r \in returned' :
                   /\ \A k \in DOMAIN proc'[x].runs : r.line.sub = proc'[x].runs[k].sub =>
                         r.sid = proc'[x].sid /\ Owned(proc'[x], r.line)
                   /\ r.sid = proc'[x].sid /\ r.line.type = "RunStateChanged"
                        /\ r.line \in Readable(r.sid)' => Owned(proc'[x], r.line)
  BY OthersKeep
<1>3. RunsInStep'
  <2>1. ASSUME NEW s \in Sessions, \A r \in Up' : proc'[r].sid # s PROVE InOrder(file'[s])
    <3>1. CASE s = sid
      BY <2>1, <3>1
    <3>2. CASE s # sid
      BY <1>2, <2>1, <3>2
    <3> QED
      BY <3>1, <3>2
  <2>2. ASSUME NEW x, x \in Up'
        PROVE  \/ Ids(Flushed(x)') = 1..proc'[x].count
               \/ Submitting(x)' /\ Ids(Flushed(x)') = 1..(proc'[x].count - 1)
    BY <1>2, <2>2
  <2> QED
    BY <2>1, <2>2 DEF RunsInStep, Ids, Read, InOrder, RunsSeen
<1>4. Stories'
  BY <1>2 DEF Stories, Story, Apart, Settled, Agrees
<1>5. Remembered'
  BY <1>2 DEF Remembered, Owned
<1> QED
  BY <1>1, <1>3, <1>4, <1>5 DEF Memory

\* A process comes up on a file whose runs it has counted.
LEMMA ArrivesMemory ==
  ASSUME JournalTypes, Memory, NEW p, NEW sid \in Sessions, Alone(p, sid), subs' = subs,
         p \notin Up, p \in Up', proc'[p].sid = sid, proc'[p].runs = << >>, proc'[p].pend = << >>,
         \A r \in returned' : r \in returned \/ (r.sid = sid /\ r.line.sub = 0),
         Torned', Ids(Flushed(p)') = 1..proc'[p].count,
         Story(WithPending(p)', proc'[p]), Story(proc'[p].own, proc'[p]),
         Apart(file'[sid]), Settled(file'[sid]),
         \A r \in returned' : r.sid = sid /\ r.line.type = "RunStateChanged"
                                /\ r.line \in Readable(sid)' => Owned(proc'[p], r.line)
  PROVE  Memory'
<1>1. Given'
  <2>1. \A i \in DOMAIN proc'[p].pend : proc'[p].pend[i].type # "RunStateChanged"
    OBVIOUS
  <2> QED
    BY <2>1, OthersGiven DEF Memory
<1>2. /\ \A s \in Sessions \ {sid} : (\A r \in Up' : proc'[r].sid # s) => InOrder(file'[s])
      /\ \A s \in Sessions \ {sid} : Apart(file'[s]) /\ Settled(file'[s])
      /\ \A r \in returned' : r.line.sub <= Len(subs')
      /\ \A x : x \in Up' /\ x # p =>
              /\ \/ Ids(Flushed(x)') = 1..proc'[x].count
                 \/ Submitting(x)' /\ Ids(Flushed(x)') = 1..(proc'[x].count - 1)
              /\ Story(WithPending(x)', proc'[x]) /\ Story(proc'[x].own, proc'[x])
              /\ \A r \in returned' :
                   /\ \A k \in DOMAIN proc'[x].runs : r.line.sub = proc'[x].runs[k].sub =>
                         r.sid = proc'[x].sid /\ Owned(proc'[x], r.line)
                   /\ r.sid = proc'[x].sid /\ r.line.type = "RunStateChanged"
                        /\ r.line \in Readable(r.sid)' => Owned(proc'[x], r.line)
  BY OthersKeep
<1>3. RunsInStep'
  <2>1. ASSUME NEW s \in Sessions, \A r \in Up' : proc'[r].sid # s PROVE InOrder(file'[s])
    <3>1. CASE s = sid
      BY <2>1, <3>1
    <3>2. CASE s # sid
      BY <1>2, <2>1, <3>2
    <3> QED
      BY <3>1, <3>2
  <2>2. ASSUME NEW x, x \in Up'
        PROVE  \/ Ids(Flushed(x)') = 1..proc'[x].count
               \/ Submitting(x)' /\ Ids(Flushed(x)') = 1..(proc'[x].count - 1)
    BY <1>2, <2>2
  <2> QED
    BY <2>1, <2>2 DEF RunsInStep, Ids, Read, InOrder, RunsSeen
<1>4. Stories'
  BY <1>2 DEF Stories, Story, Apart, Settled, Agrees
<1>5. Remembered'
  <2>1. DOMAIN proc'[p].runs = {}
    OBVIOUS
  <2>2. \A r \in returned' :
          /\ \A k \in DOMAIN proc'[p].runs : r.line.sub = proc'[p].runs[k].sub =>
                r.sid = proc'[p].sid /\ Owned(proc'[p], r.line)
          /\ r.sid = proc'[p].sid /\ r.line.type = "RunStateChanged"
               /\ r.line \in Readable(r.sid)' => Owned(proc'[p], r.line)
    BY <2>1
  <2> QED
    BY <1>2, <2>2 DEF Remembered, Owned
<1> QED
  BY <1>1, <1>3, <1>4, <1>5 DEF Memory

\* A file agrees with a process that has counted its runs and has none of its own.
LEMMA CountedAgrees ==
  ASSUME NEW f, NEW q, q.runs = << >>, Ids(f) = 1..q.count
  PROVE  Agrees(f, q)
<1>1. DOMAIN q.runs = {}
  OBVIOUS
<1>2. \A i \in Read(f) : f[i].run # Null => f[i].run \in Ids(f)
  BY DEF Ids
<1> QED
  BY <1>1, <1>2 DEF Agrees

\* The header says nothing of a run.
LEMMA HeaderStory ==
  ASSUME NEW h, h = <<Header>>
  PROVE  /\ Apart(h) /\ Settled(h) /\ Ids(h) = 1..0 /\ InOrder(h)
         /\ \A i \in Read(h) : h[i].type # "RunStateChanged"
<1>1. Header.type # "torn" /\ Header.run = Null /\ Header.type # "RunStateChanged"
  BY DEF Header, Line
<1>2. Read(h) = {1} /\ h[1] = Header
  BY <1>1 DEF Read
<1> HIDE DEF Header
<1>3. Apart(h) /\ Settled(h) /\ Ids(h) = {}
  BY <1>1, <1>2 DEF Apart, Settled, Ids
<1>4. Ids(h) = 1..0
  BY <1>3
<1>5. InOrder(h)
  BY <1>4, KnownInOrder
<1> QED
  BY <1>1, <1>2, <1>3, <1>4, <1>5

\* An append keeps the memory of the runs.
LEMMA AppendKeeps ==
  ASSUME JournalTypes, Memory, OneWriter, NEW p \in Processes, NEW q \in Process,
         NEW line \in Lines, Appends(p, q, line), Kind(p, q, line), dropped' = FALSE
  PROVE  Memory'
<1>1. p \in Up /\ q.sid = proc[p].sid
      /\ (Written(p, q, line) \/ Refused(p, q, line) \/ CutShort(p, q, line))
  BY DEF Appends, Up
<1>2. Alone(p, q.sid)
  <2>1. \A r \in Up \ {p} : proc[r].sid # q.sid
    BY <1>1 DEF OneWriter
  <2>2. /\ \A s \in Sessions \ {q.sid} : file'[s] = file[s] /\ tail'[s] = tail[s]
        /\ \A r \in Processes \ {p} : proc'[r] = proc[r]
    BY <1>1, PutReaches
  <2> QED
    BY <2>1, <2>2 DEF Alone
<1>3. Torned /\ RunsInStep /\ Given /\ Stories /\ Remembered
  BY DEF Memory
<1>4. Torned'
  BY <1>1, <1>2, <1>3, AppendTorned
<1>5. RunsInStep' /\ Given' /\ Stories' /\ Remembered'
  BY <1>1, <1>2, <1>3, AppendCounted, AppendGiven, AppendStories, AppendRemembered
<1> QED
  BY <1>4, <1>5 DEF Memory

\* A process that continues a file knows what is in it.
LEMMA ContinueKeeps ==
  ASSUME JournalTypes, Memory, NEW p \in Processes, NEW q \in Process,
         Opens(p, q), Continues(p, q), \A r \in Up \ {p} : proc[r].sid # q.sid
  PROVE  Memory'
<1> DEFINE sid == q.sid
           f == file[sid]
<1>1. /\ sid \in Sessions /\ f \in Seq(Lines) /\ q.own = f /\ q.pend = << >> /\ q.runs = << >>
      /\ q.count = RunsSeen(f) /\ p \notin Up /\ subs' = subs
      /\ file' = file /\ tail' = tail /\ returned' = returned
  BY UpType DEF Opens, Continues, Process, Up
<1>2. proc'[p] = q /\ p \in Up' /\ \A r \in Processes \ {p} : proc'[r] = proc[r]
  <2>1. q # Null
    BY JournalAssumption
  <2> QED
    BY <2>1 DEF Continues, Keep, JournalTypes, Up
<1>3. Alone(p, sid)
  BY <1>1, <1>2 DEF Alone
<1>4. Ids(f) = 1..q.count
  <2>1. InOrder(f)
    BY <1>1 DEF Memory, RunsInStep
  <2> QED
    BY <1>1, <2>1 DEF InOrder
<1>5. Torned' /\ Apart(f) /\ Settled(f)
  BY <1>1 DEF Memory, Torned, Stories
<1>6. Story(f, q)
  BY <1>1, <1>4, <1>5, CountedAgrees DEF Story
<1>7. WithPending(p)' = f
  <2>1. f \o << >> = f
    BY <1>1, ConcatEmptySeq
  <2> QED
    BY <1>1, <1>2, <2>1 DEF WithPending
<1>8. Flushed(p)' = f
  <2>1. Joined(f, tail[sid], << >>) = f
    BY <1>1, ConcatEmptySeq DEF Joined
  <2> QED
    BY <1>1, <1>2, <2>1 DEF Flushed
<1>9. \A r \in returned' : r.sid = sid /\ r.line.type = "RunStateChanged"
                             /\ r.line \in Readable(sid)' => Owned(proc'[p], r.line)
  BY <1>1, <1>2 DEF Readable, Owned, Read
<1>10. proc'[p].sid = sid /\ proc'[p].runs = << >> /\ proc'[p].pend = << >>
       /\ Ids(Flushed(p)') = 1..proc'[p].count
       /\ Story(WithPending(p)', proc'[p]) /\ Story(proc'[p].own, proc'[p])
       /\ Apart(file'[sid]) /\ Settled(file'[sid])
       /\ \A r \in returned' : r \in returned \/ (r.sid = sid /\ r.line.sub = 0)
  BY <1>1, <1>2, <1>4, <1>5, <1>6, <1>7, <1>8
<1> HIDE DEF sid
<1> QED
  BY <1>1, <1>2, <1>3, <1>5, <1>9, <1>10, ArrivesMemory

\* What an append of the header to an empty file does.
LEMMA BeginReaches ==
  ASSUME JournalTypes, NEW p \in Processes, NEW q \in Process, Opens(p, q), Starts(q),
         Written(p, q, Header) \/ Refused(p, q, Header) \/ CutShort(p, q, Header),
         \A r \in Up \ {p} : proc[r].sid # q.sid
  PROVE  /\ q.sid \in Sessions /\ Alone(p, q.sid) /\ p \notin Up /\ subs' = subs
         /\ Thin(file'[q.sid], <<Header>>) /\ file[q.sid] = << >> /\ tail[q.sid] = "end"
         /\ q.own = << >> /\ q.pend = << >> /\ q.count = 0 /\ q.runs = << >>
         /\ file[q.sid] \o q.pend = << >> /\ Header \in Lines
         /\ Joined(file[q.sid], tail[q.sid], Append(q.pend, Header)) = <<Header>>
         /\ Joined(file[q.sid], tail[q.sid], q.pend) = << >>
<1>1. /\ q.sid \in Sessions /\ p \notin Up /\ subs' = subs
      /\ file[q.sid] = << >> /\ tail[q.sid] = "end"
      /\ q.own = << >> /\ q.pend = << >> /\ q.count = 0 /\ q.runs = << >>
  BY DEF Opens, Starts, Process, Up
<1>2. Header \in Lines
  BY TornIsALine
<1>3. << >> \o << >> = << >> /\ << >> \o <<Header>> = <<Header>>
  BY EmptyFile, ConcatEmptySeq
<1>4. file[q.sid] \o q.pend = << >>
  BY <1>1, <1>3
<1>5. /\ Joined(file[q.sid], tail[q.sid], Append(q.pend, Header)) = <<Header>>
      /\ Joined(file[q.sid], tail[q.sid], q.pend) = << >>
  BY <1>1, <1>3, EmptyFile DEF Joined
<1>6. PICK G : G = Append(file[q.sid] \o q.pend, Header)
  OBVIOUS
<1>7. /\ Thin(file'[q.sid], G)
      /\ \A s \in Sessions \ {q.sid} : file'[s] = file[s] /\ tail'[s] = tail[s]
      /\ \A r \in Processes \ {p} : proc'[r] = proc[r]
  BY <1>2, <1>6, PutReaches
<1>8. G = <<Header>>
  BY <1>4, <1>6, EmptyFile
<1>9. Alone(p, q.sid)
  BY <1>7 DEF Alone
<1> QED
  BY <1>1, <1>2, <1>4, <1>5, <1>7, <1>8, <1>9

\* A new file with its header.
LEMMA BeginKeeps ==
  ASSUME JournalTypes, Memory, NEW p \in Processes, NEW q \in Process, Opens(p, q), Starts(q),
         Written(p, q, Header), \A r \in Up \ {p} : proc[r].sid # q.sid, dropped' = FALSE
  PROVE  Memory'
<1>1. /\ q.sid \in Sessions /\ Alone(p, q.sid) /\ p \notin Up /\ subs' = subs
      /\ q.own = << >> /\ q.pend = << >> /\ q.count = 0 /\ q.runs = << >> /\ Header \in Lines
      /\ Joined(file[q.sid], tail[q.sid], Append(q.pend, Header)) = <<Header>>
  BY BeginReaches
<1>2. PICK h : h = <<Header>>
  OBVIOUS
<1>3. h \in Seq(Lines) /\ h = Append(<< >>, Header)
  BY <1>2, EmptyFile
<1>4. /\ Apart(h) /\ Settled(h) /\ Ids(h) = 1..0
      /\ \A i \in Read(h) : h[i].type # "RunStateChanged"
  BY <1>2, HeaderStory
<1>5. file'[q.sid] = h /\ tail'[q.sid] = "end"
  <2>1. OnDisk(q.sid, h, "end")
    BY <1>1, <1>2 DEF Written
  <2> QED
    BY <1>1, <1>3, <2>1, EmptyFile, DiskTypes DEF TailEnds
<1>6. proc'[p] = [q EXCEPT !.own = Append(@, Header), !.pend = << >>]
      /\ returned' = returned \cup {[sid |-> q.sid, line |-> Header]}
  BY DEF Written, Keep, JournalTypes
<1>7. /\ proc'[p].sid = q.sid /\ proc'[p].own = h /\ proc'[p].pend = << >>
      /\ proc'[p].runs = << >> /\ proc'[p].count = 0 /\ proc'[p] \in Process
  <2>1. h \in Seq(Lines) /\ << >> \in Seq(Lines) /\ Append(q.own, Header) = h
    BY <1>1, <1>3, EmptyFile
  <2> QED
    BY <1>1, <1>6, <2>1 DEF Process
<1>8. p \in Up'
  BY <1>7, JournalAssumption DEF Up
<1>9. Torned'
  <2>1. Torned
    BY DEF Memory
  <2> HIDE DEF Header
  <2> QED
    BY <1>1, <2>1, AppendTorned
<1>10. WithPending(p)' = h /\ Flushed(p)' = h
  <2>1. h \o << >> = h
    BY <1>3, ConcatEmptySeq
  <2> QED
    BY <1>5, <1>7, <2>1 DEF WithPending, Flushed, Joined
<1>11. Ids(Flushed(p)') = 1..proc'[p].count
  BY <1>4, <1>7, <1>10
<1>12. Story(h, proc'[p])
  BY <1>4, <1>7, CountedAgrees DEF Story
<1>13. \A r \in returned' : r \in returned \/ (r.sid = q.sid /\ r.line.sub = 0)
  <2>1. Header.sub = 0
    BY DEF Header, Line
  <2> QED
    BY <1>6, <2>1
<1>14. \A r \in returned' : r.sid = q.sid /\ r.line.type = "RunStateChanged"
                              /\ r.line \in Readable(q.sid)' => Owned(proc'[p], r.line)
  BY <1>4, <1>5 DEF Readable, Read
<1> QED
  BY <1>1, <1>4, <1>5, <1>7, <1>8, <1>9, <1>10, <1>11, <1>12, <1>13, <1>14, ArrivesMemory

\* A crash in the header.
LEMMA BeginCutKeeps ==
  ASSUME JournalTypes, Memory, NEW p \in Processes, NEW q \in Process, Opens(p, q), Starts(q),
         CutShort(p, q, Header), \A r \in Up \ {p} : proc[r].sid # q.sid, dropped' = FALSE
  PROVE  Memory'
<1>1. /\ q.sid \in Sessions /\ Alone(p, q.sid) /\ p \notin Up /\ subs' = subs
      /\ Thin(file'[q.sid], <<Header>>) /\ file[q.sid] = << >> /\ tail[q.sid] = "end"
      /\ q.pend = << >> /\ Header \in Lines
      /\ Joined(file[q.sid], tail[q.sid], q.pend) = << >>
  BY BeginReaches
<1>2. PICK h : h = <<Header>>
  OBVIOUS
<1>3. Apart(file'[q.sid]) /\ Settled(file'[q.sid])
  BY <1>1, <1>2, HeaderStory, ThinIsAlike
<1>4. p \notin Up'
  BY DEF CutShort, Keep, JournalTypes, Up
<1>5. PICK T : T = Joined(file[q.sid], tail[q.sid], Append(q.pend, TornLine))
  OBVIOUS
<1>6. file'[q.sid] = T /\ returned' = returned
  BY <1>1, <1>4, <1>5, PutMemory
<1>7. Ids(T) = Ids(<< >>)
  <2>1. TornLine \in Lines /\ TornLine.type = "torn"
    BY TornIsALine
  <2>2. PICK f \in Seq(Lines) : f = file[q.sid]
    BY <1>1 DEF JournalTypes
  <2>3. PICK pend \in Seq(Lines) : pend = q.pend
    BY DEF Process
  <2>4. PICK end : end = tail[q.sid] /\ end = "end"
    BY <1>1
  <2>5. Ids(Joined(f, end, Append(pend, TornLine))) = Ids(Joined(f, end, pend))
    BY <2>1, <2>4, JoinedIds
  <2> QED
    BY <1>1, <1>5, <2>2, <2>3, <2>4, <2>5
<1>8. Ids(<< >>) = 1..0
  BY DEF Ids, Read
<1>9. InOrder(file'[q.sid])
  BY <1>6, <1>7, <1>8, KnownInOrder
<1>10. Torned'
  <2>1. Torned
    BY DEF Memory
  <2> HIDE DEF Header
  <2> QED
    BY <1>1, <2>1, AppendTorned
<1> QED
  BY <1>1, <1>3, <1>4, <1>6, <1>9, <1>10, LeavesMemory

\* A header that the disk refused.
LEMMA NotBegunKeeps ==
  ASSUME JournalTypes, Memory, NEW p \in Processes, NEW q \in Process, Opens(p, q), Starts(q),
         NotBegun(q), \A r \in Up \ {p} : proc[r].sid # q.sid
  PROVE  Memory'
<1>1. /\ q.sid \in Sessions /\ file[q.sid] = << >> /\ tail[q.sid] = "end" /\ p \notin Up
      /\ proc' = proc /\ returned' = returned /\ subs' = subs
  BY DEF Opens, Starts, NotBegun, Process, Up
<1>2. PICK h : h = <<Header>>
  OBVIOUS
<1>3. h \in Seq(Lines) /\ h # << >>
  BY <1>2, EmptyFile
<1>4. /\ file'[q.sid] \in {<< >>, h} /\ tail'[q.sid] = "end"
      /\ \A s \in Sessions \ {q.sid} : file'[s] = file[s] /\ tail'[s] = tail[s]
  <2>1. CASE OnDisk(q.sid, h, "end")
    BY <1>1, <1>3, <2>1, DiskTypes DEF TailEnds
  <2>2. CASE UNCHANGED <<file, tail>>
    BY <1>1, <2>2
  <2> QED
    BY <1>2, <2>1, <2>2 DEF NotBegun
<1>5. Alone(p, q.sid) /\ p \notin Up'
  BY <1>1, <1>4 DEF Alone, Up
<1>6. Torned'
  BY <1>4 DEF Memory, Torned
<1>7. InOrder(file'[q.sid]) /\ Apart(file'[q.sid]) /\ Settled(file'[q.sid])
  <2>1. InOrder(h) /\ Apart(h) /\ Settled(h)
    BY <1>2, HeaderStory
  <2>2. InOrder(<< >>) /\ Apart(<< >>) /\ Settled(<< >>)
    <3>1. Ids(<< >>) = 1..0 /\ Read(<< >>) = {}
      BY DEF Ids, Read
    <3> QED
      BY <3>1, KnownInOrder DEF Apart, Settled
  <2> QED
    BY <1>4, <2>1, <2>2
<1> QED
  BY <1>1, <1>5, <1>6, <1>7, LeavesMemory

\* A process that closes its file leaves all of its lines there.
LEMMA CloseKeeps ==
  ASSUME JournalTypes, Memory, OneWriter, NEW p \in Processes, Closes(p), dropped' = FALSE
  PROVE  Memory'
<1> DEFINE sid == proc[p].sid
           f == file[sid]
           F == Flushed(p)
           end == IF proc[p].pend = << >> THEN tail[sid] ELSE "end"
<1>1. /\ sid \in Sessions /\ Thin(file'[sid], WithPending(p))
      /\ \A s \in Sessions \ {sid} : file'[s] = file[s] /\ tail'[s] = tail[s]
      /\ proc'[p] = Null /\ \A r \in Processes \ {p} : proc'[r] = proc[r]
  BY CloseReaches
<1>2. p \in Up /\ p \notin Up' /\ returned' = returned /\ subs' = subs
  BY <1>1 DEF Closes, Up
<1>3. Alone(p, sid)
  BY <1>1, <1>2 DEF Alone, OneWriter
<1>4. f \in Seq(Lines) /\ tail[sid] \in TailEnds /\ proc[p].pend \in Seq(Lines)
      /\ (tail[sid] # "end" => f # << >>)
  BY <1>1, <1>2, UpType DEF JournalTypes
<1>5. F \in Seq(Lines) /\ (proc[p].pend = << >> => F = f)
  BY <1>1, <1>4, FlushedType DEF Flushed
<1>6. OnDisk(sid, F, end)
  BY Zenon DEF Closes
<1>7. end \in TailEnds /\ (end # "end" => F # << >>)
  BY <1>4, <1>5 DEF TailEnds
<1>8. file'[sid] = F /\ tail'[sid] = end
  <2> HIDE DEF F, end
  <2> QED
    BY <1>1, <1>5, <1>6, <1>7, DiskTypes
<1>9. Torned'
  BY <1>1, <1>5, <1>8 DEF Memory, Torned
<1>10. InOrder(F)
  <2>1. \/ Ids(F) = 1..proc[p].count
        \/ Submitting(p) /\ Ids(F) = 1..(proc[p].count - 1)
    BY <1>2 DEF Memory, RunsInStep
  <2>2. proc[p].count \in Nat
    BY <1>2, UpType
  <2>3. Submitting(p) => proc[p].count >= 1
    <3>1. \A k \in DOMAIN proc[p].runs : proc[p].runs[k].run \in 1..proc[p].count
      BY <1>2, Zenon DEF Memory, Given
    <3> QED
      BY <2>2, <3>1 DEF Submitting
  <2> HIDE DEF F
  <2> QED
    BY <2>1, <2>2, <2>3, KnownInOrder
<1>11. Apart(F) /\ Settled(F)
  <2>1. Apart(WithPending(p)) /\ Settled(WithPending(p))
    BY <1>2 DEF Memory, Stories, Story
  <2> HIDE DEF F
  <2> QED
    BY <1>1, <1>8, <2>1, ThinIsAlike
<1> HIDE DEF sid, F
<1> QED
  BY <1>1, <1>2, <1>3, <1>8, <1>9, <1>10, <1>11, LeavesMemory DEF sid

\* Every step keeps the memory of the runs, while no readable line is dropped.
LEMMA NextKept ==
  FileTypes /\ MemoryKept /\ OneWriter /\ OneWriter' /\ [JournalNext]_journalVars => MemoryKept'
<1> SUFFICES ASSUME FileTypes, MemoryKept, OneWriter, OneWriter', [JournalNext]_journalVars,
                    dropped' = FALSE
             PROVE  Memory'
  BY DEF MemoryKept
<1>0. JournalTypes
  BY DEF FileTypes
<1>1. ASSUME NEW p \in Processes, NEW q \in Process, NEW line \in Lines, Appends(p, q, line),
             Kind(p, q, line)
      PROVE  Memory'
  <2>1. Written(p, q, line) \/ Refused(p, q, line) \/ CutShort(p, q, line)
    BY <1>1 DEF Appends
  <2>2. dropped = FALSE
    BY <1>0, <2>1, PutMemory
  <2>3. Memory
    BY <2>2 DEF MemoryKept
  <2> QED
    BY <1>0, <1>1, <2>3, AppendKeeps
<1>2. ASSUME NEW p \in Processes, Submit(p) \/ TellState(p) \/ RunRefused(p) PROVE Memory'
  <2>1. PICK q \in Process, line \in Lines : Appends(p, q, line) /\ Kind(p, q, line)
    BY <1>0, <1>2, SubmitAppends, TellAppends, RefusedAppends DEF Kind
  <2> QED
    BY <1>1, <2>1
<1>3. ASSUME NEW p \in Processes, OpenFile(p) PROVE Memory'
  <2>1. PICK q \in Process :
            Opens(p, q) /\ (\/ Continues(p, q)
                            \/ Starts(q) /\ (\/ Written(p, q, Header)
                                             \/ CutShort(p, q, Header)
                                             \/ NotBegun(q)))
    BY <1>3, OpensAs
  <2>2. \A r \in Up \ {p} : proc[r].sid # q.sid
    BY <2>1, OpensAlone
  <2>3. Header \in Lines
    BY TornIsALine
  <2> HIDE DEF Header
  <2>4. dropped = FALSE
    <3>1. CASE Continues(p, q) \/ NotBegun(q)
      <4>1. dropped' = dropped
        BY <3>1, Zenon DEF Continues, NotBegun
      <4> QED
        BY <4>1, Zenon
    <3>2. CASE Written(p, q, Header) \/ CutShort(p, q, Header)
      BY <1>0, <2>3, <3>2, PutMemory
    <3> QED
      BY <2>1, <3>1, <3>2
  <2>5. Memory
    BY <2>4 DEF MemoryKept
  <2> QED
    BY <1>0, <2>1, <2>2, <2>5, ContinueKeeps, BeginKeeps, BeginCutKeeps, NotBegunKeeps
<1>4. ASSUME NEW p \in Processes, CloseFile(p) PROVE Memory'
  <2>1. Closes(p)
    BY <1>0, <1>4, ClosesAs
  <2>2. dropped = FALSE
    <3>1. dropped' = dropped
      BY <2>1, Zenon DEF Closes
    <3> QED
      BY <3>1, Zenon
  <2>3. Memory
    BY <2>2 DEF MemoryKept
  <2> QED
    BY <1>0, <2>1, <2>3, CloseKeeps
<1>5. ASSUME UNCHANGED journalVars PROVE Memory'
  <2>1. /\ file' = file /\ tail' = tail /\ proc' = proc /\ returned' = returned /\ subs' = subs
    BY <1>5 DEF journalVars
  <2>2. dropped = FALSE
    <3>1. dropped' = dropped
      BY <1>5, Zenon DEF journalVars
    <3> QED
      BY <3>1, Zenon
  <2>3. Memory
    BY <2>2 DEF MemoryKept
  <2>4. Up' = Up /\ \A p : WithPending(p)' = WithPending(p) /\ Flushed(p)' = Flushed(p)
    BY <2>1 DEF Up, WithPending, Flushed
  <2>5. Torned'
    BY <2>1, <2>3 DEF Memory, Torned
  <2>6. RunsInStep /\ Given
    BY <2>3 DEF Memory
  <2>7. RunsInStep'
    <3>1. ASSUME NEW x, x \in Up
          PROVE  \/ Ids(Flushed(x)') = 1..proc'[x].count
                 \/ Submitting(x)' /\ Ids(Flushed(x)') = 1..(proc'[x].count - 1)
      <4>1. Flushed(x)' = Flushed(x) /\ proc'[x] = proc[x]
        BY <2>1, <2>4
      <4> QED
        BY <2>6, <3>1, <4>1 DEF RunsInStep, Submitting
    <3>2. \A s \in Sessions : (\A r \in Up' : proc'[r].sid # s) => InOrder(file'[s])
      BY <2>1, <2>4, <2>6 DEF RunsInStep
    <3> QED
      BY <2>4, <3>1, <3>2 DEF RunsInStep, InOrder, RunsSeen, Ids, Read
  <2>8. Given'
    BY <2>1, <2>6 DEF Given, Submitting, Up
  <2>9. Stories'
    BY <2>1, <2>3, <2>4 DEF Memory, Stories, Story, Apart, Settled, Agrees
  <2>10. Remembered'
    BY <2>1, <2>3, <2>4 DEF Memory, Remembered, Owned, Readable, Read
  <2> QED
    BY <2>5, <2>7, <2>8, <2>9, <2>10 DEF Memory
<1> QED
  BY <1>2, <1>3, <1>4, <1>5 DEF JournalNext

\* At first there is no run to remember.
LEMMA InitKept == JournalInit => MemoryKept
<1> SUFFICES ASSUME JournalInit PROVE Memory
  BY DEF MemoryKept
<1>1. Up = {} /\ returned = {}
  BY DEF JournalInit, Up
<1>2. \A s \in Sessions : file[s] = << >> /\ tail[s] = "end"
  BY DEF JournalInit
<1>3. InOrder(<< >>) /\ Apart(<< >>) /\ Settled(<< >>)
  <2>1. Ids(<< >>) = 1..0 /\ Read(<< >>) = {}
    BY DEF Ids, Read
  <2> QED
    BY <2>1, KnownInOrder DEF Apart, Settled
<1> QED
  BY <1>1, <1>2, <1>3 DEF Memory, Torned, RunsInStep, Given, Stories, Remembered

\* In a settled file a run that has an outcome is answered with it.
LEMMA OutcomeFound ==
  ASSUME NEW f \in Seq(Lines), Settled(f), NEW i \in Read(f), Outcome(f[i])
  PROVE  StateOf(f, f[i].run) = f[i].state
<1> DEFINE T == Told(f, f[i].run)
<1>1. Read(f) \subseteq 1..Len(f) /\ Len(f) \in Nat
  BY ReadType
<1>2. i \in T
  BY DEF Told, Outcome, Terminal
<1>3. T \in SUBSET Nat /\ \A s \in T : s <= Len(f)
  BY <1>1 DEF Told
<1>4. \A j \in T : /\ j \in Read(f) /\ f[j].run = f[i].run /\ f[j].type = "RunStateChanged"
                   /\ f[j].state # "parked"
  BY DEF Told
<1> HIDE DEF T
<1>5. Max(T) \in T /\ \A s \in T : s <= Max(T)
  BY <1>1, <1>2, <1>3, HasMax
<1>6. ~(i < Max(T))
  BY <1>4, <1>5 DEF Settled
<1>7. Max(T) = i
  <2>1. PICK m : m = Max(T)
    OBVIOUS
  <2>2. m \in Nat /\ i \in Nat /\ i <= m /\ ~(i < m)
    BY <1>2, <1>3, <1>5, <1>6, <2>1
  <2> QED
    BY <2>1, <2>2
<1> QED
  BY <1>2, <1>7 DEF StateOf, T

\* From which every process answers, of its own file and of the others.
LEMMA MemoryAnswers == FileTypes /\ MemoryKept => RunsAreRemembered
<1> SUFFICES ASSUME FileTypes, MemoryKept PROVE RunsAreRemembered
  OBVIOUS
<1>0. JournalTypes
  BY DEF FileTypes
<1>1. ~dropped => Memory
  <2>1. dropped \in BOOLEAN
    BY <1>0, Zenon DEF JournalTypes
  <2> QED
    BY <2>1, Zenon DEF MemoryKept
<1>2. RunsStayApart
  <2>1. Memory => \A s \in Sessions : \A l, k \in Readable(s) :
          l.run # Null /\ l.run = k.run => l.sub = k.sub
    BY DEF Memory, Stories, Apart, Readable
  <2> QED
    BY <1>1, <2>1, Zenon DEF RunsStayApart
<1>3. OutcomeIsAnswered
  <2>1. ASSUME Memory, NEW p \in Up, NEW r \in returned \ Unreadable,
               r.line.type = "RunStateChanged", r.line.state \in Terminal
        PROVE  Answer(p, r.sid, r.line.run) = r.line.state
    <3>1. r.line \in Readable(r.sid) /\ r.sid \in Sessions
      BY <1>0, <2>1 DEF Unreadable, JournalTypes
    <3>2. Outcome(r.line)
      BY <2>1 DEF Outcome
    <3>3. PICK f : f = LinesFor(p, r.sid)
      OBVIOUS
    <3>4. f \in Seq(Lines) /\ Settled(f) /\ \E i \in Read(f) : f[i] = r.line
      <4>1. CASE r.sid = proc[p].sid
        <5>1. f = proc[p].own
          BY <3>3, <4>1 DEF LinesFor
        <5>2. Owned(proc[p], r.line)
          BY <2>1, <3>1, <4>1 DEF Memory, Remembered
        <5>3. Settled(proc[p].own) /\ proc[p].own \in Seq(Lines)
          BY <1>0, <2>1, UpType DEF Memory, Stories, Story
        <5> QED
          BY <5>1, <5>2, <5>3 DEF Owned
      <4>2. CASE r.sid # proc[p].sid
        <5>1. f = file[r.sid]
          BY <3>3, <4>2 DEF LinesFor
        <5>2. Settled(file[r.sid]) /\ file[r.sid] \in Seq(Lines)
          BY <1>0, <2>1, <3>1, UpType DEF Memory, Stories
        <5> QED
          BY <3>1, <5>1, <5>2 DEF Readable
      <4> QED
        BY <4>1, <4>2
    <3>5. PICK i \in Read(f) : f[i] = r.line
      BY <3>4
    <3>6. StateOf(f, f[i].run) = f[i].state
      BY <3>2, <3>4, <3>5, OutcomeFound
    <3> QED
      BY <3>3, <3>5, <3>6 DEF Answer
  <2>2. Memory => \A p \in Up : \A r \in returned \ Unreadable :
          r.line.type = "RunStateChanged" /\ r.line.state \in Terminal =>
            Answer(p, r.sid, r.line.run) = r.line.state
    BY <2>1
  <2> QED
    BY <1>1, <2>2, Zenon DEF OutcomeIsAnswered
<1> QED
  BY <1>2, <1>3 DEF RunsAreRemembered

\* Over any crashes, restarts and refused appends a run id names one submission, and a run
\* whose outcome was accepted is answered with it for good, if no other process has its file
\* and no readable line was dropped (Session._run_count, Journal.run_record).
THEOREM MemoryTheorem == JournalSpec /\ []OneWriter => []RunsAreRemembered
<1>1. FileTypes /\ MemoryKept /\ OneWriter /\ OneWriter' /\ [JournalNext]_journalVars
        => (FileTypes /\ MemoryKept)'
  BY NextTypes, NextKept
<1> QED
  BY <1>1, InitTypes, InitKept, MemoryAnswers, PTL DEF JournalSpec
=============================================================================
