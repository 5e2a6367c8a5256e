-------------------------------- MODULE Journal --------------------------------
(***************************************************************************)
(* The session's JSONL file: what append leaves on disk when it returns,   *)
(* fails or is cut by a crash, what a process reads back when it opens an  *)
(* existing file, where it goes on counting frames and runs, and what the  *)
(* run index answers from those lines.                                     *)
(***************************************************************************)
EXTENDS Naturals, Sequences, FiniteSets, FiniteSetsExt

CONSTANTS
    Null,                   \* no number, no run id, no state, no process
    Processes,              \* service processes that may be up at once
    Sessions,               \* session ids, in the order of their names
    MaxLines, MaxSubs,      \* bounds: lines attempted, runs submitted
    MaxFails, MaxCrashes    \* bounds: appends the disk refuses, processes that die

Terminal == {"done", "stopped", "aborted", "failed", "blocked", "cancelled"}
RunStates == Terminal \cup {"queued", "running", "parked"}
Kinds == {"SessionStarted", "RunQueued", "RunStateChanged", "RunRefused", "torn"}

Line(type, seq, run, sub, state) ==
    [type |-> type, seq |-> seq, run |-> run, sub |-> sub, state |-> state]
Lines == [type : Kinds, seq : Nat \cup {Null}, run : Nat \cup {Null}, sub : Nat,
          state : RunStates \cup {Null}]
Header == Line("SessionStarted", 0, Null, 0, Null)
TornLine == Line("torn", Null, Null, 0, Null)

\* What a process holds: its file, what it read and wrote of it, the bytes its handle has
\* not flushed, the last number, the runs counted, and those it was given itself.
Process == [sid : Sessions, own : Seq(Lines), pend : Seq(Lines), seq : Nat, count : Nat,
            runs : Seq([run : Nat, sub : Nat, state : RunStates \cup {"new"}])]

ASSUME JournalAssumption ==
    /\ Sessions \subseteq Nat /\ IsFiniteSet(Sessions)
    /\ {MaxLines, MaxSubs, MaxFails, MaxCrashes} \subseteq Nat
    /\ Null \notin Nat /\ Null \notin Process

VARIABLES
    file, tail,     \* lines on disk; how the last one ends: "end", or without a newline
    proc,           \* what each process that is up holds, Null for one that is not
    returned,       \* lines whose append returned
    subs,           \* submissions so far, each with the run id it got
    lines, fails,   \* appends attempted, appends the disk refused
    dropped,        \* the disk dropped a line, or a crash cut just the newline off one
    crashes

journalVars == <<file, tail, proc, returned, subs, lines, fails, dropped, crashes>>

-----------------------------------------------------------------------------
\* _read: a line that does not parse is skipped.
Read(f) == {i \in DOMAIN f : f[i].type # "torn"}

\* What bytes become lines: a line written after a missing newline joins the one before.
Joined(f, end, new) ==
    IF new = << >> \/ end = "end" THEN f \o new
    ELSE [f EXCEPT ![Len(f)] = TornLine] \o Tail(new)

\* Journal.__init__ goes on from the highest number, Session from the runs it can see.
Numbered(f) == {i \in Read(f) : f[i].seq # Null}
LastNumber(f) ==                             \* mutant: the number of the last line
    IF f = << >> \/ f[Len(f)].seq = Null THEN 0 ELSE f[Len(f)].seq
Highest(f) == Max({0} \cup {f[i].seq : i \in Numbered(f)})
RunsQueued(f) ==                             \* mutant: only runs whose RunQueued was read
    Cardinality({f[i].run : i \in {j \in Read(f) : f[j].type = "RunQueued"}})
Ids(f) == {f[i].run : i \in Read(f)} \ {Null}
RunsSeen(f) == Cardinality(Ids(f))

\* _Parsed and _Run: a run's lines in file order; parked never replaces the state.
Told(f, run) ==
    {i \in Read(f) : f[i].run = run /\ f[i].type = "RunStateChanged" /\ f[i].state # "parked"}
StateOf(f, run) == IF Told(f, run) = {} THEN "unknown" ELSE f[Max(Told(f, run))].state

\* Journal.run_record: this process's own lines in memory, any other file from disk.
Up == {p \in Processes : proc[p] # Null}
LinesFor(p, sid) == IF sid = proc[p].sid THEN proc[p].own ELSE file[sid]
Answer(p, sid, run) == StateOf(LinesFor(p, sid), run)

-----------------------------------------------------------------------------
JournalInit ==
    /\ file = [s \in Sessions |-> << >>] /\ tail = [s \in Sessions |-> "end"]
    /\ proc = [p \in Processes |-> Null]
    /\ returned = {} /\ subs = << >>
    /\ lines = 0 /\ fails = 0 /\ dropped = FALSE /\ crashes = 0

Keep(p, q) == proc' = [proc EXCEPT ![p] = q]
OnDisk(sid, f, end) == file' = [file EXCEPT ![sid] = f] /\ tail' = [tail EXCEPT ![sid] = end]

\* append: written, flushed and folded; or refused by the disk, its bytes kept for the
\* next flush or dropped; or cut by a crash.  Session._journal goes on after a refusal.
Written(p, q, line) ==
    /\ OnDisk(q.sid, Joined(file[q.sid], tail[q.sid], Append(q.pend, line)), "end")
    /\ Keep(p, [q EXCEPT !.own = Append(@, line), !.pend = << >>])
    /\ returned' = returned \cup {[sid |-> q.sid, line |-> line]}
    /\ UNCHANGED <<fails, dropped, crashes>>
Refused(p, q, line) ==
    /\ fails < MaxFails /\ fails' = fails + 1
    /\ \/ Keep(p, [q EXCEPT !.pend = Append(@, line)]) /\ UNCHANGED dropped
       \/ Keep(p, q) /\ dropped' = TRUE
    /\ UNCHANGED <<file, tail, returned, crashes>>
CutShort(p, q, line) ==
    /\ crashes < MaxCrashes /\ crashes' = crashes + 1 /\ Keep(p, Null)
    /\ LET upTo(last) == Joined(file[q.sid], tail[q.sid], Append(q.pend, last))
       IN \/ OnDisk(q.sid, upTo(line), "whole") /\ dropped' = TRUE
          \/ OnDisk(q.sid, upTo(TornLine), "cut") /\ UNCHANGED dropped
    /\ UNCHANGED <<returned, fails>>
Put(p, q, line) ==
    /\ lines < MaxLines /\ lines' = lines + 1
    /\ Written(p, q, line) \/ Refused(p, q, line) \/ CutShort(p, q, line)

\* A new file gets its header.  When the disk refuses it the process does not come up, and
\* the bytes follow when its handle is collected, or not at all.
Begin(p, q) ==
    /\ lines < MaxLines /\ lines' = lines + 1
    /\ \/ Written(p, q, Header) \/ CutShort(p, q, Header)
       \/ /\ fails < MaxFails /\ fails' = fails + 1
          /\ OnDisk(q.sid, <<Header>>, "end") \/ UNCHANGED <<file, tail>>
          /\ UNCHANGED <<proc, returned, dropped, crashes>>

\* A file with bytes in it is continued.
OpenFile(p) ==
    /\ proc[p] = Null
    /\ \E sid \in Sessions :
        /\ \A s \in Sessions : s > sid => file[s] = << >>
        /\ LET own == file[sid]
               q == [sid |-> sid, own |-> own, pend |-> << >>,
                     seq |-> Highest(own), count |-> RunsSeen(own), runs |-> << >>]
           IN IF own = << >> THEN Begin(p, q)
              ELSE /\ Keep(p, q)
                   /\ UNCHANGED <<file, tail, returned, lines, fails, dropped, crashes>>
    /\ UNCHANGED subs

\* Session.submit: the next run id, its RunQueued line and, under the same lock, its
\* queued state before any other line.
Submitting(p) == \E i \in DOMAIN proc[p].runs : proc[p].runs[i].state = "new"
Submit(p) ==
    /\ proc[p] # Null /\ Len(subs) < MaxSubs /\ ~Submitting(p)
    /\ LET q == proc[p]
           run == q.count + 1
           sub == Len(subs) + 1
       IN /\ subs' = Append(subs, [sid |-> q.sid, run |-> run])
          /\ Put(p, [q EXCEPT !.count = run, !.seq = @ + 1,
                              !.runs = Append(@, [run |-> run, sub |-> sub, state |-> "new"])],
                 Line("RunQueued", q.seq + 1, run, sub, Null))

\* The states of a run in the order the worker reports them, one run after the other.
After(state) ==
    CASE state = "new" -> {"queued"}
      [] state = "queued" -> {"running", "cancelled"}
      [] state = "running" -> {"done", "aborted"}
      [] state \in Terminal \ {"cancelled"} -> {"parked"}
      [] OTHER -> {}
TellState(p) ==
    /\ proc[p] # Null
    /\ \E i \in DOMAIN proc[p].runs : \E state \in After(proc[p].runs[i].state) :
        LET q == proc[p] IN
        /\ Submitting(p) => state = "queued"
        /\ state = "running" =>
             \A j \in 1 .. i - 1 : q.runs[j].state \in {"parked", "cancelled"}
        /\ Put(p, [q EXCEPT !.seq = @ + 1, !.runs[i].state = state],
               Line("RunStateChanged", q.seq + 1, q.runs[i].run, q.runs[i].sub, state))
    /\ UNCHANGED subs

\* A refused submission is journalled without a number.
RunRefused(p) ==
    /\ proc[p] # Null /\ ~Submitting(p)
    /\ Put(p, proc[p], Line("RunRefused", Null, Null, 0, Null))
    /\ UNCHANGED subs

\* close: the pending bytes are flushed once more, or dropped.
CloseFile(p) ==
    /\ proc[p] # Null /\ Keep(p, Null)
    /\ LET q == proc[p] IN
       \/ OnDisk(q.sid, Joined(file[q.sid], tail[q.sid], q.pend),
                 IF q.pend = << >> THEN tail[q.sid] ELSE "end") /\ UNCHANGED dropped
       \/ q.pend # << >> /\ dropped' = TRUE /\ UNCHANGED <<file, tail>>
    /\ UNCHANGED <<returned, subs, lines, fails, crashes>>

JournalNext ==
    \E p \in Processes :
        OpenFile(p) \/ Submit(p) \/ TellState(p) \/ RunRefused(p) \/ CloseFile(p)
JournalSpec == JournalInit /\ [][JournalNext]_journalVars

\* A session id belongs to one process at a time: two that wrote one file would number and
\* count past each other.
OneWriter == \A p, r \in Up : proc[p].sid = proc[r].sid => p = r

-----------------------------------------------------------------------------
Readable(sid) == {file[sid][i] : i \in Read(file[sid])}
Unreadable == {r \in returned : r.line \notin Readable(r.sid)}

\* A crash costs one line that append had accepted at most: the first that the next
\* process writes after the missing newline (journal.py, _read and the mode of open).
OneLinePerCrash == Cardinality(Unreadable) <= crashes

\* Within a file the numbers of the lines that can be read only rise, over any restarts:
\* a client's cursor stays good (Journal.seq, Session._seq).
NumbersRise ==
    \A s \in Sessions : \A i, j \in Numbered(file[s]) :
        i < j => file[s][i].seq < file[s][j].seq

\* While no readable line was dropped, no two submissions share a run id whose lines can be
\* read, whatever was torn before a restart (Session._run_count).
RunsStayApart ==
    ~dropped => \A s \in Sessions : \A l, k \in Readable(s) :
        l.run # Null /\ l.run = k.run => l.sub = k.sub

\* Once the append of a run's outcome returned, every process answers with it for good,
\* also after its park and from another session (Journal.run_record).
OutcomeIsAnswered ==
    ~dropped => \A p \in Up : \A r \in returned \ Unreadable :
        r.line.type = "RunStateChanged" /\ r.line.state \in Terminal =>
            Answer(p, r.sid, r.line.run) = r.line.state

\* Every line that append accepted can be read after a failure (journal.py: process
\* failure leaves the flushed event prefix for replay).
FlushedIsReadable == Unreadable = {}

\* A file stays usable over crashes: a crash costs one line, and the numbers rise.
FilesStayUsable == OneLinePerCrash /\ NumbersRise

\* So does what it is kept for: a run id names one submission, and a run that has ended is
\* answered with its outcome.
RunsAreRemembered == RunsStayApart /\ OutcomeIsAnswered
=============================================================================
