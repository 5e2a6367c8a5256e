----------------------------- MODULE EventStream ------------------------------
(***************************************************************************)
(* The event stream from Session._ingest to a client's views: the numbered *)
(* ring, a subscriber's bounded queue, the WebSocket handler that replays  *)
(* and then pumps, and the client that deduplicates and reconnects         *)
(* (session.py, app.py, ui/lib/stream.js).  One client; the service may be *)
(* restarted and the connection lost.                                      *)
(***************************************************************************)
EXTENDS Naturals, Sequences, FiniteSets, SequencesExt

CONSTANTS
    RingSize,          \* RING_SIZE
    BacklogLimit,      \* SUBSCRIBER_BACKLOG
    LiveLimit,         \* EPHEMERAL_BACKLOG
    WireSize,          \* messages the transport takes before send_text waits
    MaxSeq,            \* bound: numbered frames of one service process
    MaxSessions,       \* bound: service processes
    MaxLosses,         \* bound: connections lost
    None

ASSUME EventStreamAssumption ==
    /\ RingSize \in Nat /\ BacklogLimit \in Nat /\ LiveLimit \in Nat
    /\ WireSize \in Nat \ {0} /\ MaxSeq \in Nat /\ None \notin Nat

VARIABLES
    session,     \* the service process, counted from 1
    seq,         \* Session._seq
    subscribed,  \* the handler's queue is in Session._subscribers
    queue,       \* its Backlog
    handler,     \* where the WebSocket handler is, "none" without a connection
    replay,      \* the frames of events_since still to send
    last,        \* the handler's deduplication
    wire,        \* sent and not yet received
    who,         \* the client's incarnation
    cursor,      \* the client's lastSeq
    asked,       \* the since= of its socket
    losses,
    got,         \* frames of this incarnation handed to the views
    twice,       \* those handed over more than once
    evicted      \* those the ring no longer had when they were asked for

serviceVars == <<session, seq>>
handlerVars == <<subscribed, queue, handler, replay, last>>
clientVars  == <<who, cursor, asked>>
historyVars == <<got, twice, evicted>>
vars == <<serviceVars, handlerVars, wire, clientVars, losses, historyVars>>

Message(k, n) == [kind |-> k, seq |-> n]
Frame(n)  == Message("frame", n)
Live      == Message("live", None)       \* an ephemeral frame
Notice(n) == Message("notice", n)        \* `dropped: reconnect with since=n'
Drop      == Message("close", None)      \* None in the queue, close 1008 on the wire
Hello     == Message("hello", session)

Numbered(q) == Len(SelectSeq(q, LAMBDA e : e.kind = "frame"))
Retained == {n \in 1..seq : n + RingSize > seq}

Init ==
    /\ session = 1 /\ seq = 0
    /\ subscribed = FALSE /\ queue = <<>> /\ handler = "none" /\ replay = <<>> /\ last = 0
    /\ wire = <<>>
    /\ who = None /\ cursor = 0 /\ asked = 0
    /\ losses = 0
    /\ got = {} /\ twice = {} /\ evicted = {}

-----------------------------------------------------------------------------
(* Session._fan_out.                                                       *)

Behind(q) == Numbered(q) > BacklogLimit

StaysRegistered(q) == TRUE                     \* mutant: dropped but still registered
Stays(q) == ~Behind(q)

WithNotice(q, n) == q \o <<Notice(n), Drop>>

Publish ==
    /\ seq < MaxSeq
    /\ seq' = seq + 1
    /\ LET q == Append(queue, Frame(seq')) IN
       IF ~subscribed
       THEN UNCHANGED <<queue, subscribed>>
       ELSE /\ subscribed' = Stays(q)
            /\ queue' = IF Behind(q) THEN WithNotice(q, seq') ELSE q
    /\ UNCHANGED <<session, handler, replay, last, wire, clientVars, losses, historyVars>>

Accepts == Len(queue) <= LiveLimit + BacklogLimit       \* mutant: limits added up
TakesLive == Len(queue) <= LiveLimit

PublishLive ==
    /\ subscribed /\ TakesLive
    /\ queue' = Append(queue, Live)
    /\ UNCHANGED <<serviceVars, subscribed, handler, replay, last, wire, clientVars,
                   losses, historyVars>>

-----------------------------------------------------------------------------
(* The WebSocket handler.                                                  *)

\* accept, subscribe, and Hello handed to the transport.
Connect ==
    /\ handler = "none"
    /\ handler' = "hello" /\ subscribed' = TRUE /\ queue' = <<>> /\ last' = 0
    /\ wire' = <<Hello>>
    /\ UNCHANGED <<serviceVars, replay, clientVars, losses, historyVars>>

EventsSince == {n \in Retained : n > asked}

\* Hello is sent: the replay is read from the ring.
ReadReplay ==
    /\ handler = "hello"
    /\ handler' = "replay"
    /\ replay' = SetToSortSeq(EventsSince, <)
    /\ evicted' = evicted \cup IF who \in {None, session}
                             THEN ((asked + 1)..seq) \ Retained ELSE {}
    /\ UNCHANGED <<serviceVars, subscribed, queue, last, wire, clientVars, losses, got, twice>>

ForgetsReplay(n) == last                       \* mutant: replayed frames are not remembered
Remembers(n) == n

SendReplay ==
    /\ handler = "replay" /\ replay # <<>> /\ Len(wire) < WireSize
    /\ wire' = Append(wire, Frame(Head(replay)))
    /\ last' = Remembers(Head(replay))
    /\ replay' = Tail(replay)
    /\ UNCHANGED <<serviceVars, subscribed, queue, handler, clientVars, losses, historyVars>>

StartPump ==
    /\ handler = "replay" /\ replay = <<>>
    /\ handler' = "pump"
    /\ UNCHANGED <<serviceVars, subscribed, queue, replay, last, wire, clientVars, losses,
                   historyVars>>

Duplicate(e) == e.kind = "frame" /\ e.seq <= last

Pump ==
    /\ handler = "pump" /\ queue # <<>>
    /\ LET e == Head(queue) IN
       \/ Duplicate(e) /\ UNCHANGED <<wire, last, handler>>
       \/ /\ ~Duplicate(e) /\ Len(wire) < WireSize
          /\ wire' = Append(wire, e)
          /\ last' = IF e.kind = "frame" THEN e.seq ELSE last
          /\ handler' = IF e = Drop THEN "closed" ELSE handler
    /\ queue' = Tail(queue)
    /\ UNCHANGED <<serviceVars, subscribed, replay, clientVars, losses, historyVars>>

-----------------------------------------------------------------------------
(* The client.                                                             *)

\* open(since): a new socket, and the old one's handler unsubscribes.
Open(since) ==
    /\ asked' = since /\ cursor' = since
    /\ handler' = "none" /\ subscribed' = FALSE /\ queue' = <<>> /\ replay' = <<>>
    /\ wire' = <<>>
    /\ UNCHANGED last

Receiving(k) == wire # <<>> /\ Head(wire).kind = k
Taken == wire' = Tail(wire)

AnyHello == TRUE                               \* mutant: every process is the same
SameProcess == who \in {None, Head(wire).seq}

ReceiveHello ==
    /\ Receiving("hello") /\ SameProcess
    /\ who' = Head(wire).seq
    /\ Taken
    /\ UNCHANGED <<serviceVars, handlerVars, cursor, asked, losses, historyVars>>

\* Another service process: the cursor and the views start again from 0.
SessionChange ==
    /\ Receiving("hello") /\ ~SameProcess
    /\ who' = Head(wire).seq
    /\ Open(0)
    /\ got' = {} /\ twice' = {} /\ evicted' = {}
    /\ UNCHANGED <<serviceVars, losses>>

ReceiveFrame ==
    /\ Receiving("frame")
    /\ LET n == Head(wire).seq IN
       IF n <= cursor
       THEN UNCHANGED <<cursor, got, twice>>
       ELSE /\ cursor' = n
            /\ got' = got \cup {n}
            /\ twice' = twice \cup ({n} \cap got)
    /\ Taken
    /\ UNCHANGED <<serviceVars, handlerVars, who, asked, losses, evicted>>

ReceiveLive ==
    /\ Receiving("live")
    /\ Taken
    /\ UNCHANGED <<serviceVars, handlerVars, clientVars, losses, historyVars>>

ReceiveNotice ==
    /\ Receiving("notice")
    /\ cursor' = Head(wire).seq
    /\ Taken
    /\ UNCHANGED <<serviceVars, handlerVars, who, asked, losses, historyVars>>

GivesUp == UNCHANGED <<asked, cursor, handler, subscribed, queue, replay, wire, last>>  \* mutant
Reopens == Open(cursor)

ReceiveClose ==
    /\ Receiving("close")
    /\ Reopens
    /\ UNCHANGED <<serviceVars, who, losses, historyVars>>

\* The connection is lost with all that is on the wire; the client's timer reopens it.
Lose ==
    /\ handler # "none" /\ losses < MaxLosses
    /\ losses' = losses + 1
    /\ Open(cursor)
    /\ UNCHANGED <<serviceVars, who, historyVars>>

\* Another service process takes over: it numbers its frames from 1.
Restart ==
    /\ session < MaxSessions
    /\ session' = session + 1 /\ seq' = 0
    /\ Open(cursor)
    /\ evicted' = IF who = None THEN {} ELSE evicted
    /\ UNCHANGED <<who, losses, got, twice>>

-----------------------------------------------------------------------------
Serve == Connect \/ ReadReplay \/ SendReplay \/ StartPump \/ Pump
Receive == ReceiveHello \/ SessionChange \/ ReceiveFrame \/ ReceiveLive \/ ReceiveNotice
           \/ ReceiveClose

Next == Publish \/ PublishLive \/ Serve \/ Receive \/ Lose \/ Restart

Spec == Init /\ [][Next]_vars

\* The event loop runs the handler, the browser its callbacks and its retry timer.
FairSpec == Spec /\ WF_vars(Serve) /\ WF_vars(Receive)
-----------------------------------------------------------------------------
(* Properties.                                                             *)

Positions(k, s) == {i \in DOMAIN s : s[i].kind = k}

\* Every variable keeps its type, and a subscriber that was dropped holds the notice
\* and the close as its last two frames.
TypeOK ==
    /\ seq \in 0..MaxSeq /\ cursor \in 0..MaxSeq /\ asked \in 0..MaxSeq /\ last \in 0..MaxSeq
    /\ handler \in {"none", "hello", "replay", "pump", "closed"}
    /\ subscribed => handler \in {"hello", "replay", "pump"} /\ Positions("close", queue) = {}
    /\ handler # "none" /\ ~subscribed /\ queue # <<>> => queue[Len(queue)] = Drop
    /\ got \subseteq 1..MaxSeq /\ twice \subseteq got

\* A slow client holds bounded memory: the numbered backlog is at most one over its
\* limit, live-only frames add at most theirs, and the drop adds two.
QueueBounded ==
    /\ Numbered(queue) <= BacklogLimit + 1
    /\ Cardinality(Positions("live", queue)) <= LiveLimit + 1
    /\ Len(queue) <= BacklogLimit + LiveLimit + 4

\* On one socket the replay and the pump together send no number twice and none out
\* of order, although frames published during the replay are in both.
SocketIsOrdered ==
    \A i, k \in Positions("frame", wire) : i < k => wire[i].seq < wire[k].seq

\* Within a service process every frame at or below the client's cursor was handed to
\* its views, unless the ring had discarded it when the client asked: drops, lost
\* connections and reconnects lose nothing else.
NothingMissed ==
    who = session => 1..cursor \subseteq got \cup evicted

\* A client that is connected long enough catches up with the last frame.
CatchesUp == <>[](who = session /\ cursor = seq)

\* ui/lib/stream.js: the stream owns reconnect and deduplication for all views, so no view
\* is handed a frame of one service process twice.  It is not so: a subscriber dropped while
\* Hello is being sent gets a replay past the drop, then the notice that moves its cursor
\* back.
NoFrameTwice == twice = {}
=============================================================================
