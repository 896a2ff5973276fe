--------------------------- MODULE PolymarketFeed ---------------------------
(***************************************************************************)
(* The Polymarket ingestor (services/polymarket-ingestor/src/service.ts,   *)
(* packages/market-data/src/order-book.ts) on one market: REST snapshots   *)
(* and socket events reach one order book through a queue, sockets are     *)
(* fenced by a generation, and a lost one is followed by a snapshot and a  *)
(* new one.  The source is external: version v of its book differs from    *)
(* the one before on one level, and v is also its timestamp.               *)
(***************************************************************************)
EXTENDS Integers, Sequences

CONSTANTS
    LastVersion,   \* bound: changes at the source
    MaxPending,    \* MAX_PENDING_SOURCE_EVENTS
    MaxTransit,    \* bound: events under way on a socket
    Sequenced,     \* events and snapshots carry a sequence number
    LaggingRest,   \* a REST snapshot may be one version old
    MaxTroubles    \* bound: broken sockets, failed reads and failed calls

ASSUME FeedAssumption ==
    /\ MaxPending \in Nat \ {0} /\ MaxTransit \in Nat \ {0}
    /\ Sequenced \in BOOLEAN /\ LaggingRest \in BOOLEAN /\ MaxTroubles \in Nat

VARIABLES
    version,   \* of the book at the source
    book,      \* the PolymarketYesBook: levels, sourceAtMs, lastSequence, connected
    socket,    \* generation, "none", "opening" or "open", and the events under way
    work,      \* the queue of the book; its head runs
    reconnect, \* the timer is set; the pass: "none", "timer" or "reconnect"
    troubles   \* how many, and whether one of them was a failed call of the database

feedVars == <<version, book, socket, work, reconnect, troubles>>

Trouble == troubles.count < MaxTroubles /\ troubles' = [troubles EXCEPT !.count = @ + 1]
StoreFails == troubles.count < MaxTroubles /\ troubles' = [count |-> troubles.count + 1, store |-> TRUE]
Calm == UNCHANGED troubles

Levels == {0, 1}
NoSequence == -1

\* The book of a version: every level as of the last version that changed it.
LevelAt(level, v) ==
    LET changes == {w \in 1..v : w % 2 = level}
    IN  IF changes = {} THEN 0 ELSE CHOOSE w \in changes : \A x \in changes : x <= w
RealBook(v) == [level \in Levels |-> LevelAt(level, v)]

-----------------------------------------------------------------------------
\* applySnapshot(), of a snapshot that is not older than the book.
Snapshot(v) ==
    [levels |-> RealBook(v), at |-> v, seq |-> IF Sequenced THEN v ELSE NoSequence, connected |-> TRUE]

Older(v) == v < book.at

\* applyWebSocket() of a change asks for a snapshot: it does not follow.
Gap(v) == (Sequenced /\ book.seq # NoSequence /\ v # book.seq + 1) \/ v < book.at

Changed(v) ==
    [book EXCEPT !.levels[v % 2] = v, !.at = v, !.seq = IF Sequenced THEN v ELSE @, !.connected = TRUE]

\* disconnect().
Disconnected(b) == [b EXCEPT !.connected = FALSE]

-----------------------------------------------------------------------------
\* Work of the queue: an event of a generation, a REST read (for a pass, or after a gap in
\* a generation), or what remains of a disconnection.
Event(e, gen) == [kind |-> "event", event |-> e, gen |-> gen, at |-> 0, read |-> FALSE]
Rest(for, gen) == [kind |-> for, event |-> [kind |-> "none", v |-> 0], gen |-> gen, at |-> 0, read |-> FALSE]
AnyGeneration == 0

Backlog == Len(SelectSeq(work, LAMBDA w : w.kind \in {"event", "gap"}))

Current(gen) == gen = AnyGeneration \/ gen = socket.gen

\* #disconnectSocket(): the socket is fenced at once, the rest goes through the queue.
Fenced(b, queue) ==
    /\ socket' = [gen |-> socket.gen + 1, state |-> "none", wire |-> <<>>]
    /\ book' = Disconnected(b)
    /\ work' = Append(queue, Rest("drop", AnyGeneration))

\* The connection breaks, does not open, or sends what cannot be read.
SocketBreaks ==
    /\ socket.state # "none" /\ Trouble
    /\ Fenced(book, work)
    /\ UNCHANGED <<version, reconnect>>

SocketOpens ==
    /\ socket.state = "opening"
    /\ socket' = [socket EXCEPT !.state = "open", !.wire = <<[kind |-> "book", v |-> version]>>]
    /\ UNCHANGED <<version, book, work, reconnect, troubles>>

\* Slip: an event too many is dropped, and the socket stays.
BackpressureDrops == UNCHANGED <<book, work>> /\ socket' = [socket EXCEPT !.wire = Tail(@)]

\* ingestSourceEvent() refuses an event too many: continuity is lost.
Backpressure == Fenced(book, work)

Deliver ==
    /\ socket.wire # <<>>
    /\ \/ Backlog >= MaxPending /\ Backpressure
       \/ /\ Backlog < MaxPending
          /\ work' = Append(work, Event(Head(socket.wire), socket.gen))
          /\ socket' = [socket EXCEPT !.wire = Tail(@)]
          /\ UNCHANGED book
    /\ UNCHANGED <<version, reconnect, troubles>>

-----------------------------------------------------------------------------
Refused(e) == IF e.kind = "book" THEN Older(e.v) ELSE Gap(e.v)
Applied(e) == IF e.kind = "book" THEN Snapshot(e.v) ELSE Changed(e.v)

\* #applySourceEvent(): nothing of a socket that was fenced; a gap becomes a REST read.
\* The database may fail before the event is applied, or when the tick is saved.
ApplyEvent ==
    /\ work # <<>> /\ Head(work).kind = "event"
    /\ LET e == Head(work).event
       IN  \/ /\ ~Current(Head(work).gen) /\ Calm
              /\ work' = Tail(work) /\ UNCHANGED <<book, socket>>
           \/ /\ Current(Head(work).gen) /\ Calm
              /\ IF Refused(e)
                 THEN /\ work' = <<Rest("gap", Head(work).gen)>> \o Tail(work)
                      /\ UNCHANGED book
                 ELSE work' = Tail(work) /\ book' = Applied(e)
              /\ UNCHANGED socket
           \/ /\ Current(Head(work).gen) /\ StoreFails
              /\ \E b \in {book} \cup (IF Refused(e) THEN {} ELSE {Applied(e)}) : Fenced(b, Tail(work))
    /\ UNCHANGED <<version, reconnect>>

Answer(v) ==
    /\ work # <<>> /\ Head(work).kind \in {"pass", "gap"} /\ ~Head(work).read
    /\ work' = [work EXCEPT ![1].read = TRUE, ![1].at = v]
    /\ UNCHANGED <<version, book, socket, reconnect, troubles>>

\* The source answers a REST read.
RestAnswers ==
    \/ Answer(version)
    \/ LaggingRest /\ version > 0 /\ Answer(version - 1)

\* A pass is over: it reconnects if it was for that.  #connectSocket() takes the next
\* generation; if the database fails it is not tried again.
PassEnds(queue) ==
    /\ reconnect' = [reconnect EXCEPT !.pass = "none"]
    /\ work' = queue
    /\ IF reconnect.pass = "reconnect"
       THEN \/ socket' = [gen |-> socket.gen + 1, state |-> "opening", wire |-> <<>>] /\ Calm
            \/ socket' = [gen |-> socket.gen + 1, state |-> "none", wire |-> <<>>] /\ StoreFails
       ELSE UNCHANGED socket /\ Calm

\* #reconcile(): an answer is applied unless it is older than the book, or of a gap in a
\* socket that was fenced meanwhile.
RestReturns ==
    /\ work # <<>> /\ Head(work).read
    /\ book' = IF Current(Head(work).gen) /\ ~Older(Head(work).at) THEN Snapshot(Head(work).at) ELSE book
    /\ IF Head(work).kind = "pass" THEN PassEnds(Tail(work))
       ELSE work' = Tail(work) /\ UNCHANGED <<socket, reconnect, troubles>>
    /\ UNCHANGED version

\* The read fails: a pass marks the book, an event rejected fences its socket.  If the
\* database fails the pass does, and does not reconnect.
RestFails ==
    /\ work # <<>> /\ Head(work).kind \in {"pass", "gap"} /\ ~Head(work).read
    /\ \/ /\ Head(work).kind = "pass" /\ Trouble
          /\ book' = Disconnected(book)
          /\ reconnect' = [reconnect EXCEPT !.pass = "none"]
          /\ work' = Tail(work)
          /\ socket' = IF reconnect.pass = "reconnect"
                       THEN [gen |-> socket.gen + 1, state |-> "opening", wire |-> <<>>] ELSE socket
       \/ /\ Head(work).kind = "pass" /\ StoreFails
          /\ book' = Disconnected(book)
          /\ reconnect' = [reconnect EXCEPT !.pass = "none"]
          /\ work' = Tail(work)
          /\ UNCHANGED socket
       \/ /\ Head(work).kind = "gap" /\ Trouble
          /\ IF Current(Head(work).gen) THEN Fenced(book, Tail(work))
             ELSE work' = Tail(work) /\ UNCHANGED <<book, socket>>
          /\ UNCHANGED reconnect
    /\ UNCHANGED version

\* #handleDisconnect(): the book is marked once more in its turn, then the timer is set,
\* unless the database fails.
HandleDisconnect ==
    /\ work # <<>> /\ Head(work).kind = "drop"
    /\ work' = Tail(work) /\ book' = Disconnected(book)
    /\ \/ reconnect' = [reconnect EXCEPT !.timer = TRUE] /\ Calm
       \/ UNCHANGED reconnect /\ StoreFails
    /\ UNCHANGED <<version, socket>>

\* Slip: a pass under way is not waited for, and nothing connects.
JoinedPass == "timer"

\* A pass under way will reconnect too.
ReconnectingPass == "reconnect"

ReconnectTimer ==
    /\ reconnect.timer
    /\ reconnect' = [timer |-> FALSE, pass |-> IF reconnect.pass = "none" THEN "reconnect" ELSE ReconnectingPass]
    /\ work' = IF reconnect.pass = "none" THEN Append(work, Rest("pass", AnyGeneration)) ELSE work
    /\ UNCHANGED <<version, book, socket, troubles>>

ReconcileTimer ==
    /\ reconnect.pass = "none"
    /\ reconnect' = [reconnect EXCEPT !.pass = "timer"]
    /\ work' = Append(work, Rest("pass", AnyGeneration))
    /\ UNCHANGED <<version, book, socket, troubles>>

-----------------------------------------------------------------------------
\* The book at the source changes; subscribers are told in order.
SourceChanges ==
    /\ version < LastVersion
    /\ socket.state = "open" => Len(socket.wire) < MaxTransit
    /\ version' = version + 1
    /\ socket' = IF socket.state = "open"
                 THEN [socket EXCEPT !.wire = Append(@, [kind |-> "change", v |-> version + 1])] ELSE socket
    /\ UNCHANGED <<book, work, reconnect, troubles>>

\* start(): a first snapshot, then the socket.
FeedInit ==
    /\ version = 0
    /\ book = [levels |-> RealBook(0), at |-> 0, seq |-> NoSequence, connected |-> FALSE]
    /\ socket = [gen |-> 1, state |-> "none", wire |-> <<>>]
    /\ work = <<Rest("pass", AnyGeneration)>>
    /\ reconnect = [timer |-> FALSE, pass |-> "reconnect"]
    /\ troubles = [count |-> 0, store |-> FALSE]

FeedNext ==
    \/ SourceChanges
    \/ SocketBreaks \/ SocketOpens \/ Deliver
    \/ ApplyEvent \/ RestAnswers \/ RestReturns \/ RestFails \/ HandleDisconnect
    \/ ReconnectTimer \/ ReconcileTimer

\* Sockets open, reads are answered, with the latest book now and then, and the queue and
\* the timers go on.
FeedFairness ==
    /\ WF_feedVars(SocketOpens) /\ WF_feedVars(Deliver)
    /\ WF_feedVars(ApplyEvent) /\ SF_feedVars(Answer(version)) /\ WF_feedVars(RestReturns)
    /\ WF_feedVars(HandleDisconnect) /\ WF_feedVars(ReconnectTimer) /\ WF_feedVars(ReconcileTimer)

FeedSpec == FeedInit /\ [][FeedNext]_feedVars /\ FeedFairness

-----------------------------------------------------------------------------
\* A book that is shown as live is one that the source had, at its timestamp: never one
\* that misses a change in between.
BookIsReal == book.connected => book.levels = RealBook(book.at)

\* Once the source is quiet, the book is that of the source, shown as live, over an open
\* socket; unless a call of the database failed, after which the socket may stay down.
FeedReturns ==
    <>[](\/ book.connected /\ book.levels = RealBook(version) /\ socket.state = "open"
         \/ troubles.store)
=============================================================================
