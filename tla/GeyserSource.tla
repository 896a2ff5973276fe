---------------------------- MODULE GeyserSource ----------------------------
(***************************************************************************)
(* The resilient subscription of the live index                            *)
(* (services/solana-indexer/src/live/geyser.ts): connects, resumes,        *)
(* reconnects after a break, and can be stopped and started again while    *)
(* connects and reconnect timers are still under way.                      *)
(***************************************************************************)
EXTENDS Chain

VARIABLES source, attempts, timers

subscription == <<source, attempts, timers>>

-----------------------------------------------------------------------------
\* connect() in this generation, at its first await.
Attempt(id, generation) ==
    [id |-> id, generation |-> generation, step |-> "dial", from |-> None]

\* Neither stopped nor superseded since the attempt began.
Current(a) == ~source.stopped /\ a.generation = source.generation

Without(a) == attempts' = attempts \ {a}
Becomes(a, b) == attempts' = (attempts \ {a}) \cup {b}

\* scheduleReconnect(): a timer of this generation, after a failed attempt or a
\* broken stream (both may schedule one for the same connect).
Reconnect(id, broken) ==
    timers' = timers \cup
        {[id |-> id, broken |-> broken, generation |-> source.generation]}

SourceStart(src) ==
    /\ source' = [src EXCEPT !.stopped = FALSE, !.connects = @ + 1]
    /\ attempts' = attempts \cup {Attempt(src.connects + 1, src.generation)}

Stopped(src) ==
    [src EXCEPT !.stopped = TRUE, !.generation = @ + 1,
                !.stream = None, !.connected = FALSE]

SourceInit ==
    /\ source = [stopped |-> FALSE, generation |-> 0, stream |-> None,
                 connected |-> FALSE, connects |-> 1]
    /\ attempts = {Attempt(1, 0)}
    /\ timers = {}

\* The dial succeeded: where to resume from decides whether replay is checked.
Dialled(a, resume) ==
    /\ a.step = "dial"
    /\ Becomes(a, [a EXCEPT !.from = resume,
                            !.step = IF resume = None THEN "subscribe" ELSE "info"])
    /\ UNCHANGED <<source, timers>>

\* The server says what it can replay. An attempt superseded meanwhile ends here.
Replayable(a) ==
    /\ a.step = "info"
    /\ IF Current(a) THEN Becomes(a, [a EXCEPT !.step = "subscribe"]) ELSE Without(a)
    /\ UNCHANGED <<source, timers>>

\* The stream is open: it becomes the source's stream, whatever stream it had.
Subscribed(a) ==
    /\ a.step = "subscribe"
    /\ IF Current(a)
       THEN /\ source' = [source EXCEPT !.stream = a.id]
            /\ Becomes(a, [a EXCEPT !.step = "write"])
       ELSE Without(a) /\ UNCHANGED source
    /\ UNCHANGED timers

Written(a) ==
    /\ a.step = "write"
    /\ source' = [source EXCEPT !.connected = TRUE]
    /\ Without(a)
    /\ UNCHANGED timers

\* Any await of connect() may throw.
AttemptFails(a) ==
    /\ Without(a)
    /\ source' = [source EXCEPT !.stream = IF @ = a.id THEN None ELSE @]
    /\ IF Current(a) THEN Reconnect(a.id, FALSE) ELSE UNCHANGED timers

\* Slip: only a failed connect is retried, not a stream that broke later.
StreamBreaksForGood ==
    /\ source.stream # None
    /\ source' = [source EXCEPT !.stream = None, !.connected = FALSE]
    /\ UNCHANGED <<timers, attempts>>

\* error, end or close of the current stream.
StreamBreaks ==
    /\ source.stream # None
    /\ source' = [source EXCEPT !.stream = None, !.connected = FALSE]
    /\ IF source.stopped THEN UNCHANGED timers ELSE Reconnect(source.stream, TRUE)
    /\ UNCHANGED attempts

\* A reconnect timer fires; one of an older generation does nothing.
TimerFires(t) ==
    /\ timers' = timers \ {t}
    /\ IF t.generation = source.generation /\ ~source.stopped
       THEN /\ source' = [source EXCEPT !.connects = @ + 1]
            /\ attempts' = attempts \cup {Attempt(source.connects + 1, source.generation)}
       ELSE UNCHANGED <<source, attempts>>
=============================================================================
