---------------------------- MODULE IndexService ----------------------------
(***************************************************************************)
(* The indexer service (services/solana-indexer/src/service.ts): it serves *)
(* trades as soon as they are confirmed, and a worker makes the finalized  *)
(* history durable.  The live index under it is used as FinalizedFeed      *)
(* promises: slot by slot, except when it starts over.  Every slot here    *)
(* carries one transaction, with one trade.  What a replay reads comes     *)
(* from an RPC node of its own, which may be behind the stream.            *)
(***************************************************************************)
EXTENDS Integers, Sequences, FiniteSets, SequencesExt

CONSTANTS
    LastSlot,      \* bound: the chain ends here
    TradeTail,     \* confirmed trades kept in memory
    ReplayLag,     \* slots that the RPC node may be behind the stream
    MaxUpsets      \* bound: crashes, failed calls and times the index starts over

ASSUME IndexAssumption ==
    LastSlot \in Nat /\ TradeTail \in Nat /\ ReplayLag \in Nat /\ MaxUpsets \in Nat

VARIABLES
    head,     \* the chain: its last confirmed and its last finalized slot
    live,     \* the live index: the slots it has reported, and where it started
    worker,   \* the finalized worker: where it is and the batch it has taken
    queue,    \* finalized slots reported and not taken yet
    gap,      \* historyGap
    tail,     \* confirmedTrades, oldest first
    broken,   \* persistError # null
    db,       \* events, cursor and the snapshot
    upsets,
    skipped   \* history: the slots that a replay should have read and did not

serviceVars == <<head, live, worker, queue, gap, tail, broken, db, upsets, skipped>>

NoCursor == -1

\* at: "down"; in start(): "backfill", "first archive", "first audit", "first persist";
\* then "idle", and for a batch "replay" or "stream", "archive", "audit", "persist", "fail".
\* The batch ends at slot and holds txs.
Off == [at |-> "down", slot |-> 0, txs |-> {}]

Starting == {"backfill", "first archive", "first audit", "first persist"}

-----------------------------------------------------------------------------
Upset == upsets < MaxUpsets /\ upsets' = upsets + 1

\* Bound: nothing fails on the last slot, as no later one would be there to recover on.
Fails == worker.slot < LastSlot /\ Upset

WorkerMoves(at) == worker' = [worker EXCEPT !.at = at]

\* work(): takes the whole queue, if there is anything in it.
Taken(q) ==
    IF q = <<>> THEN [Off EXCEPT !.at = "idle"]
    ELSE [at |-> IF gap THEN "replay" ELSE "stream", slot |-> Last(q), txs |-> ToSet(q)]

\* start(): a live index on the finalized state of the moment.
StartService ==
    /\ worker.at = "down"
    /\ live' = [up |-> TRUE, base |-> head.final, confirmed |-> head.final, final |-> head.final]
    /\ worker' = [Off EXCEPT !.at = "backfill", !.slot = head.final]
    /\ UNCHANGED <<head, queue, gap, tail, broken, db, upsets, skipped>>

\* The process dies: an exception in start(), or anything else.
Dies ==
    /\ worker' = Off
    /\ live' = [live EXCEPT !.up = FALSE]
    /\ queue' = <<>> /\ tail' = <<>>
    /\ gap' = FALSE /\ broken' = FALSE

ServiceCrash ==
    /\ worker.at # "down"
    /\ Upset /\ Dies
    /\ UNCHANGED <<head, db, skipped>>

-----------------------------------------------------------------------------
\* Slip: a batch that is durable empties the tail.
KeptTailWhole(trades, slot) == <<>>

\* The j-th smallest of a set of numbers.
Nth(S, j) == CHOOSE x \in S : Cardinality({y \in S : y <= x}) = j

\* What the tail keeps once history is durable up to a slot, in order.
KeptTail(trades, slot) ==
    LET kept == {i \in DOMAIN trades : trades[i] > slot}
    IN  [j \in 1 .. Cardinality(kept) |-> trades[Nth(kept, j)]]

\* A confirmed slot: its trade is shown at once.
OnConfirmed ==
    /\ live.up /\ live.confirmed < head.confirmed
    /\ LET shown == Append(tail, live.confirmed + 1)
       IN  tail' = IF Len(shown) > TradeTail THEN Tail(shown) ELSE shown
    /\ live' = [live EXCEPT !.confirmed = @ + 1]
    /\ UNCHANGED <<head, worker, queue, gap, broken, db, upsets, skipped>>

\* Slip: the first pass is never forgotten, so that no other begins.
DrainedOnce == FALSE

\* drain() begins a pass when none is running and history is ready.
Drains == worker.at = "idle"

\* A finalized slot is queued for the worker.
OnFinalized ==
    /\ live.up /\ live.final < head.final /\ live.final < live.confirmed
    /\ live' = [live EXCEPT !.final = @ + 1]
    /\ LET q == Append(queue, live.final + 1)
       IN  IF Drains THEN worker' = Taken(q) /\ queue' = <<>>
           ELSE queue' = q /\ UNCHANGED worker
    /\ UNCHANGED <<head, gap, tail, broken, db, upsets, skipped>>

\* The live index loses the stream, or cannot commit a slot ...
LosesStream ==
    /\ live.up /\ Upset
    /\ head.confirmed < LastSlot
    /\ live' = [live EXCEPT !.up = FALSE]
    /\ UNCHANGED <<head, worker, queue, gap, tail, broken, db, skipped>>

\* ... starts over from what is finalized, and says so: onResync().
StartsOver ==
    /\ worker.at # "down" /\ ~live.up
    /\ live' = [up |-> TRUE, base |-> head.final, confirmed |-> head.final, final |-> head.final]
    /\ gap' = TRUE
    /\ UNCHANGED <<head, worker, queue, tail, broken, db, upsets, skipped>>

-----------------------------------------------------------------------------
\* Slip: the next pass trusts the stream again.
GapAfterFailureForgotten == gap

\* After a failure history is derived from the RPC node again.
GapAfterFailure == TRUE

\* work() catches: custody reads stop, and the snapshot is marked.
Throws ==
    /\ WorkerMoves("fail")
    /\ broken' = TRUE
    /\ gap' = GapAfterFailure

\* failSnapshot(), whose own failure is ignored; then the rest of the queue.
FailSnapshot ==
    /\ worker.at = "fail"
    /\ \/ db' = [db EXCEPT !.healthy = @ /\ db.slot > worker.slot]
       \/ UNCHANGED db
    /\ worker' = Taken(queue) /\ queue' = <<>>
    /\ UNCHANGED <<head, live, gap, tail, broken, upsets, skipped>>

\* The scan of the program's transactions goes back to the slot of the cursor.
ReplayFrom(cursor) == IF cursor = NoCursor THEN 1 ELSE cursor

\* What the RPC node lists of a scan: it may not have got to the end of it.
Listed(due, slot) == {{s \in due : s <= seen} : seen \in (slot - ReplayLag)..slot}

\* replayHistory(): the events of the finalized history up to a slot, as the node lists
\* it, and the cursor at that slot whatever was listed, in one transaction.
Replayed(slot, jumped) ==
    IF db.cursor > slot THEN UNCHANGED db /\ skipped' = skipped \cup jumped
    ELSE LET due == ReplayFrom(db.cursor)..slot
         IN  \E listed \in Listed(due, slot) :
               /\ db' = [db EXCEPT !.cursor = slot, !.events = @ \cup listed]
               /\ skipped' = skipped \cup jumped \cup (due \ (db.events \cup listed))

\* Slots that the stream jumped over when the live index started over past the batch:
\* a replay that closes the gap at the end of the batch leaves them to nobody.
JumpedOver == ((worker.slot + 1)..live.base) \ ToSet(queue)

\* Slip: the trades that are shown are stored with those of the batch.
StreamedWithTail(slot, transactions) ==
    IF db.cursor >= slot THEN UNCHANGED db
    ELSE db' = [db EXCEPT !.cursor = slot, !.events = @ \cup transactions \cup ToSet(tail)]

\* persistStreamedHistory(): what the stream has reported since the cursor.
Streamed(slot, transactions) ==
    IF db.cursor >= slot THEN UNCHANGED db
    ELSE db' = [db EXCEPT !.cursor = slot, !.events = @ \cup transactions]

Backfill ==
    /\ worker.at = "backfill"
    /\ Replayed(worker.slot, {}) /\ WorkerMoves("first archive")
    /\ UNCHANGED <<head, live, queue, gap, tail, broken, upsets>>

\* A batch becomes durable history, and its trades leave the tail.
History ==
    /\ \/ worker.at = "replay" /\ Replayed(worker.slot, JumpedOver) /\ gap' = FALSE
       \/ worker.at = "stream" /\ Streamed(worker.slot, worker.txs) /\ UNCHANGED <<gap, skipped>>
    /\ tail' = KeptTail(tail, worker.slot)
    /\ WorkerMoves("archive")
    /\ UNCHANGED <<head, live, queue, broken, upsets>>

\* refreshArchival(): creation times and retired orders, read from the events.
RefreshArchival ==
    /\ \/ worker.at = "archive" /\ WorkerMoves("audit")
       \/ worker.at = "first archive" /\ WorkerMoves("first audit")
    /\ UNCHANGED <<head, live, queue, gap, tail, broken, db, upsets, skipped>>

\* persist(): the audit is done; nothing is stored if a snapshot was a moment ago.
Audit ==
    /\ \/ worker.at = "audit"
          /\ \/ WorkerMoves("persist") /\ UNCHANGED <<queue, broken>>
             \/ worker' = Taken(queue) /\ queue' = <<>> /\ broken' = FALSE
       \/ worker.at = "first audit"
          /\ WorkerMoves("first persist") /\ UNCHANGED <<queue, broken>>
    /\ UNCHANGED <<head, live, gap, tail, db, upsets, skipped>>

\* writeSnapshot(): never behind the one that is stored.
Written == db' = [db EXCEPT !.slot = worker.slot, !.healthy = TRUE]

Newer == db.slot > worker.slot

Persist ==
    /\ \/ /\ worker.at = "persist" /\ ~Newer
          /\ Written /\ broken' = FALSE
          /\ worker' = Taken(queue) /\ queue' = <<>>
       \/ /\ worker.at = "first persist" /\ ~Newer
          /\ Written /\ worker' = Taken(queue) /\ queue' = <<>>
          /\ UNCHANGED broken
    /\ UNCHANGED <<head, live, gap, tail, upsets, skipped>>

\* Any call to the RPC node or the database may fail instead: in start() the process
\* ends, in a pass the worker notes it and goes on.
CallFails ==
    /\ Fails
    /\ \/ /\ worker.at \in Starting /\ Dies
       \/ /\ worker.at \in {"replay", "stream", "archive", "audit", "persist"} /\ Throws
          /\ UNCHANGED <<live, queue, tail>>
    /\ UNCHANGED <<head, db, skipped>>

-----------------------------------------------------------------------------
\* The chain confirms and finalizes slots; the bound makes the last one wait for the
\* live index, so that a slot is reported after its last upset.
Confirms ==
    /\ head.confirmed + 1 < LastSlot \/ (head.confirmed < LastSlot /\ live.up)
    /\ head' = [head EXCEPT !.confirmed = @ + 1]
    /\ UNCHANGED <<live, worker, queue, gap, tail, broken, db, upsets, skipped>>

Finalizes ==
    /\ head.final < head.confirmed
    /\ head' = [head EXCEPT !.final = @ + 1]
    /\ UNCHANGED <<live, worker, queue, gap, tail, broken, db, upsets, skipped>>

IndexInit ==
    /\ head = [confirmed |-> 0, final |-> 0]
    /\ live = [up |-> FALSE, base |-> 0, confirmed |-> 0, final |-> 0]
    /\ worker = Off
    /\ queue = <<>> /\ gap = FALSE /\ tail = <<>> /\ broken = FALSE
    /\ db = [cursor |-> NoCursor, events |-> {}, slot |-> -1, healthy |-> TRUE]
    /\ upsets = 0 /\ skipped = {}

Works == Backfill \/ History \/ RefreshArchival \/ Audit \/ Persist \/ FailSnapshot

IndexNext ==
    \/ StartService \/ ServiceCrash
    \/ OnConfirmed \/ OnFinalized \/ LosesStream \/ StartsOver
    \/ Works \/ CallFails
    \/ Confirms \/ Finalizes

\* The chain goes on, the stream delivers, every call returns, and a process that ended
\* is started again.
IndexFairness ==
    /\ WF_serviceVars(Confirms) /\ WF_serviceVars(Finalizes)
    /\ WF_serviceVars(OnConfirmed) /\ WF_serviceVars(OnFinalized)
    /\ WF_serviceVars(StartsOver) /\ WF_serviceVars(StartService)
    /\ WF_serviceVars(Works)

IndexSpec == IndexInit /\ [][IndexNext]_serviceVars /\ IndexFairness

-----------------------------------------------------------------------------
\* The cursor never claims a slot whose events are missing: what it has passed is never
\* scanned again, and "we never silently skip unavailable data" (history.ts:126).
HistoryComplete == 1..db.cursor \subseteq db.events

\* What is stored is the finalized history up to the cursor: nothing is early, what is
\* durable is not taken back, and what is missing was skipped by a replay, never by a
\* batch of the stream, a failure or a restart.  (A scan that goes back to a cursor at 0
\* names slot 0, where the modelled stretch begins and nothing happens.)
Durable == INSTANCE DurableHistory WITH
    final <- head.final, cursor <- db.cursor, events <- db.events \ {0}, lost <- skipped

ExactHistory == Durable!HistorySpec

\* A trade among the newest that readers have been shown since the index started does
\* not disappear: it is in the tail until it is in the history, unless a replay that
\* should have stored it was answered by a node that had not got to it.
TradesKept ==
    \A t \in 1..live.confirmed :
        live.up /\ t > live.base /\ t > live.confirmed - TradeTail
            => t \in ToSet(tail) \cup db.events \cup skipped

\* In the end all history is durable and custody reads are served.
HistoryCatchesUp == <>[](db.cursor = LastSlot /\ worker.at = "idle" /\ ~broken)
=============================================================================
