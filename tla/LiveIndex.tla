----------------------------- MODULE LiveIndex -----------------------------
(***************************************************************************)
(* The live chain index (services/solana-indexer/src/live/index.ts): an    *)
(* RPC bootstrap followed by the events of a stream, here the one of the   *)
(* loopback relay, committed slot by slot to a confirmed and a finalized   *)
(* snapshot; it starts over after a replay gap or a failed commit.         *)
(***************************************************************************)
EXTENDS AccountStore, ChainRelay, GeyserSource

CONSTANTS
    Writes(_),      \* bound: what blocks touch and close before and after the listing
    MaxFaults,      \* bound: broken streams, failed attempts and commits, relay resets
    SteadyResync,   \* the server drops nothing while the index starts over
    SteadyReplay    \* nor between its answer to replay-info and the subscription

VARIABLES
    store,       \* AccountStore
    index,       \* the LiveIndex's other fields
    reads,       \* reads of newly tracked accounts, asked or answered
    faults

indexVars == <<store, index, reads, faults>>
liveVars == <<chain, relay, subscription, indexVars>>

Commitments == {"confirmed", "finalized"}

-----------------------------------------------------------------------------
\* Decoding keeps a live account of the program; an order only of a known market.
Projected(view) ==
    [a \in Program |->
        IF a = Order /\ Get(view, Market) = Closed THEN Closed ELSE Get(view, a)]

\* Slip: the orders are put back before the markets.
AppliedInOnePass(accts, view, changed) ==
    [a \in Program |->
        IF a \notin changed THEN accts[a]
        ELSE IF a = Order /\ accts[Market] = Closed THEN Closed ELSE Get(view, a)]

\* ProgramView.apply: the changed accounts are taken out, then put back in two
\* passes, so that a market is there before its orders.
Applied(accts, view, changed) ==
    LET out == [a \in Program |-> IF a \in changed THEN Closed ELSE accts[a]]
        in1 == [out EXCEPT ![Market] = IF Market \in changed THEN Get(view, Market) ELSE @]
    IN  [in1 EXCEPT ![Order] =
            IF Order \notin changed THEN @
            ELSE IF in1[Market] = Closed THEN Closed ELSE Get(view, Order)]

Snapshot(s, accts) == [slot |-> s, accounts |-> accts]

\* The issuer mints of the markets of a snapshot.
Tracked(accts) == IF accts[Market] = Closed THEN {} ELSE {Mint}

\* The addresses whose version differs between two views.
Changed(old, new) == {a \in Addresses : old[a] # new[a]}

\* commit(): the snapshot of one view after its addresses changed. A rebuilt view
\* and a changed market re-evaluate which mints are tracked; a commit that changed
\* nothing only moves the slot forward.
Committed(idx, commitment, s, view, changed, rebuilt, news) ==
    LET old     == idx.snapshots[commitment]
        program == changed \cap Program
        accts   == IF rebuilt THEN Projected(view) ELSE Applied(old.accounts, view, program)
        markets == \/ rebuilt
                   \/ /\ Market \in program
                      /\ old.accounts[Market] # Closed \/ accts[Market] # Closed
        quiet   == ~rebuilt /\ program = {} /\ changed \cap idx.tracked = {} /\ ~news
    IN  [idx EXCEPT
            !.snapshots[commitment] =
                IF quiet THEN [old EXCEPT !.slot = IF s > @ THEN s ELSE @]
                ELSE Snapshot(s, accts),
            !.tracked = IF markets THEN Tracked(accts) ELSE @,
            !.asked = @ \/ (markets /\ Tracked(accts) \ idx.tracked # {})]

-----------------------------------------------------------------------------
\* One transaction per block: [slot |-> how often its event is staged].
Zero == [s \in Slots |-> 0]
UpTo(count, s) == {x \in Slots : x <= s /\ count[x] > 0}
Clear(count, slots) == [x \in Slots |-> IF x \in slots THEN 0 ELSE count[x]]
Plus(count, other, slots) ==
    [x \in Slots |-> IF x \in slots THEN count[x] + other[x] ELSE count[x]]

\* Slip: replayed transactions are staged again.
TransactionAgain(idx, st, s) ==
    IF s <= st.finalizedSlot THEN idx ELSE [idx EXCEPT !.staged[s] = @ + 1]

\* A transaction is staged unless its slot is final or it has been seen.
Transaction(idx, st, s) ==
    IF s <= st.finalizedSlot \/ idx.staged[s] > 0 \/ idx.awaiting[s] > 0 THEN idx
    ELSE [idx EXCEPT !.staged[s] = @ + 1]

ConfirmTransactions(idx, s) ==
    LET moved == UpTo(idx.staged, s)
    IN  [idx EXCEPT !.staged = Clear(@, moved), !.awaiting = Plus(@, idx.staged, moved)]

\* onChain of a finalize that did nothing keeps no slot.
FinalSlots(idx, st, s) ==
    {x \in UpTo(idx.awaiting, s) :
        s > st.finalizedSlot /\ OnChain(Ancestry(st, s), x)}

-----------------------------------------------------------------------------
\* slot events of route(): what becomes of the index and of the store.
OnConfirmed(idx, st, s) ==
    LET after == Confirm(st, s)
    IN  Committed(ConfirmTransactions(idx, s), "confirmed", s, after.confirmed,
                  Changed(st.confirmed, after.confirmed), FALSE,
                  UpTo(idx.staged, s) # {})

\* The confirmed view is committed first when finalize() changed or rebuilt it.
OnFinalized(idx, st, s) ==
    LET after   == Finalize(st, s)
        fresh   == s > st.finalizedSlot
        forked  == fresh /\ \E x \in (DOMAIN st.pending \cup DOMAIN st.staged) :
                        x <= s /\ ~OnChain(Ancestry(st, s), x)
        first   == IF fresh /\ (st.staged # <<>> \/ forked)
                   THEN Committed(ConfirmTransactions(idx, s), "confirmed",
                                  IF forked THEN after.confirmedSlot ELSE s, after.confirmed,
                                  Changed(st.confirmed, after.confirmed), forked,
                                  UpTo(idx.staged, s) # {})
                   ELSE idx
    IN  [Committed(first, "finalized", s, after.finalized,
                   Changed(st.finalized, after.finalized), FALSE,
                   FinalSlots(first, st, s) # {})
            EXCEPT !.awaiting = Clear(@, UpTo(@, s))]

\* The transactions reported by OnFinalized.
ReportedBy(idx, st, s) ==
    LET ready == IF s > st.finalizedSlot /\ st.staged # <<>>
                 THEN ConfirmTransactions(idx, s) ELSE idx
    IN  Plus(idx.reported, ready.awaiting, FinalSlots(ready, st, s))

OnDead(idx, st, s) ==
    LET after == Dead(st, s)
        left  == [idx EXCEPT !.staged = Clear(@, {s}), !.awaiting = Clear(@, {s})]
    IN  IF s \in DOMAIN st.pending
        THEN Committed(left, "confirmed", after.confirmedSlot, after.confirmed,
                       Changed(st.confirmed, after.confirmed), TRUE, FALSE)
        ELSE left

-----------------------------------------------------------------------------
\* What a stream event leads to.
RouteStore(e) ==
    CASE e.kind = "account"     -> Account(store, e.address, e.version)
      [] e.kind = "transaction" -> store
      [] e.kind = "processed"   -> IF e.parent = None THEN store ELSE Parent(store, e.slot, e.parent)
      [] e.kind = "confirmed"   -> Confirm(store, e.slot)
      [] e.kind = "finalized"   -> Finalize(store, e.slot)
      [] e.kind = "dead"        -> Dead(store, e.slot)

RouteIndex(e) ==
    CASE e.kind = "transaction" -> Transaction(index, store, e.slot)
      [] e.kind = "confirmed"   -> OnConfirmed(index, store, e.slot)
      [] e.kind = "finalized"   -> [OnFinalized(index, store, e.slot)
                                        EXCEPT !.reported = ReportedBy(index, store, e.slot)]
      [] e.kind = "dead"        -> OnDead(index, store, e.slot)
      [] OTHER                  -> index

\* resync(): one at a time; a cause that comes while one runs is dropped.
Resync ==
    IF index.resync # "idle" THEN UNCHANGED <<source, index, inbox>>
    ELSE /\ source' = Stopped(source)
         /\ inbox' = <<>>
         /\ index' = [index EXCEPT !.bootstrapped = FALSE, !.resync = "bootstrap"]

-----------------------------------------------------------------------------
\* The events a slot brings: its account updates, its transaction, its status.
SlotEvent(kind, s, parent) == [kind |-> kind, slot |-> s, parent |-> parent]

AccountEvent(s, a) ==
    [kind |-> "account", slot |-> s, address |-> a,
     version |-> [slot |-> s, write |-> 1,
                  content |-> IF a \in blocks[s].closes THEN Closed ELSE s]]

\* An issuer mint is streamed once its market is listed.
Streamed(s) ==
    {a \in blocks[s].touched :
        a \in Program \/ ContentAt(Market, blocks[s].parent) # Closed}

ConfirmationEvents(s) ==
    SetToSeq({AccountEvent(s, a) : a \in Streamed(s)})
        \o (IF HasTransaction(s) THEN <<SlotEvent("transaction", s, None)>> ELSE <<>>)
        \o <<SlotEvent("confirmed", s, None)>>

Attached == source.stream # None

\* When the server may drop what it retains.
Steady ==
    /\ SteadyResync => index.resync = "idle"
    /\ SteadyReplay => \A a \in attempts : a.step # "subscribe"

LiveProduce ==
    \E p \in DOMAIN blocks \cup {0} :
      \E w \in Writes(ContentAt(Market, p) # Closed) :
        /\ Steady
        /\ Produce(p, w.touched, w.closes)
        /\ Publish(<<SlotEvent("processed", Len(blocks) + 1,
                               IF mode = "linear" THEN None ELSE p)>>, Attached)
        /\ UNCHANGED <<subscription, indexVars>>

LiveConfirm ==
    \E s \in DOMAIN blocks :
        /\ ConfirmBlock(s)
        /\ Publish(ConfirmationEvents(s), Attached)
        /\ UNCHANGED <<subscription, indexVars>>

LiveFinalize ==
    \E s \in DOMAIN blocks :
        /\ FinalizeBlock(s)
        /\ Publish(<<SlotEvent("finalized", s, None)>>, Attached)
        /\ UNCHANGED <<subscription, indexVars>>

LiveDead ==
    \E s \in DOMAIN blocks :
        /\ mode = "rollback"
        /\ Abandoned(s)
        /\ ~\E i \in DOMAIN buffer : buffer[i] = SlotEvent("dead", s, None)
        /\ Publish(<<SlotEvent("dead", s, None)>>, Attached)
        /\ UNCHANGED <<chain, subscription, indexVars>>

\* The relay's own upstream started over at the finalized slot, which the chain is
\* always ahead of.
LiveReset ==
    /\ mode = "relay"
    /\ Steady
    /\ \E i \in DOMAIN buffer : buffer[i].slot > root
    /\ faults < MaxFaults
    /\ faults' = faults + 1
    /\ Reset(root, Attached)
    /\ UNCHANGED <<chain, subscription, store, index, reads>>

-----------------------------------------------------------------------------
\* One event is taken off the stream. An index that is not bootstrapped ignores it.
Deliver ==
    /\ source.stream # None
    /\ inbox # <<>> /\ Head(inbox).kind # "end"
    /\ inbox' = Tail(inbox)
    /\ IF index.bootstrapped
       THEN store' = RouteStore(Head(inbox)) /\ index' = RouteIndex(Head(inbox))
       ELSE UNCHANGED <<store, index>>
    /\ UNCHANGED <<chain, buffer, subscription, reads, faults>>

\* A commit that throws makes the index start over, unless it already does.
DeliverFails ==
    /\ inbox # <<>> /\ source.stream # None
    /\ Head(inbox).kind \in {"confirmed", "finalized"}
    /\ index.bootstrapped
    /\ SteadyResync => index.resync = "idle"
    /\ faults < MaxFaults
    /\ faults' = faults + 1
    /\ store' = RouteStore(Head(inbox))
    /\ IF index.resync = "idle"
       THEN Resync
       ELSE /\ index' = [index EXCEPT !.bootstrapped = FALSE]
            /\ inbox' = Tail(inbox)
            /\ UNCHANGED source
    /\ UNCHANGED <<chain, buffer, attempts, timers, reads>>

\* The stream fails, or the relay has closed it.
LiveBreak ==
    /\ \/ /\ faults < MaxFaults
          /\ mode # "rollback"
          /\ faults' = faults + 1
       \/ /\ inbox # <<>> /\ Head(inbox).kind = "end"
          /\ UNCHANGED faults
    /\ StreamBreaks
    /\ inbox' = <<>>
    /\ UNCHANGED <<chain, buffer, store, index, reads>>

-----------------------------------------------------------------------------
\* What resume() answers: everything up to the confirmed slot is here already.
ResumeSlot == IF index.bootstrapped THEN store.confirmedSlot + 1 ELSE None

Idle == UNCHANGED <<chain, relay, indexVars>>

LiveDial == \E a \in attempts : Dialled(a, ResumeSlot) /\ Idle

\* A node that has trimmed nothing can replay everything.
CanReplay(a) ==
    IF buffer = <<>> THEN mode # "relay" ELSE FirstAvailable <= a.from

LiveReplayable == \E a \in attempts : Replayable(a) /\ CanReplay(a) /\ Idle

LiveGap ==
    \E a \in attempts :
        /\ a.step = "info"
        /\ buffer # <<>> /\ ~CanReplay(a)
        /\ Without(a)
        /\ IF Current(a) THEN Resync ELSE UNCHANGED <<source, index, inbox>>
        /\ UNCHANGED <<chain, buffer, timers, store, reads, faults>>

LiveSubscribe ==
    \E a \in attempts :
        /\ Subscribed(a)
        /\ inbox' = IF Current(a) THEN Replay(a.from) ELSE inbox
        /\ UNCHANGED <<chain, buffer, indexVars>>

LiveWritten == \E a \in attempts : Written(a) /\ Idle

LiveAttemptFails ==
    \E a \in attempts :
        /\ faults < MaxFaults
        /\ mode # "rollback"
        /\ faults' = faults + 1
        /\ AttemptFails(a)
        /\ inbox' = IF source.stream = a.id THEN <<>> ELSE inbox
        /\ UNCHANGED <<chain, buffer, store, index, reads>>

LiveTimer == \E t \in timers : TimerFires(t) /\ Idle

-----------------------------------------------------------------------------
\* A finalized image of the accounts; the mints are read after the program.
Image(f, r, tracked) ==
    [a \in Addresses |->
        IF a \in Program
        THEN IF ContentAt(a, f) = Closed THEN None
             ELSE [slot |-> f, write |-> 0, content |-> ContentAt(a, f)]
        ELSE IF a \in tracked THEN [slot |-> f, write |-> 0, content |-> ContentAt(a, r)]
        ELSE None]

Fresh(idx, f, image, mints) ==
    LET accts == Projected(image)
        both  == [c \in Commitments |-> Snapshot(f, accts)]
    IN  [idx EXCEPT !.bootstrapped = TRUE, !.snapshots = both, !.tracked = mints,
                    !.staged = Zero, !.awaiting = Zero, !.reported = Zero]

\* bootstrap(), from a node that may lag behind, then source.start().
LiveBootstrap ==
    /\ index.resync = "bootstrap"
    /\ \E f, r \in ChainOf(root) :
        LET mints == Tracked([a \in Program |-> ContentAt(a, f)])
            image == Image(f, r, mints)
        IN  /\ r >= f
            /\ SteadyResync /\ buffer # <<>> => FirstAvailable <= f + 1
            /\ store' = Bootstrapped(f, image)
            /\ index' = [Fresh(index, f, image, mints)
                            EXCEPT !.resync = "start", !.starting = source.connects + 1]
    /\ SourceStart(source)
    /\ UNCHANGED <<chain, relay, timers, reads, faults>>

\* source.start() has returned: the next cause starts over again.
LiveStarted ==
    /\ index.resync = "start"
    /\ \A a \in attempts : a.id # index.starting
    /\ index' = [index EXCEPT !.resync = "idle"]
    /\ UNCHANGED <<chain, relay, subscription, store, reads, faults>>

-----------------------------------------------------------------------------
\* The node answers the read of a mint that has just become tracked.
LiveRead ==
    /\ index.asked
    /\ index' = [index EXCEPT !.asked = FALSE]
    /\ reads' = reads \cup {ContentAt(Mint, HighestConfirmed)}
    /\ UNCHANGED <<chain, relay, subscription, store, faults>>

\* The answer is stored as a version of the confirmed slot of that moment.
LiveSeed ==
    \E content \in reads :
        /\ store' = Seed(store, Mint,
                         [slot |-> store.confirmedSlot, write |-> 0, content |-> content])
        /\ reads' = reads \ {content}
        /\ UNCHANGED <<chain, relay, subscription, index, faults>>

-----------------------------------------------------------------------------
LiveInit ==
    /\ ChainInit
    /\ RelayInit
    /\ SourceInit
    /\ store = Bootstrapped(0, [a \in Addresses |-> None])
    /\ index = [bootstrapped |-> TRUE, resync |-> "idle", starting |-> 0,
                tracked |-> {}, asked |-> FALSE,
                snapshots |-> [c \in Commitments |->
                    Snapshot(0, [a \in Program |-> Closed])],
                staged |-> Zero, awaiting |-> Zero, reported |-> Zero]
    /\ reads = {}
    /\ faults = 0

LiveNext ==
    \/ LiveProduce \/ LiveConfirm \/ LiveFinalize \/ LiveDead \/ LiveReset
    \/ Deliver \/ DeliverFails \/ LiveBreak
    \/ LiveDial \/ LiveReplayable \/ LiveGap \/ LiveSubscribe \/ LiveWritten
    \/ LiveAttemptFails \/ LiveTimer
    \/ LiveBootstrap \/ LiveStarted \/ LiveRead \/ LiveSeed

\* The event loop runs what is ready: events, answers and timers are all handled
\* in the end. Nothing obliges the chain to produce, or anything to fail.
LiveFairness ==
    /\ WF_liveVars(Deliver)
    /\ WF_liveVars(LiveBreak /\ UNCHANGED faults)
    /\ WF_liveVars(LiveDial) /\ WF_liveVars(LiveReplayable) /\ WF_liveVars(LiveGap)
    /\ WF_liveVars(LiveSubscribe) /\ WF_liveVars(LiveWritten) /\ WF_liveVars(LiveTimer)
    /\ WF_liveVars(LiveBootstrap) /\ WF_liveVars(LiveStarted)

LiveSpec == LiveInit /\ [][LiveNext]_liveVars /\ LiveFairness

-----------------------------------------------------------------------------
\* The finalized snapshot implements the finalized feed.
Promise == INSTANCE FinalizedFeed WITH
    slot <- index.snapshots["finalized"].slot,
    accounts <- index.snapshots["finalized"].accounts,
    reported <- index.reported

FinalizedFeed == Promise!FeedSpec

\* Readers of the confirmed snapshot see whole slots: when what is confirmed and
\* not yet final is one chain, the program's accounts are those of its last slot.
ConfirmedWholeSlots ==
    LET held == DOMAIN store.pending \cup {store.finalizedSlot}
        last == CHOOSE s \in held : \A x \in held : x <= s
    IN  index.bootstrapped /\ held \subseteq ChainOf(last)
        => index.snapshots["confirmed"].accounts = [a \in Program |-> ContentAt(a, last)]

\* The answer to the read of a newly tracked mint never replaces a newer streamed version
\* (the comment at accounts.ts:68).  A content is the slot that wrote it.
SeedNeverOverrides ==
    [][LET held == store.confirmed[Mint]
       IN  reads' # reads /\ store' # store /\ held # None
            => store'.confirmed[Mint].content >= held.content]_liveVars

\* Whatever broke, the index ends up serving the last confirmed slot.
CatchesUp ==
    <>[](/\ index.bootstrapped
         /\ index.resync = "idle"
         /\ store.confirmedSlot = HighestConfirmed)
=============================================================================
