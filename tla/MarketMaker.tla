---------------------------- MODULE MarketMaker ----------------------------
(***************************************************************************)
(* The market maker (services/market-maker/src): one process that quotes   *)
(* one ladder of a market, signs one transaction at a time, journals it    *)
(* before it is broadcast, and may crash at any point.                     *)
(***************************************************************************)
EXTENDS Cluster, FiniteSets

CONSTANTS
    Levels,      \* quotes on the ladder
    Budget,      \* lamports a day; every transaction costs one
    LastDay,     \* bound: the calendar stops here
    MaxFaults    \* bound: crashes, stale nodes, lost answers and failed saves

ASSUME MakerAssumption ==
    Levels \in Nat /\ Budget \in Nat /\ LastDay \in Nat /\ MaxFaults \in Nat

VARIABLES
    bot,         \* the process: where it is, what it is doing and its State
    disk,        \* the state file
    leftover,    \* a `.next` file of an interrupted save exists
    day,
    faults

botVars == <<bot, disk, leftover, day, faults>>
makerVars == <<cluster, botVars>>

NoTx == 0

\* state.ts: State, of the one market; spent counts transactions.
InitialState ==
    [day |-> 1, spent |-> 0, lastSlot |-> 0, pending |-> NoTx,
     started |-> FALSE, complete |-> FALSE]

\* at: "down", "reconcile", "view", "send", "broadcast" or "confirm".
\* task: "fund", "quote" or "cancel".
Down(state) == [at |-> "down", task |-> "quote", plan |-> {}, state |-> state]

-----------------------------------------------------------------------------
\* The transactions of the market maker: it may not be alone on the cluster.
Own == {i \in DOMAIN txs : "cancels" \in DOMAIN txs[i].body}

\* Orders of the ladder at a block: those placed and not cancelled since.
Open(s) ==
    LET done == Executed(s) \cap Own
    IN  {i \in done : txs[i].body.kind = "quote" /\ \A j \in done : i \notin txs[j].body.cancels}

Body(kind, cancels) == [kind |-> kind, cancels |-> cancels]

\* As it is signed, with the day that it is charged to.
Dated(body, on) == [kind |-> body.kind, cancels |-> body.cancels, day |-> on]

\* quoteChange() of one ladder: cancel what has no target, replace what has to be,
\* or add what is missing; one action at a time.
QuoteChange(orders, targets, stale) ==
    IF Cardinality(orders) > targets
    THEN {Body("cancel", {i}) : i \in orders}
    ELSE IF stale /\ orders # {} THEN {Body("quote", {i}) : i \in orders}
    ELSE IF Cardinality(orders) < targets THEN {Body("quote", {})}
    ELSE {}

-----------------------------------------------------------------------------
Fault == faults < MaxFaults /\ faults' = faults + 1
NoFault == UNCHANGED faults

\* save() writes `.next` anew, and puts it in the place of the state file.
Saved(state) ==
    /\ ~leftover
    /\ disk' = state
    /\ UNCHANGED leftover

\* It throws before `.next` exists, while it is written, or when it is in place
\* already; and always while a leftover is there.
SaveFails(state) ==
    \/ leftover /\ NoFault /\ UNCHANGED <<disk, leftover>>
    \/ ~leftover /\ Fault
       /\ \/ UNCHANGED <<disk, leftover>>
          \/ leftover' = TRUE /\ UNCHANGED disk
          \/ disk' = state /\ UNCHANGED leftover

\* What follows a task that is done: funding ends the process, the loop pauses and
\* begins again.
Done(b, state) ==
    IF b.task = "fund" THEN Down(state)
    ELSE [at |-> "reconcile", task |-> "quote", plan |-> {}, state |-> state]

\* What follows an exception: the loop cancels its quotes first; a failed
\* cancellation is only logged.
Thrown(b, state) ==
    IF b.task = "quote" THEN [Done(b, state) EXCEPT !.task = "cancel"] ELSE Done(b, state)

-----------------------------------------------------------------------------
\* Start: a leftover is put aside, and the state is written once.
Start ==
    /\ bot.at = "down"
    /\ \E task \in {"quote", "fund"} :
        bot' = [Down(disk) EXCEPT !.at = "reconcile", !.task = task]
    /\ leftover' = FALSE
    /\ UNCHANGED <<cluster, disk, day, faults>>

Crash ==
    /\ bot.at # "down"
    /\ Fault
    /\ bot' = Down(disk)
    /\ UNCHANGED <<cluster, disk, leftover, day>>

-----------------------------------------------------------------------------

\* Only the finalized block height tells that an unknown signature has no future.
Expired(i) == Final > txs[i].valid

\* Slip: a transaction that failed stays in the journal.
ResolvedIfOk(state) ==
    [state EXCEPT !.pending = IF txs[@].ok THEN NoTx ELSE @,
                  !.lastSlot = IF txs[state.pending].slot > @ THEN txs[state.pending].slot ELSE @]

\* The journal is cleared, and no snapshot from before the transaction will do.
Resolved(state) ==
    [state EXCEPT !.pending = NoTx,
                  !.lastSlot = IF txs[state.pending].slot > @ THEN txs[state.pending].slot ELSE @]

\* The journalled transaction is known: an exception tells a failed one.
Resolve(state, next) ==
    \/ /\ Saved(state) /\ NoFault
       /\ bot' = IF txs[bot.state.pending].ok THEN next ELSE Thrown(bot, state)
    \/ SaveFails(state) /\ bot' = Thrown(bot, state)

\* reconcilePending(): asks a node that has got to block s, whose newest block may not
\* be confirmed yet, and then for the finalized block height.
ReconcilePending ==
    /\ bot.at = "reconcile"
    /\ LET i == bot.state.pending
           dropped == [bot.state EXCEPT !.pending = NoTx]
           viewing(state) == [bot EXCEPT !.at = "view", !.state = state]
       IN  \/ /\ i = NoTx
              /\ bot' = viewing(bot.state)
              /\ UNCHANGED <<disk, leftover, faults>>
           \/ /\ i # NoTx /\ Landed(i, height)
              /\ Resolve(Resolved(bot.state), viewing(Resolved(bot.state)))
           \/ /\ i # NoTx /\ Landed(i, height)
              /\ Fault   \* processed, not confirmed
              /\ bot' = Thrown(bot, bot.state)
              /\ UNCHANGED <<disk, leftover>>
           \/ \E s \in Final..height :
              /\ i # NoTx /\ ~Landed(i, s)
              /\ IF ~Expired(i)
                 THEN /\ IF s < height THEN Fault ELSE NoFault
                      /\ bot' = Thrown(bot, bot.state)
                      /\ UNCHANGED <<disk, leftover>>
                 ELSE \/ Saved(dropped) /\ NoFault /\ bot' = viewing(dropped)
                      \/ SaveFails(dropped) /\ bot' = Thrown(bot, dropped)
    /\ UNCHANGED <<cluster, day>>

-----------------------------------------------------------------------------
\* Slip: any snapshot will do.
CurrentSnapshot(state, s) == TRUE

\* view() refuses a snapshot older than the last transaction it knows of.
FreshSnapshot(state, s) == s >= state.lastSlot

Sending(body, state) == [bot EXCEPT !.at = "send", !.state = state, !.plan = {body}]

\* cancelMarket(): all its orders in one batch.
Cancel(s) ==
    /\ bot.task = "cancel"
    /\ bot' = IF Open(s) = {} THEN Done(bot, bot.state)
              ELSE Sending(Body("cancel", Open(s)), bot.state)
    /\ UNCHANGED <<disk, leftover>>

\* cycle(): validation, issuer state, feeds and risk limits may each throw, or lead
\* to the quotes a ladder should have.
Quote(s) ==
    /\ bot.task = "quote"
    /\ \/ bot' = Thrown(bot, bot.state)
       \/ \E targets \in {0, Levels}, stale \in BOOLEAN :
            LET change == QuoteChange(Open(s), targets, stale)
            IN  \/ change = {} /\ bot' = Done(bot, bot.state)
                \/ \E body \in change : bot' = Sending(body, bot.state)
    /\ UNCHANGED <<disk, leftover>>

\* Slip: the attempt is recorded with its outcome only.
LatchedLater(state) == state

\* An attempt to fund is recorded before it begins.
Latched(state) == [state EXCEPT !.started = TRUE]

\* fund(): once, into an empty wallet.
Fund(s) ==
    /\ bot.task = "fund"
    /\ IF bot.state.complete \/ bot.state.started \/ Open(s) # {}
       THEN bot' = Thrown(bot, bot.state) /\ UNCHANGED <<disk, leftover>>
       ELSE LET latched == Latched(bot.state)
            IN  \/ Saved(latched) /\ bot' = Sending(Body("fund", {}), latched)
                \/ leftover /\ bot' = Thrown(bot, latched) /\ UNCHANGED <<disk, leftover>>

\* A snapshot of block s, and what the task makes of it.
View ==
    /\ bot.at = "view"
    /\ UNCHANGED <<cluster, day>>
    /\ \E s \in Final..height :
        /\ IF s < height THEN Fault ELSE NoFault
        /\ IF ~FreshSnapshot(bot.state, s)
           THEN bot' = Thrown(bot, bot.state) /\ UNCHANGED <<disk, leftover>>
           ELSE Cancel(s) \/ Quote(s) \/ Fund(s)

-----------------------------------------------------------------------------
\* The clock of the host may be behind the day of the state; a new day has spent
\* nothing.
Today(state) == IF day = state.day THEN state ELSE [state EXCEPT !.day = day, !.spent = 0]

\* Slip: a transaction is charged once it is known to have landed.
ChargedLater(state, i) == [state EXCEPT !.pending = i]

\* What is saved before a transaction is broadcast.
Journalled(state, i) == [state EXCEPT !.pending = i, !.spent = @ + 1]

\* send() up to the save: a blockhash, a simulation, the budget, the journal.
Send ==
    /\ bot.at = "send"
    /\ UNCHANGED <<height, day>>
    /\ \E body \in bot.plan :
        LET today   == Today(bot.state)
            journal == Journalled(today, Len(txs) + 1)
            rolled  == today # bot.state
        IN  IF bot.state.pending # NoTx
            THEN bot' = Thrown(bot, bot.state) /\ UNCHANGED <<txs, disk, leftover, faults>>
            ELSE IF body.kind # "cancel" /\ today.spent + 1 > Budget
            THEN /\ bot' = Thrown(bot, today) /\ UNCHANGED txs
                 /\ \/ rolled /\ Saved(today) /\ NoFault
                    \/ rolled /\ SaveFails(today)
                    \/ ~rolled /\ UNCHANGED <<disk, leftover, faults>>
            ELSE /\ CanSign
                 /\ txs' = Append(txs, Signed(Dated(body, today.day)))
                 /\ \/ /\ Saved(journal) /\ NoFault
                       /\ bot' = [bot EXCEPT !.at = "broadcast", !.state = journal, !.plan = {}]
                    \/ SaveFails(journal) /\ bot' = Thrown(bot, journal)

\* sendRawTransaction(): the answer may be lost either way.
Broadcast ==
    /\ bot.at = "broadcast"
    /\ \/ /\ Submitted(bot.state.pending)
          /\ bot' = [bot EXCEPT !.at = "confirm"] /\ NoFault
       \/ /\ Fault
          /\ Submitted(bot.state.pending) \/ UNCHANGED txs
          /\ bot' = Thrown(bot, bot.state)
    /\ UNCHANGED <<height, disk, leftover, day>>

\* confirmTransaction(): an answer once it has landed, an exception otherwise.
Confirm ==
    /\ bot.at = "confirm"
    /\ LET i    == bot.state.pending
           done == [Resolved(bot.state) EXCEPT !.complete = @ \/ (bot.task = "fund" /\ txs[i].ok)]
       IN  \/ Landed(i, height) /\ Resolve(done, Done(bot, done))
           \/ /\ ~Landed(i, height)
              /\ IF height > txs[i].valid THEN NoFault ELSE Fault
              /\ bot' = Thrown(bot, bot.state)
              /\ UNCHANGED <<disk, leftover>>
    /\ UNCHANGED <<cluster, day>>

-----------------------------------------------------------------------------
\* A transaction executes unless what it cancels is gone or the program refuses it.
Executes(i) ==
    \E ok \in BOOLEAN :
        /\ ok => txs[i].body.cancels \subseteq Open(height)
        /\ ~ok => txs[i].body.kind # "cancel" \/ ~(txs[i].body.cancels \subseteq Open(height))
        /\ Block(i, ok)

ClusterSteps ==
    /\ \/ EmptyBlock
       \/ \E i \in Own : Executes(i)
    /\ UNCHANGED botVars

Midnight ==
    /\ day < LastDay
    /\ day' = day + 1
    /\ UNCHANGED <<cluster, bot, disk, leftover, faults>>

MakerInit ==
    /\ ClusterInit
    /\ bot = Down(InitialState) /\ disk = InitialState
    /\ leftover = FALSE /\ day = 1 /\ faults = 0

MakerNext ==
    \/ Start \/ Crash
    \/ ReconcilePending \/ View \/ Send \/ Broadcast \/ Confirm
    \/ ClusterSteps \/ Midnight

\* The cluster goes on, and so does a process that is up.
MakerFairness ==
    /\ WF_makerVars(EmptyBlock /\ UNCHANGED botVars)
    /\ WF_makerVars(ReconcilePending) /\ WF_makerVars(View)
    /\ WF_makerVars(Send) /\ WF_makerVars(Broadcast) /\ WF_makerVars(Confirm)

MakerSpec == MakerInit /\ [][MakerNext]_makerVars /\ MakerFairness

-----------------------------------------------------------------------------
\* However answers are lost, nodes lag and the process restarts, the ladder never
\* carries more orders than it has levels: what may still land is never signed twice.
LadderBounded == Cardinality(Open(height)) <= Levels

\* What landed of the transactions signed on the day of the state file was charged to
\* that day before it was broadcast, so that no restart forgets a cost.
SpendCharged ==
    Cardinality({i \in Own : txs[i].body.day = disk.day /\ txs[i].slot > 0}) <= disk.spent

\* The inventory is deposited once, whatever happens to the first attempt.
FundedOnce ==
    Cardinality({i \in Own : txs[i].body.kind = "fund" /\ txs[i].sent}) <= 1

\* A journalled signature does not block a bot for ever whose disk still takes a save.
JournalResolved == []<>(bot.at = "down" \/ leftover \/ bot.state.pending = NoTx)
=============================================================================
