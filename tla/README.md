# A TLA+ model of conditional-stocks

The repository runs markets in tokenized stocks that are conditional on an event. Holders of a
stock token or of the quote currency split it into a YES and a NO claim; claims of one branch trade
against each other in a limit order book on Solana; after the event the winning side redeems the
backing. The program `programs/conditional-stocks` holds all the money. Around it run an indexer, an
API that submits orders for delegating owners, a market maker, a feed of reference prices, a trading
interface and a console for operators. This project models the program instruction by instruction
and the protocols of the services around it, model-checks both, and proves the safety of the
program's custody and order book and of the services that spend money or keep history.

Contents: [the system](#the-system) · [modules](#modules) · [runs](#what-the-runs-check) ·
[bounds](#bounds) · [fairness](#fairness-and-assumptions) · [proofs](#what-is-proved) ·
[disagreements](#where-the-code-and-its-comments-disagree) · [limits](#what-is-not-modelled) ·
[plan](#plan)

## The system

On chain:

| component | state | operations | what must be right |
| --- | --- | --- | --- |
| protocol rules (`crates/protocol-core`) | none | quotes, fees with carries, caps, guards, redemption, fills, race check | roundings that never create value; a ring that cannot be out-run |
| configuration (`governance.rs`) | `Config`: admin, pending admin, roles, pause, fees | initialize, configure, propose/accept admin, pause | a successor waits its own whole notice |
| asset pools (`pool.rs`, `token_policy.rs`) | `AssetPool` liability, vault, `AssetCredit` per owner | initialize, deposit, withdraw; the issuer outside | liability = what is owed; nothing leaves a pool that was seized from |
| listing and lifecycle (`governance.rs`, `initialize_claims`) | `Market` legs, state, commitment, payouts | create, add/set base, five lifecycle moves, resolve | one mint per collateral; trading never resumes; the outcome is the committed one |
| positions (`custody.rs`, `invariants.rs`) | `Wallet` balances, `Market` credits, escrow, backing, fees; claim mints and vaults | split, merge, redeem, claim in/out, credit transfer, fee claim | claims stay backed whatever holders do outside; exits stay open |
| delegation (`delegation.rs`, nonces in `exchange.rs`) | `TradingDelegate`, `TraderState` | approve, revoke, revoke all, invalidate nonce | a delegate never trades beyond or after its grant |
| order book (`exchange.rs`) | `Order` accounts, per-branch sequence and ring of recent placements, exposure counters | place (with its makers), cancel | escrow is what orders reserve; no order comes to rest across one its plan could not see |
| maintenance (`maintenance.rs`) | the same | batch cancel, retire, compact | a retired order cannot be submitted again |

Off chain:

| component | state | operations | what must be right |
| --- | --- | --- | --- |
| live index (`solana-indexer/src/live`) | account store over forks, relay buffer, subscription, two snapshots | bootstrap, stream events, commit, resynchronize, seed | the finalized view is the finalized chain; it catches up |
| index service (`solana-indexer/src/service.ts`, `history.ts`) | queue, cursor, durable events, tail of confirmed trades | worker: replay, stream, backfill, audit, persist | the cursor never passes a missing event |
| lookup-table keeper (`lookup-keeper.ts`) | tables, registry, day budget | passes: plan, extend, create, register | nothing is paid for twice; what is wanted gets into a table |
| market maker (`services/market-maker`) | state file with a journalled signature, spent budget | plan, journal, broadcast, confirm, reconcile | what may still land is never signed twice |
| delegated orders (`apps/api`, `packages/db`) | journal row under an owner lock | plan, simulate, replan, send, confirm | an answer is true, a lock is given back |
| index stream (`stream.ts`, `wallet-index.ts`) and browser stores (`apps/ui`) | pending update per client, wallet image, resource entry | publish, coalesce, frame, refetch, relabel | nothing is shown as of a slot whose change it lacks |
| wallet controller (`apps/ui/src/lib/wallet`) | account, session, generation per tab; shared storage | connect, sign in, send, storage events | what is sent is what was reviewed; tabs agree |
| Polymarket feed (`polymarket-ingestor`, `market-data`) | one order book, a bounded queue, a fenced socket | REST snapshot, event, disconnect, reconcile | a live book is one the source had |
| operators' console (`apps/admin-ui`, admin routes of `apps/api`) | evidence packets with reviews and previews, the batch form, the set-up sequence | prepare, review, sign, reconcile, recover, list, open | a market's evidence stands; ambiguous requests are not repeated |
| client library (`solana-client`: planner, transactions, legs; `plan.ts` of the API) | a snapshot of the accounts | plan an order, review the plan, choose accounts and deposit | what is reviewed is what is carried out; no better maker is passed over |
| pages, sign-in and faucet, scripts | none or presentation | show data | judged by the program |

How they interact. Instructions are atomic and run one after another, but each names the accounts
it was built from by address, and any number of instructions of other signers may run between the
moment a client read those accounts and the moment its transaction runs. So on chain every hazard
has the shape of a stale plan or of an account that changed hands: a maker that was filled,
cancelled, expired, delegated away or re-priced by a dividend since the plan was made; an order
placed in between that the plan could not know; a pool shared by several markets, from which the
issuer takes tokens between two of them; a claim that was burned in somebody's wallet. Inside an
instruction the hard part is order: credits are lent to wallets and written back at the end
(hydrate, flush), amounts are debited and settled one fill at a time, closing checks compare the
result with its beginning, and any error rolls all of it back.

Off chain the services see the cluster through nodes that lag, answers that get lost and streams
that break, fork and replay, and they crash between two writes. Each keeps something durable (the
state file, a journal row, the history cursor, a table on chain, the evidence database) and its
difficulty is what it concludes from that after a failure. They share no state but the cluster's;
the browser depends on the indexer's stream, the console on the API's database and the chain.

Outside parties are actions too: the clock, the issuers of the mints (pause, hook, freeze, rescale,
seize), anyone who sends tokens to a vault or burns claims, the cluster, the Polymarket source, the
wallet extension, operators who reload a page.

`PROJECT.json` lists the hazards, each at the line where it bites, with the properties that would
catch it.

## Modules

    ProtocolCore <- Config <- Pool <- Market <- Custody <- Delegation <- Exchange <- Planner
                                        |          |                                   |
                                    ListingMC   CustodyMC                           OrdersMC

    MarketProofs <- CustodyProofs <- SettlementProofs <- ExchangeProofs
    ServicesProofs  (of MarketMaker, DelegatedOrders, LookupKeeper, IndexService)
    EdgeProofs      (of BrowserStores, PolymarketFeed, WalletController)
    ConsoleProofs   (of Console)

    Chain <- AccountStore, ChainRelay, GeyserSource <- LiveIndex <- LiveIndexMC
    FinalizedFeed  (abstract; LiveIndex implements it)
    DurableHistory (abstract; IndexService implements it)

    Cluster <- MarketMaker          ServicesMC  = MarketMaker, DelegatedOrders,
            <- DelegatedOrders                    IndexService, LookupKeeper
    IndexStream <- BrowserStores    EdgeMC      = BrowserStores, PolymarketFeed, WalletController
    EvidenceDesk <- MarketBatch <- Console <- ConsoleMC  (part of ListingMC)
                 <- MarketSetup <-

An arrow means EXTENDS. On chain each module adds its accounts as VARIABLES, one action per
instruction, and a `...Next`; `ListingSpec` (Market), `Spec` (Custody) and `ExchangeSpec`
(Exchange) are the compositions. The services that share nothing are checked in common runs: a
variable chosen at the start (`focus`) says which of them a behaviour follows, and the others stand
in a state where they have nothing left to do.

**The program**

- **ProtocolCore** translates the pure rules. A Rust function returning `Result` becomes a value
  operator and a predicate `...Ok` that says when it does not fail. `Wad` (10^18 in the code), `Bps`
  (10^4), `MaxFeeBps` and `MaxU64` are parameters: with `Wad = 2` and prices of 3 and 6 the rounding
  cases occur at quantities of 1 and 2, and with `Bps = 4` a fee leaves a carry.
- **Config**: the `Config` account and the clock. `noticed` is a history variable: when the pending
  administrator was last proposed.
- **Pool**: `liability` and `available` are the program's ledgers, `reserve` the vault's tokens.
  `issuer` holds what the issuer of a mint can do: pause, hook, freeze and a multiplier with a
  scheduled successor. `seized` and `tripped` are history: which vaults were taken from, and
  whether a handler's own closing check ever refused its work.
- **Market**: listing and lifecycle. The resolution hash is injective, so a commitment is the pair
  it was computed from; a commitment naming another market is an input like any other.
- **Custody**: positions. `Reposition` is the common body of split, merge and redeem with its
  opening snapshot and closing verification (`Positions::snapshot`, `verify`, `pool::conserved`).
  Collateral `c` has the three assets `3c`, `3c + 1`, `3c + 2` of the code. `supply` and `vault`
  are the claim tokens; `BurnOutside` and `DonateClaim` are their holders. Entering and leaving the
  wallet's underlying entry during one instruction (hydrate, flush) is not visible between
  instructions, so that entry is `available` itself.
- **Delegation**: grants, the owner's epoch and the nonce floor.
- **Exchange**: `Place` is the whole handler: its guards, the maker loop that skips or caps makers
  by their state at execution, the reservation, each fill with its fees, improvement, surplus and
  settlement, the closing custody and conservation checks, the exposure caps, the race check and
  the ring. It computes on a record of the accounts (`Ledger`) as the handler does on its memory
  images: `Reserve` debits the taker, `Trade` is one fill, `ClosePlacement` holds what the handler
  verifies last and either `Commit`s everything or rolls back. `frames` are the credits the caller
  lends. `Cancel` and `ProcessOrders` (batch cancel and retire) release collateral. Callers are
  unconstrained: `PlaceAny` lets a plan name any maker in any order, which includes what the
  client's planner chooses.
- **Planner** (`planner.ts`, `transactions.ts`, `legs.ts` of `solana-client`, `plan.ts` of the API)
  adds operators and no action: what a client plans on a snapshot of the accounts, with its own
  arithmetic and its own reading of which makers are live, eligible and covered; what it reviews of a
  plan (`CreateOrderPlanOk`, `ParseAtomicPlanOk`); which accounts the transaction carries and what
  deposit it asks for. The rules are written in TypeScript a second time and translated from there, so
  that `PlanHolds` can compare them with `Place`.

**The indexer**

- **AccountStore** (`live/accounts.ts`): a store is a value and each method an operator from a store
  to the one it leaves: `Account`, `Seed`, `Parent`, `Confirm`, `Finalize` with the walk over
  ancestry and its fall-back when parentage is incomplete (`Rebuilt`), `Dead`.
- **ChainRelay** (`live/relay.ts`): the retained buffer that consumers resume from by slot.
- **GeyserSource** (`live/geyser.ts`): the resilient subscription. Connects, replay-info answers,
  subscriptions and reconnect timers of several generations may be under way at the same time.
- **Chain** (external): slots with a parent, one possible fork, the accounts each block writes, and
  which slots are confirmed and finalized.
- **LiveIndex** (`live/index.ts`): bootstrap overlapping the stream, slot-by-slot commits to the
  confirmed and the finalized snapshot with the two-pass application of changed accounts,
  transaction counts, resynchronization after a gap or a failed commit, and reads of newly tracked
  mints that return late (`Seed`).
- **FinalizedFeed** is what the index promises its readers: the accounts of *some* finalized slot,
  moving forward except when it starts over, with each transaction on the way reported once.
  `LiveIndex` implements it under `slot <- index.snapshots["finalized"].slot`,
  `accounts <- index.snapshots["finalized"].accounts`, `reported <- index.reported`.
- **IndexService** (`service.ts`, `history.ts`, `reconcile.ts`) stands on that promise: batches are
  queued, a worker replays from the cursor, takes streamed transactions, scans the archival RPC for
  gaps, audits and persists; confirmed trades are served from a tail until they are durable.
  A replay is answered by a node that may be up to `ReplayLag` slots behind the slot the cursor is
  then moved to (`Listed`), as the code asks for no minimum slot. `skipped` is a history variable: the
  slots that a replay passed over without their events, because the node did not list them or because
  it closed a gap of the stream at the end of an older batch (`JumpedOver`).
- **DurableHistory** is what the index service promises the readers of its database: the events that
  are stored are of finalized slots up to the cursor, they stay stored, and what is missing below the
  cursor is accounted for in `lost`. `IndexService` implements it under `final <- head.final`,
  `cursor <- db.cursor`, `events <- db.events \ {0}`, `lost <- skipped`: slots are counted from 1, and
  a scan that goes back to a cursor at 0 names a slot that carries nothing.
- **LookupKeeper** (`lookup-keeper.ts`): overlapping passes over on-chain tables under a daily
  budget. A table is created and registered in two steps. A send whose answer is lost fails, or waits
  in `late` until it lands or its blockhash runs out, whatever passes run meanwhile (`Settles`); a
  read may be answered by a node that shows the tables as they were (`Views`). `doubted` is a history
  variable: the entries that a plan could not know of, as the node did not show them or as they were
  still in `late`. `spent` is the object's field: charged for answered sends, lost in a restart.
- **IndexStream** (`stream.ts`, `wallet-index.ts`): the pending update that is merged for a slow
  client, resets after an outage that the connection noticed, and the wallet image that is built from
  one view and served under another. `noticed` and `doubt` are history variables: whether the
  connection's last frame told of an outage, and up to which slot the store may not have been told of
  its changes in time.

**Services on the cluster**

- **Cluster** (external): signed transactions with a window of blocks, at most one landing, lookup
  afterwards.
- **MarketMaker** (`execution.ts`, `engine.ts`, `state.ts`): one ladder. The journal is saved before
  the broadcast; every save may fail or be followed by a crash; the node's answers lag.
- **DelegatedOrders** (`delegated-orders.ts`, `plan.ts`, `packages/db`): requests of one owner under
  an advisory lock, each inside one database transaction that is rolled back by any exception.

**Interfaces**

- **BrowserStores** (`createResourceStore`, `useResource`, `IndexStreamProvider`): one resource (the
  orders, the payouts or the positions of a wallet) that frames invalidate or relabel while its reads
  are in flight. An invalidation shares a pending read, as in the code, even one that was answered
  before the change.
- **WalletController** (`controller.ts`, `session.ts`, `injected.ts`): tabs that share storage; every
  `await` is a point at which the account, the session or another tab may change.
- **PolymarketFeed** (`service.ts`, `order-book.ts`): the queue of one book whose head may wait for
  REST while events arrive, sockets fenced by a generation, back-pressure, reconnecting passes.

**The operators' console**

- **EvidenceDesk**: packets that create or resolve a market, from `prepare` under the evidence lock
  through the one review to the transactions an approved packet allows: preview, recheck, signature,
  landing or expiry, receipt, `reconcile`. `accounts` is what the console can see of the market
  accounts; that it moves as the program allows is `Executes` and `Effect`.
- **MarketBatch**: the form that prepares one creation packet per row. A row's request may be
  answered, lost or answered after the form gave up; the form lists the saved packets before it asks
  (`recoverBatchResults`).
- **MarketSetup**: consoles that list the issuer tokens of the evidence, create claim mints and open
  the market, one signature after another, each list of steps read from the chain beforehand.
- **Console** composes the three (`OperatorsSpec`): they share the packets and the market accounts.

The `...MC` modules give the constants values, choose the initial deployment and restrict the
composition to the actions a run is about. Those that start from mid-life states (legs listed,
claims created, deposits made) start from states the full composition reaches, which saves TLC the
listing phase already covered by `ListingMC`.

Operators whose comment starts with *Slip* are not the code. Each is a plausible mistake in the
definition that follows it (a dropped guard, a lost reset, a swapped order) and no action uses it.
`PROJECT.json` pairs each with the property it breaks in the named run, which shows that the
property depends on what the code does.

## What the runs check

A run checks one composition; where it follows one of several things, its behaviours are the union.

| run | question | properties |
| --- | --- | --- |
| `listing` | *listing*: one market from creation to archive with three stock tokens for two legs, an issuer pausing and rescaling, legs listed late and delisted, a commitment for the wrong market. *handover*: can any interleaving of proposals, re-proposals and acceptances by three keys shorten the notice? *console*: two consoles prepare, review, sign, reconcile, batch, set up and open | SegregatedCollateral, OutcomeCommitted, LifecycleForward; HandoverNotice; EvidenceStands, RowsOnce, LegsAsReviewed |
| `positions` | *positions*: two owners split, merge, redeem, move claims in and out, burn and donate them around a resolution, while the issuer halts its mint in every way. *shared pool*: two markets on one stock token with a transfer fee whose issuer seizes tokens | CustodyType, LedgersExact, ClaimsBacked, ClaimCustody, SelfChecksSilent, ExitsOpen |
| `orders` | *fills*: resting and immediate orders of both sides, funded by stock, quote or claims, with fees, rounding prices, partial fills, two makers per placement, cancellations and a multiplier that rises or falls in between. *life*: an order through expiry, nonce invalidation, batches, retirement, a reused salt and one of a fee change, a delisting, a freeze and a pause or hook of the issuer. *race*: placements planned up to three placements ago against a ring of two. *delegation*: a delegate trades while its owner approves, revokes, revokes all and time passes. In each but the races every order that a client may ask for is planned in every state | BooksExact, OnlyWantedFills, NoReplay, NoUnseenCross, DelegateBudget; CancelOpenForLife; PlansHold |
| `live_index` | a chain with a fork, late confirmations, a stream that breaks, a relay that prunes and resets, commits that fail, bootstraps that overlap events | ConfirmedWholeSlots, FinalizedFeed (refinement), CatchesUp |
| `services` | the market maker, the delegated order API, the durable history and the lookup-table keeper, each through crashes, lost answers, failed saves, lagging nodes, late landings and restarts | LadderBounded, SpendCharged, FundedOnce, JournalResolved; PlacedIsPlaced, RequestsEnd; ExactHistory (refinement of DurableHistory), TradesKept, HistoryCatchesUp; PaidOnce, AllKept |
| `edge` | the index stream with a store of the browser (orders, payouts or positions), a wallet in two tabs, the Polymarket feed | NotRelabelled, StoresCatchUp; SentAsReviewed, OneIdentity; BookIsReal, FeedReturns |
| `live_stuck` | the index "re-bootstraps after a replay gap" | CatchesUp without `SteadyResync`, *violated* |
| `lagging_replay` | "we never silently skip unavailable data"; the node lags and nothing else fails | HistoryComplete, *violated* |
| `paid_twice` | what was sent before is visible and "not appended twice" | NeverTwice, *violated* |
| `stale_label` | no stale data becomes usable "by relabeling it as fresh": the orders of a wallet | NeverRelabelled, *violated* |
| `late_seed` | a late read "never overrides a newer streamed version" | SeedNeverOverrides, *violated* |
| `open_early` | tokens still unlisted "are listed before opening" | OpenedAsReviewed, *violated* |

Four more configurations are kept for TLC by hand, as `tlc -config relist.cfg OrdersMC` and so on. PROJECT.json
does not list them. Two refute a property of a listed run for a second cause, and two a sentence of
which the consequence is small:

| configuration | module | question | property |
| --- | --- | --- | --- |
| `relist.cfg` | OrdersMC | an ask on a delisted leg "can never fill again" | DelistedAsksAreDead, *violated* |
| `delegated_journal.cfg` | ServicesMC | an ambiguous result "never creates another transaction" (the program refuses the second) | OneTransaction, *violated* |
| `history_gap.cfg` | IndexService | after a gap, history is backfilled "to the new base"; the node does not lag | HistoryComplete, *violated* |
| `stale_payouts.cfg` | BrowserStores | no stale data becomes usable "by relabeling it as fresh": payouts | NeverRelabelled, *violated* |

The properties that say most:

- `LedgersExact` is `PoolLedgerExact` (a pool's liability equals the credits of its owners plus the
  escrow and backing of every market that uses the mint, and the vault covers it unless its issuer
  seized tokens: no handler can see the other markets, so none checks this), `CreditLedgerExact`
  (the same for claims) and `BackingExact` (backing is exactly what the claims are worth while
  nobody burned any). `BooksExact` adds `EscrowExact` and `ExposureExact`: each escrow is the sum of
  what its orders reserve, each exposure counter the sum of the orders' rounded notionals. The code
  maintains them by differences over every partial fill, improvement, surplus, cancellation and
  retirement.
- `ClaimsBacked`: backing covers the outstanding claims, whatever their holders do outside.
- `SelfChecksSilent`: the closing checks of the handlers never fire. They are there as a net; an
  instruction stopped by one would be one its caller could never get through. (For the instructions
  of the order book it is a part of `BooksExact`.)
- `NoUnseenCross`: two crossing orders rest on the same branch only if the later plan could see the
  earlier order. The stronger "the book is never crossed" is false of this code, and
  `docs/multi-issuer-markets.md` says so: a plan may leave out a maker it could have filled.
- `PlansHold`: in every book reached, an order that the client agrees to plan is carried out exactly as
  it was reviewed if nothing comes in between, with the accounts and the deposit the transaction
  carries, and passes over no maker that could trade at a better price or an earlier place. It
  compares two implementations of the same rules, one in Rust and one in TypeScript.
- `NoReplay`: an address is used once, although retirement closes accounts and frees addresses.
- `ExitsOpen`, `CancelOpen` (in books of two orders in *life* and of one in *delegation*): no pause,
  hook, freeze, delisting or lifecycle state keeps a holder from merging complete sets or redeeming
  winning claims (while the pool covers its liability), an owner from cancelling (unconditionally), or
  anybody from releasing an order that cannot trade any more: expired, below its owner's nonce, in a
  market that is not open, an ask on a delisted leg, or of a delegate whose grant has ended. They are
  stated with ENABLED.
- `FinalizedFeed`: through forks, gaps, resynchronizations and failed commits, readers of the
  finalized view see exactly the accounts of a finalized slot, and each transaction once.
- `ConfirmedWholeSlots`: the confirmed view never mixes accounts of different slots.
- `LadderBounded`, `SpendCharged`, `FundedOnce`: a bot that crashes between any two writes never
  has more orders that may land than it has levels, forgets no cost and deposits its inventory once.
- `ExactHistory`: every event missing below the cursor was passed over by a replay whose node had not
  got to it or that closed a gap too early, and by nothing else: no streamed batch, failed call, crash
  or restart loses one. Nor does the database hold events past the cursor, such as those of a trade
  that is confirmed and shown but not final; nothing durable is taken back. (That no event is missing
  at all is `HistoryComplete`, which `history_gap` and `lagging_replay` refute.)
- `TradesKept`: a trade that readers were shown stays visible while it moves from the tail to the
  database, with the same exception.
- `PaidOnce`: an entry is in two places of the active tables only if a plan could not know of the
  first one; within one process what was seen answered stays within the day's budget. (Without the
  exception it is `NeverTwice`, which `paid_twice` refutes.)
- `NotRelabelled`: a coalesced frame, a noticed outage, a reset or a late read never makes a store show
  data as of a slot whose change it lacks. What the code does miss is excused case by case (`doubt`):
  an outage of which the connection wrote nothing, or that found frames under way; a frame that
  overtook the answer of the read it was to invalidate; a frame refused as a step back; payouts that
  were read before they were final. (Without an excuse it is `NeverRelabelled`, which `stale_label`
  and `stale_payouts` refute.)
- `SentAsReviewed`: between the review and the send, the identity did not change, not even there and
  back.
- `EvidenceStands`: a market awaits resolution, or was resolved, by an approved packet that no other
  packet contradicts. It rests on the conflict check and the review being made under one lock, and
  on the check counting packets that are not reviewed yet.
- `RowsOnce`: no row of a batch has two packets, through timeouts, reloads and a second console,
  unless two forms were asking at the same time (`overlap`).
- `LegsAsReviewed`: whatever two consoles sign at the same time and whatever fails in the middle, the
  legs are listed in the order of the evidence. Otherwise the console refuses to go on with the
  market for good.

A deployment may legitimately stop (the clock, the placements and the amounts are bounded), and so
may every service once its bounded environment has, so deadlock is not checked; what must not
stop is stated as liveness.

## Bounds

- *Program.* One or two markets with one or two base legs; two owners, one delegate; token amounts up
  to 20; three or four placements per branch with at most two makers each, which is enough for an
  order to be filled twice, for a maker to be stale, for both sides to rest, and for a plan to outrun
  a ring of two; a clock of two or three instants, which separates before, at and after expiry and
  cutoff; at most one claim adrift outside the ledgers in `positions`. `MaxTime`, `MaxReserve`,
  `MaxEpoch`, `MaxSequence`, `MaxLag` and `MaxLifetime` are bounds of the model and appear in guards;
  `Window` and `MaxMakers` are the code's RECENT and MAX_MAKERS at small values; `MaxPlaced` and
  `MaxDelegated` bound the parts of `orders` that need fewer placements than its race. `PlanLife` is the
  client's 60 seconds, at one instant; `PlansHold` is evaluated outside the races, and with delegates in
  books of one order (the books of several are among those of *fills* and *life*); with one base leg
  every order accepts the same leg. In `listing` the
  issuer rescales before the market can open and acts only while tokens can be listed.
- *Live index.* Two slots after the start with one possible fork, a market with its order and a
  newly tracked mint, a relay that retains one slot, one fault. The stream is linear, or comes from
  the relay, or rolls back (`Modes`). One fault is what the recovery code handles at a time; a second
  one during a recovery is `live_stuck`. `late_seed` has a third slot and no fault.
- *Services.* Six blocks with transactions valid for one and finality one behind, three transactions,
  two faults; two requests for one order, one replan, one change of the book, one crash and one lost
  answer; four slots with a tail of two and two upsets and a node
  up to one slot behind (`ReplayLag`); three entries in tables of two, two
  overlapping passes, two sends a pass, two chunks a day, one trip (`MaxTrips`: a failed or unanswered
  call, a stale read, a restart or a deactivated table).
- *Interfaces.* Two slots, one frame under way, one mishap, three kinds of stores; four versions of a
  book, a queue of two, two troubles; two tabs and two accounts, two requests, three steps of the
  outside. StoresNotRelabelled covers any number of frames
  under way and of outages.
- *Console.* Two consoles, two rows or markets, two payouts, three packets (two in a batch), two
  unanswered requests, two forms, two lists of steps (three in `open_early`).

## Fairness and assumptions

Nothing in the program or the console schedules anything: every action is a transaction or a click
that may or may not come, so those runs assume no fairness and what must remain *possible* is stated
in every reachable state. The services do schedule themselves: weak fairness is on the handlers, timers
and continuations that the event loop runs (`Deliver`, `LiveTimer`, `Works`, `Send`, `PassSteps`,
`StorageEvent`, ...), on the blocks the cluster goes on to produce, and on database locks that
become free. Strong fairness is assumed twice: a browser that reconnects again and again receives a
frame now and then (`Receive`), and the source's REST interface, which may answer with an old
snapshot, does not do so for ever (`Answer(version)`). Faults are never fair and always bounded.

Some constants state what must be true of the surroundings for a property to hold. They are named
so that a run can drop them:

- `SteadyResync`: the server does not drop what the index needs while it starts over. Without it
  `CatchesUp` fails (`live_stuck`). `SteadyReplay`: nor between its answer to replay-info and the
  subscription.
- `ReplayLag` is how far a node may be behind in a replay. It is no assumption of the theorems: what a
  replay skips is recorded in `skipped` and excused there. With `ReplayLag = 0` and the live index
  starting over `HistoryComplete` still fails (`history_gap`), and with `ReplayLag = 1` it fails
  without any upset (`lagging_replay`).
- The excuses `skipped`, `doubted` and `doubt` are history variables that no action of the code reads.
  Each is set by the step that creates the cause, so that a property with an excuse still fails when
  the code goes wrong in any other way, as its mutant shows. What they excuse is refuted by a run.
- `FeedReturns` excuses a failed call of the database, after which the socket may stay down.
- The console: one key has both roles, resolutions start only from the console, all forms are of one
  operator (the form compares the preparer), and identical requests of one millisecond are one
  packet. A token listed on its own before the set-up was complete is excused in `LegsAsReviewed`
  (`strayed`): the console allows it and then refuses the set-up.

## What is proved

TLAPS checks the following for all values of the constants: any sets of keys, owners, markets and
mints, any terms and any scale factors that satisfy the named assumptions of the modules.

| theorem | of | says |
| --- | --- | --- |
| ConfigTypeCorrect, HandoverNoticed (MarketProofs) | `ConfigSpec` | types; the administrator changes only after the successor's own full notice |
| CollateralSegregated, OutcomesCommitted, LifecycleMovesForward (MarketProofs) | `ListingSpec` | one mint per collateral; the outcome is the committed one, once; the lifecycle moves forward |
| CustodyTypeCorrect, ClaimsAreBacked, ClaimsInCustody, ClosingChecksSilent (CustodyProofs) | `Spec` | types; backing covers claims; the claim vault covers what the market owes; closing checks never fire |
| LedgersStayExact (CustodyProofs) | `Spec` | every total the program keeps is the sum it stands for |
| BooksStayExact (ExchangeProofs) | `ExchangeSpec` | the same with orders: escrow and exposure are the sums over the book, and no closing check of the order book ever fires |
| NeverReplayed, NeverCrossedUnseen, BudgetsHeld, FillsStayWanted (ExchangeProofs) | `ExchangeSpec` | an address is used once; orders rest crossed only where the plan could see it; a delegate stays within its grant; a fill is wanted by both sides when it happens |
| FeesAddUp (ExchangeProofs) | `Fee` of ProtocolCore | the fees on two amounts in turn are the fee on their sum, with the same carry |
| LadderStaysBounded, SpendStaysCharged, FundedAtMostOnce (ServicesProofs) | `MakerSpec` | the market maker's ladder, its spending and its funding through crashes, lost answers and failed saves |
| PlacedStaysPlaced (ServicesProofs) | `SubmitSpec` | the API answers "placed" only when it is |
| PaidAtMostOnce (ServicesProofs) | `KeeperSpec` | no entry is in two places of the active tables unless a plan could not know of the first; the day's budget holds within a process |
| ShownTradesStay, HistoryIsExact (ServicesProofs) | `IndexSpec` | a trade that was shown stays in memory or history, and the service implements DurableHistory, but for what a replay skipped |
| EvidenceAlwaysStands, RowsPreparedOnce, LegsListedAsReviewed (ConsoleProofs) | `OperatorsSpec` | a market is resolved by approved evidence that nothing live contradicts; a row of a batch is prepared once; legs are listed as they were reviewed |
| WalletSendsAsReviewed (EdgeProofs) | `WalletSpec` | what is sent is of the account shown and the session that reviewed it |
| FeedBookIsReal (EdgeProofs) | `FeedSpec` | a book shown as connected is one that the venue had |
| StoresNotRelabelled (EdgeProofs) | `BrowserSpec` | what is shown is not labelled past a change it lacks, but for changes of which the code did not tell the store in time (`doubt`) |

The theorems are about the full specifications, of which the runs check slices: the next-state
relations of `CustodyMC` and `OrdersMC` are parts of `Next` and `ExchangeNext` from states that these
reach, and a behaviour of `ServicesMC` follows one of the four services, one of `EdgeMC` one of the
three interfaces. `OperatorsSpec` (Console) lets forms, evidence and set-up go on at the same time on
the same packets and markets; a behaviour of `ConsoleMC` follows one of them, evidence and set-up from
a market that was just created.

*Listing.* `HandoverNoticed` needs `NoticeRuns`: while a transfer is pending, `adminAfter` is
`noticed + AdminDelay`. `ListingInv` is the three type invariants, `Blank` (a market that does not
exist yet has no legs listed), `MintsListed` (a listed collateral has a real mint),
`SegregatedCollateral` itself, and `PayoutsLast` (payouts are absent exactly until the market is
redeemable), without which a second resolution could not be excluded.

*Custody.* `CustodyInv` is `ListingInv`, `CustodyType`, `ClaimCustody`, `ClaimsBacked` and
`SelfChecksSilent`. Splitting adds as much backing as to each side's supply; merging takes as much
from each; redeeming divides, so it rests on lemmas that a whole redemption pays exactly its share of
the weighted supply and that the rounded-up backing of the rest is covered; resolving changes which
supply must be covered, and a complete set covers each of the three outcomes; burning only lowers
what is owed. The steps of Config, Pool and Market that leave positions alone are dealt with by
`PoolSilentStep` and the step lemmas of MarketProofs, so each action is examined once.

*Ledgers.* `LedgersExact` is stated with sums over owners and over markets that share a mint, so
the part of CustodyProofs about them begins with lemmas on what `Sum` becomes when one entry changes,
or one is added; as `Sum` counts units, these follow from the library's facts on finite sets. `LedgersInv` adds to
`CustodyInv` and `LedgersExact` what each handler relies on without checking it: an account that was not opened holds
nothing (`Unopened`), and a collateral that was never listed has no escrow and no backing
(`UnlistedEmpty`); otherwise listing a mint, which makes a market's amounts count in that mint's pool,
could change a sum.

*Order book.* `Place` works on images of the accounts, so SettlementProofs and ExchangeProofs reason
about images and not about steps: a handler that reserves, trades and releases keeps what the image
holds in each pool and each claim (net of the complete sets that a fill mints), and only then is the
image written back. `BookInv` is `LedgersInv`, `OrdersType`, `OrdersListed` (an order trades only legs
that its market listed) and `BooksKept`, the exactness of escrow and exposure with each order's
reservation sound for what remains of it. The maker loop is a recursive function over the plan, dealt with by
induction on its length from one lemma on a fill. On top of it:

- `NeverReplayed` with `RetiredInv`: what retires an order (a market closed for good, or an
  invalidated nonce that its salt binds) is never undone.
- `NeverCrossedUnseen` with `RingInv`: the ring still holds, by ticks, every live order among the last
  `Window` placements of its branch, so the race check sees what the plan could not.
- `BudgetsHeld` with `GrantsInv`: what was charged is never given back, and the quote amounts of the
  parts of an order, rounded one by one, do not add up to more than the whole was charged.
- `FillsStayWanted` needs `BookInv` only: makers are judged when they are filled, and a placement that
  fills nobody leaves its own order unfilled.

*Services.*

- `MakerInv`: of all the market maker ever sent, only the transaction in the journal may still land
  unseen, and that is true of the State in memory as of the one on disk, which may be older
  (`StateFits`, `Gone`). So the one that may land was planned on a ladder that is still there
  (`FitsLadder`), what was sent on the State's day is on its budget, and the funding is latched on
  disk before its transaction exists.
- `SubmitInv`: a row names a transaction of its order, and so does what a request has read of it;
  what has landed does not go away.
- `KeeperInv`: at most one pass is under way, and what is spent with its budget is the day's budget with
  what it has extended. What its plan misses is in no active table of the registry unless it is
  doubted, and so is everything that was under way when the plan was made (`MissingFits`); what is
  under way and not doubted is in no table and under way once (`LateFits`), so its late landing adds no
  second place. A table that waits for its row is empty.
- `IndexInv`: what the cursor has passed is stored or was skipped. A queue without a gap continues the
  batch that is being made durable, or the cursor (`Frontier`, `Covers`), so no batch of the stream
  can pass over a slot; only a replay that ends before its batch, or closes a gap with an older one,
  adds to `skipped`.
- `TailInv`: from some position on, the tail holds in order every trade reported since the index
  started that is neither old, nor in the database, nor skipped. The position moves when the tail is
  cut, and a restart begins another.
- `WithinInv`, for the refinement: what waits is not past what was reported, a batch not past its end,
  what is stored not past the cursor, and none of it past what is finalized. With `IndexInv`, what is
  missing up to the cursor is among `skipped`, so a step that moves the cursor is a `Record`, one that
  finalizes a slot a `Grow`, and any other a stutter (`CursorMoves`, `HistoryStep`).

*Console.*

- `EvidenceInv`: every signature that is asked for and every transaction in flight is of an approved
  packet, approval and rejection are final, and the resolutions of a market that were not rejected
  have one payout, which is what the check for conflicts buys, as it runs under the lock under which
  the packet is stored. A market is then resolved by one of them.
- `RowsInv`: a row that has a packet or an unanswered request is one that no form will ask for:
  requests are of the only form that asks, and what that form has not attempted it has found absent
  in a listing that still says all there is. Once two forms overlap nothing more is claimed.
- `LegsInv`: the steps of every task are the rest of the evidence from some position on, those before
  the current one are listed, and so for every transaction on its way: one that lands late lists
  what is listed already or comes next, and the program refuses the former. The proof reads the steps
  off the set of legs that are left, so it needs that the legs of the evidence are a finite sequence.

*Interfaces.*

- `WalletInv`: one call at most is pending in a tab, the others are superseded and do nothing more; a
  send that may still go on is of the account and session the tab has shown without interruption
  since the review, or found no session and waits for one to begin (`Undisturbed`).
- `FeedInv`: the book is always the venue's at its version, connected or not (`BookOK`), because no
  change waits that would apply without the one before it: for every change of the socket of now, in
  the queue or on the wire, the version before it is in the book or is brought by an event that comes
  first (`Follows`). What is left of another socket is told by its generation and dropped.
- `StoresInv`: of orders and payouts, past the later of the slot the data was read at and `doubt`,
  every frame that would carry the label past a change has one at or before it that tells of the
  change (`Followed`), in what is written and in what the connection still holds, and also while an
  answer is on its way (`ClientInv`). The frames of a connection are not past the view or the doubt
  (`ServerInv`). Positions come with their frame and are labelled by it (`PositionsInv`). Nothing is
  assumed of outages or of the time a read takes: the step that swallows an invalidation, refuses a
  frame or loses an outage raises `doubt` to the slot it concerns.

`ConfigTypeCorrect` is what `ListingInv` and `CustodyInv` take from Config; no run lists it on its own.

The assumptions are those that the modules name: the sets of owners, markets and mints are finite,
the units of prices and rates positive, an order's terms are ones that an owner can sign, bounds are
natural. None restricts what the program can be asked.

Only model-checked: the live index (`ConfirmedWholeSlots` and the refinement of `FinalizedFeed`), whose
views are what a stream, replayed or rolled back, amounts to when it is folded over a chain defined by
recursion, which is induction over data; and `PlansHold`, where one side is a greedy algorithm on
sequences defined by recursion. Out of the prover's reach: liveness under fairness (`CatchesUp`,
`JournalResolved`, `StoresCatchUp` and the others), and what is stated with ENABLED (`ExitsOpen`,
`CancelOpen`).

## Where the code and its comments disagree

Each has a run, or one of the four configurations beside them, that TLC finds violated.

- `relist`. `exchange.rs:56` (`cancel`): "An ask on a delisted leg can never fill again: anyone may
  release it." `set_base` (`governance.rs:302`) lets the market administrator list the leg again, and
  an ask nobody released meanwhile fills as before. The release is safe either way; what does not
  hold is the reason given for it.
- `delegated_journal`. `delegated-orders.ts:161`: "an ambiguous RPC result never creates another
  transaction." The row is written in the database transaction in which the bytes are sent
  (`connection.ts:29-43`), so an exception after the node took them rolls the row back, and the
  repeated request plans and sends another. (Both name the same order account; the program refuses
  the second.)
- `live_stuck`. `live/index.ts:179`: "Re-bootstraps from RPC after a replay gap or a failed commit."
  A gap reported while a resynchronization is under way is dropped (line 181), and the index stays
  behind until another event makes it start over.
- `history_gap`. `service.ts:123`: "A stream gap re-bootstrapped the index: backfill history to the
  new base." The worker replays to the end of the batch it holds and clears the flag
  (`service.ts:177-186`), also when that batch is older than the new base. The next one is streamed,
  and the cursor passes the slots in between, whose events no later replay looks for.
- `lagging_replay`. `history.ts:124-126`: "we never silently skip unavailable data." `replayHistory`
  lists the finalized signatures without a minimum slot (`history.ts:150-154`) and then moves the
  cursor to the snapshot slot of the live index, whatever was listed (`history.ts:205-209`). A node
  behind the stream lists less, and no later replay looks below the cursor.
- `paid_twice`. `lookup-keeper.ts:128-129`: "extensions sent by the previous sync are already visible,
  so they are not appended twice." When the answer of a send is lost (`lookup-keeper.ts:224-226`) the
  next pass begins a second later (`main.ts:85-99`), while the transaction can still land; it reads
  the table at `confirmed`, which a lagging node answers from the past, and appends the same
  addresses again. `spent` counts answered sends only and lives in the memory of the process, so the
  rent of the first is on no budget. (Addresses in a table twice do not harm its readers.)
- `stale_label`. `read-reliability.md:10`: "No stale price or balance becomes usable by relabeling it
  as fresh." An invalidation that arrives while a read is pending shares that read
  (`fetchResource.ts:10-11`), which may have been answered before the change; the next frame, which
  does not concern the store, labels what it brought as current (`IndexStreamProvider.tsx:57-61`).
- `stale_payouts`. The same sentence. The stream tells of a changed credit when it is confirmed
  (`stream.ts:118-120`), the route answers from the finalized view (`service.ts:417-420`). The store
  reads at once, gets the payouts of before, and nothing tells it when the change is final.
- `late_seed`. `live/accounts.ts:76-77` on the read of a newly tracked mint: "Never overrides a newer
  streamed version." The answer is stamped with the confirmed slot of its arrival
  (`live/index.ts:366`), not of its reading, and so counts as newer than a change that the stream
  delivered in between. The index then serves the old mint until it changes again.
- `open_early`. `MarketLifecycleAction.tsx:24`: "Evidence-ordered issuer tokens; any still unlisted
  are listed before opening." While the evidence loads, `MarketSetupPanel.tsx:56` takes its tokens to
  be none (`MarketControls.tsx:75`), so a market with one of its tokens listed is shown as complete
  and can be opened.

Met while modelling, and not reported as divergences:

- a commitment that names other payouts or another market leaves its market in AWAITING for good:
  there is no action that replaces it (merging complete sets still works);
- a SCHEDULED market that was never opened before its cutoff is frozen only by its administrator or
  the guardian; the permissionless freeze applies to OPEN ones;
- a split is allowed in any lifecycle state, as new claims are always complete sets;
- a seizure from a pool that several markets share stops the position handlers of that leg in all
  of them, merging and redeeming included, until the vault covers its liability again;
- `persist` (`solana-indexer/service.ts:245-247`) stores the slot of its batch with the raw accounts
  of the finalized view of that moment, which may be of a later slot;
- between its answer to a consumer's replay-info request and the subscription the relay may reset
  or prune what it promised (`relay.ts:85-86`); the consumer does not notice (`SteadyReplay`);
- the lookup-table keeper that stops between creating a table and registering it leaves a table
  nobody uses;
- an ask that was placed before the issuer lowered the multiplier of its token may reserve less than
  its remaining units need; the planner passes over it (`Covered`), and it rests until its owner
  cancels it or the multiplier rises;
- the market maker's reconciliation reads the height and the status in two calls that must agree on
  the finalized block.

## What is not modelled

*The program.* Account layout, rent, address derivation, the extension allow-list of a mint (a pool
admits exactly the controls its mint has), metadata, evidence strings, events. `compact_market`
returns rent only; `initialize` is the initial state of Config. Overflow of the u128 accumulators
(sums of u64 amounts over fewer than 2^64 orders); the u64 checks are guards on `MaxU64`. A multiplier
is a rational `mantissa / power`; that the code's f64 decoding yields exactly this rational is taken
over.

*The indexer.* Decoding of accounts and transactions (a view shows which block wrote an account),
projection of events to rows, payouts and positions, HTTP routes, SQL, the stored account image,
which nothing reads back. The keeper's selection of addresses is a set of entries.

*Market maker.* Prices, risk rules and reference checks, `staticCycle`, `reclaimRent`, the final
cancellation on shutdown; several ladders, which share only the wallet's budget.

*API.* Sign-in, faucet, uploads. In DelegatedOrders a plan is the block it was made from; what a plan
contains is in Planner.

*Browser.* The market and readiness stores, the encoding of instructions in `solana-client`, wallet
kinds, chain ids, signing of messages, the lifetime of a saved session, storage that fails; two
storage events of one key that are pending together count as one. Pages, forms, the order ticket.

*Polymarket.* Metadata, alerts, the quality of a tick, several markets.

*Console.* Attachments, content checks of a packet, `AdminProvider`, delisting and emergency buttons,
each of which calls one handler of the program.

Most of the repository's lines are presentation, encoding, queries, tests and deployment scripts,
which keep no state that outlives a call or a page; the protocols above are the part that does. That
is why the share of the repository's lines that the models stand for is small, while the program and
the state machines of the services are modelled nearly whole.

## Plan

Done: the program from its rules to the order book, the client's planner against it; the indexer, the
services on the cluster, the interfaces and the console; proofs of custody, the order book, the
services, the interfaces and the console. Left, in this order:

1. The views of the live index as a state of their own that each block changes, instead of a fold over
   the chain: what `ConfirmedWholeSlots` and the refinement need to be proved.
2. An abstract specification of custody (deposits in, redemptions out, an obligation per claim) that
   Custody and Exchange refine, as DurableHistory is one for IndexService.
3. The rest of ProtocolCore's algebra against reference definitions: quotes and caps (of fees, `FeesAddUp`
   is proved; that a reservation is enough for its fills is part of `BookInv`).
4. The order ticket against what `Place` accepts; `AdminProvider`; the shutdown of the market maker.
