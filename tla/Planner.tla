------------------------------- MODULE Planner ------------------------------
(***************************************************************************)
(* How clients build a placement (solana-client: planner.ts,               *)
(* transactions.ts, legs.ts; api: trading/plan.ts).  A plan is made from a *)
(* snapshot of the accounts; the program judges it when it arrives.  The   *)
(* modules write the same rules twice, in Rust and in TypeScript: this one *)
(* translates the TypeScript, so that the two can be compared.             *)
(*                                                                         *)
(* Planning changes no account: the module adds operators, no action.      *)
(***************************************************************************)
EXTENDS Exchange

Seqs == INSTANCE SequencesExt

CONSTANT PlanLife   \* time a plan is good for (60 seconds)

ASSUME PlannerAssumption == PlanLife \in Nat \ {0}

----------------------------------------------------------------------------
(* The client's own arithmetic. *)

ClientQuote(quantity, price, up) ==
    (quantity * price) \div Wad
      + (IF up /\ (quantity * price) % Wad # 0 THEN 1 ELSE 0)

ClientRaw(m, c, units, up) ==
    LET live      == LiveMultiplier(MintOf(m, c))
        numerator == units * legs[<<m, c>>].scale * live.power
    IN  numerator \div live.mantissa
          + (IF up /\ numerator % live.mantissa # 0 THEN 1 ELSE 0)

(* An issuer's multiplier that has no exact form makes the reading of all  *)
(* the market's legs fail (withinBand is called outside of any try).       *)
LegsReadable(m) ==
    \A c \in 1 .. market[m].bases :
      (Ready(m, c) /\ legs[<<m, c>>].active) => MultiplierOk(LiveMultiplier(MintOf(m, c)))

(* A base leg that can deliver now. *)
LegTradable(m, c) ==
    LET state   == issuer[MintOf(m, c)]
        listing == legs[<<m, c>>].multiplier
        live    == LiveMultiplier(MintOf(m, c))
    IN  /\ legs[<<m, c>>].active /\ Ready(m, c)
        /\ ~state.hooked /\ ~state.paused /\ ~state.frozen
        /\ 4 * live.mantissa * listing.power <= 5 * listing.mantissa * live.power
        /\ 5 * live.mantissa * listing.power >= 4 * listing.mantissa * live.power

Accepts(terms, c) == c \in terms.bases

----------------------------------------------------------------------------
(* Which resting orders the snapshot offers.                               *)

ActiveDelegation(o, d, m) ==
    /\ <<o, d>> \in DOMAIN grants
    /\ LET grant == grants[<<o, d>>]
       IN  /\ ~grant.revoked /\ grant.epoch = epoch[o] /\ now < grant.expiresAt
           /\ TRADE \in grant.permissions
           /\ grant.market \in {NoKey, m}

LiveOrder(id) ==
    LET order == orders[id]
        m     == id.market
    IN  /\ order.delegate # NoKey => ActiveDelegation(id.owner, order.delegate, m)
        /\ order.terms.side = SELL =>
             /\ Delivers(order.terms) <= market[m].bases
             /\ legs[<<m, Delivers(order.terms)>>].active
        /\ <<m, id.owner>> \in wallets /\ HasTrader(id.owner)
        /\ order.status = LIVE
        /\ market[m].state = OPEN /\ ~config.paused
        /\ now < Terms[m].cutoff /\ now < order.terms.expiry
        /\ order.terms.nonce >= minimumNonce[id.owner]

Candidates(m, terms) ==
    {id \in DOMAIN orders :
       /\ id.market = m
       /\ orders[id].terms.branch = terms.branch
       /\ orders[id].terms.side # terms.side
       /\ LiveOrder(id)}

(* A candidate a snapshot of one moment cannot hold fails the planning.    *)
Canonical(m, terms, id) ==
    LET order == orders[id]
    IN  /\ order.terms.tif = RESTING
        /\ order.remaining \in 1 .. order.terms.quantity
        /\ order.remaining % Caps(m).step = 0
        /\ order.sequence < sequence[<<m, terms.branch>>]

Eligible(m, terms) ==
    {id \in Candidates(m, terms) :
       LET maker == orders[id].terms
           bid   == IF terms.side = BUY THEN terms ELSE maker
           ask   == IF terms.side = BUY THEN maker ELSE terms
       IN  /\ Accepts(bid, Delivers(ask)) /\ LegTradable(m, Delivers(ask))
           /\ now < maker.expiry
           /\ maker.maxFee >= config.makerBps
           /\ IF terms.side = BUY THEN maker.price <= terms.price
                                  ELSE maker.price >= terms.price}

(* The best price first, then the oldest. *)
Sooner(side, a, b) ==
    IF orders[a].terms.price = orders[b].terms.price
    THEN orders[a].sequence < orders[b].sequence
    ELSE (orders[a].terms.price < orders[b].terms.price) = (side = BUY)

----------------------------------------------------------------------------
(* The plan.                                                               *)

(* An ask that its reservation no longer covers at the live multiplier is  *)
(* passed over; one that it fills up returns what is left of it.           *)
Covered(m, id, quantity) ==
    LET order == orders[id]
    IN  order.terms.side = SELL =>
          ClientRaw(m, Delivers(order.terms), quantity, FALSE) <= order.reserved

Surplus(m, id, quantity) ==
    LET order == orders[id]
    IN  /\ order.terms.side = SELL /\ quantity = order.remaining
        /\ order.reserved > ClientRaw(m, Delivers(order.terms), quantity, FALSE)

(* One turn of the loop: b is the plan so far, left what it does not fill. *)
Take(m, cap, b, id) ==
    LET order    == orders[id]
        quantity == IF b.left < order.remaining THEN b.left ELSE order.remaining
    IN  IF b.left = 0 \/ Len(b.legs) = cap \/ ~Covered(m, id, quantity) THEN b
        ELSE [legs     |-> Append(b.legs, [id |-> id, quantity |-> quantity]),
              expected |-> Append(b.expected, order.remaining),
              surplus  |-> Append(b.surplus, Surplus(m, id, quantity)),
              left     |-> b.left - quantity,
              deadline |-> IF order.terms.expiry < b.deadline THEN order.terms.expiry
                                                              ELSE b.deadline]

(* The plan after each of the eligible makers. *)
Turns(m, terms, cap) ==
    LET queue == Seqs!SetToSortSeq(Eligible(m, terms), LAMBDA a, b : Sooner(terms.side, a, b))
        first == [legs |-> <<>>, expected |-> <<>>, surplus |-> <<>>, left |-> terms.quantity,
                  deadline |-> IF now + PlanLife < terms.expiry THEN now + PlanLife
                                                                ELSE terms.expiry]
        after[i \in 0 .. Len(queue)] ==
          IF i = 0 THEN first ELSE Take(m, cap, after[i - 1], queue[i])
    IN  after

AtomicPlan(m, terms, turns) ==
    LET last == turns[Cardinality(DOMAIN turns) - 1]
    IN  [legs |-> last.legs, expected |-> last.expected, surplus |-> last.surplus,
         left |-> last.left, deadline |-> last.deadline,
         minFill |-> IF terms.tif = IMMEDIATE /\ last.legs # <<>> THEN Caps(m).step ELSE 0,
         next |-> sequence[<<m, terms.branch>>],
         maker |-> config.makerBps, taker |-> config.takerBps]

(* planOrder accepts the order. *)
PlanInputOk(m, terms) ==
    /\ terms.side = SELL => LegTradable(m, Delivers(terms))
    /\ terms.quantity % Caps(m).step = 0 /\ now < terms.expiry
    /\ \A id \in Candidates(m, terms) : Canonical(m, terms, id)

(* planOrder returns the plan of these turns: an order that would rest     *)
(* across a maker it has no room for is refused, and its fee cap holds.    *)
PlanOutputOk(m, terms, cap, turns, plan) ==
    /\ terms.tif = RESTING =>
         \A i \in DOMAIN turns \ {0} :
           turns[i - 1].left > 0 => Len(turns[i - 1].legs) < cap
    /\ \A i \in DOMAIN plan.legs :
         ClientQuote(plan.legs[i].quantity, orders[plan.legs[i].id].terms.price, FALSE) > 0
    /\ plan.legs # <<>> => terms.maxFee >= config.takerBps

(* A plan too large for a transaction, which carries fit makers, is made   *)
(* again with fewer.                                                       *)
FittingCap(full, fit) ==
    IF Len(full[Cardinality(DOMAIN full) - 1].legs) <= fit THEN MaxMakers ELSE fit

----------------------------------------------------------------------------
(* The order the plan is for.                                              *)

(* parseOrder: an order is complete and its salt carries its nonce where   *)
(* one is bound; a delegate trades for the owner only.                     *)
ParsedOrder(actor, o, salt, terms) ==
    /\ terms.quantity > 0 /\ terms.price > 0
    /\ BoundNonce[salt] # Unbound => BoundNonce[salt] = terms.nonce
    /\ actor # o => terms.recipient = o /\ BoundNonce[salt] = terms.nonce
    /\ terms.bases # {} /\ (terms.side = SELL => Cardinality(terms.bases) = 1)
    /\ terms.maxFee <= MaxFeeBps

OrderLegsOk(m, terms) ==
    /\ terms.bases # {} /\ terms.bases \subseteq 1 .. market[m].bases
    /\ IF terms.side = SELL
       THEN Cardinality(terms.bases) = 1 /\ LegTradable(m, Delivers(terms))
       ELSE \E c \in terms.bases : LegTradable(m, c)

(* assertDelegatedOrder. *)
DelegatedOrderOk(actor, o, m, terms) ==
    LET grant    == grants[<<o, actor>>]
        notional == ClientQuote(terms.quantity, terms.price, TRUE)
    IN  /\ ActiveDelegation(o, actor, m)
        /\ terms.expiry <= grant.expiresAt /\ terms.maxFee <= grant.maxFee
        /\ notional <= grant.maxOrder /\ notional <= grant.remaining

(* createOrderPlan goes on to plan the order. *)
CreateOrderPlanOk(actor, o, m, salt, terms) ==
    LET caps     == Caps(m)
        notional == ClientQuote(terms.quantity, terms.price, TRUE)
    IN  /\ ParsedOrder(actor, o, salt, terms)
        /\ ~config.paused /\ market[m].state = OPEN
        /\ Terms[m].open <= now /\ now < Terms[m].cutoff
        /\ now < terms.expiry /\ terms.expiry <= Terms[m].cutoff
        /\ terms.quantity % caps.step = 0 /\ terms.price % caps.tick = 0
        /\ terms.quantity <= caps.maxQuantity
        /\ notional \in caps.minNotional .. caps.maxOrder
        /\ LegsReadable(m) /\ OrderLegsOk(m, terms)
        /\ actor # o => HasTrader(o) /\ DelegatedOrderOk(actor, o, m, terms)
        /\ HasTrader(o) => terms.nonce >= minimumNonce[o]
        /\ PlanInputOk(m, terms)

----------------------------------------------------------------------------
(* The transaction that carries the plan.                                  *)

(* The wallet checks a plan it was sent without trusting its totals.       *)
ParseAtomicPlanOk(m, terms, plan) ==
    LET filled[i \in 0 .. Len(plan.legs)] ==
          IF i = 0 THEN 0 ELSE filled[i - 1] + plan.legs[i].quantity
    IN  /\ Len(plan.legs) <= MaxMakers
        /\ Len(plan.expected) = Len(plan.legs) /\ Len(plan.surplus) = Len(plan.legs)
        /\ \A i \in DOMAIN plan.legs :
             LET leg   == plan.legs[i]
                 maker == orders[leg.id].terms
                 bid   == IF terms.side = BUY THEN terms ELSE maker
                 ask   == IF terms.side = BUY THEN maker ELSE terms
             IN  /\ \A j \in 1 .. i - 1 : plan.legs[j].id # leg.id
                 /\ leg.quantity \in 1 .. plan.expected[i]
                 /\ filled[i] <= terms.quantity
                 /\ plan.expected[i] <= maker.quantity
                 /\ leg.id.market = m /\ maker.branch = terms.branch
                 /\ maker.side # terms.side /\ maker.tif = RESTING
                 /\ Accepts(bid, Delivers(ask)) /\ bid.price >= ask.price
                 /\ maker.maxFee >= plan.maker
        /\ plan.legs # <<>> => plan.taker <= terms.maxFee
        /\ plan.deadline <= terms.expiry
        /\ plan.left = terms.quantity - filled[Len(plan.legs)]
        /\ plan.minFill <= filled[Len(plan.legs)]

(* The base legs whose custody the transaction carries. *)
Touched(terms, plan) ==
    IF terms.side = SELL THEN terms.bases
    ELSE {Delivers(orders[plan.legs[i].id].terms) : i \in DOMAIN plan.legs}

(* Slip: an ask that the plan fills up is expected to return nothing.      *)
RefundsOfBids(plan, i) ==
    LET maker    == orders[plan.legs[i].id].terms
        quantity == plan.legs[i].quantity
        left     == plan.expected[i] - quantity
    IN  /\ maker.side = BUY
        /\ ClientQuote(plan.expected[i], maker.price, TRUE) - ClientQuote(left, maker.price, TRUE)
             > ClientQuote(quantity, maker.price, FALSE)

(* A maker that gets something back to its funding asset. *)
Refunds(plan, i) ==
    LET maker    == orders[plan.legs[i].id].terms
        quantity == plan.legs[i].quantity
        left     == plan.expected[i] - quantity
    IN  IF maker.side = BUY
        THEN ClientQuote(plan.expected[i], maker.price, TRUE)
               - ClientQuote(left, maker.price, TRUE) > ClientQuote(quantity, maker.price, FALSE)
        ELSE left = 0 /\ plan.surplus[i]

(* The credits the transaction carries, as <<owner, collateral>> pairs. *)
CreditFrames(o, terms, plan) ==
    (IF terms.funding = UNDERLYING THEN {<<o, Delivers(terms)>>} ELSE {})
      \cup {<<plan.legs[i].id.owner, Delivers(orders[plan.legs[i].id].terms)>> :
              i \in {j \in DOMAIN plan.legs :
                       /\ orders[plan.legs[j].id].terms.funding = UNDERLYING
                       /\ Refunds(plan, j)}}

(* What the owner must have on deposit before the order is placed. *)
Required(m, terms) ==
    IF terms.side = BUY THEN ClientQuote(terms.quantity, terms.price, TRUE)
    ELSE ClientRaw(m, Delivers(terms), terms.quantity, TRUE)

Funded(o, m, terms) ==
    LET a == FundingAsset(terms)
        k == MintOf(m, Delivers(terms))
    IN  /\ {<<m, o>>, <<m, terms.recipient>>} \subseteq wallets
        /\ IF a \in ClaimAssets THEN balance[<<m, o, a>>] >= Required(m, terms)
           ELSE <<k, o>> \in opened /\ available[<<k, o>>] >= Required(m, terms)

----------------------------------------------------------------------------
(* What the planner leaves to the program: the market's exposure limits    *)
(* and the solvency of its pools.                                          *)
RoomFor(o, m, terms) ==
    LET notional == ClientQuote(terms.quantity, terms.price, TRUE)
    IN  /\ held[<<m, o>>] + notional <= Caps(m).maxWallet
        /\ exposure[m] + notional <= Caps(m).maxMarket
        /\ sequence[<<m, terms.branch>>] < MaxSequence
        /\ \A c \in 0 .. market[m].bases : Ready(m, c) /\ SnapshotOk(m, c, 0)

(* A plan that meets the state it was made from is carried out as it was   *)
(* reviewed: the wallet accepts it, the program skips none of its makers   *)
(* and caps none of its quantities, and an owner who deposited what the    *)
(* client asked for gets the order placed.                                 *)
CarriedOut(actor, id, terms, plan) ==
    LET o == id.owner
        m == id.market
    IN  /\ ParseAtomicPlanOk(m, terms, plan)
        /\ \A frames \in {CreditFrames(o, terms, plan)}, touched \in {Touched(terms, plan)} :
             /\ Makers(terms, plan, frames) = plan.legs
             /\ Funded(o, m, terms) /\ RoomFor(o, m, terms) =>
                  /\ PlaceOk(actor, id, terms, plan, frames, touched)
                  /\ \A b \in {Matched(id, Placed(actor, id, terms, plan),
                                       Len(plan.legs), plan.legs)} :
                       /\ CloseOk(id, terms, plan, b)
                       /\ CloseChecks(m, frames, {QUOTE} \cup touched, b)

(* The program would fill all of the maker for this order now. *)
CanTrade(m, terms, id) ==
    LET maker == orders[id].terms
        bid   == IF terms.side = BUY THEN terms ELSE maker
        ask   == IF terms.side = BUY THEN maker ELSE terms
    IN  /\ IsLive(id) /\ Tradable(id)
        /\ maker.branch = terms.branch
        /\ Crosses(terms.side, terms.price, maker.side, maker.price)
        /\ Delivers(ask) \in bid.bases /\ LegOk(m, Delivers(ask))
        /\ maker.side = SELL => Raw(m, Delivers(ask), orders[id].remaining, FALSE)
                                  <= orders[id].reserved

Beats(side, a, b) ==
    \/ side = BUY /\ a.terms.price < b.terms.price
    \/ side = SELL /\ a.terms.price > b.terms.price
    \/ a.terms.price = b.terms.price /\ a.sequence < b.sequence

(* No maker that could trade is left with something while the plan fills a *)
(* worse one, or while the order comes to rest across it.                  *)
BestFirst(m, terms, fit, plan) ==
    LET Rest(id) == orders[id].remaining
                      - Sum([i \in {j \in DOMAIN plan.legs : plan.legs[j].id = id} |->
                               plan.legs[i].quantity])
    IN  \A id \in OrdersOf(m) :
          CanTrade(m, terms, id) /\ Rest(id) > 0 =>
            /\ plan.left > 0 => terms.tif = IMMEDIATE /\ Len(plan.legs) = fit
            /\ \A i \in DOMAIN plan.legs :
                 plan.legs[i].id = id \/ ~Beats(terms.side, orders[id], orders[plan.legs[i].id])

(* A plan of any of the sizes that transactions carry holds up.  (The      *)
(* quantifiers over one value compute it once.)                            *)
PlanHolds(actor, id, terms) ==
    LET m == id.market
    IN  CreateOrderPlanOk(actor, id.owner, m, id.salt, terms) =>
          \A full \in {Turns(m, terms, MaxMakers)}, fit \in 1 .. MaxMakers :
            \A cap \in {FittingCap(full, fit)} :
              \A turns \in {IF cap = MaxMakers THEN full ELSE Turns(m, terms, cap)} :
                \A plan \in {AtomicPlan(m, terms, turns)} :
                  PlanOutputOk(m, terms, cap, turns, plan) =>
                    CarriedOut(actor, id, terms, plan) /\ BestFirst(m, terms, fit, plan)
=============================================================================
