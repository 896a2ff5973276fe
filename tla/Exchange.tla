------------------------------ MODULE Exchange ------------------------------
(***************************************************************************)
(* The order book of a market (exchange.rs, maintenance.rs).  An order     *)
(* account rests on the chain with its collateral in escrow; there is no   *)
(* book on the chain.  A placement brings its own plan: the makers it      *)
(* wants to fill and the sequence of the branch it was planned at.  What   *)
(* happened to a maker since then makes the handler skip it or fill less;  *)
(* what was placed since then is caught by the ring of recent placements.  *)
(*                                                                         *)
(* A handler works on memory images and writes them at the end, so an      *)
(* action computes its result on a record of the accounts (the ledger) and *)
(* either commits all of it or nothing.                                    *)
(*                                                                         *)
(* An order's identity is its address: market, owner and salt.  A salt may *)
(* carry the order's nonce (BoundNonce).                                   *)
(***************************************************************************)
EXTENDS Delegation, Sequences

CONSTANTS
    Salts,        \* order salts
    BoundNonce,   \* [Salts -> nonce carried by the salt, or Unbound]
    OrderTerms,   \* [Owners -> the order terms the owner submits]
    Plans,        \* the maker quantities of a plan leg
    MaxMakers,    \* MAX_MAKERS: orders one instruction handles
    Window,       \* RECENT: placements a branch remembers
    MaxSequence,  \* bound: placements per branch
    MaxLag        \* bound: plans are at most this many placements behind

Unbound == -1

UNDERLYING == 0   \* OrderTerms::funding
CLAIMS == 1
RESTING == 0      \* OrderTerms::tif
IMMEDIATE == 1

(* The terms an owner may sign (state.rs OrderTerms).                      *)
SignedTerms ==
    [recipient : Owners, quantity : U64, price : Nat, expiry : Nat, nonce : Nat, maxFee : Nat,
     branch : {0, 1}, side : {BUY, SELL}, funding : {UNDERLYING, CLAIMS},
     tif : {RESTING, IMMEDIATE}, bases : SUBSET (1 .. MaxBases)]

ASSUME ExchangeAssumption ==
    /\ \A o \in Owners : OrderTerms[o] \subseteq SignedTerms
    /\ \A m \in Markets : Terms[m].caps.tick \in Nat \ {0}
    /\ BoundNonce \in [Salts -> Nat \cup {Unbound}]
    /\ Plans \subseteq Nat
    /\ MaxMakers \in Nat /\ Window \in Nat \ {0} /\ MaxSequence \in Nat /\ MaxLag \in Nat

VARIABLES
    orders,    \* the Order accounts: id -> order; its field planned is history, the
               \* sequence of the branch at which it was planned
    sequence,  \* Market::sequence of each branch
    ring,      \* Market::recent of each branch
    exposure,  \* Market::open_notional
    held,      \* Wallet::open_notional
    used       \* history: every id that ever had an account

exchangeVars == <<orders, sequence, ring, exposure, held, used>>

LIVE == 1         \* Order::status
FILLED == 2
CANCELLED == 3

ExchangeInit ==
    /\ orders = <<>>
    /\ sequence = [x \in Markets \X {0, 1} |-> 0]
    /\ ring = [x \in Markets \X {0, 1} |->
                 [s \in 0 .. Window - 1 |-> [ticks |-> 0, side |-> SIDE_NONE]]]
    /\ exposure = [m \in Markets |-> 0]
    /\ held = [x \in Markets \X Owners |-> 0]
    /\ used = {}

Caps(m) == Terms[m].caps
IsLive(id) == id \in DOMAIN orders /\ orders[id].status = LIVE

(* The collateral an order delivers, and the asset reserved for it. *)
Delivers(terms) == IF terms.side = BUY THEN QUOTE ELSE CHOOSE c \in terms.bases : TRUE
FundingAsset(terms) ==
    IF terms.funding = UNDERLYING THEN Underlying(Delivers(terms))
                                  ELSE Claim(Delivers(terms), terms.branch)

(* Share units in raw units of a base leg, at the live multiplier. *)
Raw(m, c, units, up) == BaseRaw(units, legs[<<m, c>>].scale, LiveMultiplier(MintOf(m, c)), up)
RawOk(m, c, units, up) ==
    /\ MultiplierOk(LiveMultiplier(MintOf(m, c)))
    /\ BaseRawOk(units, legs[<<m, c>>].scale, LiveMultiplier(MintOf(m, c)), up)

----------------------------------------------------------------------------
(* The images a handler works on.                                          *)

Ledger == [available |-> available, balance |-> balance, credits |-> credits,
           escrow |-> escrow, backing |-> backing, fees |-> fees, orders |-> orders,
           exposure |-> exposure, held |-> held, minted |-> [c \in Collaterals |-> 0],
           ok |-> TRUE]

Credit(b, m, o, a, n) ==
    IF a \in ClaimAssets
    THEN [b EXCEPT !.balance[<<m, o, a>>] = @ + n, !.credits[<<m, a>>] = @ + n]
    ELSE [b EXCEPT !.available[<<MintOf(m, CollateralOf(a)), o>>] = @ + n]

Expose(b, m, o, n) == [b EXCEPT !.exposure[m] = @ + n, !.held[<<m, o>>] = @ + n]

(* Return what an order still reserves and close it. *)
Release(b, id) ==
    LET order    == b.orders[id]
        a        == FundingAsset(order.terms)
        returned == Credit(b, id.market, id.owner, a, order.reserved)
    IN  [Expose(returned, id.market, id.owner, -order.notional)
           EXCEPT !.escrow[<<id.market, a>>] = @ - order.reserved,
                  !.orders[id] = [order EXCEPT !.remaining = 0, !.reserved = 0,
                                               !.notional = 0, !.status = CANCELLED]]

(* Slip: the fee is withheld before the claims are minted.                 *)
SettleNetOfFee(b, m, c, funding, funder, recipient, branch, amount, fee) ==
    LET minted == IF funding = UNDERLYING
                  THEN Credit([b EXCEPT !.backing[<<m, c>>] = @ + amount,
                                        !.minted[c] = @ + amount - fee],
                              m, funder, Claim(c, 1 - branch), amount - fee)
                  ELSE b
    IN  [Credit(minted, m, recipient, Claim(c, branch), amount - fee)
           EXCEPT !.ok = @ /\ fee <= amount]

(* Deliver amount of a collateral as claims on the branch: newly minted    *)
(* complete sets when the funder reserved the underlying.                  *)
Settle(b, m, c, funding, funder, recipient, branch, amount, fee) ==
    LET active == Claim(c, branch)
        minted == IF funding = UNDERLYING
                  THEN Credit([b EXCEPT !.backing[<<m, c>>] = @ + amount,
                                        !.minted[c] = @ + amount],
                              m, funder, Claim(c, 1 - branch), amount)
                  ELSE b
    IN  [Credit(minted, m, recipient, active, amount - fee)
           EXCEPT !.fees[<<m, active>>] = @ + fee,
                  !.ok = @ /\ fee <= amount]

(* What a fill of quantity moves: the quote and the bid's reservation, raw *)
(* units of the base leg, the surplus of a completed ask, and both fees.   *)
Moves(m, buy, sell, quantity, takerBuys) ==
    LET fill   == Fill(quantity, buy.remaining, sell.remaining, buy.terms.price,
                       sell.terms.price, ~takerBuys)
        amount == Raw(m, Delivers(sell.terms), quantity, FALSE)
    IN  [fill      |-> fill,
         amount    |-> amount,
         surplus   |-> IF quantity = sell.remaining THEN sell.reserved - amount ELSE 0,
         buyerFee  |-> Fee(amount, IF takerBuys THEN config.takerBps ELSE config.makerBps,
                           buy.carry),
         sellerFee |-> Fee(fill.quote, IF takerBuys THEN config.makerBps ELSE config.takerBps,
                           sell.carry)]

Bought(buy, quantity, moves) ==
    [buy EXCEPT !.remaining = @ - quantity, !.filled = @ + quantity,
                !.reserved = moves.fill.buyerReserved,
                !.notional = @ - moves.fill.buyerReduction,
                !.carry = moves.buyerFee.carry,
                !.status = IF quantity = buy.remaining THEN FILLED ELSE LIVE]

Sold(sell, quantity, moves) ==
    [sell EXCEPT !.remaining = @ - quantity, !.filled = @ + quantity,
                 !.reserved = @ - moves.amount - moves.surplus,
                 !.notional = @ - moves.fill.sellerReduction,
                 !.carry = moves.sellerFee.carry,
                 !.status = IF quantity = sell.remaining THEN FILLED ELSE LIVE]

(* Both orders and the escrow of both reservations after the fill. *)
Recorded(b, m, buyId, sellId, quantity, takerBuys, moves) ==
    LET buy  == b.orders[buyId]
        sell == b.orders[sellId]
    IN  [b EXCEPT
          !.orders = [b.orders EXCEPT ![buyId] = Bought(buy, quantity, moves),
                                      ![sellId] = Sold(sell, quantity, moves)],
          !.escrow = [b.escrow EXCEPT
            ![<<m, FundingAsset(buy.terms)>>] = @ - moves.fill.buyerReduction,
            ![<<m, FundingAsset(sell.terms)>>] = @ - moves.amount - moves.surplus],
          !.ok = /\ @
                 /\ FillOk(quantity, Caps(m).step, buy.remaining, sell.remaining,
                           buy.terms.price, sell.terms.price, ~takerBuys)
                 /\ RawOk(m, Delivers(sell.terms), quantity, FALSE)
                 /\ moves.amount \in 1 .. sell.reserved]

(* Return improvement and surplus, lower the exposures and deliver.        *)
Delivered(b, m, buyId, sellId, moves) ==
    LET buy       == b.orders[buyId].terms
        sell      == b.orders[sellId].terms
        improved  == Credit(b, m, buyId.owner, FundingAsset(buy), moves.fill.improvement)
        refunded  == Credit(improved, m, sellId.owner, FundingAsset(sell), moves.surplus)
        lowered   == Expose(refunded, m, buyId.owner, -moves.fill.buyerReduction)
        reduced   == Expose(lowered, m, sellId.owner, -moves.fill.sellerReduction)
        delivered == Settle(reduced, m, Delivers(sell), sell.funding, sellId.owner,
                            buy.recipient, buy.branch, moves.amount, moves.buyerFee.amount)
    IN  Settle(delivered, m, QUOTE, buy.funding, buyId.owner, sell.recipient,
               buy.branch, moves.fill.quote, moves.sellerFee.amount)

Trade(b, m, buyId, sellId, quantity, takerBuys, moves) ==
    Delivered(Recorded(b, m, buyId, sellId, quantity, takerBuys, moves),
              m, buyId, sellId, moves)

(* Fill quantity of the maker order against the taker order. *)
Execute(b, m, takerId, makerId, quantity) ==
    LET takerBuys == b.orders[takerId].terms.side = BUY
        buyId     == IF takerBuys THEN takerId ELSE makerId
        sellId    == IF takerBuys THEN makerId ELSE takerId
    IN  Trade(b, m, buyId, sellId, quantity, takerBuys,
              Moves(m, b.orders[buyId], b.orders[sellId], quantity, takerBuys))

(* The fills of makers, in the order of the plan of n legs. *)
ExecuteAll(b, m, takerId, n, makers) ==
    LET after[i \in 0 .. n] ==
          IF i = 0 THEN b
          ELSE IF i \in DOMAIN makers
          THEN Execute(after[i - 1], m, takerId, makers[i].id, makers[i].quantity)
          ELSE after[i - 1]
    IN  after[n]

(* Every checked arithmetic operation of the instruction succeeded.        *)
Fits(b) ==
    /\ b.ok
    /\ \A x \in DOMAIN b.available : b.available[x] \in U64
    /\ \A x \in DOMAIN b.balance : b.balance[x] \in U64
    /\ \A x \in DOMAIN b.backing : b.backing[x] \in U64
    /\ \A x \in DOMAIN b.fees : b.fees[x] \in U64
    /\ \A x \in DOMAIN b.escrow : b.escrow[x] >= 0
    /\ \A x \in DOMAIN b.credits : b.credits[x] >= 0
    /\ \A m \in Markets : b.exposure[m] >= 0
    /\ \A x \in DOMAIN b.held : b.held[x] >= 0

Commit(b) ==
    /\ available' = b.available /\ balance' = b.balance /\ credits' = b.credits
    /\ escrow' = b.escrow /\ backing' = b.backing /\ fees' = b.fees
    /\ exposure' = b.exposure /\ held' = b.held
    /\ UNCHANGED tripped

RollBack ==
    /\ tripped' = TRUE
    /\ UNCHANGED <<available, balance, credits, escrow, backing, fees, exposure, held>>

(* What settlement never touches. *)
settledElsewhere == <<configVars, marketVars, issuer, pools, liability, reserve, opened,
                      seized, wallets, burned, minimumNonce, epoch>>

(* pool::conserved over the credits lent to the instruction (frames are    *)
(* <<owner, collateral>> pairs), and no credit left outside a frame.       *)
Lent(b, frames, m, c) ==
    Sum([p \in {q \in Owners : <<q, c>> \in frames} |-> b.available[<<MintOf(m, c), p>>]])

Conserved(b, frames, m) ==
    /\ \A c \in 0 .. market[m].bases :
         Lent(b, frames, m, c) + b.escrow[<<m, Underlying(c)>>] + b.backing[<<m, c>>]
           = Liability(m, c, Lent(Ledger, frames, m, c))
    /\ \A c \in 0 .. market[m].bases, p \in Owners :
         <<p, c>> \notin frames => b.available[<<MintOf(m, c), p>>] = available[<<MintOf(m, c), p>>]

----------------------------------------------------------------------------
(* Placing an order.                                                       *)

TermsOk(m, salt, terms, touched) ==
    /\ BoundNonce[salt] # Unbound => terms.nonce = BoundNonce[salt]
    /\ terms.maxFee <= MaxFeeBps
    /\ terms.bases # {} /\ terms.bases \subseteq 1 .. market[m].bases
    /\ terms.side = SELL => Cardinality(terms.bases) = 1
    /\ touched \subseteq 1 .. market[m].bases

(* pool::validate_leg: the custody and issuer state new exposure needs.    *)
LegOk(m, c) ==
    /\ InspectOk(MintOf(m, c)) /\ ~issuer[MintOf(m, c)].frozen
    /\ Exposable(m, c)

(* A plan leg names a maker that can trade with these terms at all. *)
WellFormed(terms, plan, leg) ==
    LET maker == orders[leg.id]
        bid   == IF terms.side = BUY THEN terms ELSE maker.terms
        ask   == IF terms.side = BUY THEN maker.terms ELSE terms
    IN  /\ leg.quantity > 0
        /\ maker.terms.tif = RESTING
        /\ maker.terms.branch = terms.branch /\ maker.terms.side # terms.side
        /\ maker.sequence < plan.next
        /\ Delivers(ask) \in bid.bases

(* Slip: a maker is judged as it was when the plan was made.               *)
TradableAsPlanned(id) ==
    /\ ExpiryOk(now, orders[id].terms.expiry, Terms[id.market].cutoff)
    /\ config.makerBps <= orders[id].terms.maxFee

(* The maker's owner, delegate and fee cap still let it trade.             *)
Tradable(id) ==
    LET maker == orders[id]
    IN  /\ ExpiryOk(now, maker.terms.expiry, Terms[id.market].cutoff)
        /\ NonceOk(maker.terms.nonce, minimumNonce[id.owner])
        /\ config.makerBps <= maker.terms.maxFee
        /\ maker.delegate # NoKey => Authorized(id.owner, maker.delegate, id.market, TRADE)

Capped(leg) ==
    IF leg.quantity <= orders[leg.id].remaining THEN leg.quantity ELSE orders[leg.id].remaining

(* The maker can deliver the fill, and what it returns to its funding      *)
(* credit has a frame to go to.                                            *)
Deliverable(terms, leg, frames) ==
    LET maker    == orders[leg.id]
        m        == leg.id.market
        quantity == Capped(leg)
        amount   == Raw(m, Delivers(maker.terms), quantity, FALSE)
        fill     == Fill(quantity, maker.remaining, quantity, maker.terms.price,
                         terms.price, TRUE)
        framed   == <<leg.id.owner, Delivers(maker.terms)>> \in frames
    IN  IF terms.side = BUY
        THEN /\ amount \in 1 .. maker.reserved
             /\ quantity = maker.remaining /\ maker.reserved > amount
                  /\ maker.terms.funding = UNDERLYING => framed
        ELSE fill.improvement > 0 /\ maker.terms.funding = UNDERLYING => framed

(* What the handler still refuses of a maker it is about to judge.         *)
Judged(m, terms, leg, touched) ==
    /\ config.takerBps <= terms.maxFee
    /\ IF terms.side = BUY
       THEN LET c == Delivers(orders[leg.id].terms)
            IN  c \in touched /\ RawOk(m, c, Capped(leg), FALSE)
       ELSE FillOk(Capped(leg), Caps(m).step, orders[leg.id].remaining, Capped(leg),
                   orders[leg.id].terms.price, terms.price, TRUE)

Fillable(terms, leg, frames) ==
    IsLive(leg.id) /\ Tradable(leg.id) /\ Deliverable(terms, leg, frames)

(* The makers left of a plan, by the plan's legs: dead ones are skipped,   *)
(* shrunk ones capped.                                                     *)
Makers(terms, plan, frames) ==
    [i \in {j \in DOMAIN plan.legs : Fillable(terms, plan.legs[j], frames)} |->
       [id |-> plan.legs[i].id, quantity |-> Capped(plan.legs[i])]]

Filled(makers) == Sum([i \in DOMAIN makers |-> makers[i].quantity])

(* Debit the owner, escrow the reservation and create the order account.   *)
Reserve(id, terms, delegate, reserved, notional, planned) ==
    LET a     == FundingAsset(terms)
        order == [terms |-> terms, delegate |-> delegate, remaining |-> terms.quantity,
                  filled |-> 0, reserved |-> reserved, notional |-> notional,
                  sequence |-> sequence[<<id.market, terms.branch>>], carry |-> 0,
                  status |-> LIVE, planned |-> planned]
        accounts == [x \in DOMAIN orders \cup {id} |-> IF x = id THEN order ELSE orders[x]]
    IN  [Expose(Credit([Ledger EXCEPT !.orders = accounts], id.market, id.owner, a, -reserved),
                id.market, id.owner, notional)
           EXCEPT !.escrow[<<id.market, a>>] = @ + reserved]

(* The images after the makers' fills and, for an immediate order, the     *)
(* release of its rest.                                                    *)
ReleaseRest(b, id) ==
    IF b.orders[id].terms.tif = IMMEDIATE /\ b.orders[id].remaining # 0
    THEN Release(b, id) ELSE b

Matched(id, placed, n, makers) ==
    ReleaseRest(ExecuteAll(placed, id.market, id, n, makers), id)

(* A collateral's custody image once the claims of the fills are minted.   *)
MintedImage(b, m, c, lent) ==
    LET img == Image(m, c, lent)
        y   == Claim(c, 0)
        n   == Claim(c, 1)
        owed(a) == b.credits[<<m, a>>] + b.escrow[<<m, a>>] + b.fees[<<m, a>>]
    IN  [img EXCEPT !.owed = lent + b.escrow[<<m, Underlying(c)>>] + b.backing[<<m, c>>],
                    !.backing = b.backing[<<m, c>>],
                    !.supply = <<@[1] + b.minted[c], @[2] + b.minted[c]>>,
                    !.vault = <<@[1] + b.minted[c], @[2] + b.minted[c]>>,
                    !.claims = <<owed(y), owed(n)>>]

(* The images b a placement would end with are refused for their amounts,  *)
(* for an order it would rest across, or for too much exposure.            *)
CloseOk(id, terms, plan, b) ==
    LET m == id.market
        x == <<m, terms.branch>>
    IN  /\ Fits(b)
        /\ \A y \in DOMAIN supply :
             y[1] = m => /\ supply[y] + b.minted[CollateralOf(y[2])] \in U64
                         /\ vault[y] + b.minted[CollateralOf(y[2])] \in U64
        /\ b.orders[id].status = LIVE =>
             RaceFree(Window, plan.next, sequence[x], terms.side,
                      terms.price \div Caps(m).tick, ring[x])
        /\ FinalExposureOk(Caps(m), b.held[<<m, id.owner>>], b.exposure[m])

(* What the handler checks of its own work before it writes the images.    *)
CloseChecks(m, frames, involved, b) ==
    /\ \A c \in involved : CheckCollateral(m, MintedImage(b, m, c, Lent(b, frames, m, c)))
    /\ Conserved(b, frames, m)

(* Accept the images b the placement ends with, or refuse its own work.    *)
ClosePlacement(actor, id, terms, plan, frames, involved, b) ==
    LET m       == id.market
        q       == sequence[<<m, terms.branch>>]
        resting == b.orders[id].status = LIVE
        minted  == [x \in DOMAIN supply |-> IF x[1] = m THEN b.minted[CollateralOf(x[2])] ELSE 0]
    IN  /\ CloseOk(id, terms, plan, b)
        /\ IF CloseChecks(m, frames, involved, b)
           THEN /\ Commit(b)
                /\ orders' = b.orders
                /\ used' = used \cup {id}
                /\ sequence' = [sequence EXCEPT ![<<m, terms.branch>>] = q + 1]
                /\ ring' = [ring EXCEPT ![<<m, terms.branch>>][q % Window] =
                              [ticks |-> terms.price \div Caps(m).tick,
                               side  |-> IF resting THEN terms.side ELSE SIDE_NONE]]
                /\ supply' = [x \in DOMAIN supply |-> supply[x] + minted[x]]
                /\ vault' = [x \in DOMAIN vault |-> vault[x] + minted[x]]
                /\ grants' = IF actor = id.owner THEN grants
                             ELSE [grants EXCEPT ![<<id.owner, actor>>].remaining =
                                     @ - QuoteUp(terms.quantity, terms.price)]
           ELSE RollBack /\ UNCHANGED <<orders, used, sequence, ring, supply, vault, grants>>
        /\ UNCHANGED settledElsewhere

(* The images once the order's collateral is in escrow. *)
Placed(actor, id, terms, plan) ==
    LET notional == QuoteUp(terms.quantity, terms.price)
        reserved == IF terms.side = BUY THEN notional
                    ELSE Raw(id.market, Delivers(terms), terms.quantity, TRUE)
    IN  Reserve(id, terms, IF actor = id.owner THEN NoKey ELSE actor, reserved, notional,
                plan.next)

(* The order, its plan and the accounts it comes with are accepted. *)
PlaceOk(actor, id, terms, plan, frames, touched) ==
    LET o        == id.owner
        m        == id.market
        q        == sequence[<<m, terms.branch>>]
        involved == {QUOTE} \cup touched
    IN  /\ id \notin DOMAIN orders
        /\ q < MaxSequence
        /\ TermsOk(m, id.salt, terms, touched)
        /\ TradingOk(market[m].state, config.paused, now, Terms[m].open, Terms[m].cutoff)
        /\ ExpiryOk(now, terms.expiry, Terms[m].cutoff)
        /\ GuardOk(now, plan.deadline, terms.expiry, <<plan.next, plan.maker, plan.taker>>,
                   <<q, config.makerBps, config.takerBps>>)
        /\ Len(plan.legs) <= MaxMakers
        /\ \A i, j \in DOMAIN plan.legs : i # j => plan.legs[i].id # plan.legs[j].id
        /\ \A c \in touched : LegOk(m, c)
        /\ \A c \in involved : Ready(m, c) /\ SnapshotOk(m, c, 0)
        /\ {<<m, o>>, <<m, terms.recipient>>} \subseteq wallets
        /\ \A f \in frames : f[2] \in involved /\ <<MintOf(m, f[2]), f[1]>> \in opened
        /\ NonceOk(terms.nonce, minimumNonce[o])
        /\ OrderOk(Caps(m), terms.quantity, terms.price)
        /\ actor # o => /\ Authorized(o, actor, m, TRADE)
                        /\ ChargeOk(o, actor, terms, BoundNonce[id.salt] = terms.nonce,
                                    QuoteUp(terms.quantity, terms.price))
        /\ \A i \in DOMAIN plan.legs :
             LET leg == plan.legs[i]
             IN  IsLive(leg.id) =>
                   /\ leg.id.market = m /\ WellFormed(terms, plan, leg)
                   /\ Tradable(leg.id) => Judged(m, terms, leg, touched)
        /\ Filled(Makers(terms, plan, frames)) \in plan.minFill .. terms.quantity
        /\ terms.side = SELL => terms.bases \subseteq touched
        /\ terms.side = SELL => RawOk(m, Delivers(terms), terms.quantity, TRUE)
        /\ terms.funding = UNDERLYING => <<o, Delivers(terms)>> \in frames
        /\ Fits(Placed(actor, id, terms, plan))

Place(actor, o, m, salt, terms, plan, frames, touched) ==
    LET id     == [market |-> m, owner |-> o, salt |-> salt]
        makers == Makers(terms, plan, frames)
    IN  /\ PlaceOk(actor, id, terms, plan, frames, touched)
        /\ ClosePlacement(actor, id, terms, plan, frames, {QUOTE} \cup touched,
                          Matched(id, Placed(actor, id, terms, plan), Len(plan.legs), makers))

----------------------------------------------------------------------------
(* Leaving the book.                                                       *)

(* An ask on a delisted leg, and any order that can never trade again, can *)
(* be released by anyone; so can an order whose grant is not active.       *)
Public(id) ==
    LET terms == orders[id].terms
    IN  \/ terms.side = SELL /\ ~legs[<<id.market, Delivers(terms)>>].active
        \/ Releasable(market[id.market].state, now, terms.expiry, terms.nonce,
                      minimumNonce[id.owner])

MayCancel(actor, id) ==
    LET d == orders[id].delegate
    IN  \/ actor = id.owner
        \/ Public(id)
        \/ d # NoKey /\ ~Active(id.owner, d)
        \/ d # NoKey /\ actor = d /\ Authorized(id.owner, d, id.market, CANCEL)

(* The frame of the owner's credit an underlying-funded order returns to. *)
HasFrame(id) ==
    FundingAsset(orders[id].terms) \in ClaimAssets
      \/ <<MintOf(id.market, Delivers(orders[id].terms)), id.owner>> \in opened

Cancel(actor, id) ==
    /\ IsLive(id)
    /\ MayCancel(actor, id)
    /\ HasFrame(id)
    /\ LET b == Release(Ledger, id)
       IN  /\ Fits(b)
           /\ IF Conserved(b, Owners \X Collaterals, id.market)
              THEN Commit(b) /\ orders' = b.orders
              ELSE RollBack /\ UNCHANGED orders
    /\ UNCHANGED <<settledElsewhere, grants, used, sequence, ring, supply, vault>>

PermanentlyClosed(m) ==
    \/ now >= Terms[m].cutoff
    \/ market[m].state \in {FROZEN, AWAITING, REDEEMABLE, ARCHIVED}

(* Slip: an invalidated order is retired although its salt binds no nonce. *)
RetirableUnbound(id) ==
    PermanentlyClosed(id.market) \/ orders[id].terms.nonce < minimumNonce[id.owner]

Retirable(id) ==
    LET nonce == orders[id].terms.nonce
    IN  \/ PermanentlyClosed(id.market)
        \/ BoundNonce[id.salt] = nonce /\ nonce < minimumNonce[id.owner]

(* The live ones of a batch are released, in its order. *)
ReleaseAll(ids) ==
    LET after[i \in 0 .. Len(ids)] ==
          IF i = 0 THEN Ledger
          ELSE IF IsLive(ids[i]) THEN Release(after[i - 1], ids[i]) ELSE after[i - 1]
    IN  after[Len(ids)]

(* Cancel or retire a batch of one owner's orders.  A completed order in   *)
(* the batch is left as it is; retiring closes the accounts.               *)
ProcessOrders(actor, o, m, ids, retire) ==
    LET batch    == 1 .. Len(ids)
        b        == ReleaseAll(ids)
        closed   == {ids[i] : i \in batch}
        Empty(id) == /\ b.orders[id].status \in {FILLED, CANCELLED}
                     /\ b.orders[id].remaining = 0 /\ b.orders[id].reserved = 0
                     /\ b.orders[id].notional = 0
    IN  /\ Len(ids) \in 1 .. MaxMakers
        /\ \A i, j \in batch : i # j => ids[i] # ids[j]
        /\ closed \subseteq DOMAIN orders
        /\ \A id \in closed : id.market = m /\ id.owner = o /\ (IsLive(id) => HasFrame(id))
        /\ <<m, o>> \in wallets
        /\ actor # o => /\ ~retire
                        /\ Authorized(o, actor, m, CANCEL)
                        /\ \A id \in closed : orders[id].delegate = actor
        /\ retire => \A id \in closed : Retirable(id)
        /\ Fits(b)
        /\ IF (\A id \in closed : Empty(id)) /\ Conserved(b, Owners \X Collaterals, m)
           THEN /\ Commit(b)
                /\ orders' = IF retire THEN [id \in DOMAIN orders \ closed |-> b.orders[id]]
                                       ELSE b.orders
           ELSE RollBack /\ UNCHANGED orders
        /\ UNCHANGED <<settledElsewhere, grants, used, sequence, ring, supply, vault>>

----------------------------------------------------------------------------
(* Placements as callers submit them.  A plan leg names any order account  *)
(* of the market, live or not.  A plan refused for its deadline, fee rates *)
(* or minimum fill changes nothing, so the plans here meet them; naming    *)
(* more base legs than the orders need only adds checks.  Callers lend all *)
(* credits or only the owner's.  lag is how many placements ago the plan   *)
(* was made.                                                               *)
Signers(o) == {o} \cup {d \in Delegates : <<o, d>> \in DOMAIN grants}

PlanLegs(m, terms) ==
    [id : {x \in DOMAIN orders : x.market = m /\ orders[x].terms.side # terms.side},
     quantity : Plans]

NeededLegs(terms, planLegs) ==
    IF terms.side = SELL THEN terms.bases
    ELSE {Delivers(orders[planLegs[i].id].terms) : i \in DOMAIN planLegs}

Submit(o, m, salt, terms, planLegs, lag) ==
    LET next    == sequence[<<m, terms.branch>>] - lag
        touched == NeededLegs(terms, planLegs)
        plan    == [deadline |-> terms.expiry, next |-> next, minFill |-> 0,
                    maker |-> config.makerBps, taker |-> config.takerBps,
                    legs |-> planLegs]
    IN  /\ [market |-> m, owner |-> o, salt |-> salt] \notin DOMAIN orders
        /\ next >= 0
        /\ \E actor \in Signers(o), lent \in {{o}, Owners} :
             LET frames == {f \in lent \X ({QUOTE} \cup touched) :
                              <<MintOf(m, f[2]), f[1]>> \in opened}
             IN  Place(actor, o, m, salt, terms, plan, frames, touched)

PlaceAny ==
    \E o \in Owners, m \in Markets, salt \in Salts, n \in 0 .. MaxMakers, lag \in 0 .. MaxLag :
      \E terms \in OrderTerms[o] :
        \E planLegs \in [1 .. n -> PlanLegs(m, terms)] : Submit(o, m, salt, terms, planLegs, lag)

CancelAny ==
    \E id \in DOMAIN orders, actor \in Owners \cup Delegates : Cancel(actor, id)

ProcessAny ==
    \E o \in Owners, actor \in Owners \cup Delegates, m \in Markets, retire \in BOOLEAN,
       n \in 1 .. MaxMakers :
      \E ids \in [1 .. n -> {x \in DOMAIN orders : x.market = m /\ x.owner = o}] :
        ProcessOrders(actor, o, m, ids, retire)

OrderNext == PlaceAny \/ CancelAny \/ ProcessAny

ExchangeVars == <<vars, delegationVars, exchangeVars>>

ExchangeSpecInit == Init /\ DelegationInit /\ ExchangeInit

ExchangeNext ==
    \/ Next /\ UNCHANGED <<delegationVars, exchangeVars>>
    \/ DelegationNext /\ UNCHANGED <<vars, exchangeVars>>
    \/ OrderNext

ExchangeSpec == ExchangeSpecInit /\ [][ExchangeNext]_ExchangeVars

----------------------------------------------------------------------------
OrdersOf(m) == {id \in DOMAIN orders : id.market = m}
ReservedIn(m, a) ==
    [id \in {x \in OrdersOf(m) : FundingAsset(orders[x].terms) = a} |-> orders[id].reserved]
NotionalOf(ids) == [id \in ids |-> orders[id].notional]

(* The escrow of every asset is exactly what the market's orders reserve,  *)
(* through partial fills, price improvements, round-down deliveries at a   *)
(* changed multiplier, cancellations and retirements (place, release,      *)
(* refund_surplus, process_orders).                                        *)
EscrowExact ==
    \A m \in Markets, a \in Assets : escrow[<<m, a>>] = Sum(ReservedIn(m, a))

(* The open notional of a market and of each wallet is exactly that of its *)
(* orders, an order's is its rest at its limit, rounded up, a bid always   *)
(* reserves that much, a completed order keeps nothing, and the fee that   *)
(* is carried from fill to fill stays below one unit (charge).             *)
ExposureExact ==
    /\ \A m \in Markets : exposure[m] = Sum(NotionalOf(OrdersOf(m)))
    /\ \A m \in Markets, o \in Owners :
         held[<<m, o>>] = Sum(NotionalOf({id \in OrdersOf(m) : id.owner = o}))
    /\ \A id \in DOMAIN orders :
         LET order == orders[id]
         IN  /\ order.notional = QuoteUp(order.remaining, order.terms.price)
             /\ order.terms.side = BUY => order.reserved = order.notional
             /\ order.status # LIVE => order.remaining = 0 /\ order.reserved = 0
             /\ order.filled + order.remaining <= order.terms.quantity
             /\ order.carry < Bps

(* Settling a batch keeps all books at once: the ledgers of the pools, the *)
(* escrow and the exposure agree with the orders and the claims they are   *)
(* kept for, and no check a handler makes of its own work ever fires       *)
(* (settle, process_orders, check_collateral, conserved).                  *)
BooksExact == LedgersExact /\ EscrowExact /\ ExposureExact /\ SelfChecksSilent

(* Two resting orders of a branch cross only if the later one's plan could *)
(* see the earlier one: whatever was placed since the plan was made, an    *)
(* order never comes to rest across it (race_free over the ring).          *)
NoUnseenCross ==
    \A older, newer \in DOMAIN orders :
      LET a == orders[older]
          b == orders[newer]
      IN  (/\ a.status = LIVE /\ b.status = LIVE
           /\ older.market = newer.market /\ a.terms.branch = b.terms.branch
           /\ a.sequence < b.sequence /\ a.sequence >= b.planned) =>
            ~Crosses(b.terms.side, b.terms.price, a.terms.side, a.terms.price)

(* An order's account is created once: after it was filled or cancelled    *)
(* and its account closed, its terms can never be submitted again, so what *)
(* an owner signed is executed at most once (retirable, bound_nonce,       *)
(* valid_nonce, trading).                                                  *)
NoReplay ==
    [][\A id \in DOMAIN orders' \ DOMAIN orders : id \notin used]_ExchangeVars

FilledBy(id) ==
    orders'[id].filled - (IF id \in DOMAIN orders THEN orders[id].filled ELSE 0)

(* An order trades only while its owner still wants it to: the market is   *)
(* open, the order is neither expired nor below the owner's nonce, the fee *)
(* is within its cap, its delegate's grant stands, and its leg is listed,  *)
(* inside its issuer's band and neither paused, hooked nor frozen (the     *)
(* maker loop of place judges makers by the state at execution, not at     *)
(* planning).                                                              *)
OnlyWantedFills ==
    [][\A id \in DOMAIN orders' :
         FilledBy(id) > 0 =>
           LET terms == orders'[id].terms
               d     == orders'[id].delegate
           IN  /\ market[id.market].state = OPEN /\ ~config.paused
               /\ now < terms.expiry /\ now < Terms[id.market].cutoff
               /\ terms.nonce >= minimumNonce[id.owner]
               /\ (IF id \in DOMAIN orders THEN config.makerBps ELSE config.takerBps)
                    <= terms.maxFee
               /\ d # NoKey => Active(id.owner, d)
               /\ terms.side = SELL => /\ Exposable(id.market, Delivers(terms))
                                       /\ TokenMoves(MintOf(id.market, Delivers(terms)))
      ]_ExchangeVars

(* The quote value a delegate ever traded for its owner, at the limits of  *)
(* its orders, stays within the grant's lifetime budget, cancelled and     *)
(* immediate orders included (charge is never refunded).                   *)
TradedBy(o, d) ==
    [id \in {x \in DOMAIN orders : x.owner = o /\ orders[x].delegate = d} |->
       QuoteDown(orders[id].filled, orders[id].terms.price) + orders[id].notional]
DelegateBudget ==
    \A x \in DOMAIN grants :
      LET traded == Sum(TradedBy(x[1], x[2]))
      IN  traded <= grants[x].total /\ traded + grants[x].remaining <= grants[x].total

(* The owner of a live order can always take its collateral back, and when *)
(* the order cannot trade any more so can anyone: it has expired, its      *)
(* market is not open, its owner invalidated its nonce, its leg was        *)
(* delisted under an ask, or the grant of its delegate has ended.  No      *)
(* issuer control stands in the way (cancel reads no issuer state and no   *)
(* solvency).                                                              *)
Stranded(id) ==
    LET terms == orders[id].terms
        d     == orders[id].delegate
    IN  \/ now >= terms.expiry
        \/ market[id.market].state # OPEN
        \/ terms.nonce < minimumNonce[id.owner]
        \/ terms.side = SELL /\ ~legs[<<id.market, Delivers(terms)>>].active
        \/ d # NoKey /\ ~Active(id.owner, d)
CancelOpen ==
    \A id \in DOMAIN orders, actor \in Owners :
      IsLive(id) /\ (actor = id.owner \/ Stranded(id)) =>
        ENABLED (Cancel(actor, id) /\ orders' # orders)
=============================================================================
