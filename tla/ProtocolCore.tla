---------------------------- MODULE ProtocolCore ----------------------------
(***************************************************************************)
(* The deterministic raw-unit rules of crates/protocol-core/src/lib.rs:    *)
(* quoting, fees, caps, lifecycle guards, redemption, fills, plan guards   *)
(* and the share-unit conversion.  A Rust function that returns Result<T>  *)
(* is a value operator and, where the refusal matters, a predicate named   *)
(* ...Ok that holds exactly when the function does not return Err.         *)
(*                                                                         *)
(* The three scale factors of the code are parameters, so that TLC meets   *)
(* the rounding at small numbers.  u64 amounts are 0..MaxU64.              *)
(***************************************************************************)
EXTENDS Integers

CONSTANTS
    Wad,        \* fixed-point unit of a price (1e18 in the code)
    Bps,        \* fee denominator (10_000)
    MaxFeeBps,  \* largest fee rate (1_000)
    MaxU64      \* largest token amount (2^64 - 1)

ASSUME RulesAssumption ==
    /\ Wad \in Nat \ {0}
    /\ Bps \in Nat \ {0}
    /\ MaxFeeBps \in 0 .. Bps
    /\ MaxU64 \in Nat \ {0}

U64 == 0 .. MaxU64

CeilDiv(n, d) == (n + d - 1) \div d

----------------------------------------------------------------------------
(* Quotes and fees.                                                        *)

QuoteDown(quantity, price) ==
    quantity * (price \div Wad) + (quantity * (price % Wad)) \div Wad

QuoteUp(quantity, price) ==
    QuoteDown(quantity, price)
      + (IF (quantity * (price % Wad)) % Wad # 0 THEN 1 ELSE 0)

(* Slip: the carry is kept whole and charged again at the next fill.       *)
FeeCarriedWhole(gross, rate, carry) ==
    [amount |-> (gross * rate + carry) \div Bps, carry |-> gross * rate + carry]

Fee(gross, rate, carry) ==
    [amount |-> (gross * rate + carry) \div Bps,
     carry  |-> (gross * rate + carry) % Bps]

----------------------------------------------------------------------------
(* Market caps: a record [step, tick, minNotional, maxQuantity, maxOrder,  *)
(* maxWallet, maxMarket].                                                  *)

MinimumPrice(caps) ==
    LET ticks == ((caps.minNotional - 1) * Wad) \div (caps.step * caps.tick) + 1
    IN  ticks * caps.tick

CapsOk(caps) ==
    /\ caps.step # 0 /\ caps.tick # 0 /\ caps.minNotional # 0
    /\ caps.maxQuantity >= caps.step
    /\ caps.maxOrder >= caps.minNotional
    /\ caps.maxWallet >= caps.maxOrder
    /\ caps.maxMarket >= caps.maxWallet
    /\ QuoteDown(caps.step, caps.tick) # 0
    /\ QuoteUp(caps.step, MinimumPrice(caps)) <= caps.maxOrder
    /\ 2 * QuoteUp(caps.step, MinimumPrice(caps)) <= caps.maxMarket

OrderOk(caps, quantity, price) ==
    /\ quantity > 0 /\ price > 0
    /\ quantity % caps.step = 0
    /\ price % caps.tick = 0
    /\ quantity <= caps.maxQuantity
    /\ QuoteUp(quantity, price) \in caps.minNotional .. caps.maxOrder

FinalExposureOk(caps, wallet, total) ==
    wallet <= total /\ wallet <= caps.maxWallet /\ total <= caps.maxMarket

----------------------------------------------------------------------------
(* Lifecycle states and the guards that read them.                         *)

NONE       == 0     \* no Market account yet
SCHEDULED  == 1
OPEN       == 2
FROZEN     == 3
AWAITING   == 4
REDEEMABLE == 6
ARCHIVED   == 7

TradingOk(state, paused, time, open, cutoff) ==
    state = OPEN /\ ~paused /\ open <= time /\ time < cutoff

ExpiryOk(time, expiry, cutoff) == time < expiry /\ expiry <= cutoff

NonceOk(nonce, minimum) == nonce >= minimum

(* The sum of the two payouts; a pair other than (1,0), (0,1), (1,1) is refused. *)
PayoutOk(payouts) == payouts \in {<<1, 0>>, <<0, 1>>, <<1, 1>>}

(* Slip: an even split is not divided between the sides.                   *)
PayoutAlwaysOne(payouts) == 1
Payout(payouts) == payouts[1] + payouts[2]

Weighted(yes, no, payouts) == yes * payouts[1] + no * payouts[2]

RedemptionOk(yes, no, payouts) ==
    /\ PayoutOk(payouts)
    /\ Weighted(yes, no, payouts) % Payout(payouts) = 0
    /\ Weighted(yes, no, payouts) \div Payout(payouts) <= MaxU64

Redemption(yes, no, payouts) == Weighted(yes, no, payouts) \div Payout(payouts)

(* Backing owed to the outstanding claims: a complete set before the       *)
(* resolution (payouts = <<0, 0>>), the weighted supply, rounded up, after. *)
ClaimBacking(yes, no, payouts) ==
    IF payouts = <<0, 0>>
    THEN IF yes >= no THEN yes ELSE no
    ELSE CeilDiv(Weighted(yes, no, payouts), Payout(payouts))

----------------------------------------------------------------------------
(* One fill of a bid against an ask, at the maker's limit price.           *)

FillOk(quantity, step, buyerRemaining, sellerRemaining, bid, ask, bidIsMaker) ==
    /\ quantity > 0 /\ quantity % step = 0
    /\ quantity <= buyerRemaining /\ quantity <= sellerRemaining
    /\ ask > 0 /\ bid >= ask
    /\ QuoteDown(quantity, IF bidIsMaker THEN bid ELSE ask) > 0
    /\ QuoteUp(buyerRemaining, bid)
         >= QuoteUp(buyerRemaining - quantity, bid)
              + QuoteDown(quantity, IF bidIsMaker THEN bid ELSE ask)
    /\ QuoteUp(sellerRemaining, ask) >= QuoteUp(sellerRemaining - quantity, ask)

(* Slip: the price improvement is paid out and stays reserved too.         *)
FillImprovementKept(quantity, buyerRemaining, sellerRemaining, bid, ask, bidIsMaker) ==
    LET quote == QuoteDown(quantity, IF bidIsMaker THEN bid ELSE ask)
        freed == QuoteUp(buyerRemaining, bid) - QuoteUp(buyerRemaining - quantity, bid)
    IN  [quote           |-> quote,
         buyerReserved   |-> QuoteUp(buyerRemaining, bid) - quote,
         improvement     |-> freed - quote,
         buyerReduction  |-> freed,
         sellerReduction |-> QuoteUp(sellerRemaining, ask)
                               - QuoteUp(sellerRemaining - quantity, ask)]

Fill(quantity, buyerRemaining, sellerRemaining, bid, ask, bidIsMaker) ==
    LET quote    == QuoteDown(quantity, IF bidIsMaker THEN bid ELSE ask)
        reserved == QuoteUp(buyerRemaining - quantity, bid)
        freed    == QuoteUp(buyerRemaining, bid) - reserved
    IN  [quote           |-> quote,
         buyerReserved   |-> reserved,
         improvement     |-> freed - quote,
         buyerReduction  |-> freed,
         sellerReduction |-> QuoteUp(sellerRemaining, ask)
                               - QuoteUp(sellerRemaining - quantity, ask)]

----------------------------------------------------------------------------
(* Plans and races.                                                        *)

BUY == 0
SELL == 1
SIDE_NONE == 2      \* a placement that did not rest

(* quoted and actual are <<next sequence, maker rate, taker rate>>.        *)
GuardOk(time, deadline, expiry, quoted, actual) ==
    /\ time < deadline /\ deadline <= expiry
    /\ quoted[1] <= actual[1]
    /\ quoted[2] = actual[2] /\ quoted[3] = actual[3]

Crosses(side, price, otherSide, otherPrice) ==
    \/ side = BUY /\ otherSide = SELL /\ price >= otherPrice
    \/ side = SELL /\ otherSide = BUY /\ price <= otherPrice

(* ring[s % window] is the placement with sequence s, for the last window  *)
(* sequences.                                                              *)
(* Slip: a plan older than the ring reads slots that were overwritten.     *)
RaceFreeAtAnyAge(window, planned, current, side, price, ring) ==
    /\ planned <= current
    /\ \A s \in planned .. current - 1 :
         ~Crosses(side, price, ring[s % window].side, ring[s % window].ticks)

RaceFree(window, planned, current, side, price, ring) ==
    /\ planned <= current /\ current - planned <= window
    /\ \A s \in planned .. current - 1 :
         ~Crosses(side, price, ring[s % window].side, ring[s % window].ticks)

(* Slip: the expiry is compared off by one.                                *)
ReleasableAfterExpiry(state, time, expiry, nonce, minimum) ==
    state # OPEN \/ time > expiry \/ nonce < minimum

Releasable(state, time, expiry, nonce, minimum) ==
    state # OPEN \/ time >= expiry \/ nonce < minimum

----------------------------------------------------------------------------
(* An issuer's UI multiplier is the exact rational mantissa / 2^shift that *)
(* its f64 bits encode; power stands for 2^shift.                          *)

MultiplierOk(m) == m.mantissa > 0 /\ m.power > 0

UnitMultiplier == [mantissa |-> 1, power |-> 1]

BaseRaw(units, scale, m, up) ==
    IF up THEN CeilDiv(units * scale * m.power, m.mantissa)
          ELSE (units * scale * m.power) \div m.mantissa

BaseRawOk(units, scale, m, up) ==
    units * scale <= MaxU64 /\ BaseRaw(units, scale, m, up) <= MaxU64

(* 4/5 <= current / listing <= 5/4. *)
WithinBand(listing, current) ==
    LET c == current.mantissa * listing.power
        l == listing.mantissa * current.power
    IN  4 * c <= 5 * l /\ 5 * c >= 4 * l
=============================================================================
