------------------------------ MODULE OrdersMC ------------------------------
(***************************************************************************)
(* TLC instances of Exchange for orders from placement to retirement: one  *)
(* open market with one base leg.  Alice holds the stock token and Bob the *)
(* quote, and both have a wallet.  A behaviour is about how orders fill,   *)
(* about what ends their life, about how old a plan is when it arrives,    *)
(* about whose delegation it uses, or about a delisted leg.                *)
(***************************************************************************)
EXTENDS Planner

CONSTANTS
    Admin, Quote, Stock, Alice, Bob, Bot, M, Free,
    S1, S2,                  \* salts that carry the nonce 0
    MaxPlaced, MaxDelegated  \* bounds: placements, and those about a delegation

VARIABLES
    focus,
    delisted  \* history, where leg delistings are the focus: live asks seen on a delisted leg

MCRoleSets == {[marketAdmin |-> Admin, guardian |-> Admin, resolutionAdmin |-> Admin]}
MCControls == [k \in Mints |-> IF k = Quote THEN {} ELSE {"scaled", "pausable", "hook"}]
MCTransferFee == [k \in Mints |-> 0]
(* Within the band: a share is less raw stock than at listing, or more. *)
MCMultipliers == {[mantissa |-> 5, power |-> 4], [mantissa |-> 4, power |-> 5]}
(* Prices are 1.5 and 3 quote per share: the first one rounds. *)
MCCaps == [step |-> 1, tick |-> 3, minNotional |-> 1, maxQuantity |-> 2,
           maxOrder |-> 6, maxWallet |-> 9, maxMarket |-> 12]
MCTerms == [m \in Markets |-> [open |-> 0, cutoff |-> 2, caps |-> MCCaps]]
MCScale == [k \in Mints |-> 2]

Terms_(owner, side, quantity, price, funding, tif, maxFee, expiry, nonce) ==
    [recipient |-> owner, quantity |-> quantity, price |-> price, expiry |-> expiry,
     nonce |-> nonce, maxFee |-> maxFee, branch |-> 0, side |-> side, funding |-> funding,
     tif |-> tif, bases |-> {1}]

(* Stock for Alice, quote for Bob, and complete sets of Stock for Alice.    *)
Deployed(stock, quote, sets, takerFee) ==
    /\ now = 0 /\ noticed = 0
    /\ config = [admin |-> Admin, pendingAdmin |-> NoKey, adminAfter |-> 0,
                 roles |-> CHOOSE r \in RoleSets : TRUE, paused |-> FALSE,
                 makerBps |-> 0, takerBps |-> takerFee]
    /\ issuer = [k \in Mints |-> [paused |-> FALSE, hooked |-> FALSE, frozen |-> FALSE,
                                  multiplier |-> UnitMultiplier, next |-> UnitMultiplier,
                                  effectiveAt |-> 0]]
    /\ pools = Mints /\ opened = Mints \X Owners
    /\ available = [x \in Mints \X Owners |-> CASE x = <<Stock, Alice>> -> stock
                                                [] x = <<Quote, Bob>> -> quote
                                                [] OTHER -> 0]
    /\ liability = [k \in Mints |-> IF k = Stock THEN stock + sets ELSE quote]
    /\ reserve = liability
    /\ seized = {} /\ tripped = FALSE /\ burned = {}
    /\ market = [m \in Markets |-> [state |-> OPEN, bases |-> 1, ready |-> {0, 1},
                                    commitment |-> NoCommitment, payouts |-> NoPayouts]]
    /\ legs = [x \in Markets \X Collaterals |->
                 IF x[2] = QUOTE THEN [EmptyLeg EXCEPT !.mint = Quote]
                 ELSE [mint |-> Stock, scale |-> 2, multiplier |-> UnitMultiplier,
                       active |-> TRUE]]
    /\ wallets = Markets \X Owners
    /\ balance = [x \in Markets \X Owners \X ClaimAssets |->
                    IF x[2] = Alice /\ CollateralOf(x[3]) = 1 THEN sets ELSE 0]
    /\ credits = [x \in Markets \X ClaimAssets |-> IF CollateralOf(x[2]) = 1 THEN sets ELSE 0]
    /\ escrow = [x \in Markets \X Assets |-> 0]
    /\ fees = [x \in Markets \X ClaimAssets |-> 0]
    /\ backing = [x \in Markets \X Collaterals |-> IF x[2] = 1 THEN sets ELSE 0]
    /\ supply = credits /\ vault = supply
    /\ DelegationInit /\ ExchangeInit

----------------------------------------------------------------------------
(* Fills: asks of Alice funded by stock and by claims against bids of Bob, *)
(* resting and immediate, while the issuer accrues a dividend.             *)
FillTerms ==
    [o \in Owners |->
       IF o = Alice THEN {Terms_(o, SELL, 2, 3, UNDERLYING, RESTING, 1, 1, 0),
                          Terms_(o, SELL, 1, 6, CLAIMS, RESTING, 1, 1, 0)}
       ELSE {Terms_(o, BUY, 2, 6, UNDERLYING, IMMEDIATE, 1, 1, 0),
             Terms_(o, BUY, 2, 3, UNDERLYING, RESTING, 1, 1, 0)}]

FillsInit == Deployed(4, 9, 2, 1)

----------------------------------------------------------------------------
(* Races: placements planned up to three placements ago, so that the plan  *)
(* is older than the ring of two.                                          *)
RaceTerms ==
    [o \in Owners |->
       IF o = Alice THEN {Terms_(o, SELL, 1, p, CLAIMS, RESTING, 1, 1, 0) : p \in {3, 6}}
       ELSE {Terms_(o, BUY, 1, 3, UNDERLYING, RESTING, 1, 1, 0),
             Terms_(o, BUY, 1, 6, UNDERLYING, RESTING, 1, 1, 0),
             Terms_(o, BUY, 1, 6, UNDERLYING, IMMEDIATE, 1, 1, 0)}]

----------------------------------------------------------------------------
(* The life of an order: expiry, the owner's nonce, the cutoff, a freeze,  *)
(* a pause, a delisting, a fee change, cancellation and retirement.        *)
MCBoundNonce == [s \in Salts |-> IF s = Free THEN Unbound ELSE 0]

LifeTerms ==
    [o \in Owners |->
       IF o = Alice THEN {Terms_(o, SELL, 1, 6, CLAIMS, RESTING, 1, 2, 0)}
       ELSE {Terms_(o, BUY, 1, 6, UNDERLYING, RESTING, 0, 1, 0),
             Terms_(o, BUY, 1, 6, UNDERLYING, IMMEDIATE, 1, 2, 1)}]

LifeInit == Deployed(0, 9, 2, 0)

----------------------------------------------------------------------------
Elsewhere == <<custodyVars, exchangeVars>>

----------------------------------------------------------------------------
OrdersInit ==
    /\ \/ focus = "fills" /\ FillsInit
       \/ focus = "life" /\ LifeInit
       \/ focus = "race" /\ Deployed(0, 9, 4, 0)
       \/ focus = "delegation" /\ Deployed(0, 9, 2, 0)
    /\ delisted = {}

MayPlace == \A x \in DOMAIN sequence : sequence[x] < MaxPlaced

BoundSalts(o) == {S1, S2}

LifeSalts(o) == {S1, Free}

(* Where no order is retired addresses are alike: owners take them in turn. *)
SaltsInTurn(o) ==
    IF [market |-> M, owner |-> o, salt |-> S1] \in DOMAIN orders THEN {S2} ELSE {S1}

(* A placement with a plan of at most one maker, made up to oldest         *)
(* placements ago.                                                         *)
SubmitOne(terms, salts(_), oldest) ==
    \E o \in Owners, lag \in 0 .. oldest :
      \E salt \in salts(o), t \in terms[o] :
        \/ Submit(o, M, salt, t, <<>>, lag)
        \/ \E leg \in PlanLegs(M, t) :
              leg.quantity = 1 /\ Submit(o, M, salt, t, <<leg>>, lag)

(* A batch of one order.                                                   *)
ProcessOne(actors) ==
    \E id \in DOMAIN orders, actor \in actors, retire \in BOOLEAN :
        ProcessOrders(actor, id.owner, M, <<id>>, retire)

----------------------------------------------------------------------------
(* Fills: plans of up to MaxMakers makers, in whole or in part.             *)
FillsNext ==
    \/ (\E multiplier \in Multipliers : Rescale(Stock, multiplier, now))
         /\ UNCHANGED <<configVars, marketVars, custodyVars, delegationVars, exchangeVars>>
    \/ /\ MayPlace
       /\ \E o \in Owners, n \in 0 .. MaxMakers :
            \E salt \in SaltsInTurn(o), terms \in FillTerms[o] :
              \E planLegs \in [1 .. n -> PlanLegs(M, terms)] :
                Submit(o, M, salt, terms, planLegs, 0)
    \/ CancelAny

----------------------------------------------------------------------------
(* A life: plans of at most one maker, and batches of one order.  One of a *)
(* fee change, a delisting, a freeze and a pause or hook of the issuer     *)
(* comes in between.                                                       *)
Undisturbed ==
    /\ config.makerBps = 0 /\ legs[<<M, 1>>].active /\ market[M].state = OPEN
    /\ TokenMoves(Stock)

LifeNext ==
    \/ MayPlace /\ SubmitOne(LifeTerms, LifeSalts, 0)
    \/ ProcessOne(Owners)
    \/ \E minimum \in Nonces : InvalidateNonce(Bob, minimum)
         /\ UNCHANGED <<configVars, poolVars, marketVars, Elsewhere>>
    \/ Tick /\ UNCHANGED <<poolVars, marketVars, Elsewhere, delegationVars>>
    \/ /\ Undisturbed
       /\ \/ /\ \E maker \in FeeRates : Configure(Admin, config.roles, maker, 0)
             /\ UNCHANGED <<poolVars, marketVars>>
          \/ /\ SetBase(Admin, M, 1, FALSE) \/ Freeze(Admin, M)
             /\ UNCHANGED <<configVars, poolVars>>
          \/ /\ IssuerFlags(Stock, TRUE, FALSE, FALSE) \/ IssuerFlags(Stock, FALSE, TRUE, FALSE)
             /\ UNCHANGED <<configVars, marketVars>>
       /\ UNCHANGED <<Elsewhere, delegationVars>>

----------------------------------------------------------------------------
(* Bot trades for Bob within a grant that Bob and time revoke.              *)
MCLimits ==
    {[market |-> NoKey, expiresAt |-> 1, maxOrder |-> 3, total |-> 6, maxFee |-> 1,
      permissions |-> {TRADE}],
     [market |-> M, expiresAt |-> 1, maxOrder |-> 3, total |-> 5, maxFee |-> 1,
      permissions |-> {TRADE, CANCEL}]}

\* Its orders are all at one price.
DelegatedTerms == [o \in Owners |-> {t \in RaceTerms[o] : t.price = 6}]

DelegateNext ==
    \/ /\ Cardinality(DOMAIN orders) < MaxDelegated
       /\ SubmitOne(DelegatedTerms, BoundSalts, 0)
    \/ CancelAny
    \/ ProcessOne(Owners \cup Delegates)
    \/ /\ \/ \E limits \in Limits : Approve(Bob, Bot, limits)
          \/ Revoke(Bob, Bot)
          \/ RevokeAll(Bob)
       /\ UNCHANGED <<configVars, poolVars, marketVars, Elsewhere>>
    \/ now = 0 /\ Tick /\ UNCHANGED <<poolVars, marketVars, Elsewhere, delegationVars>>

----------------------------------------------------------------------------
OrdersNext ==
    /\ \/ focus = "fills" /\ FillsNext
       \/ focus = "life" /\ LifeNext
       \/ focus = "race" /\ SubmitOne(RaceTerms, SaltsInTurn, MaxLag)
       \/ focus = "delegation" /\ DelegateNext
    /\ UNCHANGED <<focus, delisted>>

OrdersSpec == OrdersInit /\ [][OrdersNext]_<<ExchangeVars, focus, delisted>>

(* Planner and program agree on what an order meets in the book, at every  *)
(* state of it: whoever submits whichever of these orders, a plan that is  *)
(* built is carried out as reviewed and passes over no better maker        *)
(* (planOrder, placement, and the maker loop of place).  The books of the  *)
(* races are among those of the lives, and with delegates there are too    *)
(* many books to plan on those of several orders.                          *)
PlanTerms == [o \in Owners |-> FillTerms[o] \cup LifeTerms[o]]

UnusedAddress(o) ==
    LET at(s)  == [market |-> M, owner |-> o, salt |-> s]
        unused == {s \in {S1, S2} : at(s) \notin used}
    IN  at(IF unused # {} THEN CHOOSE s \in unused : TRUE ELSE Free)

PlansHold ==
    \/ focus = "race"
    \/ focus = "delegation" /\ Cardinality(DOMAIN orders) > 1
    \/ \A o \in Owners, actor \in Owners \cup Delegates :
         \A terms \in PlanTerms[o], id \in {UnusedAddress(o)} :
           actor \in Signers(o) /\ id \notin used => PlanHolds(actor, id, terms)

(* CancelOpen where orders meet all that could stand in its way, in books  *)
(* of two orders, and for a delegate's first order.  (ENABLED evaluates    *)
(* the whole handler, too dear to do in every state of the rest.)          *)
CancelOpenForLife ==
    \/ focus = "life" /\ Cardinality(DOMAIN orders) <= 2
    \/ focus = "delegation" /\ Cardinality(DOMAIN orders) = 1
  => CancelOpen

----------------------------------------------------------------------------
(* Relisting.  The comment at exchange.rs:56, "An ask on a delisted leg    *)
(* can never fill again", against set_base: the market administrator may   *)
(* relist a leg, and an ask that nobody released meanwhile fills as before. *)
RelistInit == focus = "relist" /\ LifeInit /\ delisted = {}

RelistNext ==
    /\ \/ PlaceAny
       \/ \E active \in BOOLEAN : SetBase(Admin, M, 1, active)
            /\ UNCHANGED <<configVars, poolVars, custodyVars, delegationVars, exchangeVars>>
    /\ delisted' = delisted \cup
         {id \in DOMAIN orders' : /\ orders'[id].status = LIVE
                                  /\ orders'[id].terms.side = SELL
                                  /\ ~legs'[<<id.market, Delivers(orders'[id].terms)>>].active}
    /\ UNCHANGED focus

RelistSpec == RelistInit /\ [][RelistNext]_<<ExchangeVars, focus, delisted>>

(* An ask that was live on a delisted leg never fills afterwards, as the   *)
(* comment in cancel says.                                                 *)
DelistedAsksAreDead ==
    [][\A id \in delisted : id \in DOMAIN orders' => FilledBy(id) = 0]_<<ExchangeVars, focus, delisted>>
=============================================================================
