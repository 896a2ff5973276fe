------------------------------- MODULE Market -------------------------------
(***************************************************************************)
(* A market's listing and lifecycle (governance.rs, custody.rs             *)
(* initialize_claims, state.rs).  Collateral 0 is the deployment's quote;  *)
(* collaterals 1..bases are base legs, one issuer token of the same stock  *)
(* each.  The market administrator lists legs, opens, freezes and commits  *)
(* to a resolution; the resolution administrator reveals it.               *)
(***************************************************************************)
EXTENDS Pool

CONSTANTS
    Markets,   \* market ids
    MaxBases,  \* base legs per market (MAX_BASES)
    Terms,     \* [Markets -> [open, cutoff, caps]]: the immutable terms
    Scale,     \* [Mints -> Nat]: raw units per share unit, 0 if not representable
    NoMint     \* an empty collateral slot

ASSUME MarketAssumption ==
    /\ MaxBases \in Nat
    /\ NoMint \notin Mints
    /\ Scale \in [Mints -> Nat]
    /\ IsFiniteSet(Markets)
    /\ \A m \in Markets : Terms[m].open \in Nat /\ Terms[m].cutoff \in Nat

VARIABLES
    market,  \* [Markets -> state, bases, ready collaterals, commitment, payouts]
    legs     \* [Markets \X Collaterals -> mint, scale, listing multiplier, active]

marketVars == <<market, legs>>

Collaterals == 0 .. MaxBases
QUOTE == 0

Outcomes == {<<1, 0>>, <<0, 1>>, <<1, 1>>}
NoPayouts == <<0, 0>>

(* Slip: the hash covers the payouts but not the market.                   *)
ResolutionHashUnbound(m, payouts) ==
    [market |-> market[m].commitment.market, payouts |-> payouts]

(* resolution_hash is injective: a commitment is what it was computed from. *)
ResolutionHash(m, payouts) == [market |-> m, payouts |-> payouts]
Commitments == [market : Markets, payouts : Outcomes \cup {NoPayouts}]
NoCommitment == [market |-> NoMint, payouts |-> NoPayouts]

States == {NONE, SCHEDULED, OPEN, FROZEN, AWAITING, REDEEMABLE, ARCHIVED}

MarketState == [state : States, bases : Collaterals, ready : SUBSET Collaterals,
                commitment : Commitments \cup {NoCommitment},
                payouts : Outcomes \cup {NoPayouts}]
Leg == [mint : Mints \cup {NoMint}, scale : Nat,
        multiplier : [mantissa : Nat, power : Nat], active : BOOLEAN]

MarketType ==
    /\ market \in [Markets -> MarketState]
    /\ legs \in [Markets \X Collaterals -> Leg]

EmptyLeg == [mint |-> NoMint, scale |-> 0, multiplier |-> UnitMultiplier, active |-> FALSE]

MarketInit ==
    /\ market = [m \in Markets |-> [state |-> NONE, bases |-> 0, ready |-> {},
                                    commitment |-> NoCommitment, payouts |-> NoPayouts]]
    /\ legs = [x \in Markets \X Collaterals |-> EmptyLeg]

Listed(m, c) == market[m].state # NONE /\ c \in 0 .. market[m].bases

(* Underlying listed and both claim mints with their vaults created. *)
Ready(m, c) == Listed(m, c) /\ c \in market[m].ready

MintOf(m, c) == legs[<<m, c>>].mint

(* A base leg that may take new exposure: listed, active, ready, and its   *)
(* issuer neither pauses it nor moved its multiplier out of the band.      *)
Exposable(m, c) ==
    /\ c # QUOTE /\ Ready(m, c) /\ legs[<<m, c>>].active
    /\ ~issuer[MintOf(m, c)].paused
    /\ WithinBand(legs[<<m, c>>].multiplier, LiveMultiplier(MintOf(m, c)))

Openable(m) ==
    /\ \A c \in 0 .. market[m].bases : Ready(m, c)
    /\ \E c \in 1 .. market[m].bases : legs[<<m, c>>].active

----------------------------------------------------------------------------
CreateMarket(actor, m) ==
    /\ actor = config.roles.marketAdmin
    /\ market[m].state = NONE
    /\ QuoteMint \in pools /\ InspectOk(QuoteMint)
    /\ reserve[QuoteMint] >= liability[QuoteMint]
    /\ Terms[m].cutoff > Terms[m].open /\ Terms[m].cutoff > now
    /\ CapsOk(Terms[m].caps)
    /\ market' = [market EXCEPT ![m].state = SCHEDULED]
    /\ legs' = [legs EXCEPT ![<<m, QUOTE>>] = [EmptyLeg EXCEPT !.mint = QuoteMint]]

(* Slip: the new mint is compared with the base legs, not with the quote.  *)
FreshAmongBases(m, c, k) ==
    c <= MaxBases /\ \A d \in 1 .. market[m].bases : MintOf(m, d) # k

(* Leg c is free and no other collateral of the market uses the mint.      *)
Fresh(m, c, k) ==
    c <= MaxBases /\ \A d \in 0 .. market[m].bases : MintOf(m, d) # k

(* List the next base leg: a mint that no other collateral of this market  *)
(* uses, whose orders convert without overflow anywhere in the band and    *)
(* whose smallest order still delivers at the top of it.                   *)
AddBase(actor, m, k) ==
    LET c == market[m].bases + 1
        live == LiveMultiplier(k)
        caps == Terms[m].caps
    IN  /\ actor = config.roles.marketAdmin
        /\ market[m].state \in {SCHEDULED, OPEN}
        /\ now < Terms[m].cutoff
        /\ Fresh(m, c, k)
        /\ Scale[k] > 0
        /\ k \in pools /\ InspectOk(k) /\ ~issuer[k].paused /\ ~issuer[k].frozen
        /\ BaseRawOk(caps.maxQuantity, Scale[k], live, TRUE)
        /\ 5 * BaseRaw(caps.maxQuantity, Scale[k], live, TRUE) <= MaxU64
        /\ BaseRaw(caps.step, Scale[k], live, FALSE) >= 2
        /\ reserve[k] >= liability[k]
        /\ market' = [market EXCEPT ![m].bases = c]
        /\ legs' = [legs EXCEPT ![<<m, c>>] = [mint |-> k, scale |-> Scale[k],
                                           multiplier |-> live, active |-> TRUE]]

(* The guardian may only delist. *)
SetBase(actor, m, c, active) ==
    /\ \/ actor = config.roles.marketAdmin
       \/ ~active /\ actor = config.roles.guardian
    /\ Listed(m, c) /\ c # QUOTE
    /\ legs[<<m, c>>].active # active
    /\ legs' = [legs EXCEPT ![<<m, c>>].active = active]
    /\ UNCHANGED market

(* Anyone may pay for the claim mints and vaults of a listed collateral. *)
InitializeClaims(m, c) ==
    /\ Listed(m, c) /\ c \notin market[m].ready
    /\ market' = [market EXCEPT ![m].ready = @ \cup {c}]
    /\ UNCHANGED legs

(* Slip: a frozen market can be opened again.                              *)
Reopen(actor, m) ==
    /\ actor = config.roles.marketAdmin
    /\ market[m].state \in {SCHEDULED, FROZEN} /\ Openable(m)
    /\ Terms[m].open <= now /\ now < Terms[m].cutoff
    /\ market' = [market EXCEPT ![m].state = OPEN]
    /\ UNCHANGED legs

Open(actor, m) ==
    /\ actor = config.roles.marketAdmin
    /\ market[m].state = SCHEDULED /\ Openable(m)
    /\ Terms[m].open <= now /\ now < Terms[m].cutoff
    /\ market' = [market EXCEPT ![m].state = OPEN]
    /\ UNCHANGED legs

Freeze(actor, m) ==
    /\ actor \in {config.roles.marketAdmin, config.roles.guardian}
    /\ market[m].state \in {SCHEDULED, OPEN}
    /\ market' = [market EXCEPT ![m].state = FROZEN]
    /\ UNCHANGED legs

(* Permissionless. *)
FreezeAtCutoff(m) ==
    /\ market[m].state = OPEN /\ now >= Terms[m].cutoff
    /\ market' = [market EXCEPT ![m].state = FROZEN]
    /\ UNCHANGED legs

CommitResolution(actor, m, commitment) ==
    /\ actor = config.roles.marketAdmin
    /\ market[m].state = FROZEN
    /\ market' = [market EXCEPT ![m] =
                    [@ EXCEPT !.commitment = commitment, !.state = AWAITING]]
    /\ UNCHANGED legs

Resolve(actor, m, payouts) ==
    /\ actor = config.roles.resolutionAdmin
    /\ PayoutOk(payouts)
    /\ market[m].state = AWAITING
    /\ market[m].commitment = ResolutionHash(m, payouts)
    /\ market' = [market EXCEPT ![m] =
                    [@ EXCEPT !.payouts = payouts, !.commitment = NoCommitment,
                              !.state = REDEEMABLE]]
    /\ UNCHANGED legs

Archive(actor, m) ==
    /\ actor = config.roles.marketAdmin
    /\ market[m].state = REDEEMABLE
    /\ market' = [market EXCEPT ![m].state = ARCHIVED]
    /\ UNCHANGED legs

MarketNext ==
    \/ \E actor \in Keys, m \in Markets : CreateMarket(actor, m)
    \/ \E actor \in Keys, m \in Markets, k \in Mints : AddBase(actor, m, k)
    \/ \E actor \in Keys, m \in Markets, c \in Collaterals, active \in BOOLEAN :
         SetBase(actor, m, c, active)
    \/ \E m \in Markets, c \in Collaterals : InitializeClaims(m, c)
    \/ \E actor \in Keys, m \in Markets : Open(actor, m)
    \/ \E actor \in Keys, m \in Markets : Freeze(actor, m)
    \/ \E m \in Markets : FreezeAtCutoff(m)
    \/ \E actor \in Keys, m \in Markets, commitment \in Commitments :
         CommitResolution(actor, m, commitment)
    \/ \E actor \in Keys, m \in Markets, payouts \in Outcomes : Resolve(actor, m, payouts)
    \/ \E actor \in Keys, m \in Markets : Archive(actor, m)

(* The deployment without its positions: roles, pools and listings. *)
ListingVars == <<configVars, poolVars, marketVars>>
ListingInit == ConfigInit /\ PoolInit /\ MarketInit
ListingNext ==
    \/ ConfigNext /\ UNCHANGED <<poolVars, marketVars>>
    \/ PoolNext /\ UNCHANGED <<configVars, marketVars>>
    \/ MarketNext /\ UNCHANGED <<configVars, poolVars>>
ListingSpec == ListingInit /\ [][ListingNext]_ListingVars

----------------------------------------------------------------------------
(* Every listed collateral of a market has a mint of its own, so the       *)
(* backing of one issuer's claims is never another issuer's token          *)
(* (add_base's distinctness check across listings at different times).     *)
SegregatedCollateral ==
    \A m \in Markets : \A c, d \in Collaterals :
      Listed(m, c) /\ Listed(m, d) /\ c # d => MintOf(m, c) # MintOf(m, d)

(* An outcome appears only on a market whose trading stopped before, from  *)
(* a commitment that named this market and these payouts, and it is final  *)
(* (lifecycle and resolve, signed by two different roles).                 *)
OutcomeCommitted ==
    [][\A m \in Markets :
         market'[m].payouts # market[m].payouts =>
           /\ market[m].payouts = NoPayouts
           /\ market[m].state = AWAITING
           /\ market[m].commitment = [market |-> m, payouts |-> market'[m].payouts]
      ]_ListingVars

Rank(state) == CASE state = NONE -> 0 [] state = SCHEDULED -> 1 [] state = OPEN -> 2
                 [] state = FROZEN -> 3 [] state = AWAITING -> 4
                 [] state = REDEEMABLE -> 5 [] OTHER -> 6

(* A market never goes back: what stopped trading never trades again, and  *)
(* a listed leg keeps its issuer, scale and listing multiplier for life    *)
(* (delisting only deactivates it).                                        *)
LifecycleForward ==
    [][\A m \in Markets :
         /\ Rank(market'[m].state) >= Rank(market[m].state)
         /\ \A c \in Collaterals :
              Listed(m, c) =>
                [legs'[<<m, c>>] EXCEPT !.active = FALSE] = [legs[<<m, c>>] EXCEPT !.active = FALSE]
      ]_ListingVars
=============================================================================
