----------------------------- MODULE Delegation -----------------------------
(***************************************************************************)
(* Trader accounts and trading delegations (delegation.rs and              *)
(* exchange.rs invalidate_nonce).  An owner's Trader account holds the     *)
(* nonce below which its orders are dead and the epoch its grants were     *)
(* approved in.  A grant lets one key place, and perhaps cancel, orders    *)
(* for the owner within a lifetime budget of quote that is never refunded. *)
(***************************************************************************)
EXTENDS Custody

CONSTANTS
    Delegates,    \* keys that owners delegate to
    Limits,       \* the limits owners approve
    MaxLifetime,  \* MAX_GRANT_LIFETIME
    Nonces,       \* order nonces and invalidation floors
    MaxEpoch      \* bound: owners revoke everything this often

ASSUME DelegationAssumption ==
    /\ NoKey \notin Delegates /\ NoKey \notin Markets
    /\ MaxLifetime \in Nat
    /\ \A limits \in Limits : limits.total \in Nat
    /\ Nonces \subseteq Nat
    /\ MaxEpoch \in Nat

VARIABLES
    minimumNonce,  \* Trader::minimum_nonce
    epoch,         \* Trader::delegation_epoch
    grants         \* the TradingDelegate accounts: <<owner, delegate>> -> grant; one
                   \* with market = NoKey is for every market

delegationVars == <<minimumNonce, epoch, grants>>

TRADE == "trade"
CANCEL == "cancel"

DelegationInit ==
    /\ minimumNonce = [o \in Owners |-> 0]
    /\ epoch = [o \in Owners |-> 0]
    /\ grants = <<>>

(* A first wallet or a first grant creates the Trader account. *)
HasTrader(o) ==
    \/ \E m \in Markets : <<m, o>> \in wallets
    \/ \E d \in Delegates : <<o, d>> \in DOMAIN grants

LimitsOk(limits) ==
    /\ limits.expiresAt > now /\ limits.expiresAt - now <= MaxLifetime
    /\ limits.maxOrder > 0 /\ limits.total >= limits.maxOrder
    /\ limits.maxFee <= MaxFeeBps
    /\ limits.permissions \in {{TRADE}, {TRADE, CANCEL}}

(* Grant accounts are created once and never closed. *)
Approve(o, d, limits) ==
    /\ d # o
    /\ <<o, d>> \notin DOMAIN grants
    /\ LimitsOk(limits)
    /\ limits.market # NoKey => market[limits.market].state # NONE
    /\ LET grant == [market |-> limits.market, epoch |-> epoch[o],
                     expiresAt |-> limits.expiresAt, maxOrder |-> limits.maxOrder,
                     total |-> limits.total, remaining |-> limits.total,
                     maxFee |-> limits.maxFee, permissions |-> limits.permissions,
                     revoked |-> FALSE]
       IN  grants' = [x \in DOMAIN grants \cup {<<o, d>>} |->
                        IF x = <<o, d>> THEN grant ELSE grants[x]]
    /\ UNCHANGED <<minimumNonce, epoch>>

Revoke(o, d) ==
    /\ <<o, d>> \in DOMAIN grants
    /\ grants' = [grants EXCEPT ![<<o, d>>].revoked = TRUE]
    /\ UNCHANGED <<minimumNonce, epoch>>

RevokeAll(o) ==
    /\ HasTrader(o)
    /\ epoch[o] < MaxEpoch
    /\ epoch' = [epoch EXCEPT ![o] = @ + 1]
    /\ UNCHANGED <<minimumNonce, grants>>

InvalidateNonce(o, minimum) ==
    /\ HasTrader(o)
    /\ minimum > minimumNonce[o]
    /\ minimumNonce' = [minimumNonce EXCEPT ![o] = minimum]
    /\ UNCHANGED <<epoch, grants>>

DelegationNext ==
    \/ \E o \in Owners, d \in Delegates, limits \in Limits : Approve(o, d, limits)
    \/ \E o \in Owners, d \in Delegates : Revoke(o, d)
    \/ \E o \in Owners : RevokeAll(o)
    \/ \E o \in Owners, minimum \in Nonces : InvalidateNonce(o, minimum)

----------------------------------------------------------------------------
(* What a grant allows.                                                    *)

Active(o, d) ==
    LET grant == grants[<<o, d>>]
    IN  ~grant.revoked /\ grant.epoch = epoch[o] /\ now < grant.expiresAt

Authorized(o, d, m, permission) ==
    /\ <<o, d>> \in DOMAIN grants
    /\ Active(o, d)
    /\ grants[<<o, d>>].market \in {NoKey, m}
    /\ permission \in grants[<<o, d>>].permissions

(* Slip: an order is held to the grant's order limit, not to its budget.   *)
ChargePerOrder(o, d, terms, bound, notional) ==
    LET grant == grants[<<o, d>>]
    IN  /\ terms.recipient = o /\ bound
        /\ terms.expiry <= grant.expiresAt /\ terms.maxFee <= grant.maxFee
        /\ notional > 0 /\ notional <= grant.maxOrder

(* bound: the nonce is part of the order's salt. *)
ChargeOk(o, d, terms, bound, notional) ==
    LET grant == grants[<<o, d>>]
    IN  /\ terms.recipient = o
        /\ terms.expiry <= grant.expiresAt
        /\ terms.maxFee <= grant.maxFee
        /\ bound
        /\ notional > 0 /\ notional <= grant.maxOrder /\ notional <= grant.remaining
=============================================================================
