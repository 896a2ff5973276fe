-------------------------------- MODULE Pool --------------------------------
(***************************************************************************)
(* Protocol-wide underlying custody (pool.rs, token_policy.rs).  Each mint *)
(* has one pool: a vault of real tokens and a liability, the sum of what   *)
(* the program owes in that mint.  An owner's spendable part of it is an   *)
(* AssetCredit.  Trading only reallocates the liability; deposits and      *)
(* withdrawals are the only operations that change it.                     *)
(*                                                                         *)
(* Outside the program, an issuer can pause its mint, set a transfer hook, *)
(* freeze the vault, rescale its multiplier and seize tokens, each only if *)
(* the mint has that control, and anyone can send tokens to a vault.       *)
(***************************************************************************)
EXTENDS Config, FiniteSets

CONSTANTS
    Mints,        \* underlying token mints
    QuoteMint,    \* the deployment's quote mint
    Owners,       \* credit owners
    Controls,     \* [Mints -> SUBSET IssuerControls]: extensions of each mint
    TransferFee,  \* [Mints -> Nat]: tokens withheld from one transfer
    Multipliers,  \* multipliers the issuer may set, unreadable ones included
    Amounts,      \* amounts deposits, withdrawals and the issuer move at once
    MaxReserve    \* bound: nobody brings a vault above this balance

IssuerControls == {"permanent", "pausable", "scaled", "hook", "default", "confidential"}

ASSUME PoolAssumption ==
    /\ QuoteMint \in Mints
    /\ IsFiniteSet(Mints) /\ IsFiniteSet(Owners)
    /\ Controls \in [Mints -> SUBSET IssuerControls]
    /\ Controls[QuoteMint] = {}
    /\ TransferFee \in [Mints -> Nat]
    /\ Multipliers \subseteq [mantissa : Nat, power : Nat]
    /\ Amounts \subseteq Nat \ {0}
    /\ MaxReserve \in U64

VARIABLES
    issuer,     \* external: the issuer's state of each mint
    pools,      \* mints with an AssetPool
    liability,  \* AssetPool::liability
    reserve,    \* token balance of the pool's vault
    opened,     \* <<mint, owner>> pairs with an AssetCredit account
    available,  \* AssetCredit::available
    seized,     \* history: mints whose issuer took tokens from the vault
    tripped     \* history: a handler's closing self-check refused its own work

poolVars == <<issuer, pools, liability, reserve, opened, available, seized, tripped>>
poolLedgers == <<pools, liability, reserve, opened, available, seized, tripped>>

IssuerState == [paused : BOOLEAN, hooked : BOOLEAN, frozen : BOOLEAN,
                multiplier : [mantissa : Nat, power : Nat],
                next : [mantissa : Nat, power : Nat], effectiveAt : Nat]

PoolType ==
    /\ issuer \in [Mints -> IssuerState]
    /\ pools \subseteq Mints
    /\ liability \in [Mints -> U64]
    /\ reserve \in [Mints -> U64]
    /\ opened \subseteq Mints \X Owners
    /\ available \in [Mints \X Owners -> U64]
    /\ seized \subseteq Mints
    /\ tripped \in BOOLEAN

PoolInit ==
    /\ issuer = [k \in Mints |-> [paused |-> FALSE, hooked |-> FALSE, frozen |-> FALSE,
                                  multiplier |-> UnitMultiplier, next |-> UnitMultiplier,
                                  effectiveAt |-> 0]]
    /\ pools = {}
    /\ liability = [k \in Mints |-> 0]
    /\ reserve = [k \in Mints |-> 0]
    /\ opened = {}
    /\ available = [x \in Mints \X Owners |-> 0]
    /\ seized = {}
    /\ tripped = FALSE

----------------------------------------------------------------------------
(* token_policy::inspect.  A pool admits exactly the controls its mint has *)
(* and a mint's extensions never change, so what remains to refuse is a    *)
(* configured hook and an unreadable multiplier.                           *)

LiveMultiplier(k) ==
    IF now >= issuer[k].effectiveAt THEN issuer[k].next ELSE issuer[k].multiplier

InspectOk(k) == ~issuer[k].hooked /\ MultiplierOk(LiveMultiplier(k))

(* External: the token program moves tokens of a mint in or out of a vault. *)
TokenMoves(k) == ~issuer[k].paused /\ ~issuer[k].hooked /\ ~issuer[k].frozen

(* External: what arrives when amount is sent; the rest is withheld.       *)
Received(k, amount) == IF amount <= TransferFee[k] THEN 0 ELSE amount - TransferFee[k]

----------------------------------------------------------------------------
(* The issuer and other outside parties.                                   *)

IssuerFlags(k, paused, hooked, frozen) ==
    /\ paused # issuer[k].paused => "pausable" \in Controls[k]
    /\ hooked # issuer[k].hooked => "hook" \in Controls[k]
    /\ issuer' = [issuer EXCEPT ![k] = [@ EXCEPT !.paused = paused, !.hooked = hooked,
                                                !.frozen = frozen]]
    /\ UNCHANGED poolLedgers

Rescale(k, m, at) ==
    /\ "scaled" \in Controls[k]
    /\ at >= now
    /\ issuer' = [issuer EXCEPT ![k] = [@ EXCEPT !.multiplier = LiveMultiplier(k),
                                                !.next = m, !.effectiveAt = at]]
    /\ UNCHANGED poolLedgers

Donate(k, amount) ==
    /\ k \in pools /\ TokenMoves(k)
    /\ reserve[k] + amount <= MaxReserve
    /\ reserve' = [reserve EXCEPT ![k] = @ + amount]
    /\ UNCHANGED <<issuer, pools, liability, opened, available, seized, tripped>>

Seize(k, amount) ==
    /\ "permanent" \in Controls[k]
    /\ k \in pools /\ TokenMoves(k)
    /\ reserve[k] >= amount
    /\ reserve' = [reserve EXCEPT ![k] = @ - amount]
    /\ seized' = seized \cup {k}
    /\ UNCHANGED <<issuer, pools, liability, opened, available, tripped>>

IssuerNext ==
    \/ \E k \in Mints, paused, hooked, frozen \in BOOLEAN : IssuerFlags(k, paused, hooked, frozen)
    \/ \E k \in Mints, m \in Multipliers, at \in {now, now + 1} : Rescale(k, m, at)
    \/ \E k \in Mints, amount \in Amounts : Donate(k, amount)
    \/ \E k \in Mints, amount \in Amounts : Seize(k, amount)

----------------------------------------------------------------------------
(* The program's own operations.                                           *)

(* admitted must name the mint's controls exactly, so it is Controls[k].   *)
InitializePool(actor, k) ==
    /\ actor = config.roles.marketAdmin
    /\ k \notin pools
    /\ InspectOk(k)
    /\ pools' = pools \cup {k}
    /\ UNCHANGED <<issuer, liability, reserve, opened, available, seized, tripped>>

(* Idempotent: an existing credit keeps its balance. *)
InitializeCredit(o, k) ==
    /\ k \in pools
    /\ opened' = opened \cup {<<k, o>>}
    /\ available' = IF <<k, o>> \in opened THEN available
                                           ELSE [available EXCEPT ![<<k, o>>] = 0]
    /\ UNCHANGED <<issuer, pools, liability, reserve, seized, tripped>>

(* Slip: transfers go on in a pool that was seized from.                   *)
TransferIgnoringShortfall(k, amount, minimum) ==
    /\ k \in pools /\ minimum \in 1 .. amount
    /\ InspectOk(k) /\ TokenMoves(k)
    /\ Received(k, amount) >= minimum

TransferOk(k, amount, minimum) ==
    /\ k \in pools
    /\ minimum \in 1 .. amount
    /\ InspectOk(k) /\ TokenMoves(k)
    /\ reserve[k] >= liability[k]
    /\ Received(k, amount) >= minimum

(* The closing check of a transfer: the vault still covers the liability.  *)
(* When it fails the instruction is rolled back.                           *)
CloseTransfer(k, vault, owed, credit, open) ==
    IF vault >= owed
    THEN /\ reserve' = [reserve EXCEPT ![k] = vault]
         /\ liability' = [liability EXCEPT ![k] = owed]
         /\ available' = credit
         /\ opened' = open
         /\ UNCHANGED <<issuer, pools, seized, tripped>>
    ELSE /\ tripped' = TRUE
         /\ UNCHANGED <<issuer, pools, liability, reserve, opened, available, seized>>

Deposit(o, k, amount, minimum) ==
    LET received == Received(k, amount)
    IN  /\ TransferOk(k, amount, minimum)
        /\ reserve[k] + amount <= MaxReserve
        /\ available[<<k, o>>] + received <= MaxU64
        /\ liability[k] + received <= MaxU64
        /\ CloseTransfer(k, reserve[k] + received, liability[k] + received,
                         [available EXCEPT ![<<k, o>>] = @ + received],
                         opened \cup {<<k, o>>})

Withdraw(o, k, amount, minimum) ==
    /\ TransferOk(k, amount, minimum)
    /\ <<k, o>> \in opened
    /\ available[<<k, o>>] >= amount
    /\ liability[k] >= amount
    /\ reserve[k] >= amount
    /\ CloseTransfer(k, reserve[k] - amount, liability[k] - amount,
                     [available EXCEPT ![<<k, o>>] = @ - amount], opened)

PoolNext ==
    \/ IssuerNext
    \/ \E actor \in Keys, k \in Mints : InitializePool(actor, k)
    \/ \E o \in Owners, k \in Mints : InitializeCredit(o, k)
    \/ \E o \in Owners, k \in Mints, amount, minimum \in Amounts : Deposit(o, k, amount, minimum)
    \/ \E o \in Owners, k \in Mints, amount, minimum \in Amounts : Withdraw(o, k, amount, minimum)
=============================================================================
