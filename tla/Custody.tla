------------------------------ MODULE Custody -------------------------------
(***************************************************************************)
(* Positions and claim custody of a market (custody.rs, invariants.rs).    *)
(* An owner splits underlying credit into one YES and one NO claim, merges *)
(* complete sets back and redeems after the resolution.  Claims are real   *)
(* tokens: credited ones sit in the market's claim vault, and owners may   *)
(* withdraw them, trade them elsewhere, burn them or bring them back.      *)
(*                                                                         *)
(* Every position handler checks the collateral it touches before and      *)
(* after its work and rolls back when the closing check fails; the model   *)
(* keeps that refusal as the history variable tripped.                     *)
(*                                                                         *)
(* A handler lends the owner's AssetCredit to the wallet for the duration  *)
(* of the instruction and takes it back at the end (hydrate, flush): here  *)
(* the wallet's underlying entry is available itself.                      *)
(***************************************************************************)
EXTENDS Market

CONSTANTS
    ClaimAmounts  \* amounts positions and claim transfers move at once

ASSUME CustodyAssumption == ClaimAmounts \subseteq Nat \ {0}

VARIABLES
    wallets,  \* <<market, owner>> pairs with a Wallet account
    balance,  \* Wallet::balances of the claim assets
    credits,  \* Market::credits of the claim assets
    escrow,   \* Market::escrow of every asset: reserved by resting orders
    backing,  \* Market::backing: underlying set aside for outstanding claims
    fees,     \* Market::fees of the claim assets
    supply,   \* external: total supply of each claim mint
    vault,    \* external: balance of each claim vault
    burned    \* history: claim assets somebody burned outside the program

custodyVars == <<wallets, balance, credits, escrow, backing, fees, supply, vault, burned>>

\* The sum of a finite function of naturals, as the number of its units: a cardinality, so
\* that what one update does to it is a fact about finite sets and needs no induction.
Units(f) == UNION {{x} \X (1 .. f[x]) : x \in DOMAIN f}

Sum(f) == Cardinality(Units(f))

Underlying(c) == 3 * c
Claim(c, branch) == 3 * c + 1 + branch
CollateralOf(a) == a \div 3
Assets == 0 .. 3 * MaxBases + 2
ClaimAssets == {a \in Assets : a % 3 # 0}

CustodyType ==
    /\ wallets \subseteq Markets \X Owners
    /\ balance \in [Markets \X Owners \X ClaimAssets -> U64]
    /\ credits \in [Markets \X ClaimAssets -> Nat]
    /\ escrow \in [Markets \X Assets -> Nat]
    /\ backing \in [Markets \X Collaterals -> U64]
    /\ fees \in [Markets \X ClaimAssets -> U64]
    /\ supply \in [Markets \X ClaimAssets -> U64]
    /\ vault \in [Markets \X ClaimAssets -> U64]
    /\ burned \subseteq Markets \X ClaimAssets

CustodyInit ==
    /\ wallets = {}
    /\ balance = [x \in Markets \X Owners \X ClaimAssets |-> 0]
    /\ credits = [x \in Markets \X ClaimAssets |-> 0]
    /\ escrow = [x \in Markets \X Assets |-> 0]
    /\ backing = [x \in Markets \X Collaterals |-> 0]
    /\ fees = [x \in Markets \X ClaimAssets |-> 0]
    /\ supply = [x \in Markets \X ClaimAssets |-> 0]
    /\ vault = [x \in Markets \X ClaimAssets |-> 0]
    /\ burned = {}

(* Market::liability of a claim asset and, with the credits lent to the    *)
(* wallets of this instruction, of an underlying.                          *)
ClaimLiability(m, a) == credits[<<m, a>>] + escrow[<<m, a>>] + fees[<<m, a>>]
Liability(m, c, lent) == lent + escrow[<<m, Underlying(c)>>] + backing[<<m, c>>]

External(m, a) == supply[<<m, a>>] - vault[<<m, a>>]

----------------------------------------------------------------------------
(* What one instruction sees of a collateral: the custody image that       *)
(* invariants::check_collateral judges, before or after the work.          *)

Image(m, c, lent) ==
    [reserve  |-> reserve[MintOf(m, c)],
     owed     |-> Liability(m, c, lent),
     backing  |-> backing[<<m, c>>],
     supply   |-> <<supply[<<m, Claim(c, 0)>>], supply[<<m, Claim(c, 1)>>]>>,
     vault    |-> <<vault[<<m, Claim(c, 0)>>], vault[<<m, Claim(c, 1)>>]>>,
     claims   |-> <<ClaimLiability(m, Claim(c, 0)), ClaimLiability(m, Claim(c, 1))>>]

CheckCollateral(m, image) ==
    /\ image.backing >= ClaimBacking(image.supply[1], image.supply[2], market[m].payouts)
    /\ image.reserve >= image.owed
    /\ \A b \in 1 .. 2 : /\ image.supply[b] >= image.vault[b]
                         /\ image.vault[b] >= image.claims[b]

(* Positions::snapshot and pool::validate_pool: the pool covers its        *)
(* liability, that covers the market's, and the collateral checks.         *)
SnapshotOk(m, c, lent) ==
    LET k == MintOf(m, c)
    IN  /\ reserve[k] >= liability[k]
        /\ liability[k] >= Liability(m, c, lent)
        /\ CheckCollateral(m, Image(m, c, lent))

(* The image once d.credit went to the wallet, d.backing to the backing and *)
(* d.yes and d.no claims were minted (burned, when negative).              *)
Moved(image, d) ==
    [image EXCEPT !.owed    = @ + d.credit + d.backing,
                  !.backing = @ + d.backing,
                  !.supply  = <<@[1] + d.yes, @[2] + d.no>>,
                  !.vault   = <<@[1] + d.yes, @[2] + d.no>>,
                  !.claims  = <<@[1] + d.yes, @[2] + d.no>>]

(* Move d.credit between the owner's credit and the wallet, d.backing into *)
(* the backing, and mint (or burn) d.yes and d.no claims into (from) the   *)
(* wallet.  Positions::verify and pool::conserved close the instruction.   *)
Reposition(o, m, c, d) ==
    LET k     == MintOf(m, c)
        y     == Claim(c, 0)
        n     == Claim(c, 1)
        img   == Image(m, c, available[<<k, o>>])
        after == Moved(img, d)
    IN  /\ <<m, o>> \in wallets /\ <<k, o>> \in opened
        /\ SnapshotOk(m, c, available[<<k, o>>])
        /\ available[<<k, o>>] + d.credit \in U64
        /\ backing[<<m, c>>] + d.backing \in U64
        /\ balance[<<m, o, y>>] + d.yes \in U64 /\ balance[<<m, o, n>>] + d.no \in U64
        /\ credits[<<m, y>>] + d.yes >= 0 /\ credits[<<m, n>>] + d.no >= 0
        /\ supply[<<m, y>>] + d.yes \in U64 /\ supply[<<m, n>>] + d.no \in U64
        /\ vault[<<m, y>>] + d.yes \in U64 /\ vault[<<m, n>>] + d.no \in U64
        /\ IF CheckCollateral(m, after) /\ after.owed = img.owed
           THEN /\ available' = [available EXCEPT ![<<k, o>>] = @ + d.credit]
                /\ backing' = [backing EXCEPT ![<<m, c>>] = @ + d.backing]
                /\ balance' = [balance EXCEPT ![<<m, o, y>>] = @ + d.yes, ![<<m, o, n>>] = @ + d.no]
                /\ credits' = [credits EXCEPT ![<<m, y>>] = @ + d.yes, ![<<m, n>>] = @ + d.no]
                /\ supply' = [supply EXCEPT ![<<m, y>>] = @ + d.yes, ![<<m, n>>] = @ + d.no]
                /\ vault' = [vault EXCEPT ![<<m, y>>] = @ + d.yes, ![<<m, n>>] = @ + d.no]
                /\ UNCHANGED tripped
           ELSE /\ tripped' = TRUE
                /\ UNCHANGED <<available, backing, balance, credits, supply, vault>>
        /\ UNCHANGED <<issuer, pools, liability, reserve, opened, seized,
                       wallets, escrow, fees, burned>>

(* New claims on a base leg are new exposure, whatever the market's state. *)
Split(o, m, c, amount) ==
    /\ Ready(m, c)
    /\ c # QUOTE => /\ InspectOk(MintOf(m, c)) /\ ~issuer[MintOf(m, c)].frozen
                    /\ Exposable(m, c)
    /\ Reposition(o, m, c, [credit |-> -amount, backing |-> amount,
                            yes |-> amount, no |-> amount])

(* Slip: leaving a position is gated like taking one.                      *)
MergeWhileExposable(o, m, c, amount) ==
    /\ Ready(m, c)
    /\ c # QUOTE => Exposable(m, c)
    /\ Reposition(o, m, c, [credit |-> amount, backing |-> -amount,
                            yes |-> -amount, no |-> -amount])

Merge(o, m, c, amount) ==
    /\ Ready(m, c)
    /\ Reposition(o, m, c, [credit |-> amount, backing |-> -amount,
                            yes |-> -amount, no |-> -amount])

Redeem(o, m, c, yes, no) ==
    /\ Ready(m, c)
    /\ yes > 0 \/ no > 0
    /\ market[m].state \in {REDEEMABLE, ARCHIVED}
    /\ RedemptionOk(yes, no, market[m].payouts)
    /\ LET amount == Redemption(yes, no, market[m].payouts)
       IN  Reposition(o, m, c, [credit |-> amount, backing |-> -amount,
                                yes |-> -yes, no |-> -no])

----------------------------------------------------------------------------
(* Claim tokens in and out of the market's vault, and claims in it that    *)
(* change hands.                                                           *)

InitializeWallet(o, m) ==
    /\ market[m].state # NONE
    /\ <<m, o>> \notin wallets
    /\ wallets' = wallets \cup {<<m, o>>}
    /\ UNCHANGED <<balance, credits, escrow, backing, fees, supply, vault, burned, poolVars>>

(* The closing solvent() of a claim deposit or withdrawal. *)
CloseClaimTransfer(m, a, held, owed, o, amount) ==
    IF held >= owed
    THEN /\ vault' = [vault EXCEPT ![<<m, a>>] = held]
         /\ balance' = [balance EXCEPT ![<<m, o, a>>] = @ + amount]
         /\ credits' = [credits EXCEPT ![<<m, a>>] = @ + amount]
         /\ UNCHANGED <<wallets, escrow, backing, fees, supply, burned, poolVars>>
    ELSE /\ tripped' = TRUE
         /\ UNCHANGED <<issuer, pools, liability, reserve, opened, available, seized, custodyVars>>

DepositClaim(o, m, a, amount) ==
    /\ <<m, o>> \in wallets
    /\ a \in ClaimAssets /\ Ready(m, CollateralOf(a))
    /\ External(m, a) >= amount
    /\ balance[<<m, o, a>>] + amount <= MaxU64
    /\ CloseClaimTransfer(m, a, vault[<<m, a>>] + amount, ClaimLiability(m, a) + amount, o, amount)

WithdrawClaim(o, m, a, amount) ==
    /\ <<m, o>> \in wallets
    /\ a \in ClaimAssets /\ Ready(m, CollateralOf(a))
    /\ vault[<<m, a>>] >= ClaimLiability(m, a)
    /\ balance[<<m, o, a>>] >= amount /\ credits[<<m, a>>] >= amount
    /\ vault[<<m, a>>] >= amount
    /\ CloseClaimTransfer(m, a, vault[<<m, a>>] - amount, ClaimLiability(m, a) - amount, o, -amount)

(* Slip: the sender's balance is not checked.                              *)
TransferCreditUnchecked(o, p, m, a, amount) ==
    /\ o # p /\ {<<m, o>>, <<m, p>>} \subseteq wallets
    /\ a \in ClaimAssets /\ Listed(m, CollateralOf(a))
    /\ balance[<<m, p, a>>] + amount <= MaxU64
    /\ balance' = [balance EXCEPT ![<<m, o, a>>] = @ - amount, ![<<m, p, a>>] = @ + amount]
    /\ UNCHANGED <<wallets, credits, escrow, backing, fees, supply, vault, burned, poolVars>>

(* Slip: a transfer to oneself writes the second copy of the wallet.       *)
TransferCreditToSelf(o, p, m, a, amount) ==
    /\ {<<m, o>>, <<m, p>>} \subseteq wallets
    /\ a \in ClaimAssets /\ Listed(m, CollateralOf(a))
    /\ balance[<<m, o, a>>] >= amount
    /\ balance[<<m, p, a>>] + amount <= MaxU64
    /\ balance' = [balance EXCEPT ![<<m, o, a>>] = @ - amount,
                                  ![<<m, p, a>>] = balance[<<m, p, a>>] + amount]
    /\ UNCHANGED <<wallets, credits, escrow, backing, fees, supply, vault, burned, poolVars>>

TransferCredit(o, p, m, a, amount) ==
    /\ o # p /\ {<<m, o>>, <<m, p>>} \subseteq wallets
    /\ a \in ClaimAssets /\ Listed(m, CollateralOf(a))
    /\ balance[<<m, o, a>>] >= amount
    /\ balance[<<m, p, a>>] + amount <= MaxU64
    /\ balance' = [balance EXCEPT ![<<m, o, a>>] = @ - amount, ![<<m, p, a>>] = @ + amount]
    /\ UNCHANGED <<wallets, credits, escrow, backing, fees, supply, vault, burned, poolVars>>

(* Slip: the fees stay on the books after they were paid out.              *)
ClaimFeesAgain(actor, p, m, a, amount) ==
    /\ actor = config.admin
    /\ <<m, p>> \in wallets
    /\ a \in ClaimAssets /\ Listed(m, CollateralOf(a))
    /\ fees[<<m, a>>] >= amount
    /\ balance[<<m, p, a>>] + amount <= MaxU64
    /\ balance' = [balance EXCEPT ![<<m, p, a>>] = @ + amount]
    /\ credits' = [credits EXCEPT ![<<m, a>>] = @ + amount]
    /\ UNCHANGED <<wallets, escrow, backing, fees, supply, vault, burned, poolVars>>

(* The administrator moves collected fees to any wallet of the market. *)
ClaimFees(actor, p, m, a, amount) ==
    /\ actor = config.admin
    /\ <<m, p>> \in wallets
    /\ a \in ClaimAssets /\ Listed(m, CollateralOf(a))
    /\ fees[<<m, a>>] >= amount
    /\ balance[<<m, p, a>>] + amount <= MaxU64
    /\ fees' = [fees EXCEPT ![<<m, a>>] = @ - amount]
    /\ balance' = [balance EXCEPT ![<<m, p, a>>] = @ + amount]
    /\ credits' = [credits EXCEPT ![<<m, a>>] = @ + amount]
    /\ UNCHANGED <<wallets, escrow, backing, supply, vault, burned, poolVars>>

(* External: whoever holds claim tokens outside may burn them or send them *)
(* to the vault.                                                           *)
BurnOutside(m, a, amount) ==
    /\ a \in ClaimAssets /\ External(m, a) >= amount
    /\ supply' = [supply EXCEPT ![<<m, a>>] = @ - amount]
    /\ burned' = burned \cup {<<m, a>>}
    /\ UNCHANGED <<wallets, balance, credits, escrow, backing, fees, vault, poolVars>>

DonateClaim(m, a, amount) ==
    /\ a \in ClaimAssets /\ External(m, a) >= amount
    /\ vault' = [vault EXCEPT ![<<m, a>>] = @ + amount]
    /\ UNCHANGED <<wallets, balance, credits, escrow, backing, fees, supply, burned, poolVars>>

PositionNext ==
    \/ \E o \in Owners, m \in Markets : InitializeWallet(o, m)
    \/ \E o \in Owners, m \in Markets, c \in Collaterals, n \in ClaimAmounts : Split(o, m, c, n)
    \/ \E o \in Owners, m \in Markets, c \in Collaterals, n \in ClaimAmounts : Merge(o, m, c, n)
    \/ \E o \in Owners, m \in Markets, c \in Collaterals, yes, no \in ClaimAmounts \cup {0} :
         Redeem(o, m, c, yes, no)
    \/ \E o \in Owners, m \in Markets, a \in Assets, n \in ClaimAmounts : DepositClaim(o, m, a, n)
    \/ \E o \in Owners, m \in Markets, a \in Assets, n \in ClaimAmounts : WithdrawClaim(o, m, a, n)
    \/ \E o, p \in Owners, m \in Markets, a \in Assets, n \in ClaimAmounts :
         TransferCredit(o, p, m, a, n)
    \/ \E actor \in Keys, p \in Owners, m \in Markets, a \in Assets, n \in ClaimAmounts :
         ClaimFees(actor, p, m, a, n)
    \/ \E m \in Markets, a \in Assets, n \in ClaimAmounts : BurnOutside(m, a, n)
    \/ \E m \in Markets, a \in Assets, n \in ClaimAmounts : DonateClaim(m, a, n)

vars == <<configVars, poolVars, marketVars, custodyVars>>

Init == ListingInit /\ CustodyInit

Next ==
    \/ ListingNext /\ UNCHANGED custodyVars
    \/ PositionNext /\ UNCHANGED <<configVars, marketVars>>

Spec == Init /\ [][Next]_vars

----------------------------------------------------------------------------
(* The ledger entries of an underlying mint: its owners' credits and what  *)
(* each market holds of it, reserved by orders or set aside for claims.    *)
CreditOf(k) == [o \in Owners |-> available[<<k, o>>]]
HeldOf(k) ==
    [x \in Markets \X Collaterals |->
       IF MintOf(x[1], x[2]) = k
       THEN escrow[<<x[1], Underlying(x[2])>>] + backing[<<x[1], x[2]>>] ELSE 0]
BalancesOf(m, a) == [o \in Owners |-> balance[<<m, o, a>>]]

(* A pool's liability is exactly what its owners' credits and all the      *)
(* markets that share the pool hold of the mint, and the vault covers it   *)
(* unless the issuer seized from it (deposit, withdraw, and every handler  *)
(* that only reallocates: pool::conserved).                                *)
PoolLedgerExact ==
    \A k \in Mints :
      /\ liability[k] = Sum(CreditOf(k)) + Sum(HeldOf(k))
      /\ k \notin seized => reserve[k] >= liability[k]

(* A market's credit total of a claim asset is the sum of its wallets'     *)
(* balances: credit, debit, transfers and fee claims never forget a side.  *)
CreditLedgerExact ==
    \A m \in Markets, a \in ClaimAssets : credits[<<m, a>>] = Sum(BalancesOf(m, a))

(* The backing of a collateral pays every outstanding claim, before and    *)
(* after the resolution, wherever the claims are and whatever was burned   *)
(* outside (invariants::check_collateral, claim_backing).                  *)
ClaimsBacked ==
    \A m \in Markets, c \in Collaterals :
      backing[<<m, c>>] >= ClaimBacking(supply[<<m, Claim(c, 0)>>], supply[<<m, Claim(c, 1)>>],
                                    market[m].payouts)

(* While nobody burned a claim of it outside, the backing is exactly what  *)
(* the claims are worth: no redemption leaves a fraction behind or takes   *)
(* one from the next holder (protocol-core redemption).                    *)
BackingExact ==
    \A m \in Markets, c \in Collaterals :
      LET yes == supply[<<m, Claim(c, 0)>>]
          no  == supply[<<m, Claim(c, 1)>>]
      IN  {<<m, Claim(c, 0)>>, <<m, Claim(c, 1)>>} \cap burned = {} =>
            IF market[m].payouts = NoPayouts
            THEN yes = backing[<<m, c>>] /\ no = backing[<<m, c>>]
            ELSE Weighted(yes, no, market[m].payouts)
                   = Payout(market[m].payouts) * backing[<<m, c>>]

(* The ledgers agree: with each other, and with what they stand for. *)
LedgersExact == PoolLedgerExact /\ CreditLedgerExact /\ BackingExact

(* A claim vault holds every claim the market owes, and the supply covers  *)
(* the vault (solvent, read_claim).                                        *)
ClaimCustody ==
    \A m \in Markets, a \in ClaimAssets :
      vault[<<m, a>>] >= ClaimLiability(m, a) /\ supply[<<m, a>>] >= vault[<<m, a>>]

(* The closing checks of the handlers are redundant: from a reachable      *)
(* state no instruction is ever rolled back by them (Positions::verify,    *)
(* conserved, the closing solvency checks of the transfers).               *)
SelfChecksSilent == ~tripped

(* Whoever holds a complete set can merge it in any market state, whatever *)
(* the issuer paused, hooked, froze or rescaled and whether or not the leg *)
(* is listed, while the pool covers its liability; after the resolution    *)
(* the winning side redeems alike (the exits skip exposable).              *)
ExitsOpen ==
    \A m \in Markets, o \in Owners, c \in Collaterals, n \in ClaimAmounts :
      LET y == Claim(c, 0)
          x == Claim(c, 1)
          k == MintOf(m, c)
      IN  (/\ Ready(m, c) /\ <<m, o>> \in wallets
           /\ reserve[k] >= liability[k]
           /\ <<k, o>> \in opened) =>
            /\ balance[<<m, o, y>>] >= n /\ balance[<<m, o, x>>] >= n =>
                 ENABLED (Merge(o, m, c, n) /\ backing' # backing)
            /\ market[m].payouts = <<1, 0>> /\ balance[<<m, o, y>>] >= n =>
                 ENABLED (Redeem(o, m, c, n, 0) /\ backing' # backing)
=============================================================================
