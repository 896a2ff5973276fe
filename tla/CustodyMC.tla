------------------------------ MODULE CustodyMC -----------------------------
(***************************************************************************)
(* TLC instances of Custody: two owners, a quote mint and one stock token  *)
(* whose issuer has every control.  The initial states are mid-life states *)
(* of a deployment: a market that traded, so that claims are spread over   *)
(* wallets, fees and a resting order's escrow; or two markets on one pool. *)
(***************************************************************************)
EXTENDS Custody

CONSTANTS Admin, Quote, Stock, Alice, Bob, M

VARIABLE focus   \* "positions" or "shared pool"

MCRoleSets == {[marketAdmin |-> Admin, guardian |-> Admin, resolutionAdmin |-> Admin]}
MCControls == [k \in Mints |-> IF k = Quote THEN {}
                               ELSE {"permanent", "pausable", "scaled", "hook"}]
MCTransferFee == [k \in Mints |-> IF k = Quote THEN 0 ELSE 1]
MCMultipliers == {UnitMultiplier, [mantissa |-> 2, power |-> 1], [mantissa |-> 0, power |-> 1]}
MCCaps == [step |-> 1, tick |-> 2, minNotional |-> 1, maxQuantity |-> 2,
           maxOrder |-> 4, maxWallet |-> 8, maxMarket |-> 16]
MCTerms == [m \in Markets |-> [open |-> 0, cutoff |-> 1, caps |-> MCCaps]]
MCScale == [k \in Mints |-> 2]

(* Some markets open on one base leg of Stock with its claims created. *)
Deployed(credit, accounts, deployed) ==
    /\ now = 0 /\ noticed = 0
    /\ config = [admin |-> Admin, pendingAdmin |-> NoKey, adminAfter |-> 0,
                 roles |-> CHOOSE r \in RoleSets : TRUE, paused |-> FALSE,
                 makerBps |-> 0, takerBps |-> 1]
    /\ issuer = [k \in Mints |-> [paused |-> FALSE, hooked |-> FALSE, frozen |-> FALSE,
                                  multiplier |-> UnitMultiplier, next |-> UnitMultiplier,
                                  effectiveAt |-> 0]]
    /\ pools = Mints
    /\ opened = accounts
    /\ available = credit
    /\ seized = {} /\ tripped = FALSE /\ burned = {}
    /\ market = [m \in Markets |->
                   [state |-> IF m \in deployed THEN OPEN ELSE NONE,
                    bases |-> IF m \in deployed THEN 1 ELSE 0,
                    ready |-> IF m \in deployed THEN {0, 1} ELSE {},
                    commitment |-> NoCommitment, payouts |-> NoPayouts]]
    /\ legs = [x \in Markets \X Collaterals |->
                 IF x[1] \notin deployed THEN EmptyLeg
                 ELSE IF x[2] = QUOTE THEN [EmptyLeg EXCEPT !.mint = Quote]
                 ELSE [mint |-> Stock, scale |-> 2, multiplier |-> UnitMultiplier,
                       active |-> TRUE]]

YES == Claim(1, 0)
NO == Claim(1, 1)

(* Two complete sets of Stock claims: one YES rests in Alice's ask, one is *)
(* a collected fee, the NO side is Bob's.                                  *)
TradedInit ==
    /\ Deployed([x \in Mints \X Owners |-> 0], Mints \X Owners, {M})
    /\ liability = [k \in Mints |-> IF k = Stock THEN 2 ELSE 0]
    /\ reserve = liability
    /\ wallets = {M} \X Owners
    /\ balance = [x \in Markets \X Owners \X ClaimAssets |->
                    IF x[1] = M /\ x[2] = Bob /\ x[3] = NO THEN 2 ELSE 0]
    /\ credits = [x \in Markets \X ClaimAssets |-> IF x = <<M, NO>> THEN 2 ELSE 0]
    /\ escrow = [x \in Markets \X Assets |-> IF x = <<M, YES>> THEN 1 ELSE 0]
    /\ fees = [x \in Markets \X ClaimAssets |-> IF x = <<M, YES>> THEN 1 ELSE 0]
    /\ backing = [x \in Markets \X Collaterals |-> IF x = <<M, 1>> THEN 2 ELSE 0]
    /\ supply = [x \in Markets \X ClaimAssets |-> IF x \in {<<M, YES>>, <<M, NO>>} THEN 2 ELSE 0]
    /\ vault = supply

(* The market's life after trading, one actor for every role. *)
Lifecycle ==
    \/ \E m \in Markets, active \in BOOLEAN : SetBase(Admin, m, 1, active)
    \/ \E m \in Markets : Freeze(Admin, m)
    \/ \E m \in Markets, payouts \in {<<1, 0>>, <<1, 1>>} :
         CommitResolution(Admin, m, ResolutionHash(m, payouts))
    \/ \E m \in Markets, payouts \in Outcomes : Resolve(Admin, m, payouts)

(* Bound: at most one claim is outside the credited ledgers at a time.      *)
Adrift == [x \in Markets \X ClaimAssets |-> supply[x] - ClaimLiability(x[1], x[2])]

PositionsNext ==
    \/ PositionNext /\ Sum(Adrift)' <= 1 /\ UNCHANGED <<configVars, marketVars>>
    \/ \E halted \in BOOLEAN : IssuerFlags(Stock, halted, halted, halted)
         /\ UNCHANGED <<configVars, marketVars, custodyVars>>
    \/ Lifecycle /\ UNCHANGED <<configVars, poolVars, custodyVars>>

----------------------------------------------------------------------------
(* Two markets on the same stock token, whose transfers bear a fee.        *)
FundedInit ==
    /\ Deployed([x \in Mints \X Owners |-> IF x = <<Stock, Alice>> THEN 2 ELSE 0],
                {<<Stock, Alice>>}, Markets)
    /\ liability = [k \in Mints |-> IF k = Stock THEN 2 ELSE 0]
    /\ reserve = liability
    /\ wallets = {}
    /\ balance = [x \in Markets \X Owners \X ClaimAssets |-> 0]
    /\ credits = [x \in Markets \X ClaimAssets |-> 0]
    /\ escrow = [x \in Markets \X Assets |-> 0]
    /\ fees = [x \in Markets \X ClaimAssets |-> 0]
    /\ backing = [x \in Markets \X Collaterals |-> 0]
    /\ supply = [x \in Markets \X ClaimAssets |-> 0]
    /\ vault = supply

SharedPoolNext ==
    \/ /\ \/ \E o \in Owners : InitializeCredit(o, Stock)
          \/ \E o \in Owners, n, least \in Amounts : Deposit(o, Stock, n, least)
          \/ \E o \in Owners, n, least \in Amounts : Withdraw(o, Stock, n, least)
          \/ \E n \in Amounts : Donate(Stock, n)
          \/ \E n \in Amounts : Seize(Stock, n)
       /\ UNCHANGED <<configVars, marketVars, custodyVars>>
    \/ /\ \/ \E m \in Markets : InitializeWallet(Alice, m)
          \/ \E m \in Markets, n \in ClaimAmounts : Split(Alice, m, 1, n)
          \/ \E m \in Markets, n \in ClaimAmounts : Merge(Alice, m, 1, n)
       /\ UNCHANGED <<configVars, marketVars>>

MCInit ==
    \/ focus = "positions" /\ TradedInit
    \/ focus = "shared pool" /\ FundedInit

MCNext ==
    \/ focus = "positions" /\ PositionsNext /\ UNCHANGED focus
    \/ focus = "shared pool" /\ SharedPoolNext /\ UNCHANGED focus

MCCustodySpec == MCInit /\ [][MCNext]_<<vars, focus>>
=============================================================================
