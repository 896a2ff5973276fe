---------------------------- MODULE MarketProofs ----------------------------
(***************************************************************************)
(* Proofs about the administration: Config, then Pool, then Market, for    *)
(* any sets of keys, mints, owners and markets.  The configuration notices *)
(* a handover; pools keep their types and amounts (Pool has no             *)
(* specification of its own: modules that compose it cite the lemmas about *)
(* its steps); the listing keeps collateral segregated, the lifecycle only *)
(* moves forward, and outcomes come from commitments.                      *)
(***************************************************************************)
EXTENDS Market, TLAPS

-----------------------------------------------------------------------------
(* The configuration.                                                      *)

(* The parameters of the actions come from the sets the type needs. *)
LEMMA ConfigConstants ==
    /\ NoKey \notin Keys
    /\ AdminDelay \in Nat /\ MaxTime \in Nat
    /\ RoleSets \subseteq Roles
    /\ FeeRates \subseteq Nat
    /\ MaxFeeBps \in Nat
BY RulesAssumption, ConfigAssumption DEF Roles

(* What any step of the configuration does to its type. *)
LEMMA ConfigTypeStep ==
    ASSUME ConfigType, [ConfigNext]_configVars
    PROVE  ConfigType'
<1> USE ConfigConstants DEF ConfigType
<1>1. CASE Tick
  BY <1>1 DEF Tick
<1>2. ASSUME NEW actor \in Keys, NEW roles \in RoleSets, NEW maker \in FeeRates,
             NEW taker \in FeeRates, Configure(actor, roles, maker, taker)
      PROVE  ConfigType'
  <2>1. roles \in Roles /\ maker \in 0 .. MaxFeeBps /\ taker \in 0 .. MaxFeeBps
    BY <1>2 DEF Configure
  <2>2. QED
    BY <1>2, <2>1 DEF Configure
<1>3. ASSUME NEW actor \in Keys, NEW successor \in Keys \cup {NoKey},
             ProposeAdmin(actor, successor)
      PROVE  ConfigType'
  <2>1. now + AdminDelay \in Nat
    OBVIOUS
  <2>2. QED
    BY <1>3, <2>1 DEF ProposeAdmin
<1>4. ASSUME NEW successor \in Keys, AcceptAdmin(successor)
      PROVE  ConfigType'
  BY <1>4 DEF AcceptAdmin
<1>5. ASSUME NEW actor \in Keys, NEW paused \in BOOLEAN, Pause(actor, paused)
      PROVE  ConfigType'
  BY <1>5 DEF Pause
<1>6. CASE UNCHANGED configVars
  BY <1>6 DEF configVars
<1>7. QED
  BY <1>1, <1>2, <1>3, <1>4, <1>5, <1>6 DEF ConfigNext

(* The configuration keeps its type: in particular both fee rates stay     *)
(* within the ceiling every reservation is computed for (configure).       *)
THEOREM ConfigTypeCorrect == ConfigSpec => []ConfigType
<1>1. ConfigInit => ConfigType
  BY ConfigConstants DEF ConfigInit, ConfigType
<1>2. ConfigType /\ [ConfigNext]_configVars => ConfigType'
  BY ConfigTypeStep
<1>3. QED
  BY <1>1, <1>2, PTL DEF ConfigSpec

----------------------------------------------------------------------------
(* A pending administrator is due exactly one AdminDelay after the last    *)
(* proposal: a proposal always restarts the notice.                        *)
NoticeRuns ==
    config.pendingAdmin # NoKey => config.adminAfter = noticed + AdminDelay

LEMMA NoticeRunsStep ==
    ASSUME ConfigType, NoticeRuns, [ConfigNext]_configVars
    PROVE  NoticeRuns'
<1> USE ConfigConstants DEF ConfigType, NoticeRuns
<1>1. CASE Tick
  BY <1>1 DEF Tick
<1>2. ASSUME NEW actor \in Keys, NEW roles \in RoleSets, NEW maker \in FeeRates,
             NEW taker \in FeeRates, Configure(actor, roles, maker, taker)
      PROVE  NoticeRuns'
  BY <1>2 DEF Configure
<1>3. ASSUME NEW actor \in Keys, NEW successor \in Keys \cup {NoKey},
             ProposeAdmin(actor, successor)
      PROVE  NoticeRuns'
  BY <1>3 DEF ProposeAdmin
<1>4. ASSUME NEW successor \in Keys, AcceptAdmin(successor)
      PROVE  NoticeRuns'
  BY <1>4 DEF AcceptAdmin
<1>5. ASSUME NEW actor \in Keys, NEW paused \in BOOLEAN, Pause(actor, paused)
      PROVE  NoticeRuns'
  BY <1>5 DEF Pause
<1>6. CASE UNCHANGED configVars
  BY <1>6 DEF configVars
<1>7. QED
  BY <1>1, <1>2, <1>3, <1>4, <1>5, <1>6 DEF ConfigNext

(* Only an acceptance changes the administrator, and it finds the notice   *)
(* of the pending key elapsed.                                             *)
LEMMA HandoverStep ==
    ASSUME ConfigType, NoticeRuns, [ConfigNext]_configVars, config'.admin # config.admin
    PROVE  config'.admin = config.pendingAdmin /\ now >= noticed + AdminDelay
<1> USE ConfigConstants DEF ConfigType, NoticeRuns
<1>1. ~Tick /\ ~UNCHANGED configVars
  BY DEF Tick, configVars
<1>2. \A actor \in Keys, roles \in RoleSets, maker, taker \in FeeRates :
        ~Configure(actor, roles, maker, taker)
  BY DEF Configure
<1>3. \A actor \in Keys, successor \in Keys \cup {NoKey} : ~ProposeAdmin(actor, successor)
  BY DEF ProposeAdmin
<1>4. \A actor \in Keys, paused \in BOOLEAN : ~Pause(actor, paused)
  BY DEF Pause
<1>5. PICK successor \in Keys : AcceptAdmin(successor)
  BY <1>1, <1>2, <1>3, <1>4 DEF ConfigNext
<1>6. QED
  BY <1>5 DEF AcceptAdmin

(* The administrator of a deployment changes only to a key whose proposal  *)
(* stood unchanged for the whole delay, whatever was proposed, cancelled   *)
(* and re-proposed before (propose_admin, accept_admin).                   *)
THEOREM HandoverNoticed == ConfigSpec => HandoverNotice
<1>1. ConfigInit => ConfigType /\ NoticeRuns
  BY ConfigConstants DEF ConfigInit, ConfigType, NoticeRuns
<1>2. ConfigType /\ NoticeRuns /\ [ConfigNext]_configVars => (ConfigType /\ NoticeRuns)'
  BY ConfigTypeStep, NoticeRunsStep
<1>3. ConfigType /\ NoticeRuns /\ [ConfigNext]_configVars =>
        [config'.admin # config.admin =>
           /\ config'.admin = config.pendingAdmin
           /\ now >= noticed + AdminDelay]_configVars
  BY HandoverStep
<1>4. QED
  BY <1>1, <1>2, <1>3, PTL DEF ConfigSpec, HandoverNotice

-----------------------------------------------------------------------------
(* Pools of assets.                                                        *)

LEMMA PoolConstants ==
    /\ QuoteMint \in Mints
    /\ IsFiniteSet(Mints) /\ IsFiniteSet(Owners)
    /\ TransferFee \in [Mints -> Nat]
    /\ Multipliers \subseteq [mantissa : Nat, power : Nat]
    /\ Amounts \subseteq Nat \ {0}
    /\ MaxReserve \in U64
    /\ MaxU64 \in Nat \ {0}
BY RulesAssumption, PoolAssumption

LEMMA U64Range == \A n \in Int : n \in U64 <=> n >= 0 /\ n <= MaxU64
BY PoolConstants DEF U64

(* A transfer delivers at most what was sent, and never less than nothing. *)
LEMMA ReceivedBounds ==
    ASSUME NEW k \in Mints, NEW amount \in Nat
    PROVE  Received(k, amount) \in 0 .. amount
BY PoolConstants DEF Received

LEMMA LiveMultiplierType ==
    ASSUME PoolType, NEW k \in Mints
    PROVE  LiveMultiplier(k) \in [mantissa : Nat, power : Nat]
BY DEF PoolType, IssuerState, LiveMultiplier

LEMMA PoolInitType == PoolInit => PoolType
<1> SUFFICES ASSUME PoolInit PROVE PoolType
  OBVIOUS
<1>1. 0 \in U64
  BY PoolConstants, U64Range
<1>2. issuer \in [Mints -> IssuerState]
  BY DEF PoolInit, IssuerState, UnitMultiplier
<1>3. QED
  BY <1>1, <1>2 DEF PoolInit, PoolType

(* The closing check of a transfer either commits what it was given, in    *)
(* range, or leaves everything but tripped as it was.                      *)
LEMMA CloseTransferType ==
    ASSUME PoolType, NEW k \in Mints, NEW held \in U64, NEW owed \in U64,
           NEW credit \in [Mints \X Owners -> U64], NEW open \in SUBSET (Mints \X Owners),
           CloseTransfer(k, held, owed, credit, open)
    PROVE  PoolType'
<1>1. CASE held >= owed
  BY <1>1 DEF PoolType, CloseTransfer
<1>2. CASE ~(held >= owed)
  BY <1>2 DEF PoolType, CloseTransfer
<1>3. QED
  BY <1>1, <1>2

LEMMA DepositType ==
    ASSUME PoolType, NEW o \in Owners, NEW k \in Mints, NEW amount \in Amounts,
           NEW minimum \in Amounts, Deposit(o, k, amount, minimum)
    PROVE  PoolType'
<1> DEFINE received == Received(k, amount)
           credit == [available EXCEPT ![<<k, o>>] = @ + received]
<1>1. amount \in Nat /\ received \in Nat /\ received <= amount
  BY PoolConstants, ReceivedBounds
<1>2. reserve[k] \in U64 /\ liability[k] \in U64 /\ available[<<k, o>>] \in U64
  BY DEF PoolType
<1> HIDE DEF received
<1>3. reserve[k] + received \in U64 /\ liability[k] + received \in U64
        /\ available[<<k, o>>] + received \in U64
  BY <1>1, <1>2, PoolConstants, U64Range DEF Deposit, U64, received
<1>4. credit \in [Mints \X Owners -> U64]
  BY <1>3 DEF PoolType
<1>5. opened \cup {<<k, o>>} \in SUBSET (Mints \X Owners)
  BY DEF PoolType
<1>6. CloseTransfer(k, reserve[k] + received, liability[k] + received, credit,
                    opened \cup {<<k, o>>})
  BY DEF Deposit, received
<1> HIDE DEF credit
<1>7. QED
  BY <1>3, <1>4, <1>5, <1>6, CloseTransferType

LEMMA WithdrawType ==
    ASSUME PoolType, NEW o \in Owners, NEW k \in Mints, NEW amount \in Amounts,
           NEW minimum \in Amounts, Withdraw(o, k, amount, minimum)
    PROVE  PoolType'
<1> DEFINE credit == [available EXCEPT ![<<k, o>>] = @ - amount]
<1>1. amount \in Nat
  BY PoolConstants
<1>2. reserve[k] \in U64 /\ liability[k] \in U64 /\ available[<<k, o>>] \in U64
  BY DEF PoolType
<1>3. reserve[k] - amount \in U64 /\ liability[k] - amount \in U64
        /\ available[<<k, o>>] - amount \in U64
  BY <1>1, <1>2, PoolConstants, U64Range DEF Withdraw, U64
<1>4. credit \in [Mints \X Owners -> U64]
  BY <1>3 DEF PoolType
<1>5. opened \in SUBSET (Mints \X Owners)
  BY DEF PoolType
<1>6. CloseTransfer(k, reserve[k] - amount, liability[k] - amount, credit, opened)
  BY DEF Withdraw
<1> HIDE DEF credit
<1>7. QED
  BY <1>3, <1>4, <1>5, <1>6, CloseTransferType

LEMMA IssuerTypeStep ==
    ASSUME ConfigType, PoolType, IssuerNext
    PROVE  PoolType'
<1>1. ASSUME NEW k \in Mints, NEW paused \in BOOLEAN, NEW hooked \in BOOLEAN,
             NEW frozen \in BOOLEAN, IssuerFlags(k, paused, hooked, frozen)
      PROVE  PoolType'
  <2>1. issuer[k] \in IssuerState
    BY DEF PoolType
  <2>2. [issuer[k] EXCEPT !.paused = paused, !.hooked = hooked, !.frozen = frozen] \in IssuerState
    BY <2>1 DEF IssuerState
  <2>3. QED
    BY <1>1, <2>2 DEF IssuerFlags, PoolType, poolLedgers
<1>2. ASSUME NEW k \in Mints, NEW m \in Multipliers, NEW at \in {now, now + 1},
             Rescale(k, m, at)
      PROVE  PoolType'
  <2>1. at \in Nat /\ m \in [mantissa : Nat, power : Nat]
    BY PoolConstants, ConfigConstants DEF ConfigType
  <2>2. LiveMultiplier(k) \in [mantissa : Nat, power : Nat]
    BY LiveMultiplierType
  <2>3. [issuer[k] EXCEPT !.multiplier = LiveMultiplier(k), !.next = m, !.effectiveAt = at]
          \in IssuerState
    <3> DEFINE live == LiveMultiplier(k)
    <3>1. issuer[k] \in IssuerState
      BY DEF PoolType
    <3> HIDE DEF live
    <3>2. live \in [mantissa : Nat, power : Nat]
      BY <2>2 DEF live
    <3>3. [issuer[k] EXCEPT !.multiplier = live, !.next = m, !.effectiveAt = at] \in IssuerState
      BY <2>1, <3>1, <3>2 DEF IssuerState
    <3>4. QED
      BY <3>3 DEF live
  <2>4. QED
    BY <1>2, <2>3 DEF Rescale, PoolType, poolLedgers
<1>3. ASSUME NEW k \in Mints, NEW amount \in Amounts, Donate(k, amount)
      PROVE  PoolType'
  <2>1. reserve[k] + amount \in U64
    BY <1>3, PoolConstants, U64Range DEF Donate, PoolType, U64
  <2>2. QED
    BY <1>3, <2>1 DEF Donate, PoolType
<1>4. ASSUME NEW k \in Mints, NEW amount \in Amounts, Seize(k, amount)
      PROVE  PoolType'
  <2>1. reserve[k] - amount \in U64
    BY <1>4, PoolConstants, U64Range DEF Seize, PoolType, U64
  <2>2. QED
    BY <1>4, <2>1 DEF Seize, PoolType
<1>5. QED
  BY <1>1, <1>2, <1>3, <1>4 DEF IssuerNext

LEMMA PoolTypeStep ==
    ASSUME ConfigType, PoolType, PoolNext
    PROVE  PoolType'
<1>1. CASE IssuerNext
  BY <1>1, IssuerTypeStep
<1>2. ASSUME NEW actor \in Keys, NEW k \in Mints, InitializePool(actor, k)
      PROVE  PoolType'
  BY <1>2 DEF InitializePool, PoolType
<1>3. ASSUME NEW o \in Owners, NEW k \in Mints, InitializeCredit(o, k)
      PROVE  PoolType'
  <2>1. 0 \in U64
    BY PoolConstants, U64Range
  <2>2. QED
    BY <1>3, <2>1 DEF InitializeCredit, PoolType
<1>4. QED
  BY <1>1, <1>2, <1>3, DepositType, WithdrawType DEF PoolNext

----------------------------------------------------------------------------
(* The closing check of a deposit or withdrawal never fails: both sides    *)
(* move by what the vault really received or sent, so a pool that covered  *)
(* its liability before still does.                                        *)
LEMMA PoolSilentStep ==
    ASSUME PoolType, PoolNext, ~tripped
    PROVE  ~tripped'
<1>1. ASSUME NEW o \in Owners, NEW k \in Mints, NEW amount \in Amounts,
             NEW minimum \in Amounts, Deposit(o, k, amount, minimum)
      PROVE  ~tripped'
  <2> DEFINE received == Received(k, amount)
  <2>1. received \in Nat
    BY PoolConstants, ReceivedBounds
  <2>2. reserve[k] \in Int /\ liability[k] \in Int /\ reserve[k] >= liability[k]
    BY <1>1, PoolConstants DEF PoolType, U64, Deposit, TransferOk
  <2> HIDE DEF received
  <2>3. reserve[k] + received >= liability[k] + received
    BY <2>1, <2>2
  <2>4. QED
    BY <1>1, <2>3 DEF Deposit, CloseTransfer, received
<1>2. ASSUME NEW o \in Owners, NEW k \in Mints, NEW amount \in Amounts,
             NEW minimum \in Amounts, Withdraw(o, k, amount, minimum)
      PROVE  ~tripped'
  <2>1. reserve[k] \in Int /\ liability[k] \in Int /\ reserve[k] >= liability[k]
    BY <1>2, PoolConstants DEF PoolType, U64, Withdraw, TransferOk
  <2>2. amount \in Nat
    BY PoolConstants
  <2>3. reserve[k] - amount >= liability[k] - amount
    BY <2>1, <2>2
  <2>4. QED
    BY <1>2, <2>3 DEF Withdraw, CloseTransfer
<1>3. ASSUME NEW actor \in Keys, NEW k \in Mints, InitializePool(actor, k)
      PROVE  ~tripped'
  BY <1>3 DEF InitializePool
<1>4. ASSUME NEW o \in Owners, NEW k \in Mints, InitializeCredit(o, k)
      PROVE  ~tripped'
  BY <1>4 DEF InitializeCredit
<1>5. CASE IssuerNext
  BY <1>5 DEF IssuerNext, IssuerFlags, Rescale, Donate, Seize, poolLedgers
<1>6. QED
  BY <1>1, <1>2, <1>3, <1>4, <1>5 DEF PoolNext

-----------------------------------------------------------------------------
(* Markets.                                                                *)

LEMMA MarketConstants ==
    /\ MaxBases \in Nat
    /\ NoMint \notin Mints
    /\ Scale \in [Mints -> Nat]
    /\ IsFiniteSet(Markets)
BY MarketAssumption

(* A market that does not exist yet lists nothing. *)
Blank == \A m \in Markets : market[m].state = NONE => market[m].bases = 0

(* Listed collaterals have a mint. *)
MintsListed ==
    \A m \in Markets, c \in Collaterals : Listed(m, c) => MintOf(m, c) \in Mints

(* Payouts are there only once the market is resolved. *)
PayoutsLast ==
    \A m \in Markets :
      market[m].payouts # NoPayouts => market[m].state \in {REDEEMABLE, ARCHIVED}

MarketInv == MarketType /\ Blank /\ MintsListed /\ SegregatedCollateral /\ PayoutsLast

LEMMA StatesDistinct ==
    /\ States = {0, 1, 2, 3, 4, 6, 7}
    /\ NONE = 0 /\ SCHEDULED = 1 /\ OPEN = 2 /\ FROZEN = 3 /\ AWAITING = 4
    /\ REDEEMABLE = 6 /\ ARCHIVED = 7 /\ QUOTE = 0
BY DEF States, NONE, SCHEDULED, OPEN, FROZEN, AWAITING, REDEEMABLE, ARCHIVED, QUOTE

LEMMA RankValues ==
    /\ Rank(NONE) = 0 /\ Rank(SCHEDULED) = 1 /\ Rank(OPEN) = 2 /\ Rank(FROZEN) = 3
    /\ Rank(AWAITING) = 4 /\ Rank(REDEEMABLE) = 5 /\ Rank(ARCHIVED) = 6
    /\ \A state \in States : Rank(state) \in 0 .. 6
BY StatesDistinct DEF Rank

LEMMA EmptyLegType == EmptyLeg \in Leg
BY DEF EmptyLeg, Leg, UnitMultiplier

LEMMA MarketInitInv == MarketInit => MarketInv
<1> SUFFICES ASSUME MarketInit PROVE MarketInv
  OBVIOUS
<1> DEFINE blank == [state |-> NONE, bases |-> 0, ready |-> {},
                     commitment |-> NoCommitment, payouts |-> NoPayouts]
<1>1. blank \in MarketState
  BY MarketConstants, StatesDistinct DEF MarketState, Collaterals
<1>2. \A m \in Markets : market[m] = blank
  BY DEF MarketInit
<1>3. MarketType
  BY <1>1, EmptyLegType DEF MarketInit, MarketType
<1>4. \A m \in Markets, c \in Collaterals : ~Listed(m, c)
  BY <1>2 DEF Listed
<1>5. QED
  BY <1>2, <1>3, <1>4 DEF MarketInv, Blank, MintsListed, SegregatedCollateral, PayoutsLast

----------------------------------------------------------------------------
(* What the operations that touch no leg have in common: one existing      *)
(* market gets a new record with the same base legs.                       *)
Advances(m, s) ==
    /\ market' = [market EXCEPT ![m] = s]
    /\ legs' = legs
    /\ s \in MarketState
    /\ s.bases = market[m].bases
    /\ market[m].state # NONE /\ s.state # NONE
    /\ s.payouts # NoPayouts => s.state \in {REDEEMABLE, ARCHIVED}
    /\ Rank(s.state) >= Rank(market[m].state)
    /\ s.payouts # market[m].payouts =>
         /\ market[m].payouts = NoPayouts
         /\ market[m].state = AWAITING
         /\ market[m].commitment = [market |-> m, payouts |-> s.payouts]

LEMMA AdvancesInv ==
    ASSUME MarketInv, NEW m \in Markets, NEW s, Advances(m, s)
    PROVE  MarketInv'
<1>1. MarketType'
  BY DEF MarketInv, MarketType, Advances
<1>2. \A n \in Markets : market'[n] = IF n = m THEN s ELSE market[n]
  BY DEF MarketInv, MarketType, Advances
<1>3. \A n \in Markets, c \in Collaterals :
        (Listed(n, c))' = Listed(n, c) /\ (MintOf(n, c))' = MintOf(n, c)
  BY <1>2 DEF Advances, Listed, MintOf
<1>4. Blank' /\ PayoutsLast'
  BY <1>2 DEF MarketInv, Blank, PayoutsLast, Advances
<1>5. MintsListed' /\ SegregatedCollateral'
  BY <1>3 DEF MarketInv, MintsListed, SegregatedCollateral
<1>6. QED
  BY <1>1, <1>4, <1>5 DEF MarketInv

LEMMA MarketRecord ==
    ASSUME MarketInv, NEW m \in Markets
    PROVE  /\ market[m] \in MarketState
           /\ market[m].state \in States /\ market[m].bases \in Collaterals
           /\ market[m].payouts # NoPayouts => market[m].state \in {REDEEMABLE, ARCHIVED}
BY DEF MarketInv, MarketType, MarketState, PayoutsLast

LEMMA InitializeClaimsAdvances ==
    ASSUME MarketInv, NEW m \in Markets, NEW c \in Collaterals, InitializeClaims(m, c)
    PROVE  Advances(m, [market[m] EXCEPT !.ready = @ \cup {c}])
BY MarketRecord, RankValues DEF InitializeClaims, Listed, Advances, MarketState

LEMMA OpenAdvances ==
    ASSUME MarketInv, NEW m \in Markets, NEW actor, Open(actor, m)
    PROVE  Advances(m, [market[m] EXCEPT !.state = OPEN])
BY MarketRecord, StatesDistinct, RankValues DEF Open, Advances, MarketState

LEMMA FreezeAdvances ==
    ASSUME MarketInv, NEW m \in Markets, NEW actor, Freeze(actor, m) \/ FreezeAtCutoff(m)
    PROVE  Advances(m, [market[m] EXCEPT !.state = FROZEN])
BY MarketRecord, StatesDistinct, RankValues DEF Freeze, FreezeAtCutoff, Advances, MarketState

LEMMA CommitAdvances ==
    ASSUME MarketInv, NEW m \in Markets, NEW actor, NEW commitment \in Commitments,
           CommitResolution(actor, m, commitment)
    PROVE  Advances(m, [market[m] EXCEPT !.commitment = commitment, !.state = AWAITING])
<1> DEFINE s == [market[m] EXCEPT !.commitment = commitment, !.state = AWAITING]
<1>1. commitment \in Commitments \cup {NoCommitment} /\ AWAITING \in States
  BY StatesDistinct
<1>2. s \in MarketState
  BY <1>1, MarketRecord DEF MarketState
<1>3. s.bases = market[m].bases /\ s.state = AWAITING /\ s.payouts = market[m].payouts
  BY MarketRecord DEF MarketState
<1>4. market[m].state = FROZEN /\ legs' = legs /\ market' = [market EXCEPT ![m] = s]
  BY DEF CommitResolution
<1>5. s.payouts = NoPayouts
  BY <1>3, <1>4, MarketRecord, StatesDistinct
<1> HIDE DEF s
<1>6. Advances(m, s)
  BY <1>2, <1>3, <1>4, <1>5, StatesDistinct, RankValues DEF Advances
<1>7. QED
  BY <1>6 DEF s

LEMMA ResolveAdvances ==
    ASSUME MarketInv, NEW m \in Markets, NEW actor, NEW payouts \in Outcomes,
           Resolve(actor, m, payouts)
    PROVE  Advances(m, [market[m] EXCEPT !.payouts = payouts, !.commitment = NoCommitment,
                                         !.state = REDEEMABLE])
<1> DEFINE s == [market[m] EXCEPT !.payouts = payouts, !.commitment = NoCommitment,
                                  !.state = REDEEMABLE]
<1>1. /\ NoCommitment \in Commitments \cup {NoCommitment} /\ REDEEMABLE \in States
      /\ payouts \in Outcomes \cup {NoPayouts}
  BY StatesDistinct
<1>2. s \in MarketState
  BY <1>1, MarketRecord DEF MarketState
<1>3. s.bases = market[m].bases /\ s.state = REDEEMABLE
  BY MarketRecord DEF MarketState
<1>4. market[m].state = AWAITING /\ legs' = legs /\ market' = [market EXCEPT ![m] = s]
  BY DEF Resolve
<1>5. market[m].commitment = [market |-> m, payouts |-> s.payouts]
  BY MarketRecord DEF Resolve, ResolutionHash, MarketState
<1>6. market[m].payouts = NoPayouts
  BY <1>4, MarketRecord, StatesDistinct
<1> HIDE DEF s
<1>7. Advances(m, s)
  BY <1>2, <1>3, <1>4, <1>5, <1>6, StatesDistinct, RankValues DEF Advances
<1>8. QED
  BY <1>7 DEF s

LEMMA ArchiveAdvances ==
    ASSUME MarketInv, NEW m \in Markets, NEW actor, Archive(actor, m)
    PROVE  Advances(m, [market[m] EXCEPT !.state = ARCHIVED])
BY MarketRecord, StatesDistinct, RankValues DEF Archive, Advances, MarketState

----------------------------------------------------------------------------
LEMMA CreateMarketInv ==
    ASSUME MarketInv, NEW m \in Markets, NEW actor, CreateMarket(actor, m)
    PROVE  MarketInv'
<1> DEFINE s == [market[m] EXCEPT !.state = SCHEDULED]
           leg == [EmptyLeg EXCEPT !.mint = QuoteMint]
<1>1. s \in MarketState /\ s.bases = 0 /\ s.payouts = NoPayouts /\ s.state = SCHEDULED
  BY MarketRecord, StatesDistinct DEF CreateMarket, MarketInv, Blank, MarketState
<1>2. leg \in Leg /\ leg.mint \in Mints
  BY PoolConstants DEF EmptyLeg, Leg, UnitMultiplier
<1> HIDE DEF s, leg
<1>3. market' = [market EXCEPT ![m] = s] /\ legs' = [legs EXCEPT ![<<m, QUOTE>>] = leg]
  BY DEF CreateMarket, s, leg
<1>4. QUOTE \in Collaterals
  BY MarketConstants DEF Collaterals, QUOTE
<1>5. MarketType'
  BY <1>1, <1>2, <1>3, <1>4 DEF MarketInv, MarketType
<1>6. \A n \in Markets : market'[n] = IF n = m THEN s ELSE market[n]
  BY <1>3 DEF MarketInv, MarketType
<1>7. \A n \in Markets, c \in Collaterals :
        legs'[<<n, c>>] = IF n = m /\ c = QUOTE THEN leg ELSE legs[<<n, c>>]
  BY <1>3 DEF MarketInv, MarketType
<1>8. Blank' /\ PayoutsLast'
  BY <1>1, <1>6 DEF MarketInv, Blank, PayoutsLast
<1>9. \A c \in Collaterals : (Listed(m, c))' => c = QUOTE
  BY <1>1, <1>6, StatesDistinct DEF Listed, Collaterals
<1>10. \A n \in Markets, c \in Collaterals :
         n # m => (Listed(n, c))' = Listed(n, c) /\ (MintOf(n, c))' = MintOf(n, c)
  BY <1>6, <1>7 DEF Listed, MintOf
<1>11. MintsListed'
  <2> SUFFICES ASSUME NEW n \in Markets, NEW c \in Collaterals, (Listed(n, c))'
               PROVE  (MintOf(n, c))' \in Mints
    BY DEF MintsListed
  <2>1. CASE n = m
    BY <1>2, <1>7, <1>9, <2>1 DEF MintOf
  <2>2. CASE n # m
    BY <1>10, <2>2 DEF MarketInv, MintsListed
  <2>3. QED
    BY <2>1, <2>2
<1>12. SegregatedCollateral'
  <2> SUFFICES ASSUME NEW n \in Markets, NEW c \in Collaterals, NEW d \in Collaterals,
                      (Listed(n, c))', (Listed(n, d))', c # d
               PROVE  (MintOf(n, c))' # (MintOf(n, d))'
    BY DEF SegregatedCollateral
  <2>1. n # m
    BY <1>9
  <2>2. QED
    BY <1>10, <2>1 DEF MarketInv, SegregatedCollateral
<1>13. QED
  BY <1>5, <1>8, <1>11, <1>12 DEF MarketInv

LEMMA AddBaseInv ==
    ASSUME PoolType, MarketInv, NEW m \in Markets, NEW k \in Mints, NEW actor,
           AddBase(actor, m, k)
    PROVE  MarketInv'
<1> DEFINE new == market[m].bases + 1
           s == [market[m] EXCEPT !.bases = new]
           leg == [mint |-> k, scale |-> Scale[k], multiplier |-> LiveMultiplier(k),
                   active |-> TRUE]
<1>1. market[m].bases \in Nat /\ new \in Collaterals /\ new # QUOTE
  BY MarketRecord, MarketConstants DEF AddBase, Fresh, Collaterals, QUOTE
<1>2. /\ s \in MarketState /\ s.bases = new /\ s.payouts = market[m].payouts
      /\ s.state = market[m].state /\ s.state \in {SCHEDULED, OPEN}
  BY <1>1, MarketRecord DEF AddBase, Fresh, MarketState
<1>3. leg \in Leg /\ leg.mint = k
  BY LiveMultiplierType, MarketConstants DEF Leg
<1>4. \A d \in 0 .. market[m].bases : MintOf(m, d) # k
  BY DEF AddBase, Fresh
<1> HIDE DEF s, leg
<1>5. market' = [market EXCEPT ![m] = s] /\ legs' = [legs EXCEPT ![<<m, new>>] = leg]
  BY DEF AddBase, Fresh, s, leg
<1>6. MarketType'
  BY <1>1, <1>2, <1>3, <1>5 DEF MarketInv, MarketType
<1>7. \A n \in Markets : market'[n] = IF n = m THEN s ELSE market[n]
  BY <1>5 DEF MarketInv, MarketType
<1>8. \A n \in Markets, c \in Collaterals :
        legs'[<<n, c>>] = IF n = m /\ c = new THEN leg ELSE legs[<<n, c>>]
  BY <1>1, <1>5 DEF MarketInv, MarketType
<1>9. Blank' /\ PayoutsLast'
  BY <1>2, <1>7, StatesDistinct DEF MarketInv, Blank, PayoutsLast
<1>10. \A c \in Collaterals :
         (Listed(m, c))' => c = new \/ (c # new /\ Listed(m, c) /\ c \in 0 .. market[m].bases)
  BY <1>1, <1>2, <1>7, StatesDistinct DEF Listed, Collaterals
<1>11. \A n \in Markets, c \in Collaterals :
         n # m => (Listed(n, c))' = Listed(n, c) /\ (MintOf(n, c))' = MintOf(n, c)
  BY <1>7, <1>8 DEF Listed, MintOf
<1>12. \A c \in Collaterals : (MintOf(m, c))' = IF c = new THEN k ELSE MintOf(m, c)
  BY <1>3, <1>8 DEF MintOf
<1> HIDE DEF new
<1>13. MintsListed'
  <2> SUFFICES ASSUME NEW n \in Markets, NEW c \in Collaterals, (Listed(n, c))'
               PROVE  (MintOf(n, c))' \in Mints
    BY DEF MintsListed
  <2>1. CASE n = m
    BY <1>10, <1>12, <2>1 DEF MarketInv, MintsListed
  <2>2. CASE n # m
    BY <1>11, <2>2 DEF MarketInv, MintsListed
  <2>3. QED
    BY <2>1, <2>2
<1>14. SegregatedCollateral'
  <2> SUFFICES ASSUME NEW n \in Markets, NEW c \in Collaterals, NEW d \in Collaterals,
                      (Listed(n, c))', (Listed(n, d))', c # d
               PROVE  (MintOf(n, c))' # (MintOf(n, d))'
    BY DEF SegregatedCollateral
  <2>1. CASE n # m
    BY <1>11, <2>1 DEF MarketInv, SegregatedCollateral
  <2>2. CASE n = m /\ c # new /\ d # new
    BY <1>10, <1>12, <2>2 DEF MarketInv, SegregatedCollateral
  <2>3. CASE n = m /\ (c = new \/ d = new)
    BY <1>4, <1>10, <1>12, <2>3
  <2>4. QED
    BY <2>1, <2>2, <2>3
<1>15. QED
  BY <1>6, <1>9, <1>13, <1>14 DEF MarketInv

LEMMA SetBaseInv ==
    ASSUME MarketInv, NEW m \in Markets, NEW c \in Collaterals, NEW active \in BOOLEAN,
           NEW actor, SetBase(actor, m, c, active)
    PROVE  MarketInv'
<1> DEFINE leg == [legs[<<m, c>>] EXCEPT !.active = active]
<1>1. leg \in Leg /\ leg.mint = MintOf(m, c)
  BY DEF MarketInv, MarketType, Leg, MintOf
<1> HIDE DEF leg
<1>2. market' = market /\ legs' = [legs EXCEPT ![<<m, c>>] = leg]
  BY DEF SetBase, leg
<1>3. MarketType'
  BY <1>1, <1>2 DEF MarketInv, MarketType
<1>4. \A n \in Markets, d \in Collaterals :
        (Listed(n, d))' = Listed(n, d) /\ (MintOf(n, d))' = MintOf(n, d)
  BY <1>1, <1>2 DEF MarketInv, MarketType, Listed, MintOf
<1>5. QED
  BY <1>2, <1>3, <1>4
     DEF MarketInv, Blank, MintsListed, SegregatedCollateral, PayoutsLast

LEMMA MarketInvStep ==
    ASSUME PoolType, MarketInv, MarketNext
    PROVE  MarketInv'
<1>1. ASSUME NEW m \in Markets, NEW s, Advances(m, s)
      PROVE  MarketInv'
  BY <1>1, AdvancesInv
<1>2. ASSUME NEW m \in Markets, NEW c \in Collaterals, InitializeClaims(m, c)
      PROVE  MarketInv'
  BY <1>1, <1>2, InitializeClaimsAdvances
<1>3. ASSUME NEW actor \in Keys, NEW m \in Markets, Open(actor, m)
      PROVE  MarketInv'
  BY <1>1, <1>3, OpenAdvances
<1>4. ASSUME NEW actor \in Keys, NEW m \in Markets, Freeze(actor, m) \/ FreezeAtCutoff(m)
      PROVE  MarketInv'
  BY <1>1, <1>4, FreezeAdvances
<1>5. ASSUME NEW m \in Markets, FreezeAtCutoff(m)
      PROVE  MarketInv'
  BY <1>1, <1>5, FreezeAdvances
<1>6. ASSUME NEW actor \in Keys, NEW m \in Markets, NEW commitment \in Commitments,
             CommitResolution(actor, m, commitment)
      PROVE  MarketInv'
  BY <1>1, <1>6, CommitAdvances
<1>7. ASSUME NEW actor \in Keys, NEW m \in Markets, NEW payouts \in Outcomes,
             Resolve(actor, m, payouts)
      PROVE  MarketInv'
  BY <1>1, <1>7, ResolveAdvances
<1>8. ASSUME NEW actor \in Keys, NEW m \in Markets, Archive(actor, m)
      PROVE  MarketInv'
  BY <1>1, <1>8, ArchiveAdvances
<1>9. QED
  BY <1>2, <1>3, <1>4, <1>5, <1>6, <1>7, <1>8, CreateMarketInv, AddBaseInv, SetBaseInv
     DEF MarketNext

----------------------------------------------------------------------------
(* The inductive invariant of the deployment without positions. *)
ListingInv == ConfigType /\ PoolType /\ MarketInv

LEMMA ListingInvInit == ListingInit => ListingInv
<1>1. ConfigInit => ConfigType
  BY ConfigConstants DEF ConfigInit, ConfigType
<1>2. QED
  BY <1>1, PoolInitType, MarketInitInv DEF ListingInit, ListingInv

LEMMA MarketInvUnchanged == MarketInv /\ UNCHANGED marketVars => MarketInv'
BY DEF MarketInv, MarketType, Blank, MintsListed, SegregatedCollateral, PayoutsLast, Listed,
       MintOf, marketVars

LEMMA ListingInvStep == ListingInv /\ [ListingNext]_ListingVars => ListingInv'
<1> SUFFICES ASSUME ListingInv, [ListingNext]_ListingVars PROVE ListingInv'
  OBVIOUS
<1> USE DEF ListingInv
<1>1. UNCHANGED configVars => ConfigType'
  BY DEF ConfigType, configVars
<1>2. UNCHANGED poolVars => PoolType'
  BY DEF PoolType, poolVars
<1>3. CASE ConfigNext /\ UNCHANGED <<poolVars, marketVars>>
  BY <1>2, <1>3, ConfigTypeStep, MarketInvUnchanged
<1>4. CASE PoolNext /\ UNCHANGED <<configVars, marketVars>>
  BY <1>1, <1>4, PoolTypeStep, MarketInvUnchanged
<1>5. CASE MarketNext /\ UNCHANGED <<configVars, poolVars>>
  BY <1>1, <1>2, <1>5, MarketInvStep
<1>6. CASE UNCHANGED ListingVars
  BY <1>1, <1>2, <1>6, MarketInvUnchanged DEF ListingVars
<1>7. QED
  BY <1>3, <1>4, <1>5, <1>6 DEF ListingNext

(* However listings, delistings and issuers interleave, no two collaterals *)
(* of a market share a mint (add_base).                                    *)
THEOREM CollateralSegregated == ListingSpec => []SegregatedCollateral
<1>1. ListingInv => SegregatedCollateral
  BY DEF ListingInv, MarketInv
<1>2. QED
  BY <1>1, ListingInvInit, ListingInvStep, PTL DEF ListingSpec

----------------------------------------------------------------------------
(* What one step may do to a market: the two action properties below.      *)
Committed(m) ==
    market'[m].payouts # market[m].payouts =>
      /\ market[m].payouts = NoPayouts
      /\ market[m].state = AWAITING
      /\ market[m].commitment = [market |-> m, payouts |-> market'[m].payouts]

Forward(m) ==
    /\ Rank(market'[m].state) >= Rank(market[m].state)
    /\ \A c \in Collaterals :
         Listed(m, c) =>
           [legs'[<<m, c>>] EXCEPT !.active = FALSE] = [legs[<<m, c>>] EXCEPT !.active = FALSE]

LEMMA RankReflexive ==
    ASSUME MarketInv, NEW n \in Markets, market'[n].state = market[n].state
    PROVE  Rank(market'[n].state) >= Rank(market[n].state)
BY MarketRecord, RankValues

LEMMA AdvancesMoves ==
    ASSUME MarketInv, NEW m \in Markets, NEW s, Advances(m, s), NEW n \in Markets
    PROVE  Committed(n) /\ Forward(n)
<1>1. market'[n] = IF n = m THEN s ELSE market[n]
  BY DEF MarketInv, MarketType, Advances
<1>2. Committed(n)
  BY <1>1 DEF Advances, Committed
<1>3. Rank(market'[n].state) >= Rank(market[n].state)
  BY <1>1, RankReflexive DEF Advances
<1>4. QED
  BY <1>2, <1>3 DEF Forward, Advances

LEMMA CreateMarketMoves ==
    ASSUME MarketInv, NEW m \in Markets, NEW actor, CreateMarket(actor, m), NEW n \in Markets
    PROVE  Committed(n) /\ Forward(n)
<1>1. market[m].state = NONE /\ SCHEDULED \in States
  BY StatesDistinct DEF CreateMarket
<1>2. /\ market'[n].payouts = market[n].payouts
      /\ n = m => market'[n].state = SCHEDULED
      /\ n # m => market'[n].state = market[n].state
  BY MarketRecord DEF MarketInv, MarketType, MarketState, CreateMarket
<1>3. Rank(market'[n].state) >= Rank(market[n].state)
  BY <1>1, <1>2, RankReflexive, RankValues
<1>4. \A c \in Collaterals : Listed(n, c) => legs'[<<n, c>>] = legs[<<n, c>>]
  BY <1>1 DEF MarketInv, MarketType, CreateMarket, Listed
<1>5. QED
  BY <1>2, <1>3, <1>4 DEF Committed, Forward

LEMMA AddBaseMoves ==
    ASSUME MarketInv, NEW m \in Markets, NEW k \in Mints, NEW actor, AddBase(actor, m, k),
           NEW n \in Markets
    PROVE  Committed(n) /\ Forward(n)
<1>1. market'[n].payouts = market[n].payouts /\ market'[n].state = market[n].state
  BY MarketRecord DEF MarketInv, MarketType, MarketState, AddBase, Fresh
<1>2. Rank(market'[n].state) >= Rank(market[n].state)
  BY <1>1, RankReflexive
<1>3. \A c \in Collaterals : Listed(n, c) => <<n, c>> # <<m, market[m].bases + 1>>
  BY MarketRecord, MarketConstants DEF Listed, Collaterals
<1>4. \A c \in Collaterals : Listed(n, c) => legs'[<<n, c>>] = legs[<<n, c>>]
  BY <1>3 DEF MarketInv, MarketType, AddBase, Fresh
<1>5. QED
  BY <1>1, <1>2, <1>4 DEF Committed, Forward

LEMMA SetBaseMoves ==
    ASSUME MarketInv, NEW m \in Markets, NEW c \in Collaterals, NEW active \in BOOLEAN,
           NEW actor, SetBase(actor, m, c, active), NEW n \in Markets
    PROVE  Committed(n) /\ Forward(n)
<1>1. market' = market
  BY DEF SetBase
<1>2. Rank(market'[n].state) >= Rank(market[n].state)
  BY <1>1, RankReflexive
<1>3. \A d \in Collaterals :
        legs'[<<n, d>>] = IF <<n, d>> = <<m, c>> THEN [legs[<<m, c>>] EXCEPT !.active = active]
                                                 ELSE legs[<<n, d>>]
  BY DEF MarketInv, MarketType, SetBase
<1>4. \A d \in Collaterals : legs[<<n, d>>] \in Leg
  BY DEF MarketInv, MarketType
<1>5. \A d \in Collaterals :
        [legs'[<<n, d>>] EXCEPT !.active = FALSE] = [legs[<<n, d>>] EXCEPT !.active = FALSE]
  BY <1>3, <1>4 DEF Leg
<1>6. QED
  BY <1>1, <1>2, <1>5 DEF Committed, Forward

LEMMA MarketMoves ==
    ASSUME MarketInv, MarketNext, NEW n \in Markets
    PROVE  Committed(n) /\ Forward(n)
<1>1. ASSUME NEW m \in Markets, NEW s, Advances(m, s)
      PROVE  Committed(n) /\ Forward(n)
  BY <1>1, AdvancesMoves
<1>2. ASSUME NEW m \in Markets, NEW c \in Collaterals, InitializeClaims(m, c)
      PROVE  Committed(n) /\ Forward(n)
  BY <1>1, <1>2, InitializeClaimsAdvances
<1>3. ASSUME NEW actor \in Keys, NEW m \in Markets, Open(actor, m)
      PROVE  Committed(n) /\ Forward(n)
  BY <1>1, <1>3, OpenAdvances
<1>4. ASSUME NEW actor \in Keys, NEW m \in Markets, Freeze(actor, m) \/ FreezeAtCutoff(m)
      PROVE  Committed(n) /\ Forward(n)
  BY <1>1, <1>4, FreezeAdvances
<1>5. ASSUME NEW m \in Markets, FreezeAtCutoff(m)
      PROVE  Committed(n) /\ Forward(n)
  BY <1>1, <1>5, FreezeAdvances
<1>6. ASSUME NEW actor \in Keys, NEW m \in Markets, NEW commitment \in Commitments,
             CommitResolution(actor, m, commitment)
      PROVE  Committed(n) /\ Forward(n)
  BY <1>1, <1>6, CommitAdvances
<1>7. ASSUME NEW actor \in Keys, NEW m \in Markets, NEW payouts \in Outcomes,
             Resolve(actor, m, payouts)
      PROVE  Committed(n) /\ Forward(n)
  BY <1>1, <1>7, ResolveAdvances
<1>8. ASSUME NEW actor \in Keys, NEW m \in Markets, Archive(actor, m)
      PROVE  Committed(n) /\ Forward(n)
  BY <1>1, <1>8, ArchiveAdvances
<1>9. QED
  BY <1>2, <1>3, <1>4, <1>5, <1>6, <1>7, <1>8, CreateMarketMoves, AddBaseMoves, SetBaseMoves
     DEF MarketNext

LEMMA ListingMoves ==
    ASSUME ListingInv, [ListingNext]_ListingVars, NEW n \in Markets
    PROVE  Committed(n) /\ Forward(n)
<1>1. CASE UNCHANGED marketVars
  <2>1. Rank(market'[n].state) >= Rank(market[n].state)
    BY <1>1, RankReflexive DEF marketVars, ListingInv
  <2>2. QED
    BY <1>1, <2>1 DEF marketVars, Committed, Forward
<1>2. CASE MarketNext
  BY <1>2, MarketMoves DEF ListingInv
<1>3. QED
  BY <1>1, <1>2 DEF ListingNext, ListingVars

(* An outcome is what the market administrator committed to for this very  *)
(* market, and it is final (commit_resolution, resolve).                   *)
THEOREM OutcomesCommitted == ListingSpec => OutcomeCommitted
<1>1. ListingInv /\ [ListingNext]_ListingVars => [\A m \in Markets : Committed(m)]_ListingVars
  BY ListingMoves
<1>2. QED
  BY <1>1, ListingInvInit, ListingInvStep, PTL DEF ListingSpec, OutcomeCommitted, Committed

(* No step moves a market's lifecycle back or changes the issuer terms of  *)
(* a listed leg (lifecycle, add_base, set_base).                           *)
THEOREM LifecycleMovesForward == ListingSpec => LifecycleForward
<1>1. ListingInv /\ [ListingNext]_ListingVars => [\A m \in Markets : Forward(m)]_ListingVars
  BY ListingMoves
<1>2. QED
  BY <1>1, ListingInvInit, ListingInvStep, PTL DEF ListingSpec, LifecycleForward, Forward
=============================================================================
