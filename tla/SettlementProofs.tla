------------------------- MODULE SettlementProofs -------------------------
(***************************************************************************)
(* Proofs about the images that an instruction on orders works on: what a  *)
(* fill, a batch of fills, a release and a batch of releases do to them.   *)
(* Between two images the holdings of every asset of the market stay the   *)
(* same, apart from the complete sets that were minted, and the escrow and *)
(* the exposure follow the orders.                                         *)
(***************************************************************************)
EXTENDS Exchange, CustodyProofs

LEMMA UpTo ==
    ASSUME NEW n \in Nat, NEW T, 0 \in T, \A i \in 1 .. n : i - 1 \in T => i \in T
    PROVE  n \in T
<1> DEFINE out == {i \in 0 .. n : i \notin T}
           below == OpToRel(<, Nat)
<1>1. SUFFICES ASSUME out # {} PROVE FALSE
  OBVIOUS
<1>2. PICK i \in out : \A j \in out : <<j, i>> \notin below
  <2>1. out \subseteq Nat
    OBVIOUS
  <2> HIDE DEF out, below
  <2>2. IsWellFoundedOn(below, Nat)
    BY NatLessThanWellFounded DEF below
  <2>3. QED
    BY <1>1, <2>1, <2>2, WFMin
<1>3. i # 0 /\ i \in 1 .. n
  OBVIOUS
<1>4. i - 1 \in T
  <2>1. i - 1 \in Nat /\ i - 1 < i /\ i - 1 \in 0 .. n
    BY <1>3
  <2>2. <<i - 1, i>> \in below
    BY <1>3, <2>1 DEF OpToRel
  <2>3. QED
    BY <1>2, <2>1, <2>2
<1>5. QED
  BY <1>3, <1>4

(* The images after each leg of a plan of n legs.                          *)
Executed(after, b, m, takerId, n, makers) ==
    after = [i \in 0 .. n |->
      IF i = 0 THEN b
      ELSE IF i \in DOMAIN makers
      THEN Execute(after[i - 1], m, takerId, makers[i].id, makers[i].quantity)
      ELSE after[i - 1]]

LEMMA ExecutedAt ==
    ASSUME NEW b, NEW m, NEW takerId, NEW n \in Nat, NEW makers
    PROVE  \E after : /\ Executed(after, b, m, takerId, n, makers)
                     /\ ExecuteAll(b, m, takerId, n, makers) = after[n]
<1> DEFINE Turn(g, i) == IF i = 0 THEN b
                         ELSE IF i \in DOMAIN makers
                         THEN Execute(g[i - 1], m, takerId, makers[i].id, makers[i].quantity)
                         ELSE g[i - 1]
           T == {k \in 0 .. n : \E g : g = [i \in 0 .. k |-> Turn(g, i)]}
<1>1. 0 \in T
  <2> DEFINE g == [i \in 0 .. 0 |-> b]
  <2>1. g = [i \in 0 .. 0 |-> Turn(g, i)]
    OBVIOUS
  <2>2. \E f : f = [i \in 0 .. 0 |-> Turn(f, i)]
    <3> HIDE DEF g, Turn
    <3>1. QED
      BY <2>1
  <2>3. QED
    BY <2>2
<1>2. ASSUME NEW k \in 1 .. n, k - 1 \in T
      PROVE  k \in T
  <2>1. PICK g : g = [i \in 0 .. k - 1 |-> Turn(g, i)]
    BY <1>2
  <2> DEFINE h == [i \in 0 .. k |-> IF i < k THEN g[i] ELSE Turn(g, k)]
  <2>2. \A i \in 0 .. k : Turn(h, i) = h[i]
    <3> TAKE i \in 0 .. k
    <3>1. CASE i = 0
      BY <2>1, <3>1
    <3>2. CASE i \in 1 .. k - 1
      <4>1. h[i - 1] = g[i - 1] /\ h[i] = g[i] /\ i \in 0 .. k - 1 /\ i # 0
        BY <3>2
      <4>2. g[i] = Turn(g, i)
        BY <2>1, <4>1
      <4>3. QED
        BY <4>1, <4>2
    <3>3. CASE i = k
      <4>1. h[k - 1] = g[k - 1] /\ h[k] = Turn(g, k) /\ k # 0
        OBVIOUS
      <4>2. QED
        BY <3>3, <4>1
    <3>4. QED
      BY <3>1, <3>2, <3>3
  <2>3. h = [i \in 0 .. k |-> Turn(h, i)]
    <3> HIDE DEF Turn
    <3>1. QED
      BY <2>2
  <2>4. \E f : f = [i \in 0 .. k |-> Turn(f, i)]
    <3> HIDE DEF h, Turn
    <3>1. QED
      BY <2>3
  <2>5. QED
    BY <2>4
<1>3. n \in T
  <2> HIDE DEF T
  <2>1. QED
    BY <1>1, <1>2, UpTo
<1>4. QED
  BY <1>3 DEF ExecuteAll, Executed

----------------------------------------------------------------------------
OrderImages ==
    [terms : SignedTerms, delegate : Delegates \cup {NoKey}, remaining : Int, filled : Int,
     reserved : Int, notional : Int, sequence : Nat, carry : Int,
     status : {LIVE, FILLED, CANCELLED}, planned : Int]

CreditImages == [Mints \X Owners -> Int]
BalanceImages == [Markets \X Owners \X ClaimAssets -> Int]
ClaimImages == [Markets \X ClaimAssets -> Int]
EscrowImages == [Markets \X Assets -> Int]
BackingImages == [Markets \X Collaterals -> Int]
BookImages(D) == [D -> OrderImages]
ExposureImages == [Markets -> Int]
HeldImages == [Markets \X Owners -> Int]
MintedImages == [Collaterals -> Int]

(* The images of a handler's accounts, with the orders D.                  *)
Ledgers(D) ==
    [available : CreditImages, balance : BalanceImages, credits : ClaimImages,
     escrow : EscrowImages, backing : BackingImages, fees : ClaimImages,
     orders : BookImages(D), exposure : ExposureImages, held : HeldImages,
     minted : MintedImages, ok : BOOLEAN]

(* All that Credit and Expose do to the images b.                          *)
Credited(b, m, o, a, n, r) ==
    /\ r.orders = b.orders /\ r.escrow = b.escrow /\ r.backing = b.backing
    /\ r.fees = b.fees /\ r.exposure = b.exposure /\ r.held = b.held
    /\ r.minted = b.minted /\ r.ok = b.ok
    /\ a \in ClaimAssets =>
         /\ r.available = b.available
         /\ r.balance = [b.balance EXCEPT ![<<m, o, a>>] = b.balance[<<m, o, a>>] + n]
         /\ r.credits = [b.credits EXCEPT ![<<m, a>>] = b.credits[<<m, a>>] + n]
    /\ a \notin ClaimAssets =>
         /\ r.available = [b.available EXCEPT ![<<MintOf(m, CollateralOf(a)), o>>] =
                             b.available[<<MintOf(m, CollateralOf(a)), o>>] + n]
         /\ r.balance = b.balance /\ r.credits = b.credits

Exposed(b, m, o, n, r) ==
    /\ r.orders = b.orders /\ r.escrow = b.escrow /\ r.backing = b.backing
    /\ r.fees = b.fees /\ r.minted = b.minted /\ r.ok = b.ok
    /\ r.available = b.available /\ r.balance = b.balance /\ r.credits = b.credits
    /\ r.exposure = [b.exposure EXCEPT ![m] = b.exposure[m] + n]
    /\ r.held = [b.held EXCEPT ![<<m, o>>] = b.held[<<m, o>>] + n]

LEMMA CreditEffect ==
    ASSUME NEW D, NEW b \in Ledgers(D), NEW m \in Markets, NEW o \in Owners, NEW a \in Assets,
           NEW n \in Int, a \notin ClaimAssets => MintOf(m, CollateralOf(a)) \in Mints
    PROVE  /\ Credit(b, m, o, a, n) \in Ledgers(D)
           /\ Credited(b, m, o, a, n, Credit(b, m, o, a, n))
<1> DEFINE r == Credit(b, m, o, a, n)
           k == MintOf(m, CollateralOf(a))
           u == [b.balance EXCEPT ![<<m, o, a>>] = b.balance[<<m, o, a>>] + n]
           v == [b.credits EXCEPT ![<<m, a>>] = b.credits[<<m, a>>] + n]
           w == [b.available EXCEPT ![<<k, o>>] = b.available[<<k, o>>] + n]
<1>1. CASE a \in ClaimAssets
  <2>1. u \in BalanceImages
    BY <1>1 DEF Ledgers, BalanceImages
  <2>2. v \in ClaimImages
    BY <1>1 DEF Ledgers, ClaimImages
  <2>3. r = [b EXCEPT !.balance = u, !.credits = v]
    BY <1>1 DEF Credit
  <2> HIDE DEF r, u, v
  <2>4. /\ r \in Ledgers(D)
        /\ r.orders = b.orders /\ r.escrow = b.escrow /\ r.backing = b.backing
        /\ r.fees = b.fees /\ r.exposure = b.exposure /\ r.held = b.held
        /\ r.minted = b.minted /\ r.ok = b.ok
        /\ r.available = b.available /\ r.balance = u /\ r.credits = v
    BY <2>1, <2>2, <2>3 DEF Ledgers
  <2>5. QED
    BY <1>1, <2>4 DEF r, u, v, Credited
<1>2. CASE a \notin ClaimAssets
  <2>1. w \in CreditImages
    BY <1>2 DEF Ledgers, CreditImages
  <2>2. r = [b EXCEPT !.available = w]
    BY <1>2 DEF Credit
  <2> HIDE DEF r, w
  <2>3. /\ r \in Ledgers(D)
        /\ r.orders = b.orders /\ r.escrow = b.escrow /\ r.backing = b.backing
        /\ r.fees = b.fees /\ r.exposure = b.exposure /\ r.held = b.held
        /\ r.minted = b.minted /\ r.ok = b.ok
        /\ r.available = w /\ r.balance = b.balance /\ r.credits = b.credits
    BY <2>1, <2>2 DEF Ledgers
  <2>4. QED
    BY <1>2, <2>3 DEF r, w, Credited
<1>3. QED
  BY <1>1, <1>2

LEMMA ExposeEffect ==
    ASSUME NEW D, NEW b \in Ledgers(D), NEW m \in Markets, NEW o \in Owners, NEW n \in Int
    PROVE  /\ Expose(b, m, o, n) \in Ledgers(D)
           /\ Exposed(b, m, o, n, Expose(b, m, o, n))
<1> DEFINE r == Expose(b, m, o, n)
           u == [b.exposure EXCEPT ![m] = b.exposure[m] + n]
           v == [b.held EXCEPT ![<<m, o>>] = b.held[<<m, o>>] + n]
<1>1. u \in ExposureImages
  BY DEF Ledgers, ExposureImages
<1>2. v \in HeldImages
  BY DEF Ledgers, HeldImages
<1>3. r = [b EXCEPT !.exposure = u, !.held = v]
  BY DEF Expose
<1> HIDE DEF r, u, v
<1>4. /\ r \in Ledgers(D)
      /\ r.orders = b.orders /\ r.escrow = b.escrow /\ r.backing = b.backing
      /\ r.fees = b.fees /\ r.minted = b.minted /\ r.ok = b.ok
      /\ r.available = b.available /\ r.balance = b.balance /\ r.credits = b.credits
      /\ r.exposure = u /\ r.held = v
  BY <1>1, <1>2, <1>3 DEF Ledgers
<1>5. QED
  BY <1>4 DEF r, u, v, Exposed

----------------------------------------------------------------------------
(* Assets.                                                                 *)

LEMMA CollateralRange ==
    /\ MaxBases \in Nat /\ QUOTE \in Collaterals /\ Collaterals \subseteq Nat
    /\ 1 .. MaxBases \subseteq Collaterals /\ QUOTE \notin 1 .. MaxBases
    /\ ClaimAssets \subseteq Assets
BY MarketConstants DEF Collaterals, QUOTE, ClaimAssets

LEMMA AssetsOfCollateral ==
    ASSUME NEW c \in Collaterals
    PROVE  /\ Underlying(c) \in Assets /\ Underlying(c) \notin ClaimAssets
           /\ CollateralOf(Underlying(c)) = c
           /\ \A branch \in {0, 1} : /\ Claim(c, branch) \in ClaimAssets
                                     /\ CollateralOf(Claim(c, branch)) = c
           /\ Claim(c, 0) # Claim(c, 1)
<1>1. c \in Nat /\ c <= MaxBases /\ MaxBases \in Nat
  BY CollateralRange DEF Collaterals
<1>2. /\ 3 * c \in 0 .. 3 * MaxBases + 2 /\ (3 * c) % 3 = 0 /\ (3 * c) \div 3 = c
  BY <1>1
<1>3. ASSUME NEW branch \in {0, 1}
      PROVE  /\ 3 * c + 1 + branch \in 0 .. 3 * MaxBases + 2
             /\ (3 * c + 1 + branch) % 3 # 0 /\ (3 * c + 1 + branch) \div 3 = c
  BY <1>1
<1>4. QED
  BY <1>1, <1>2, <1>3 DEF Underlying, Claim, CollateralOf, Assets, ClaimAssets

LEMMA AssetKinds ==
    ASSUME NEW a \in Assets
    PROVE  /\ CollateralOf(a) \in Collaterals
           /\ a \notin ClaimAssets => a = Underlying(CollateralOf(a))
           /\ a \in ClaimAssets => \/ a = Claim(CollateralOf(a), 0)
                                   \/ a = Claim(CollateralOf(a), 1)
<1>1. a \in Nat /\ a <= 3 * MaxBases + 2 /\ MaxBases \in Nat
  BY CollateralRange DEF Assets
<1>2. a \div 3 \in 0 .. MaxBases
  BY <1>1
<1>3. a % 3 = 0 => a = 3 * (a \div 3)
  BY <1>1
<1>4. a % 3 # 0 => a = 3 * (a \div 3) + 1 \/ a = 3 * (a \div 3) + 1 + 1
  BY <1>1
<1>5. QED
  BY <1>1, <1>2, <1>3, <1>4 DEF Underlying, Claim, CollateralOf, ClaimAssets, Collaterals

(* The assets of a market's listed collaterals. *)
ListedAssets(m) == {a \in Assets : Listed(m, CollateralOf(a))}

LEMMA ListedUnderlying ==
    ASSUME NEW m \in Markets, NEW c \in Collaterals, Listed(m, c)
    PROVE  /\ Underlying(c) \in ListedAssets(m)
           /\ \A branch \in {0, 1} : Claim(c, branch) \in ListedAssets(m)
BY AssetsOfCollateral, CollateralRange DEF ListedAssets

----------------------------------------------------------------------------
(* Arithmetic of quotes, conversions and fees.                             *)

LEMMA RulesConstants == Wad \in Nat \ {0} /\ Bps \in Nat \ {0} /\ MaxFeeBps \in 0 .. Bps
BY RulesAssumption

LEMMA QuoteTypes ==
    ASSUME NEW quantity \in Int, NEW price \in Nat
    PROVE  /\ QuoteDown(quantity, price) \in Int /\ QuoteUp(quantity, price) \in Int
           /\ QuoteUp(quantity, price) \in {QuoteDown(quantity, price), QuoteDown(quantity, price) + 1}
           /\ quantity >= 0 => QuoteDown(quantity, price) >= 0 /\ QuoteUp(quantity, price) >= 0
<1> DEFINE whole == price \div Wad
           part == price % Wad
<1>1. whole \in Nat /\ part \in Nat
  BY RulesConstants
<1> HIDE DEF whole, part
<1> DEFINE x == quantity * whole
           y == quantity * part
<1>2. x \in Int /\ y \in Int /\ (quantity >= 0 => x >= 0 /\ y >= 0)
  BY <1>1
<1>3. QuoteDown(quantity, price) = x + (y \div Wad)
  BY DEF QuoteDown, whole, part
<1>4. QuoteUp(quantity, price) = QuoteDown(quantity, price) + IF y % Wad # 0 THEN 1 ELSE 0
  BY DEF QuoteUp, part
<1> HIDE DEF x, y
<1>5. y \div Wad \in Int /\ (y >= 0 => y \div Wad >= 0)
  BY <1>2, RulesConstants
<1>6. QED
  BY <1>2, <1>3, <1>4, <1>5

LEMMA QuoteOfNothing ==
    ASSUME NEW price \in Nat
    PROVE  QuoteDown(0, price) = 0 /\ QuoteUp(0, price) = 0
<1> DEFINE whole == price \div Wad
           part == price % Wad
<1>1. whole \in Nat /\ part \in Nat
  BY RulesConstants
<1> HIDE DEF whole, part
<1>2. 0 * whole = 0 /\ 0 * part = 0
  BY <1>1
<1>3. 0 \div Wad = 0 /\ 0 % Wad = 0
  BY RulesConstants
<1>4. QED
  BY <1>2, <1>3 DEF QuoteDown, QuoteUp, whole, part

LEMMA RawType ==
    ASSUME MarketType, PoolType, NEW m \in Markets, NEW c \in Collaterals, NEW units \in Int,
           NEW up \in BOOLEAN, MintOf(m, c) \in Mints, MultiplierOk(LiveMultiplier(MintOf(m, c)))
    PROVE  Raw(m, c, units, up) \in Int
<1> DEFINE live == LiveMultiplier(MintOf(m, c))
           scale == legs[<<m, c>>].scale
<1>1. live.mantissa \in Nat \ {0} /\ live.power \in Nat
  BY LiveMultiplierType DEF MultiplierOk
<1>2. scale \in Nat
  BY DEF MarketType, Leg
<1>3. Raw(m, c, units, up) = BaseRaw(units, scale, live, up)
  BY DEF Raw
<1> HIDE DEF live, scale
<1> DEFINE x == units * scale * live.power
<1>4. x \in Int
  <2>1. units * scale \in Int
    BY <1>2
  <2>2. QED
    BY <1>1, <2>1
<1>5. BaseRaw(units, scale, live, up) = IF up THEN (x + live.mantissa - 1) \div live.mantissa
                                        ELSE x \div live.mantissa
  BY DEF BaseRaw, CeilDiv
<1> HIDE DEF x
<1>6. QED
  BY <1>1, <1>3, <1>4, <1>5

LEMMA FeeType ==
    ASSUME NEW gross \in Int, NEW rate \in Nat, NEW carry \in Int
    PROVE  /\ Fee(gross, rate, carry).amount \in Int
           /\ Fee(gross, rate, carry).carry \in 0 .. Bps - 1
           /\ gross >= 0 /\ carry >= 0 => Fee(gross, rate, carry).amount >= 0
<1> DEFINE x == gross * rate + carry
<1>1. x \in Int /\ (gross >= 0 /\ carry >= 0 => x >= 0)
  <2>1. gross * rate \in Int /\ (gross >= 0 => gross * rate >= 0)
    OBVIOUS
  <2>2. QED
    BY <2>1
<1>2. Fee(gross, rate, carry).amount = x \div Bps /\ Fee(gross, rate, carry).carry = x % Bps
  BY DEF Fee
<1> HIDE DEF x
<1>3. QED
  BY <1>1, <1>2, RulesConstants

----------------------------------------------------------------------------
(* What the orders of a market reserve and expose.                         *)

ReservedBy(book, m, a) ==
    Sum([id \in {x \in DOMAIN book : x.market = m /\ FundingAsset(book[x].terms) = a} |->
           book[id].reserved])
MarketNotional(book, m) ==
    Sum([id \in {x \in DOMAIN book : x.market = m} |-> book[id].notional])
WalletNotional(book, m, o) ==
    Sum([id \in {x \in DOMAIN book : x.market = m /\ x.owner = o} |-> book[id].notional])

(* Order accounts whose reservations can be summed. *)
SoundAmounts(book) ==
    \A id \in DOMAIN book : book[id].reserved \in Nat /\ book[id].notional \in Nat

LEMMA SumChanged ==
    ASSUME NEW S, IsFiniteSet(S), NEW f \in [S -> Nat], NEW g \in [S -> Nat], NEW x,
           \A y \in S : y # x => g[y] = f[y]
    PROVE  Sum(g) = Sum(f) + (IF x \in S THEN g[x] - f[x] ELSE 0)
<1>1. CASE x \in S
  <2>1. Sum(f) \in Nat /\ f[x] \in Nat /\ g[x] \in Nat
    BY <1>1, SumType
  <2>2. Sum(g) = Sum(f) - f[x] + g[x]
    BY <1>1, SumMoved
  <2>3. QED
    BY <1>1, <2>1, <2>2
<1>2. CASE x \notin S
  <2>1. f = g
    BY <1>2
  <2>2. Sum(f) \in Nat
    BY SumType
  <2>3. QED
    BY <1>2, <2>1, <2>2
<1>3. QED
  BY <1>1, <1>2

(* One order's reservation and notional change to those of order.          *)
OrderMoved(after, book, D, id, order) ==
    /\ after \in BookImages(D) /\ SoundAmounts(after)
    /\ \A m, a : ReservedBy(after, m, a) = ReservedBy(book, m, a)
         + (IF id.market = m /\ FundingAsset(order.terms) = a
            THEN order.reserved - book[id].reserved ELSE 0)
    /\ \A m : MarketNotional(after, m) = MarketNotional(book, m)
         + (IF id.market = m THEN order.notional - book[id].notional ELSE 0)
    /\ \A m, o : WalletNotional(after, m, o) = WalletNotional(book, m, o)
         + (IF id.market = m /\ id.owner = o
            THEN order.notional - book[id].notional ELSE 0)

LEMMA BookMoved ==
    ASSUME NEW D, IsFiniteSet(D), NEW book \in BookImages(D), SoundAmounts(book),
           NEW id \in D, NEW order \in OrderImages, order.terms = book[id].terms,
           order.reserved \in Nat, order.notional \in Nat,
           NEW after, after = [book EXCEPT ![id] = order]
    PROVE  OrderMoved(after, book, D, id, order)
<1>1. /\ DOMAIN book = D /\ DOMAIN after = D
      /\ after[id] = order /\ \A x \in D : x # id => after[x] = book[x]
      /\ after \in BookImages(D)
  BY DEF BookImages
<1>2. SoundAmounts(after)
  BY <1>1 DEF SoundAmounts
<1>3. \A x \in D : after[x].terms = book[x].terms
  BY <1>1
<1>4. \A S \in SUBSET D : IsFiniteSet(S)
  BY FS_Subset
<1>5. ASSUME NEW m, NEW a
      PROVE  ReservedBy(after, m, a) = ReservedBy(book, m, a)
               + (IF id.market = m /\ FundingAsset(order.terms) = a
                  THEN order.reserved - book[id].reserved ELSE 0)
  <2> DEFINE S == {x \in D : x.market = m /\ FundingAsset(book[x].terms) = a}
             f == [x \in S |-> book[x].reserved]
             g == [x \in S |-> after[x].reserved]
  <2>1. ReservedBy(book, m, a) = Sum(f)
    BY <1>1 DEF ReservedBy
  <2>2. ReservedBy(after, m, a) = Sum(g)
    BY <1>1, <1>3 DEF ReservedBy
  <2>3. f \in [S -> Nat] /\ g \in [S -> Nat]
    BY <1>1, <1>2 DEF SoundAmounts
  <2>4. IsFiniteSet(S)
    BY <1>4
  <2>5. \A y \in S : y # id => g[y] = f[y]
    BY <1>1
  <2>6. id \in S <=> id.market = m /\ FundingAsset(order.terms) = a
    OBVIOUS
  <2>7. id \in S => g[id] = order.reserved /\ f[id] = book[id].reserved
    BY <1>1
  <2> HIDE DEF S, f, g
  <2>8. Sum(g) = Sum(f) + (IF id \in S THEN g[id] - f[id] ELSE 0)
    BY <2>3, <2>4, <2>5, SumChanged
  <2>9. QED
    BY <2>1, <2>2, <2>6, <2>7, <2>8
<1>6. ASSUME NEW m
      PROVE  MarketNotional(after, m) = MarketNotional(book, m)
               + (IF id.market = m THEN order.notional - book[id].notional ELSE 0)
  <2> DEFINE S == {x \in D : x.market = m}
             f == [x \in S |-> book[x].notional]
             g == [x \in S |-> after[x].notional]
  <2>1. MarketNotional(book, m) = Sum(f) /\ MarketNotional(after, m) = Sum(g)
    BY <1>1 DEF MarketNotional
  <2>2. f \in [S -> Nat] /\ g \in [S -> Nat]
    BY <1>1, <1>2 DEF SoundAmounts
  <2>3. IsFiniteSet(S)
    BY <1>4
  <2>4. \A y \in S : y # id => g[y] = f[y]
    BY <1>1
  <2>5. id \in S <=> id.market = m
    OBVIOUS
  <2>6. id \in S => g[id] = order.notional /\ f[id] = book[id].notional
    BY <1>1
  <2> HIDE DEF S, f, g
  <2>7. Sum(g) = Sum(f) + (IF id \in S THEN g[id] - f[id] ELSE 0)
    BY <2>2, <2>3, <2>4, SumChanged
  <2>8. QED
    BY <2>1, <2>5, <2>6, <2>7
<1>7. ASSUME NEW m, NEW o
      PROVE  WalletNotional(after, m, o) = WalletNotional(book, m, o)
               + (IF id.market = m /\ id.owner = o
                  THEN order.notional - book[id].notional ELSE 0)
  <2> DEFINE S == {x \in D : x.market = m /\ x.owner = o}
             f == [x \in S |-> book[x].notional]
             g == [x \in S |-> after[x].notional]
  <2>1. WalletNotional(book, m, o) = Sum(f) /\ WalletNotional(after, m, o) = Sum(g)
    BY <1>1 DEF WalletNotional
  <2>2. f \in [S -> Nat] /\ g \in [S -> Nat]
    BY <1>1, <1>2 DEF SoundAmounts
  <2>3. IsFiniteSet(S)
    BY <1>4
  <2>4. \A y \in S : y # id => g[y] = f[y]
    BY <1>1
  <2>5. id \in S <=> id.market = m /\ id.owner = o
    OBVIOUS
  <2>6. id \in S => g[id] = order.notional /\ f[id] = book[id].notional
    BY <1>1
  <2> HIDE DEF S, f, g
  <2>7. Sum(g) = Sum(f) + (IF id \in S THEN g[id] - f[id] ELSE 0)
    BY <2>2, <2>3, <2>4, SumChanged
  <2>8. QED
    BY <2>1, <2>5, <2>6, <2>7
<1>8. QED
  BY <1>1, <1>2, <1>5, <1>6, <1>7 DEF OrderMoved

LEMMA BookSumTypes ==
    ASSUME NEW D, IsFiniteSet(D), NEW book \in BookImages(D), SoundAmounts(book)
    PROVE  /\ \A m, a : ReservedBy(book, m, a) \in Nat
           /\ \A m : MarketNotional(book, m) \in Nat
           /\ \A m, o : WalletNotional(book, m, o) \in Nat
<1>1. DOMAIN book = D
  BY DEF BookImages
<1>2. \A S \in SUBSET D : IsFiniteSet(S)
  BY FS_Subset
<1>3. ASSUME NEW S \in SUBSET D
      PROVE  Sum([id \in S |-> book[id].reserved]) \in Nat
               /\ Sum([id \in S |-> book[id].notional]) \in Nat
  <2>1. /\ [id \in S |-> book[id].reserved] \in [S -> Nat]
        /\ [id \in S |-> book[id].notional] \in [S -> Nat]
    BY <1>1 DEF SoundAmounts
  <2>2. QED
    BY <1>2, <2>1, SumType
<1>4. ASSUME NEW m, NEW a
      PROVE  ReservedBy(book, m, a) \in Nat
  BY <1>1, <1>3 DEF ReservedBy
<1>5. ASSUME NEW m, NEW o
      PROVE  MarketNotional(book, m) \in Nat /\ WalletNotional(book, m, o) \in Nat
  BY <1>1, <1>3 DEF MarketNotional, WalletNotional
<1>6. QED
  BY <1>4, <1>5

----------------------------------------------------------------------------
(* What the images of a handler that works on market m keep, whatever it   *)
(* has settled so far.  F are the owners whose credits of a collateral the *)
(* instruction was lent.                                                   *)

Naturals(b) ==
    /\ b.available \in [Mints \X Owners -> Nat]
    /\ b.balance \in [Markets \X Owners \X ClaimAssets -> Nat]
    /\ b.credits \in [Markets \X ClaimAssets -> Nat]
    /\ b.backing \in [Markets \X Collaterals -> Nat]
    /\ b.fees \in [Markets \X ClaimAssets -> Nat]
    /\ b.minted \in [Collaterals -> Nat]

(* The credit total of each claim is the sum of the wallets. *)
Wallets(m, b) ==
    \A a \in ClaimAssets :
      b.credits[<<m, a>>] = Sum([o \in Owners |-> b.balance[<<m, o, a>>]])

(* Every set minted is backed. *)
Backed(m, b) ==
    \A c \in Collaterals :
      /\ b.backing[<<m, c>>] = backing[<<m, c>>] + b.minted[c]
      /\ ~Listed(m, c) => b.minted[c] = 0

(* Nothing else is touched. *)
LocalCredits(m, F, b) ==
    \A k \in Mints, o \in Owners :
      b.available[<<k, o>>] # available[<<k, o>>] =>
        \E c \in Collaterals : Listed(m, c) /\ k = MintOf(m, c) /\ o \in F[c]
LocalBooks(m, b) ==
    \A x \in Markets \ {m} :
      /\ \A a \in Assets : b.escrow[<<x, a>>] = escrow[<<x, a>>]
      /\ \A c \in Collaterals : b.backing[<<x, c>>] = backing[<<x, c>>]
      /\ \A a \in ClaimAssets : /\ b.credits[<<x, a>>] = credits[<<x, a>>]
                                /\ b.fees[<<x, a>>] = fees[<<x, a>>]
                                /\ \A o \in Owners : b.balance[<<x, o, a>>] = balance[<<x, o, a>>]
LocalEscrow(m, b) ==
    \A c \in Collaterals :
      ~Listed(m, c) => b.escrow[<<m, Underlying(c)>>] = escrow[<<m, Underlying(c)>>]

Images(D, m, F, b) ==
    /\ b \in Ledgers(D) /\ Naturals(b) /\ Wallets(m, b) /\ Backed(m, b)
    /\ LocalCredits(m, F, b) /\ LocalBooks(m, b) /\ LocalEscrow(m, b)

(* What the market holds of an asset, the lent credits included. *)
SettledAssets(m) == {a \in Assets : a \in ClaimAssets \/ Listed(m, CollateralOf(a))}

LentOf(b, F, m, c) == Sum([o \in F[c] |-> b.available[<<MintOf(m, c), o>>]])
Holding(b, F, m, a) ==
    IF a \in ClaimAssets
    THEN b.credits[<<m, a>>] + b.escrow[<<m, a>>] + b.fees[<<m, a>>]
    ELSE LentOf(b, F, m, CollateralOf(a)) + b.escrow[<<m, a>>] + b.backing[<<m, CollateralOf(a)>>]

Lenders == [Collaterals -> SUBSET Owners]

LEMMA OwnersFinite == IsFiniteSet(Owners) /\ \A S \in SUBSET Owners : IsFiniteSet(S)
BY PoolConstants, FS_Subset

LEMMA SettledMints ==
    ASSUME LedgersInv, NEW m \in Markets, NEW a \in SettledAssets(m), a \notin ClaimAssets
    PROVE  /\ CollateralOf(a) \in Collaterals /\ Listed(m, CollateralOf(a))
           /\ MintOf(m, CollateralOf(a)) \in Mints
           /\ \A x \in SettledAssets(m) : x \notin ClaimAssets /\ x # a =>
                MintOf(m, CollateralOf(x)) # MintOf(m, CollateralOf(a))
<1>1. MintsListed /\ SegregatedCollateral
  BY DEF LedgersInv, CustodyInv, ListingInv, MarketInv
<1>2. \A x \in SettledAssets(m) : x \notin ClaimAssets =>
        x = Underlying(CollateralOf(x)) /\ CollateralOf(x) \in Collaterals
          /\ Listed(m, CollateralOf(x))
  BY AssetKinds DEF SettledAssets
<1>3. QED
  BY <1>1, <1>2 DEF MintsListed, SegregatedCollateral

LEMMA HoldingType ==
    ASSUME LedgersInv, NEW D, NEW m \in Markets, NEW F \in Lenders, NEW b, b \in Ledgers(D),
           Naturals(b)
    PROVE  \A a \in SettledAssets(m) : Holding(b, F, m, a) \in Int
<1> SUFFICES ASSUME NEW a \in SettledAssets(m) PROVE Holding(b, F, m, a) \in Int
  OBVIOUS
<1>1. b.escrow[<<m, a>>] \in Int
  BY DEF Ledgers, EscrowImages, SettledAssets
<1>2. CASE a \in ClaimAssets
  BY <1>1, <1>2 DEF Holding, Naturals
<1>3. CASE a \notin ClaimAssets
  <2> DEFINE c == CollateralOf(a)
             k == MintOf(m, c)
             f == [o \in F[c] |-> b.available[<<k, o>>]]
  <2>1. c \in Collaterals /\ k \in Mints
    BY <1>3, SettledMints
  <2>2. F[c] \subseteq Owners
    BY <2>1 DEF Lenders
  <2>3. f \in [F[c] -> Nat] /\ IsFiniteSet(F[c])
    BY <2>1, <2>2, OwnersFinite DEF Naturals
  <2>4. b.backing[<<m, c>>] \in Int
    BY <2>1 DEF Naturals
  <2>5. LentOf(b, F, m, c) = Sum(f)
    BY DEF LentOf
  <2> HIDE DEF f
  <2>6. Sum(f) \in Nat
    BY <2>3, SumType
  <2>7. QED
    BY <1>1, <1>3, <2>4, <2>5, <2>6 DEF Holding
<1>4. QED
  BY <1>2, <1>3

(* From b to r the market's holding of one asset changes by n. *)
Shifted(b, r, F, m, a, n) ==
    \A x \in SettledAssets(m) :
      Holding(r, F, m, x) = Holding(b, F, m, x) + (IF x = a THEN n ELSE 0)

(* A credit can be given: it is lent to the instruction, or unused.        *)
Creditable(b, F, m, o, a, n) ==
    /\ a \in ClaimAssets =>
         b.balance[<<m, o, a>>] + n >= 0 /\ b.credits[<<m, a>>] + n >= 0
    /\ a \notin ClaimAssets =>
         /\ b.available[<<MintOf(m, CollateralOf(a)), o>>] + n >= 0
         /\ o \in F[CollateralOf(a)] \/ n = 0

LEMMA CreditSettled ==
    ASSUME LedgersInv, NEW D, NEW m \in Markets, NEW F \in Lenders, NEW b, Images(D, m, F, b),
           NEW o \in Owners, NEW a \in SettledAssets(m), NEW n \in Int,
           Creditable(b, F, m, o, a, n)
    PROVE  /\ Images(D, m, F, Credit(b, m, o, a, n))
           /\ Credited(b, m, o, a, n, Credit(b, m, o, a, n))
           /\ Shifted(b, Credit(b, m, o, a, n), F, m, a, n)
<1> DEFINE r == Credit(b, m, o, a, n)
<1> DEFINE k == MintOf(m, CollateralOf(a))
<1>1. /\ a \in ClaimAssets =>
            b.balance[<<m, o, a>>] + n >= 0 /\ b.credits[<<m, a>>] + n >= 0
      /\ a \notin ClaimAssets =>
            /\ b.available[<<MintOf(m, CollateralOf(a)), o>>] + n >= 0
            /\ o \in F[CollateralOf(a)] \/ n = 0
  BY DEF Creditable
<1>2. /\ b \in Ledgers(D) /\ Naturals(b) /\ Wallets(m, b) /\ Backed(m, b)
      /\ LocalCredits(m, F, b) /\ LocalBooks(m, b) /\ LocalEscrow(m, b)
      /\ a \in Assets
  BY DEF Images, SettledAssets
<1>3. a \notin ClaimAssets => MintOf(m, CollateralOf(a)) \in Mints
  BY SettledMints
<1>4. r \in Ledgers(D) /\ Credited(b, m, o, a, n, r)
  BY <1>2, <1>3, CreditEffect
<1> HIDE DEF k, r
<1>5. /\ r \in Ledgers(D)
      /\ r.orders = b.orders /\ r.escrow = b.escrow /\ r.backing = b.backing
      /\ r.fees = b.fees /\ r.exposure = b.exposure /\ r.held = b.held
      /\ r.minted = b.minted /\ r.ok = b.ok
  BY <1>4 DEF Credited
<1>6. Backed(m, r) /\ LocalEscrow(m, r)
  BY <1>2, <1>5 DEF Backed, LocalEscrow
<1>7. \A x \in SettledAssets(m) : Holding(b, F, m, x) \in Int
  BY <1>2, HoldingType
<1>8. CASE a \in ClaimAssets
  <2>1. /\ r.available = b.available
        /\ r.balance = [b.balance EXCEPT ![<<m, o, a>>] = b.balance[<<m, o, a>>] + n]
        /\ r.credits = [b.credits EXCEPT ![<<m, a>>] = b.credits[<<m, a>>] + n]
    BY <1>8, <1>4 DEF Credited
  <2>2. /\ r.balance[<<m, o, a>>] = b.balance[<<m, o, a>>] + n
        /\ r.credits[<<m, a>>] = b.credits[<<m, a>>] + n
        /\ \A x \in Markets, p \in Owners, y \in ClaimAssets :
             x # m \/ p # o \/ y # a => r.balance[<<x, p, y>>] = b.balance[<<x, p, y>>]
        /\ \A x \in Markets, y \in ClaimAssets :
             x # m \/ y # a => r.credits[<<x, y>>] = b.credits[<<x, y>>]
    BY <1>1, <1>2, <1>8, <2>1 DEF Naturals
  <2>3. Naturals(r)
    <3>1. r.balance \in [Markets \X Owners \X ClaimAssets -> Nat]
      BY <1>1, <1>2, <1>8, <2>1 DEF Naturals
    <3>2. r.credits \in [Markets \X ClaimAssets -> Nat]
      BY <1>1, <1>2, <1>8, <2>1 DEF Naturals
    <3>3. QED
      BY <1>2, <1>5, <2>1, <3>1, <3>2 DEF Naturals
  <2>4. Wallets(m, r)
    <3> SUFFICES ASSUME NEW y \in ClaimAssets
                 PROVE  r.credits[<<m, y>>] = Sum([p \in Owners |-> r.balance[<<m, p, y>>]])
      BY DEF Wallets
    <3> DEFINE f == [p \in Owners |-> b.balance[<<m, p, y>>]]
               g == [p \in Owners |-> r.balance[<<m, p, y>>]]
    <3>1. f \in [Owners -> Nat] /\ g \in [Owners -> Nat]
      BY <1>2, <2>3 DEF Naturals
    <3>2. b.credits[<<m, y>>] = Sum(f)
      BY <1>2 DEF Wallets
    <3>3. \A p \in Owners : p # o => g[p] = f[p]
      BY <2>2
    <3>4. g[o] - f[o] = IF y = a THEN n ELSE 0
      <4>1. f[o] \in Nat /\ f[o] = b.balance[<<m, o, y>>] /\ g[o] = r.balance[<<m, o, y>>]
        BY <3>1
      <4> HIDE DEF f, g
      <4>2. QED
        BY <2>2, <4>1
    <3>5. r.credits[<<m, y>>] = b.credits[<<m, y>>] + IF y = a THEN n ELSE 0
      <4>1. b.credits[<<m, y>>] \in Nat
        BY <1>2 DEF Naturals
      <4>2. QED
        BY <2>2, <4>1
    <3> HIDE DEF f, g
    <3>6. Sum(g) = Sum(f) + (g[o] - f[o])
      BY <3>1, <3>3, OwnersFinite, SumChanged
    <3>7. QED
      BY <3>2, <3>4, <3>5, <3>6 DEF g
  <2>5. LocalCredits(m, F, r) /\ LocalBooks(m, r)
    BY <1>2, <1>5, <2>1, <2>2 DEF LocalCredits, LocalBooks
  <2>6. ASSUME NEW x \in SettledAssets(m)
        PROVE  Holding(r, F, m, x) = Holding(b, F, m, x) + (IF x = a THEN n ELSE 0)
    <3>1. CASE x \in ClaimAssets
      <4>1. b.credits[<<m, x>>] \in Nat /\ b.fees[<<m, x>>] \in Nat /\ b.escrow[<<m, x>>] \in Int
        BY <1>2, <3>1 DEF Naturals, Ledgers, EscrowImages, SettledAssets
      <4>2. r.credits[<<m, x>>] = b.credits[<<m, x>>] + IF x = a THEN n ELSE 0
        BY <2>2, <3>1, <4>1
      <4>3. QED
        BY <1>5, <3>1, <4>1, <4>2 DEF Holding
    <3>2. CASE x \notin ClaimAssets
      <4>1. Holding(r, F, m, x) = Holding(b, F, m, x)
        BY <1>5, <2>1, <3>2 DEF Holding, LentOf
      <4>2. QED
        BY <1>7, <1>8, <3>2, <4>1
    <3>3. QED
      BY <3>1, <3>2
  <2>7. QED
    BY <1>5, <1>6, <2>3, <2>4, <2>5, <2>6, <1>4 DEF Images, Shifted, r
<1>9. CASE a \notin ClaimAssets
  <2> DEFINE c == CollateralOf(a)
  <2>1. /\ r.available = [b.available EXCEPT ![<<k, o>>] = b.available[<<k, o>>] + n]
        /\ r.balance = b.balance /\ r.credits = b.credits
    BY <1>9, <1>4 DEF k, Credited
  <2>2. c \in Collaterals /\ Listed(m, c) /\ k = MintOf(m, c) /\ k \in Mints
          /\ F[c] \subseteq Owners
    BY <1>9, SettledMints DEF k, Lenders
  <2>3. b.available[<<k, o>>] \in Nat /\ b.available[<<k, o>>] + n \in Nat
    BY <1>1, <1>2, <1>9, <2>2 DEF Naturals, k
  <2>4. /\ r.available[<<k, o>>] = b.available[<<k, o>>] + n
        /\ \A l \in Mints, p \in Owners :
             l # k \/ p # o => r.available[<<l, p>>] = b.available[<<l, p>>]
    BY <1>2, <2>1, <2>2 DEF Naturals
  <2>5. Naturals(r)
    <3>1. r.available \in [Mints \X Owners -> Nat]
      BY <1>2, <2>1, <2>2, <2>3 DEF Naturals
    <3>2. QED
      BY <1>2, <1>5, <2>1, <3>1 DEF Naturals
  <2>6. Wallets(m, r) /\ LocalBooks(m, r)
    BY <1>2, <1>5, <2>1 DEF Wallets, LocalBooks
  <2>7. o \in F[c] \/ n = 0
    BY <1>1, <1>9
  <2>8. LocalCredits(m, F, r)
    <3> SUFFICES ASSUME NEW l \in Mints, NEW p \in Owners,
                        r.available[<<l, p>>] # available[<<l, p>>]
                 PROVE  \E d \in Collaterals : Listed(m, d) /\ l = MintOf(m, d) /\ p \in F[d]
      BY DEF LocalCredits
    <3>1. CASE r.available[<<l, p>>] = b.available[<<l, p>>]
      BY <1>2, <3>1 DEF LocalCredits
    <3>2. CASE r.available[<<l, p>>] # b.available[<<l, p>>]
      <4>1. l = k /\ p = o /\ n # 0
        BY <2>3, <2>4, <3>2
      <4> HIDE DEF c
      <4>2. QED
        BY <2>2, <2>7, <4>1
    <3>3. QED
      BY <3>1, <3>2
  <2>9. ASSUME NEW x \in SettledAssets(m)
        PROVE  Holding(r, F, m, x) = Holding(b, F, m, x) + (IF x = a THEN n ELSE 0)
    <3>1. CASE x \in ClaimAssets
      <4>1. Holding(r, F, m, x) = Holding(b, F, m, x)
        BY <1>5, <2>1, <3>1 DEF Holding
      <4>2. QED
        BY <1>7, <1>9, <3>1, <4>1
    <3>2. CASE x \notin ClaimAssets /\ x # a
      <4> DEFINE d == CollateralOf(x)
                 l == MintOf(m, d)
      <4>1. d \in Collaterals /\ l \in Mints /\ l # k /\ F[d] \subseteq Owners
        BY <1>9, <2>2, <3>2, SettledMints DEF Lenders
      <4>2. \A p \in F[d] : r.available[<<l, p>>] = b.available[<<l, p>>]
        BY <2>4, <4>1
      <4>3. LentOf(r, F, m, d) = LentOf(b, F, m, d)
        BY <4>2 DEF LentOf
      <4>4. Holding(r, F, m, x) = Holding(b, F, m, x)
        BY <1>5, <3>2, <4>3 DEF Holding
      <4>5. QED
        BY <1>7, <3>2, <4>4
    <3>3. CASE x = a
      <4> DEFINE f == [p \in F[c] |-> b.available[<<k, p>>]]
                 g == [p \in F[c] |-> r.available[<<k, p>>]]
      <4>1. f \in [F[c] -> Nat] /\ g \in [F[c] -> Nat] /\ IsFiniteSet(F[c])
        BY <1>2, <2>2, <2>5, OwnersFinite DEF Naturals
      <4>2. \A p \in F[c] : p # o => g[p] = f[p]
        BY <2>2, <2>4
      <4>3. o \in F[c] => g[o] = f[o] + n /\ f[o] \in Nat
        BY <2>3, <2>4
      <4>4. LentOf(b, F, m, c) = Sum(f) /\ LentOf(r, F, m, c) = Sum(g)
        BY <2>2 DEF LentOf
      <4>5. b.escrow[<<m, a>>] \in Int /\ b.backing[<<m, c>>] \in Nat
        BY <1>2, <2>2 DEF Naturals, Ledgers, EscrowImages
      <4> HIDE DEF f, g
      <4>6. Sum(g) = Sum(f) + (IF o \in F[c] THEN g[o] - f[o] ELSE 0) /\ Sum(f) \in Nat
        BY <4>1, <4>2, SumChanged, SumType
      <4>7. Sum(g) = Sum(f) + n
        BY <2>7, <4>3, <4>6
      <4>8. /\ Holding(b, F, m, a) = LentOf(b, F, m, c) + b.escrow[<<m, a>>] + b.backing[<<m, c>>]
            /\ Holding(r, F, m, a) = LentOf(r, F, m, c) + b.escrow[<<m, a>>] + b.backing[<<m, c>>]
        BY <1>5, <1>9 DEF Holding
      <4>9. QED
        BY <3>3, <4>4, <4>5, <4>6, <4>7, <4>8
    <3>4. QED
      BY <3>1, <3>2, <3>3
  <2>10. QED
    BY <1>5, <1>6, <2>5, <2>6, <2>8, <2>9, <1>4 DEF Images, Shifted, r
<1>10. QED
  BY <1>8, <1>9

LEMMA ExposeSettled ==
    ASSUME NEW D, NEW m \in Markets, NEW F, NEW b, Images(D, m, F, b),
           NEW o \in Owners, NEW n \in Int
    PROVE  /\ Images(D, m, F, Expose(b, m, o, n))
           /\ Exposed(b, m, o, n, Expose(b, m, o, n))
           /\ \A x : Holding(Expose(b, m, o, n), F, m, x) = Holding(b, F, m, x)
<1> DEFINE r == Expose(b, m, o, n)
<1>1. r \in Ledgers(D) /\ Exposed(b, m, o, n, r)
  BY ExposeEffect DEF Images
<1> HIDE DEF r
<1>2. /\ r.available = b.available /\ r.balance = b.balance /\ r.credits = b.credits
      /\ r.escrow = b.escrow /\ r.backing = b.backing /\ r.fees = b.fees
      /\ r.minted = b.minted
  BY <1>1 DEF Exposed
<1>3. Images(D, m, F, r)
  BY <1>1, <1>2 DEF Images, Naturals, Wallets, Backed, LocalCredits, LocalBooks, LocalEscrow
<1>4. \A x : Holding(r, F, m, x) = Holding(b, F, m, x)
  BY <1>2 DEF Holding, LentOf
<1>5. QED
  BY <1>1, <1>3, <1>4 DEF r

(* Escrow of one asset changes, with the orders or without. *)
Escrowed(b, m, a, n, r) ==
    /\ r.available = b.available /\ r.balance = b.balance /\ r.credits = b.credits
    /\ r.backing = b.backing /\ r.fees = b.fees /\ r.minted = b.minted
    /\ r.escrow = [b.escrow EXCEPT ![<<m, a>>] = b.escrow[<<m, a>>] + n]

LEMMA EscrowSettled ==
    ASSUME LedgersInv, NEW D, NEW E, NEW m \in Markets, NEW F \in Lenders,
           NEW b, Images(D, m, F, b),
           NEW a \in SettledAssets(m), NEW n \in Int, NEW r \in Ledgers(E),
           Escrowed(b, m, a, n, r)
    PROVE  Images(E, m, F, r) /\ Shifted(b, r, F, m, a, n)
<1>1. /\ r.available = b.available /\ r.balance = b.balance /\ r.credits = b.credits
      /\ r.backing = b.backing /\ r.fees = b.fees /\ r.minted = b.minted
      /\ r.escrow = [b.escrow EXCEPT ![<<m, a>>] = b.escrow[<<m, a>>] + n]
  BY DEF Escrowed
<1>2. b \in Ledgers(D) /\ Naturals(b) /\ a \in Assets
  BY DEF Images, SettledAssets
<1>3. b.escrow \in [Markets \X Assets -> Int]
  BY <1>2 DEF Ledgers, EscrowImages
<1>4. /\ r.escrow[<<m, a>>] = b.escrow[<<m, a>>] + n
      /\ \A x \in Markets, y \in Assets :
           x # m \/ y # a => r.escrow[<<x, y>>] = b.escrow[<<x, y>>]
  BY <1>1, <1>2, <1>3
<1>5. LocalBooks(m, r)
  BY <1>1, <1>4 DEF Images, LocalBooks
<1>6. LocalEscrow(m, r)
  <2> SUFFICES ASSUME NEW c \in Collaterals, ~Listed(m, c)
               PROVE  r.escrow[<<m, Underlying(c)>>] = escrow[<<m, Underlying(c)>>]
    BY DEF LocalEscrow
  <2>1. Underlying(c) \in Assets /\ Underlying(c) # a
    BY AssetsOfCollateral DEF SettledAssets
  <2>2. b.escrow[<<m, Underlying(c)>>] = escrow[<<m, Underlying(c)>>]
    BY DEF Images, LocalEscrow
  <2>3. QED
    BY <1>4, <2>1, <2>2
<1>7. Images(E, m, F, r)
  BY <1>1, <1>5, <1>6 DEF Images, Naturals, Wallets, Backed, LocalCredits
<1>8. Shifted(b, r, F, m, a, n)
  <2> SUFFICES ASSUME NEW x \in SettledAssets(m)
               PROVE  Holding(r, F, m, x) = Holding(b, F, m, x) + (IF x = a THEN n ELSE 0)
    BY DEF Shifted
  <2>1. x \in Assets
    BY DEF SettledAssets
  <2>2. b.escrow[<<m, x>>] \in Int
    BY <1>3, <2>1
  <2>3. r.escrow[<<m, x>>] = b.escrow[<<m, x>>] + IF x = a THEN n ELSE 0
    BY <1>4, <2>1, <2>2
  <2>4. Holding(b, F, m, x) \in Int
    BY <1>2, HoldingType
  <2>5. CASE x \in ClaimAssets
    <3>1. b.credits[<<m, x>>] \in Int /\ b.fees[<<m, x>>] \in Int
      BY <1>2, <2>5 DEF Naturals
    <3>2. QED
      BY <1>1, <2>2, <2>3, <2>5, <3>1 DEF Holding
  <2>6. CASE x \notin ClaimAssets
    <3> DEFINE c == CollateralOf(x)
               lent == LentOf(b, F, m, c)
               back == b.backing[<<m, c>>]
    <3>1. c \in Collaterals
      BY <2>1, AssetKinds
    <3>2. back \in Nat
      BY <1>2, <3>1 DEF Naturals
    <3>3. LentOf(r, F, m, c) = lent
      BY <1>1 DEF LentOf
    <3>4. lent + b.escrow[<<m, x>>] + back \in Int
      BY <2>4, <2>6 DEF Holding
    <3>5. lent \in Int
      <4> DEFINE f == [o \in F[c] |-> b.available[<<MintOf(m, c), o>>]]
      <4>1. MintOf(m, c) \in Mints /\ F[c] \subseteq Owners
        BY <2>6, <3>1, SettledMints DEF Lenders
      <4>2. f \in [F[c] -> Nat] /\ IsFiniteSet(F[c])
        BY <1>2, <4>1, OwnersFinite DEF Naturals
      <4>3. lent = Sum(f)
        BY DEF LentOf
      <4> HIDE DEF f
      <4>4. QED
        BY <4>2, <4>3, SumType
    <3>6. Holding(r, F, m, x) = lent + r.escrow[<<m, x>>] + back
      BY <1>1, <2>6, <3>3 DEF Holding
    <3>7. Holding(b, F, m, x) = lent + b.escrow[<<m, x>>] + back
      BY <2>6 DEF Holding
    <3> HIDE DEF lent, back
    <3>8. QED
      BY <2>2, <2>3, <3>2, <3>5, <3>6, <3>7
  <2>7. QED
    BY <2>5, <2>6
<1>9. QED
  BY <1>7, <1>8

----------------------------------------------------------------------------
(* Settling one side of a fill.                                            *)

(* Complete sets go into the backing.                                      *)
SetsBacked(b, m, c, amount) ==
    [b EXCEPT !.backing[<<m, c>>] = @ + amount, !.minted[c] = @ + amount]

(* The fee of a delivery is kept by the market.                            *)
FeeKept(b, m, active, amount, fee) ==
    [b EXCEPT !.fees[<<m, active>>] = @ + fee, !.ok = @ /\ fee <= amount]

SetsTaken(b, m, c, amount, r) ==
    /\ r.available = b.available /\ r.balance = b.balance /\ r.credits = b.credits
    /\ r.escrow = b.escrow /\ r.fees = b.fees /\ r.orders = b.orders
    /\ r.exposure = b.exposure /\ r.held = b.held /\ r.ok = b.ok
    /\ r.backing = [b.backing EXCEPT ![<<m, c>>] = b.backing[<<m, c>>] + amount]
    /\ r.minted = [b.minted EXCEPT ![c] = b.minted[c] + amount]

FeeTaken(b, m, active, amount, fee, r) ==
    /\ r.available = b.available /\ r.balance = b.balance /\ r.credits = b.credits
    /\ r.escrow = b.escrow /\ r.backing = b.backing /\ r.orders = b.orders
    /\ r.exposure = b.exposure /\ r.held = b.held /\ r.minted = b.minted
    /\ r.fees = [b.fees EXCEPT ![<<m, active>>] = b.fees[<<m, active>>] + fee]
    /\ r.ok = (b.ok /\ fee <= amount)

LEMMA SetsEffect ==
    ASSUME NEW D, NEW b \in Ledgers(D), NEW m \in Markets, NEW c \in Collaterals, NEW amount \in Int
    PROVE  /\ SetsBacked(b, m, c, amount) \in Ledgers(D)
           /\ SetsTaken(b, m, c, amount, SetsBacked(b, m, c, amount))
<1> DEFINE r == SetsBacked(b, m, c, amount)
           u == [b.backing EXCEPT ![<<m, c>>] = b.backing[<<m, c>>] + amount]
           v == [b.minted EXCEPT ![c] = b.minted[c] + amount]
<1>1. u \in BackingImages
  BY DEF Ledgers, BackingImages
<1>2. v \in MintedImages
  BY DEF Ledgers, MintedImages
<1>3. r = [b EXCEPT !.backing = u, !.minted = v]
  BY DEF SetsBacked
<1> HIDE DEF r, u, v
<1>4. /\ r \in Ledgers(D)
      /\ r.available = b.available /\ r.balance = b.balance /\ r.credits = b.credits
      /\ r.escrow = b.escrow /\ r.fees = b.fees /\ r.orders = b.orders
      /\ r.exposure = b.exposure /\ r.held = b.held /\ r.ok = b.ok
      /\ r.backing = u /\ r.minted = v
  BY <1>1, <1>2, <1>3 DEF Ledgers
<1>5. QED
  BY <1>4 DEF r, u, v, SetsTaken

LEMMA FeeEffect ==
    ASSUME NEW D, NEW b \in Ledgers(D), NEW m \in Markets, NEW active \in ClaimAssets,
           NEW amount \in Int, NEW fee \in Int
    PROVE  /\ FeeKept(b, m, active, amount, fee) \in Ledgers(D)
           /\ FeeTaken(b, m, active, amount, fee, FeeKept(b, m, active, amount, fee))
<1> DEFINE r == FeeKept(b, m, active, amount, fee)
           u == [b.fees EXCEPT ![<<m, active>>] = b.fees[<<m, active>>] + fee]
           v == b.ok /\ fee <= amount
<1>1. u \in ClaimImages
  BY DEF Ledgers, ClaimImages
<1>2. v \in BOOLEAN
  OBVIOUS
<1>3. r = [b EXCEPT !.fees = u, !.ok = v]
  BY DEF FeeKept
<1> HIDE DEF r, u, v
<1>4. /\ r \in Ledgers(D)
      /\ r.available = b.available /\ r.balance = b.balance /\ r.credits = b.credits
      /\ r.escrow = b.escrow /\ r.backing = b.backing /\ r.orders = b.orders
      /\ r.exposure = b.exposure /\ r.held = b.held /\ r.minted = b.minted
      /\ r.fees = u /\ r.ok = v
  BY <1>1, <1>2, <1>3 DEF Ledgers
<1>5. QED
  BY <1>4 DEF r, u, v, FeeTaken

(* The images between the parts of a settlement. *)
SetsDelivered(b, m, c, funding, funder, branch, amount) ==
    IF funding = UNDERLYING
    THEN Credit(SetsBacked(b, m, c, amount), m, funder, Claim(c, 1 - branch), amount)
    ELSE b

LEMMA SettleParts ==
    ASSUME NEW b, NEW m, NEW c, NEW funding, NEW funder, NEW recipient, NEW branch, NEW amount,
           NEW fee
    PROVE  Settle(b, m, c, funding, funder, recipient, branch, amount, fee) =
             FeeKept(Credit(SetsDelivered(b, m, c, funding, funder, branch, amount),
                            m, recipient, Claim(c, branch), amount - fee),
                     m, Claim(c, branch), amount, fee)
BY DEF Settle, SetsDelivered, SetsBacked, FeeKept

SideFields(b, r) ==
    r.orders = b.orders /\ r.escrow = b.escrow /\ r.exposure = b.exposure /\ r.held = b.held

LEMMA SetsDeliveredEffect ==
    ASSUME NEW D, NEW b \in Ledgers(D), NEW m \in Markets, NEW c \in Collaterals, NEW funding,
           NEW funder \in Owners, NEW branch \in {0, 1}, NEW amount \in Int
    PROVE  /\ SetsDelivered(b, m, c, funding, funder, branch, amount) \in Ledgers(D)
           /\ SideFields(b, SetsDelivered(b, m, c, funding, funder, branch, amount))
           /\ SetsDelivered(b, m, c, funding, funder, branch, amount).ok = b.ok
<1>1. CASE funding = UNDERLYING
  <2> DEFINE s == SetsBacked(b, m, c, amount)
             a == Claim(c, 1 - branch)
  <2>1. a \in ClaimAssets /\ a \in Assets
    BY AssetsOfCollateral, CollateralRange
  <2>2. s \in Ledgers(D) /\ SideFields(b, s) /\ s.ok = b.ok
    <3>1. s \in Ledgers(D) /\ SetsTaken(b, m, c, amount, s)
      BY SetsEffect
    <3> HIDE DEF s
    <3>2. QED
      BY <3>1 DEF SetsTaken, SideFields
  <2>3. SetsDelivered(b, m, c, funding, funder, branch, amount) = Credit(s, m, funder, a, amount)
    BY <1>1 DEF SetsDelivered
  <2> HIDE DEF s, a
  <2>4. Credit(s, m, funder, a, amount) \in Ledgers(D)
          /\ Credited(s, m, funder, a, amount, Credit(s, m, funder, a, amount))
    BY <2>1, <2>2, CreditEffect
  <2>5. QED
    BY <2>2, <2>3, <2>4 DEF Credited, SideFields
<1>2. CASE funding # UNDERLYING
  BY <1>2 DEF SetsDelivered, SideFields
<1>3. QED
  BY <1>1, <1>2

SettleFields(D, b, amount, fee, r) ==
    r \in Ledgers(D) /\ SideFields(b, r) /\ r.ok = (b.ok /\ fee <= amount)

LEMMA SettleEffect ==
    ASSUME NEW D, NEW b \in Ledgers(D), NEW m \in Markets, NEW c \in Collaterals, NEW funding,
           NEW funder \in Owners, NEW recipient \in Owners, NEW branch \in {0, 1},
           NEW amount \in Int, NEW fee \in Int
    PROVE  SettleFields(D, b, amount, fee,
                        Settle(b, m, c, funding, funder, recipient, branch, amount, fee))
<1> DEFINE s == SetsDelivered(b, m, c, funding, funder, branch, amount)
           a == Claim(c, branch)
           t == Credit(s, m, recipient, a, amount - fee)
           r == FeeKept(t, m, a, amount, fee)
<1>1. s \in Ledgers(D) /\ SideFields(b, s) /\ s.ok = b.ok
  BY SetsDeliveredEffect
<1>2. a \in ClaimAssets /\ a \in Assets /\ amount - fee \in Int
  BY AssetsOfCollateral, CollateralRange
<1> HIDE DEF s, a
<1>3. t \in Ledgers(D) /\ Credited(s, m, recipient, a, amount - fee, t)
  BY <1>1, <1>2, CreditEffect
<1>4. SideFields(b, t) /\ t.ok = b.ok
  BY <1>1, <1>3 DEF Credited, SideFields
<1> HIDE DEF t
<1>5. r \in Ledgers(D) /\ SideFields(t, r) /\ r.ok = (t.ok /\ fee <= amount)
  <2>1. r \in Ledgers(D) /\ FeeTaken(t, m, a, amount, fee, r)
    BY <1>2, <1>3, FeeEffect
  <2> HIDE DEF r
  <2>2. QED
    BY <2>1 DEF FeeTaken, SideFields
<1>6. r = Settle(b, m, c, funding, funder, recipient, branch, amount, fee)
  BY SettleParts DEF t, s, a
<1> HIDE DEF r
<1>7. SettleFields(D, b, amount, fee, r)
  BY <1>4, <1>5 DEF SideFields, SettleFields
<1>8. QED
  BY <1>6, <1>7

LEMMA SetsBackedSettled ==
    ASSUME LedgersInv, NEW D, NEW m \in Markets, NEW F \in Lenders, NEW b, Images(D, m, F, b),
           NEW c \in Collaterals, Listed(m, c), NEW amount \in Nat
    PROVE  /\ Images(D, m, F, SetsBacked(b, m, c, amount))
           /\ SetsTaken(b, m, c, amount, SetsBacked(b, m, c, amount))
           /\ Shifted(b, SetsBacked(b, m, c, amount), F, m, Underlying(c), amount)
<1> DEFINE r == SetsBacked(b, m, c, amount)
<1>1. r \in Ledgers(D) /\ SetsTaken(b, m, c, amount, r)
  BY SetsEffect DEF Images
<1> HIDE DEF r
<1>2. /\ r \in Ledgers(D)
      /\ r.available = b.available /\ r.balance = b.balance /\ r.credits = b.credits
      /\ r.escrow = b.escrow /\ r.fees = b.fees
      /\ r.backing = [b.backing EXCEPT ![<<m, c>>] = b.backing[<<m, c>>] + amount]
      /\ r.minted = [b.minted EXCEPT ![c] = b.minted[c] + amount]
  BY <1>1 DEF SetsTaken
<1>3. b \in Ledgers(D) /\ Naturals(b)
  BY DEF Images
<1>4. /\ b.backing \in [Markets \X Collaterals -> Nat] /\ b.minted \in [Collaterals -> Nat]
  BY <1>3 DEF Naturals
<1>5. /\ r.backing \in [Markets \X Collaterals -> Nat] /\ r.minted \in [Collaterals -> Nat]
      /\ r.backing[<<m, c>>] = b.backing[<<m, c>>] + amount
      /\ r.minted[c] = b.minted[c] + amount
      /\ \A x \in Markets, d \in Collaterals :
           x # m \/ d # c => r.backing[<<x, d>>] = b.backing[<<x, d>>]
      /\ \A d \in Collaterals : d # c => r.minted[d] = b.minted[d]
  BY <1>2, <1>4
<1>6. Naturals(r)
  BY <1>2, <1>3, <1>5 DEF Naturals
<1>7. Backed(m, r)
  <2> SUFFICES ASSUME NEW d \in Collaterals
               PROVE  /\ r.backing[<<m, d>>] = backing[<<m, d>>] + r.minted[d]
                      /\ ~Listed(m, d) => r.minted[d] = 0
    BY DEF Backed
  <2>1. b.backing[<<m, d>>] = backing[<<m, d>>] + b.minted[d] /\ (~Listed(m, d) => b.minted[d] = 0)
    BY DEF Images, Backed
  <2>2. backing[<<m, d>>] \in Int
    BY CustodyInts DEF LedgersInv, CustodyInv
  <2>3. b.minted[d] \in Nat
    BY <1>4
  <2>4. QED
    BY <1>5, <2>1, <2>2, <2>3
<1>8. LocalBooks(m, r)
  BY <1>2, <1>5 DEF Images, LocalBooks
<1>9. Images(D, m, F, r)
  BY <1>2, <1>6, <1>7, <1>8 DEF Images, Wallets, LocalCredits, LocalEscrow
<1>10. Shifted(b, r, F, m, Underlying(c), amount)
  <2> SUFFICES ASSUME NEW x \in SettledAssets(m)
               PROVE  Holding(r, F, m, x) =
                        Holding(b, F, m, x) + (IF x = Underlying(c) THEN amount ELSE 0)
    BY DEF Shifted
  <2>1. Holding(b, F, m, x) \in Int /\ x \in Assets
    BY <1>3, HoldingType DEF SettledAssets
  <2>2. CASE x \in ClaimAssets
    <3>1. x # Underlying(c)
      BY <2>2, AssetsOfCollateral
    <3>2. Holding(r, F, m, x) = Holding(b, F, m, x)
      BY <1>2, <2>2 DEF Holding
    <3>3. QED
      BY <2>1, <3>1, <3>2
  <2>3. CASE x \notin ClaimAssets
    <3> DEFINE d == CollateralOf(x)
               rest == LentOf(b, F, m, d) + b.escrow[<<m, x>>]
    <3>1. d \in Collaterals /\ x = Underlying(d) /\ CollateralOf(Underlying(c)) = c
      BY <2>1, <2>3, AssetKinds, AssetsOfCollateral
    <3>2. Holding(b, F, m, x) = rest + b.backing[<<m, d>>]
      BY <2>3 DEF Holding
    <3>3. Holding(r, F, m, x) = rest + r.backing[<<m, d>>]
      BY <1>2, <2>3 DEF Holding, LentOf
    <3>4. b.backing[<<m, d>>] \in Nat
      BY <1>4, <3>1
    <3>5. r.backing[<<m, d>>] = b.backing[<<m, d>>] + (IF x = Underlying(c) THEN amount ELSE 0)
      BY <1>5, <3>1, <3>4
    <3>6. rest \in Int
      <4>1. b.escrow[<<m, x>>] \in Int
        BY <1>3, <2>1 DEF Ledgers, EscrowImages
      <4> DEFINE f == [o \in F[d] |-> b.available[<<MintOf(m, d), o>>]]
      <4>2. MintOf(m, d) \in Mints /\ F[d] \subseteq Owners
        BY <2>3, <3>1, SettledMints DEF Lenders
      <4>3. f \in [F[d] -> Nat] /\ IsFiniteSet(F[d])
        BY <1>3, <4>2, OwnersFinite DEF Naturals
      <4>4. LentOf(b, F, m, d) = Sum(f)
        BY DEF LentOf
      <4> HIDE DEF f
      <4>5. Sum(f) \in Nat
        BY <4>3, SumType
      <4>6. QED
        BY <4>1, <4>4, <4>5
    <3> HIDE DEF rest
    <3>7. QED
      BY <3>2, <3>3, <3>4, <3>5, <3>6
  <2>4. QED
    BY <2>2, <2>3
<1>11. QED
  BY <1>1, <1>9, <1>10 DEF r

LEMMA FeeSettled ==
    ASSUME LedgersInv, NEW D, NEW m \in Markets, NEW F \in Lenders, NEW b, Images(D, m, F, b),
           NEW active \in ClaimAssets, NEW amount \in Int, NEW fee \in Nat
    PROVE  /\ Images(D, m, F, FeeKept(b, m, active, amount, fee))
           /\ FeeTaken(b, m, active, amount, fee, FeeKept(b, m, active, amount, fee))
           /\ Shifted(b, FeeKept(b, m, active, amount, fee), F, m, active, fee)
<1> DEFINE r == FeeKept(b, m, active, amount, fee)
<1>1. r \in Ledgers(D) /\ FeeTaken(b, m, active, amount, fee, r)
  BY FeeEffect DEF Images
<1> HIDE DEF r
<1>2. /\ r.available = b.available /\ r.balance = b.balance /\ r.credits = b.credits
      /\ r.escrow = b.escrow /\ r.backing = b.backing /\ r.minted = b.minted
      /\ r.fees = [b.fees EXCEPT ![<<m, active>>] = b.fees[<<m, active>>] + fee]
  BY <1>1 DEF FeeTaken
<1>3. b \in Ledgers(D) /\ Naturals(b)
  BY DEF Images
<1>4. b.fees \in [Markets \X ClaimAssets -> Nat]
  BY <1>3 DEF Naturals
<1>5. /\ r.fees \in [Markets \X ClaimAssets -> Nat]
      /\ r.fees[<<m, active>>] = b.fees[<<m, active>>] + fee
      /\ \A x \in Markets, y \in ClaimAssets :
           x # m \/ y # active => r.fees[<<x, y>>] = b.fees[<<x, y>>]
  BY <1>2, <1>4
<1>6. Naturals(r)
  BY <1>2, <1>3, <1>5 DEF Naturals
<1>7. LocalBooks(m, r)
  BY <1>2, <1>5 DEF Images, LocalBooks
<1>8. Images(D, m, F, r)
  BY <1>1, <1>2, <1>6, <1>7 DEF Images, Wallets, Backed, LocalCredits, LocalEscrow
<1>9. Shifted(b, r, F, m, active, fee)
  <2> SUFFICES ASSUME NEW x \in SettledAssets(m)
               PROVE  Holding(r, F, m, x) = Holding(b, F, m, x) + (IF x = active THEN fee ELSE 0)
    BY DEF Shifted
  <2>1. Holding(b, F, m, x) \in Int
    BY <1>3, HoldingType
  <2>2. CASE x \notin ClaimAssets
    <3>1. Holding(r, F, m, x) = Holding(b, F, m, x)
      BY <1>2, <2>2 DEF Holding, LentOf
    <3>2. QED
      BY <2>1, <2>2, <3>1
  <2>3. CASE x \in ClaimAssets
    <3>1. b.credits[<<m, x>>] \in Int /\ b.escrow[<<m, x>>] \in Int /\ b.fees[<<m, x>>] \in Int
      BY <1>3, <2>3 DEF Naturals, Ledgers, EscrowImages, SettledAssets
    <3>2. r.fees[<<m, x>>] = b.fees[<<m, x>>] + IF x = active THEN fee ELSE 0
      BY <1>5, <2>3, <3>1
    <3>3. QED
      BY <1>2, <2>3, <3>1, <3>2 DEF Holding
  <2>4. QED
    BY <2>2, <2>3
<1>10. QED
  BY <1>1, <1>8, <1>9 DEF r

(* What settling one side adds to the market's holding of an asset.        *)
SettledGain(c, funding, branch, amount, x) ==
    IF (funding = UNDERLYING /\ CollateralOf(x) = c) \/ x = Claim(c, branch) THEN amount ELSE 0

SettledSide(D, b, r, F, m, c, funding, branch, amount) ==
    /\ Images(D, m, F, r)
    /\ \A x \in SettledAssets(m) :
         Holding(r, F, m, x) = Holding(b, F, m, x) + SettledGain(c, funding, branch, amount, x)
    /\ \A d \in Collaterals :
         r.minted[d] = b.minted[d] + IF funding = UNDERLYING /\ d = c THEN amount ELSE 0

SetsSide(b, r, F, m, c, funding, branch, amount) ==
    /\ \A x \in SettledAssets(m) :
         Holding(r, F, m, x) = Holding(b, F, m, x)
           + IF funding = UNDERLYING /\ x \in {Underlying(c), Claim(c, 1 - branch)}
             THEN amount ELSE 0
    /\ \A d \in Collaterals :
         r.minted[d] = b.minted[d] + IF funding = UNDERLYING /\ d = c THEN amount ELSE 0

LEMMA SetsDeliveredSettled ==
    ASSUME LedgersInv, NEW D, NEW m \in Markets, NEW F \in Lenders, NEW b, Images(D, m, F, b),
           NEW c \in Collaterals, Listed(m, c), NEW funding, NEW funder \in Owners,
           NEW branch \in {0, 1}, NEW amount \in Nat
    PROVE  /\ Images(D, m, F, SetsDelivered(b, m, c, funding, funder, branch, amount))
           /\ SetsSide(b, SetsDelivered(b, m, c, funding, funder, branch, amount), F, m, c,
                       funding, branch, amount)
<1> DEFINE r == SetsDelivered(b, m, c, funding, funder, branch, amount)
<1>1. \A x \in SettledAssets(m) : Holding(b, F, m, x) \in Int
  BY HoldingType DEF Images
<1>2. b.minted \in [Collaterals -> Nat]
  BY DEF Images, Naturals
<1>3. CASE funding = UNDERLYING
  <2> DEFINE s == SetsBacked(b, m, c, amount)
             a == Claim(c, 1 - branch)
             t == Credit(s, m, funder, a, amount)
  <2>1. a \in ClaimAssets /\ a \in SettledAssets(m) /\ Underlying(c) # a
    BY AssetsOfCollateral, CollateralRange DEF SettledAssets
  <2>2. /\ Images(D, m, F, s) /\ Shifted(b, s, F, m, Underlying(c), amount)
        /\ SetsTaken(b, m, c, amount, s)
    BY SetsBackedSettled
  <2>3. r = t
    BY <1>3 DEF SetsDelivered
  <2> HIDE DEF s, a
  <2>4. Creditable(s, F, m, funder, a, amount)
    BY <2>1, <2>2 DEF Creditable, Images, Naturals
  <2>5. /\ Images(D, m, F, t) /\ Credited(s, m, funder, a, amount, t)
        /\ Shifted(s, t, F, m, a, amount)
    BY <2>1, <2>2, <2>4, CreditSettled
  <2> HIDE DEF t
  <2>6. t.minted = [b.minted EXCEPT ![c] = b.minted[c] + amount]
    BY <2>2, <2>5 DEF SetsTaken, Credited
  <2>7. ASSUME NEW x \in SettledAssets(m)
        PROVE  Holding(t, F, m, x) = Holding(b, F, m, x)
                 + IF x \in {Underlying(c), a} THEN amount ELSE 0
    <3>1. /\ Holding(t, F, m, x) = Holding(s, F, m, x) + (IF x = a THEN amount ELSE 0)
          /\ Holding(s, F, m, x) = Holding(b, F, m, x) + (IF x = Underlying(c) THEN amount ELSE 0)
      BY <2>2, <2>5 DEF Shifted
    <3>2. QED
      BY <1>1, <2>1, <3>1
  <2>8. \A d \in Collaterals : t.minted[d] = b.minted[d] + IF d = c THEN amount ELSE 0
    BY <1>2, <2>6
  <2> HIDE DEF r
  <2>9. QED
    BY <1>3, <2>3, <2>5, <2>7, <2>8 DEF a, r, SetsSide
<1>4. CASE funding # UNDERLYING
  <2>1. r = b
    BY <1>4 DEF SetsDelivered
  <2> HIDE DEF r
  <2>2. SetsSide(b, r, F, m, c, funding, branch, amount)
    BY <1>1, <1>2, <1>4, <2>1 DEF SetsSide
  <2>3. QED
    BY <2>1, <2>2 DEF r
<1>5. QED
  BY <1>3, <1>4

(* A fee that is withheld from a delivery. *)
Deductible(fee, amount) == amount \in Nat /\ fee \in Nat /\ fee <= amount

LEMMA SettleSettled ==
    ASSUME LedgersInv, NEW D, NEW m \in Markets, NEW F \in Lenders, NEW b, Images(D, m, F, b),
           NEW c \in Collaterals, Listed(m, c), NEW funding, NEW funder \in Owners,
           NEW recipient \in Owners, NEW branch \in {0, 1}, NEW amount, NEW fee,
           Deductible(fee, amount)
    PROVE  SettledSide(D, b, Settle(b, m, c, funding, funder, recipient, branch, amount, fee),
                       F, m, c, funding, branch, amount)
<1>1. amount \in Nat /\ fee \in Nat /\ fee <= amount
  BY DEF Deductible
<1> DEFINE s == SetsDelivered(b, m, c, funding, funder, branch, amount)
           a == Claim(c, branch)
           t == Credit(s, m, recipient, a, amount - fee)
           r == FeeKept(t, m, a, amount, fee)
<1>2. /\ Images(D, m, F, s)
      /\ \A x \in SettledAssets(m) :
           Holding(s, F, m, x) = Holding(b, F, m, x)
             + IF funding = UNDERLYING /\ x \in {Underlying(c), Claim(c, 1 - branch)}
               THEN amount ELSE 0
      /\ \A d \in Collaterals :
           s.minted[d] = b.minted[d] + IF funding = UNDERLYING /\ d = c THEN amount ELSE 0
  <2>1. Images(D, m, F, s) /\ SetsSide(b, s, F, m, c, funding, branch, amount)
    BY <1>1, SetsDeliveredSettled
  <2> HIDE DEF s
  <2>2. QED
    BY <2>1 DEF SetsSide
<1>3. a \in ClaimAssets /\ a \in SettledAssets(m) /\ amount - fee \in Int /\ amount - fee >= 0
  BY <1>1, AssetsOfCollateral, CollateralRange DEF SettledAssets
<1>4. \A x \in SettledAssets(m) : Holding(b, F, m, x) \in Int
  BY HoldingType DEF Images
<1>5. r = Settle(b, m, c, funding, funder, recipient, branch, amount, fee)
  BY SettleParts DEF s, a, t, r
<1>6. ASSUME NEW x \in SettledAssets(m)
      PROVE  SettledGain(c, funding, branch, amount, x) =
               (IF funding = UNDERLYING /\ x \in {Underlying(c), Claim(c, 1 - branch)}
                THEN amount ELSE 0)
               + (IF x = a THEN amount ELSE 0)
  <2>1. x \in Assets
    BY DEF SettledAssets
  <2>2. CollateralOf(x) = c <=> x \in {Underlying(c), Claim(c, 1 - branch), Claim(c, branch)}
    BY <2>1, AssetKinds, AssetsOfCollateral
  <2>3. a # Underlying(c) /\ a # Claim(c, 1 - branch)
    BY <1>3, AssetsOfCollateral
  <2>4. QED
    BY <1>1, <2>2, <2>3 DEF SettledGain
<1> HIDE DEF s, a
<1>7. Creditable(s, F, m, recipient, a, amount - fee)
  <2>1. s.balance[<<m, recipient, a>>] \in Nat /\ s.credits[<<m, a>>] \in Nat
    BY <1>2, <1>3 DEF Images, Naturals
  <2>2. QED
    BY <1>1, <1>3, <2>1 DEF Creditable
<1>8. /\ Images(D, m, F, t) /\ Credited(s, m, recipient, a, amount - fee, t)
      /\ Shifted(s, t, F, m, a, amount - fee)
  BY <1>2, <1>3, <1>7, CreditSettled
<1> HIDE DEF t
<1>9. /\ Images(D, m, F, r) /\ FeeTaken(t, m, a, amount, fee, r)
      /\ Shifted(t, r, F, m, a, fee)
  BY <1>1, <1>3, <1>8, FeeSettled
<1> HIDE DEF r
<1>10. ASSUME NEW x \in SettledAssets(m)
       PROVE  Holding(r, F, m, x) = Holding(b, F, m, x) + SettledGain(c, funding, branch, amount, x)
  <2> DEFINE gain == IF funding = UNDERLYING /\ x \in {Underlying(c), Claim(c, 1 - branch)}
                     THEN amount ELSE 0
  <2>1. /\ Holding(r, F, m, x) = Holding(t, F, m, x) + (IF x = a THEN fee ELSE 0)
        /\ Holding(t, F, m, x) = Holding(s, F, m, x) + (IF x = a THEN amount - fee ELSE 0)
        /\ Holding(s, F, m, x) = Holding(b, F, m, x) + gain
    BY <1>2, <1>8, <1>9 DEF Shifted
  <2>2. gain \in Int /\ Holding(b, F, m, x) \in Int /\ fee \in Nat /\ amount \in Nat
    BY <1>1, <1>4
  <2>3. SettledGain(c, funding, branch, amount, x) = gain + (IF x = a THEN amount ELSE 0)
    BY <1>6
  <2> HIDE DEF gain
  <2>4. QED
    BY <2>1, <2>2, <2>3
<1>11. r.minted = s.minted
  BY <1>8, <1>9 DEF Credited, FeeTaken
<1>12. QED
  BY <1>2, <1>5, <1>9, <1>10, <1>11 DEF SettledSide

----------------------------------------------------------------------------
(* Orders.                                                                 *)

(* What the amounts of an order account mean.                              *)
OrderSound(order) ==
    /\ order.remaining >= 0 /\ order.filled >= 0 /\ order.reserved >= 0
    /\ order.notional = QuoteUp(order.remaining, order.terms.price)
    /\ order.terms.side = BUY => order.reserved = order.notional
    /\ order.status # LIVE => order.remaining = 0 /\ order.reserved = 0
    /\ order.filled + order.remaining <= order.terms.quantity
    /\ order.carry \in 0 .. Bps - 1

LEMMA SidesDistinct == BUY = 0 /\ SELL = 1 /\ BUY # SELL /\ UNDERLYING # CLAIMS
                         /\ LIVE = 1 /\ FILLED = 2 /\ CANCELLED = 3
BY DEF BUY, SELL, UNDERLYING, CLAIMS, LIVE, FILLED, CANCELLED

LEMMA OrderTypes ==
    ASSUME NEW order \in OrderImages
    PROVE  /\ order.terms \in SignedTerms /\ order.terms.price \in Nat
           /\ order.terms.quantity \in Nat /\ order.terms.branch \in {0, 1}
           /\ order.terms.side \in {BUY, SELL} /\ order.terms.funding \in {UNDERLYING, CLAIMS}
           /\ order.terms.recipient \in Owners
           /\ order.remaining \in Int /\ order.filled \in Int /\ order.reserved \in Int
           /\ order.notional \in Int /\ order.carry \in Int
<1>1. order.terms \in SignedTerms
  BY DEF OrderImages
<1>2. order.terms.quantity \in Nat
  BY <1>1, U64Nat DEF SignedTerms
<1>3. QED
  BY <1>1, <1>2 DEF OrderImages, SignedTerms

LEMMA SoundOrders ==
    ASSUME NEW order \in OrderImages, OrderSound(order)
    PROVE  order.reserved \in Nat /\ order.notional \in Nat
<1>1. order.remaining \in Int /\ order.reserved \in Int /\ order.terms.price \in Nat
  BY OrderTypes
<1>2. /\ order.remaining >= 0 /\ order.reserved >= 0
      /\ order.notional = QuoteUp(order.remaining, order.terms.price)
  BY DEF OrderSound
<1>3. /\ QuoteUp(order.remaining, order.terms.price) \in Int
      /\ QuoteUp(order.remaining, order.terms.price) >= 0
  BY <1>1, <1>2, QuoteTypes
<1>4. QED
  BY <1>1, <1>2, <1>3

(* The orders a fill brings together.                                      *)
Opposite(m, buy, sell) ==
    /\ buy \in OrderImages /\ sell \in OrderImages
    /\ buy.terms.side = BUY /\ sell.terms.side = SELL
    /\ buy.terms.branch = sell.terms.branch
    /\ Delivers(sell.terms) \in Collaterals \ {QUOTE}
    /\ Listed(m, Delivers(sell.terms)) /\ Listed(m, QUOTE)
    /\ MultiplierOk(LiveMultiplier(MintOf(m, Delivers(sell.terms))))

FillTypes(fill) ==
    /\ fill.quote \in Int /\ fill.buyerReserved \in Int /\ fill.improvement \in Int
    /\ fill.buyerReduction \in Int /\ fill.sellerReduction \in Int

LEMMA FillIsTyped ==
    ASSUME NEW quantity \in Int, NEW buying \in Int, NEW selling \in Int, NEW bid \in Nat,
           NEW ask \in Nat, NEW bidIsMaker
    PROVE  FillTypes(Fill(quantity, buying, selling, bid, ask, bidIsMaker))
<1> DEFINE price == IF bidIsMaker THEN bid ELSE ask
           quote == QuoteDown(quantity, price)
           before == QuoteUp(buying, bid)
           rest == QuoteUp(buying - quantity, bid)
           asked == QuoteUp(selling, ask)
           left == QuoteUp(selling - quantity, ask)
           fill == Fill(quantity, buying, selling, bid, ask, bidIsMaker)
<1>1. price \in Nat /\ buying - quantity \in Int /\ selling - quantity \in Int
  OBVIOUS
<1>2. /\ fill.quote = quote /\ fill.buyerReserved = rest
      /\ fill.improvement = before - rest - quote /\ fill.buyerReduction = before - rest
      /\ fill.sellerReduction = asked - left
  BY DEF Fill
<1> HIDE DEF price, fill
<1>3. quote \in Int /\ before \in Int /\ rest \in Int /\ asked \in Int /\ left \in Int
  BY <1>1, QuoteTypes
<1> HIDE DEF quote, before, rest, asked, left
<1>4. FillTypes(fill)
  BY <1>2, <1>3 DEF FillTypes
<1>5. QED
  BY <1>4 DEF fill

(* An executed fill gives the bid its rest, the ask what it asked for and  *)
(* the improvement back.                                                   *)
FillSound(fill, quantity, buy, sell) ==
    /\ quantity \in 1 .. buy.remaining /\ quantity <= sell.remaining
    /\ fill.quote \in Nat /\ fill.improvement \in Nat /\ fill.sellerReduction \in Nat
    /\ fill.buyerReduction = fill.quote + fill.improvement
    /\ fill.buyerReserved = QuoteUp(buy.remaining - quantity, buy.terms.price)
    /\ buy.notional = fill.buyerReserved + fill.buyerReduction
    /\ sell.notional = QuoteUp(sell.remaining - quantity, sell.terms.price) + fill.sellerReduction

LEMMA FillIsSound ==
    ASSUME NEW buy \in OrderImages, NEW sell \in OrderImages, OrderSound(buy), OrderSound(sell),
           NEW quantity \in Int, NEW step, NEW bidIsMaker,
           FillOk(quantity, step, buy.remaining, sell.remaining, buy.terms.price,
                  sell.terms.price, bidIsMaker)
    PROVE  FillSound(Fill(quantity, buy.remaining, sell.remaining, buy.terms.price,
                          sell.terms.price, bidIsMaker), quantity, buy, sell)
<1> DEFINE bid == buy.terms.price
           ask == sell.terms.price
           price == IF bidIsMaker THEN bid ELSE ask
           quote == QuoteDown(quantity, price)
           before == QuoteUp(buy.remaining, bid)
           rest == QuoteUp(buy.remaining - quantity, bid)
           asked == QuoteUp(sell.remaining, ask)
           left == QuoteUp(sell.remaining - quantity, ask)
           fill == Fill(quantity, buy.remaining, sell.remaining, bid, ask, bidIsMaker)
<1>1. /\ bid \in Nat /\ ask \in Nat /\ price \in Nat
      /\ buy.remaining \in Int /\ sell.remaining \in Int
      /\ buy.remaining - quantity \in Int /\ sell.remaining - quantity \in Int
  BY OrderTypes
<1>2. /\ quantity > 0 /\ quantity <= buy.remaining /\ quantity <= sell.remaining
      /\ before >= rest + quote /\ asked >= left
  BY DEF FillOk
<1>3. before = buy.notional /\ asked = sell.notional
  BY DEF OrderSound
<1>4. /\ fill.quote = quote /\ fill.buyerReserved = rest
      /\ fill.improvement = before - rest - quote /\ fill.buyerReduction = before - rest
      /\ fill.sellerReduction = asked - left
  BY DEF Fill
<1> HIDE DEF price, fill
<1>5. /\ quote \in Int /\ quote >= 0 /\ before \in Int /\ rest \in Int
      /\ asked \in Int /\ left \in Int
  <2>1. quantity >= 0
    BY <1>2
  <2>2. quote \in Int /\ quote >= 0
    BY <1>1, <2>1, QuoteTypes
  <2>3. before \in Int /\ rest \in Int
    BY <1>1, QuoteTypes
  <2>4. asked \in Int /\ left \in Int
    BY <1>1, QuoteTypes
  <2>5. QED
    BY <2>2, <2>3, <2>4
<1>6. rest = QuoteUp(buy.remaining - quantity, buy.terms.price)
        /\ left = QuoteUp(sell.remaining - quantity, sell.terms.price)
  OBVIOUS
<1> HIDE DEF quote, before, rest, asked, left
<1>7. FillSound(fill, quantity, buy, sell)
  BY <1>1, <1>2, <1>3, <1>4, <1>5, <1>6 DEF FillSound
<1>8. QED
  BY <1>7 DEF fill

MovesTypes(moves) ==
    /\ FillTypes(moves.fill) /\ moves.amount \in Int /\ moves.surplus \in Int
    /\ moves.buyerFee.amount \in Int /\ moves.buyerFee.carry \in 0 .. Bps - 1
    /\ moves.sellerFee.amount \in Int /\ moves.sellerFee.carry \in 0 .. Bps - 1

LEMMA MovesAreTyped ==
    ASSUME LedgersInv, NEW m \in Markets, NEW buy, NEW sell, Opposite(m, buy, sell),
           NEW quantity \in Int, NEW takerBuys
    PROVE  MovesTypes(Moves(m, buy, sell, quantity, takerBuys))
<1> DEFINE fill == Fill(quantity, buy.remaining, sell.remaining, buy.terms.price,
                        sell.terms.price, ~takerBuys)
           amount == Raw(m, Delivers(sell.terms), quantity, FALSE)
           rate == IF takerBuys THEN config.takerBps ELSE config.makerBps
           other == IF takerBuys THEN config.makerBps ELSE config.takerBps
           moves == Moves(m, buy, sell, quantity, takerBuys)
<1>1. /\ moves.fill = fill /\ moves.amount = amount
      /\ moves.surplus = IF quantity = sell.remaining THEN sell.reserved - amount ELSE 0
      /\ moves.buyerFee = Fee(amount, rate, buy.carry)
      /\ moves.sellerFee = Fee(fill.quote, other, sell.carry)
  BY DEF Moves
<1> HIDE DEF moves
<1>2. FillTypes(fill)
  BY OrderTypes, FillIsTyped DEF Opposite
<1>3. amount \in Int
  <2>1. MintOf(m, Delivers(sell.terms)) \in Mints /\ MarketType /\ PoolType
    BY DEF LedgersInv, CustodyInv, ListingInv, MarketInv, MintsListed, Opposite
  <2>2. QED
    BY <2>1, RawType DEF Opposite
<1>4. rate \in Nat /\ other \in Nat
  BY RulesConstants DEF LedgersInv, CustodyInv, ListingInv, ConfigType
<1>5. buy.carry \in Int /\ sell.carry \in Int /\ sell.reserved \in Int
  BY OrderTypes DEF Opposite
<1> HIDE DEF fill, amount, rate, other
<1>6. fill.quote \in Int
  BY <1>2 DEF FillTypes
<1>7. /\ Fee(amount, rate, buy.carry).amount \in Int
      /\ Fee(amount, rate, buy.carry).carry \in 0 .. Bps - 1
      /\ Fee(fill.quote, other, sell.carry).amount \in Int
      /\ Fee(fill.quote, other, sell.carry).carry \in 0 .. Bps - 1
  BY <1>3, <1>4, <1>5, <1>6, FeeType
<1>8. moves.surplus \in Int
  BY <1>1, <1>3, <1>5
<1>9. MovesTypes(moves)
  BY <1>1, <1>2, <1>3, <1>7, <1>8 DEF MovesTypes
<1>10. QED
  BY <1>9 DEF moves

(* What the amounts of an executed fill satisfy.                           *)
MovesSound(moves, quantity, buy, sell) ==
    /\ FillSound(moves.fill, quantity, buy, sell)
    /\ moves.amount \in 1 .. sell.reserved
    /\ moves.surplus = IF quantity = sell.remaining THEN sell.reserved - moves.amount ELSE 0
    /\ moves.buyerFee.amount >= 0 /\ moves.sellerFee.amount >= 0

LEMMA MovesAreSound ==
    ASSUME LedgersInv, NEW m \in Markets, NEW buy, NEW sell, Opposite(m, buy, sell),
           OrderSound(buy), OrderSound(sell), NEW quantity \in Int, NEW takerBuys, NEW step,
           FillOk(quantity, step, buy.remaining, sell.remaining, buy.terms.price,
                  sell.terms.price, ~takerBuys),
           Moves(m, buy, sell, quantity, takerBuys).amount \in 1 .. sell.reserved
    PROVE  MovesSound(Moves(m, buy, sell, quantity, takerBuys), quantity, buy, sell)
<1> DEFINE fill == Fill(quantity, buy.remaining, sell.remaining, buy.terms.price,
                        sell.terms.price, ~takerBuys)
           amount == Raw(m, Delivers(sell.terms), quantity, FALSE)
           rate == IF takerBuys THEN config.takerBps ELSE config.makerBps
           other == IF takerBuys THEN config.makerBps ELSE config.takerBps
           moves == Moves(m, buy, sell, quantity, takerBuys)
<1>1. /\ moves.fill = fill /\ moves.amount = amount
      /\ moves.surplus = IF quantity = sell.remaining THEN sell.reserved - amount ELSE 0
      /\ moves.buyerFee = Fee(amount, rate, buy.carry)
      /\ moves.sellerFee = Fee(fill.quote, other, sell.carry)
  BY DEF Moves
<1>2. FillSound(fill, quantity, buy, sell)
  BY FillIsSound DEF Opposite
<1>3. moves.amount \in 1 .. sell.reserved
  OBVIOUS
<1> HIDE DEF moves
<1>4. rate \in Nat /\ other \in Nat
  BY RulesConstants DEF LedgersInv, CustodyInv, ListingInv, ConfigType
<1>5. buy.carry \in Nat /\ sell.carry \in Nat /\ sell.reserved \in Int
  BY OrderTypes DEF Opposite, OrderSound
<1> HIDE DEF fill, amount, rate, other
<1>6. fill.quote \in Int /\ fill.quote >= 0 /\ amount \in Int /\ amount >= 0
  BY <1>1, <1>2, <1>3, <1>5 DEF FillSound
<1>7. Fee(amount, rate, buy.carry).amount >= 0 /\ Fee(fill.quote, other, sell.carry).amount >= 0
  <2>1. buy.carry \in Int /\ buy.carry >= 0 /\ sell.carry \in Int /\ sell.carry >= 0
    BY <1>5
  <2>2. Fee(amount, rate, buy.carry).amount >= 0
    BY <1>4, <1>6, <2>1, FeeType
  <2>3. Fee(fill.quote, other, sell.carry).amount >= 0
    BY <1>4, <1>6, <2>1, FeeType
  <2>4. QED
    BY <2>2, <2>3
<1>8. MovesSound(moves, quantity, buy, sell)
  BY <1>1, <1>2, <1>3, <1>7 DEF MovesSound
<1>9. QED
  BY <1>8 DEF moves

(* What no fill and no release changes of an order account.                *)
SameOrder(before, after) ==
    /\ after.terms = before.terms /\ after.delegate = before.delegate
    /\ after.sequence = before.sequence /\ after.planned = before.planned

LEMMA BoughtEffect ==
    ASSUME NEW buy \in OrderImages, NEW quantity \in Int, NEW moves, MovesTypes(moves)
    PROVE  /\ Bought(buy, quantity, moves) \in OrderImages
           /\ SameOrder(buy, Bought(buy, quantity, moves))
           /\ Bought(buy, quantity, moves).remaining = buy.remaining - quantity
           /\ Bought(buy, quantity, moves).filled = buy.filled + quantity
           /\ Bought(buy, quantity, moves).reserved = moves.fill.buyerReserved
           /\ Bought(buy, quantity, moves).notional = buy.notional - moves.fill.buyerReduction
           /\ Bought(buy, quantity, moves).carry = moves.buyerFee.carry
           /\ Bought(buy, quantity, moves).status =
                IF quantity = buy.remaining THEN FILLED ELSE LIVE
<1> DEFINE left == buy.remaining - quantity
           done == buy.filled + quantity
           kept == moves.fill.buyerReserved
           open == buy.notional - moves.fill.buyerReduction
           carry == moves.buyerFee.carry
           status == IF quantity = buy.remaining THEN FILLED ELSE LIVE
           r == Bought(buy, quantity, moves)
<1>1. /\ left \in Int /\ done \in Int /\ kept \in Int /\ open \in Int /\ carry \in Int
      /\ status \in {LIVE, FILLED, CANCELLED}
  BY OrderTypes, RulesConstants DEF MovesTypes, FillTypes
<1>2. r = [buy EXCEPT !.remaining = left, !.filled = done, !.reserved = kept,
                      !.notional = open, !.carry = carry, !.status = status]
  BY DEF Bought
<1> HIDE DEF left, done, kept, open, carry, status, r
<1>3. /\ r \in OrderImages /\ SameOrder(buy, r) /\ r.remaining = left /\ r.filled = done
      /\ r.reserved = kept /\ r.notional = open /\ r.carry = carry /\ r.status = status
  BY <1>1, <1>2 DEF OrderImages, SameOrder
<1>4. QED
  BY <1>3 DEF left, done, kept, open, carry, status, r

LEMMA SoldEffect ==
    ASSUME NEW sell \in OrderImages, NEW quantity \in Int, NEW moves, MovesTypes(moves)
    PROVE  /\ Sold(sell, quantity, moves) \in OrderImages
           /\ SameOrder(sell, Sold(sell, quantity, moves))
           /\ Sold(sell, quantity, moves).remaining = sell.remaining - quantity
           /\ Sold(sell, quantity, moves).filled = sell.filled + quantity
           /\ Sold(sell, quantity, moves).reserved = sell.reserved - moves.amount - moves.surplus
           /\ Sold(sell, quantity, moves).notional = sell.notional - moves.fill.sellerReduction
           /\ Sold(sell, quantity, moves).carry = moves.sellerFee.carry
           /\ Sold(sell, quantity, moves).status =
                IF quantity = sell.remaining THEN FILLED ELSE LIVE
<1> DEFINE left == sell.remaining - quantity
           done == sell.filled + quantity
           kept == sell.reserved - moves.amount - moves.surplus
           open == sell.notional - moves.fill.sellerReduction
           carry == moves.sellerFee.carry
           status == IF quantity = sell.remaining THEN FILLED ELSE LIVE
           r == Sold(sell, quantity, moves)
<1>1. /\ left \in Int /\ done \in Int /\ kept \in Int /\ open \in Int /\ carry \in Int
      /\ status \in {LIVE, FILLED, CANCELLED}
  BY OrderTypes, RulesConstants DEF MovesTypes, FillTypes
<1>2. r = [sell EXCEPT !.remaining = left, !.filled = done, !.reserved = kept,
                       !.notional = open, !.carry = carry, !.status = status]
  BY DEF Sold
<1> HIDE DEF left, done, kept, open, carry, status, r
<1>3. /\ r \in OrderImages /\ SameOrder(sell, r) /\ r.remaining = left /\ r.filled = done
      /\ r.reserved = kept /\ r.notional = open /\ r.carry = carry /\ r.status = status
  BY <1>1, <1>2 DEF OrderImages, SameOrder
<1>4. QED
  BY <1>3 DEF left, done, kept, open, carry, status, r

LEMMA BoughtSound ==
    ASSUME NEW buy \in OrderImages, NEW sell \in OrderImages, OrderSound(buy),
           buy.terms.side = BUY, NEW quantity \in Int, NEW moves, MovesTypes(moves),
           MovesSound(moves, quantity, buy, sell)
    PROVE  /\ OrderSound(Bought(buy, quantity, moves))
           /\ Bought(buy, quantity, moves).reserved = buy.reserved - moves.fill.buyerReduction
<1> DEFINE r == Bought(buy, quantity, moves)
           price == buy.terms.price
           kept == moves.fill.buyerReserved
           freed == moves.fill.buyerReduction
<1>1. /\ r.terms = buy.terms /\ r.remaining = buy.remaining - quantity
      /\ r.filled = buy.filled + quantity /\ r.reserved = kept
      /\ r.notional = buy.notional - freed /\ r.carry = moves.buyerFee.carry
      /\ r.status = IF quantity = buy.remaining THEN FILLED ELSE LIVE
  BY BoughtEffect DEF SameOrder
<1>2. /\ price \in Nat /\ buy.remaining \in Int /\ buy.filled \in Int /\ buy.reserved \in Int
      /\ buy.terms.quantity \in Nat /\ buy.notional \in Int
  BY OrderTypes
<1>3. /\ buy.remaining >= 0 /\ buy.filled >= 0 /\ buy.reserved = buy.notional
      /\ buy.filled + buy.remaining <= buy.terms.quantity
  BY DEF OrderSound
<1>4. /\ quantity \in 1 .. buy.remaining /\ kept = QuoteUp(buy.remaining - quantity, price)
      /\ buy.notional = kept + freed
  BY DEF MovesSound, FillSound
<1>5. kept \in Int /\ freed \in Int /\ r.carry \in 0 .. Bps - 1
  BY <1>1 DEF MovesTypes, FillTypes
<1> HIDE DEF r, kept, freed
<1>6. r.remaining \in Int /\ r.remaining >= 0 /\ r.remaining = buy.remaining - quantity
  BY <1>1, <1>2, <1>4
<1>7. kept = QuoteUp(r.remaining, r.terms.price) /\ kept >= 0
  <2>1. kept = QuoteUp(r.remaining, price)
    BY <1>4, <1>6
  <2>2. QED
    BY <1>1, <1>2, <1>6, <2>1, QuoteTypes
<1>8. r.notional = kept /\ r.reserved = buy.reserved - freed
  BY <1>1, <1>2, <1>3, <1>4, <1>5
<1>9. r.status # LIVE => r.remaining = 0 /\ r.reserved = 0
  <2> SUFFICES ASSUME r.status # LIVE PROVE r.remaining = 0 /\ r.reserved = 0
    OBVIOUS
  <2>1. r.remaining = 0
    BY <1>1, <1>2, <1>4
  <2>2. kept = 0
    BY <1>1, <1>2, <1>7, <2>1, QuoteOfNothing
  <2>3. QED
    BY <1>1, <2>1, <2>2
<1>10. r.filled >= 0 /\ r.filled + r.remaining <= r.terms.quantity
  BY <1>1, <1>2, <1>3, <1>4
<1>11. OrderSound(r)
  BY <1>1, <1>5, <1>6, <1>7, <1>8, <1>9, <1>10 DEF OrderSound
<1>12. QED
  BY <1>8, <1>11 DEF r, freed

LEMMA SoldSound ==
    ASSUME NEW buy \in OrderImages, NEW sell \in OrderImages, OrderSound(sell),
           sell.terms.side = SELL, NEW quantity \in Int, NEW moves, MovesTypes(moves),
           MovesSound(moves, quantity, buy, sell)
    PROVE  OrderSound(Sold(sell, quantity, moves))
<1> DEFINE r == Sold(sell, quantity, moves)
           price == sell.terms.price
           kept == sell.reserved - moves.amount - moves.surplus
           freed == moves.fill.sellerReduction
<1>1. /\ r.terms = sell.terms /\ r.remaining = sell.remaining - quantity
      /\ r.filled = sell.filled + quantity /\ r.reserved = kept
      /\ r.notional = sell.notional - freed /\ r.carry = moves.sellerFee.carry
      /\ r.status = IF quantity = sell.remaining THEN FILLED ELSE LIVE
  BY SoldEffect DEF SameOrder
<1>2. /\ price \in Nat /\ sell.remaining \in Int /\ sell.filled \in Int /\ sell.reserved \in Int
      /\ sell.terms.quantity \in Nat /\ sell.notional \in Int
  BY OrderTypes
<1>3. /\ sell.remaining >= 0 /\ sell.filled >= 0
      /\ sell.filled + sell.remaining <= sell.terms.quantity
  BY DEF OrderSound
<1>4. /\ quantity >= 1 /\ quantity <= sell.remaining
      /\ sell.notional = QuoteUp(sell.remaining - quantity, price) + freed
  BY DEF MovesSound, FillSound
<1>5. freed \in Int /\ r.carry \in 0 .. Bps - 1
  BY <1>1 DEF MovesTypes, FillTypes
<1>6. moves.amount \in 1 .. sell.reserved
        /\ moves.surplus = IF quantity = sell.remaining THEN sell.reserved - moves.amount ELSE 0
  BY DEF MovesSound
<1>7. kept >= 0 /\ (quantity = sell.remaining => kept = 0)
  BY <1>2, <1>6
<1> HIDE DEF r, kept, freed
<1>8. r.remaining \in Int /\ r.remaining >= 0 /\ r.remaining = sell.remaining - quantity
  BY <1>1, <1>2, <1>4
<1>9. r.notional = QuoteUp(r.remaining, r.terms.price)
  <2>1. QuoteUp(r.remaining, price) \in Int
    BY <1>2, <1>8, QuoteTypes
  <2>2. sell.notional = QuoteUp(r.remaining, price) + freed
    BY <1>4, <1>8
  <2>3. QED
    BY <1>1, <1>5, <2>1, <2>2
<1>10. r.status # LIVE => r.remaining = 0 /\ r.reserved = 0
  BY <1>1, <1>2, <1>4, <1>7, SidesDistinct
<1>11. r.filled >= 0 /\ r.filled + r.remaining <= r.terms.quantity
  BY <1>1, <1>2, <1>3, <1>4
<1>12. r.terms.side # BUY
  BY <1>1, SidesDistinct
<1>13. OrderSound(r)
  BY <1>1, <1>5, <1>7, <1>8, <1>9, <1>10, <1>11, <1>12 DEF OrderSound
<1>14. QED
  BY <1>13 DEF r

----------------------------------------------------------------------------
(* What a fill records.                                                    *)

LEMMA Funding ==
    ASSUME NEW order \in OrderImages, Delivers(order.terms) \in Collaterals
    PROVE  /\ FundingAsset(order.terms) \in Assets
           /\ CollateralOf(FundingAsset(order.terms)) = Delivers(order.terms)
           /\ order.terms.funding = UNDERLYING =>
                /\ FundingAsset(order.terms) = Underlying(Delivers(order.terms))
                /\ FundingAsset(order.terms) \notin ClaimAssets
           /\ order.terms.funding # UNDERLYING =>
                /\ FundingAsset(order.terms) = Claim(Delivers(order.terms), order.terms.branch)
                /\ FundingAsset(order.terms) \in ClaimAssets
BY OrderTypes, AssetsOfCollateral, CollateralRange DEF FundingAsset

(* Two orders and the escrow of two assets change, and nothing else.       *)
RecordedPair(b, m, buyId, sellId, bought, sold, a, p, c, q, ok, r) ==
    /\ r.available = b.available /\ r.balance = b.balance /\ r.credits = b.credits
    /\ r.backing = b.backing /\ r.fees = b.fees /\ r.minted = b.minted
    /\ r.exposure = b.exposure /\ r.held = b.held
    /\ r.orders = [b.orders EXCEPT ![buyId] = bought, ![sellId] = sold]
    /\ r.escrow = [b.escrow EXCEPT ![<<m, a>>] = b.escrow[<<m, a>>] - p,
                                   ![<<m, c>>] = b.escrow[<<m, c>>] - q]
    /\ r.ok = (b.ok /\ ok)

FillAccepted(m, buy, sell, quantity, takerBuys, moves) ==
    /\ FillOk(quantity, Caps(m).step, buy.remaining, sell.remaining,
              buy.terms.price, sell.terms.price, ~takerBuys)
    /\ RawOk(m, Delivers(sell.terms), quantity, FALSE)
    /\ moves.amount \in 1 .. sell.reserved

LEMMA OppositeAssets ==
    ASSUME NEW m, NEW buy, NEW sell, Opposite(m, buy, sell)
    PROVE  /\ FundingAsset(buy.terms) \in SettledAssets(m)
           /\ FundingAsset(sell.terms) \in SettledAssets(m)
           /\ FundingAsset(buy.terms) # FundingAsset(sell.terms)
           /\ FundingAsset(buy.terms) \in Assets /\ FundingAsset(sell.terms) \in Assets
           /\ CollateralOf(FundingAsset(buy.terms)) = QUOTE
           /\ CollateralOf(FundingAsset(sell.terms)) = Delivers(sell.terms)
           /\ Delivers(buy.terms) = QUOTE
<1>1. Delivers(buy.terms) = QUOTE
  BY DEF Opposite, Delivers
<1>2. buy \in OrderImages /\ sell \in OrderImages /\ Delivers(buy.terms) \in Collaterals
        /\ Delivers(sell.terms) \in Collaterals /\ Delivers(sell.terms) # QUOTE
        /\ Listed(m, Delivers(sell.terms)) /\ Listed(m, QUOTE)
  BY <1>1, CollateralRange DEF Opposite
<1>3. QED
  BY <1>1, <1>2, Funding DEF SettledAssets

LEMMA RecordedEffect ==
    ASSUME LedgersInv, NEW D, NEW b \in Ledgers(D), NEW m \in Markets,
           NEW buyId \in D, NEW sellId \in D,
           Opposite(m, b.orders[buyId], b.orders[sellId]),
           NEW quantity \in Int, NEW takerBuys, NEW moves, MovesTypes(moves)
    PROVE  /\ Recorded(b, m, buyId, sellId, quantity, takerBuys, moves) \in Ledgers(D)
           /\ RecordedPair(b, m, buyId, sellId, Bought(b.orders[buyId], quantity, moves),
                Sold(b.orders[sellId], quantity, moves),
                FundingAsset(b.orders[buyId].terms), moves.fill.buyerReduction,
                FundingAsset(b.orders[sellId].terms), moves.amount + moves.surplus,
                FillAccepted(m, b.orders[buyId], b.orders[sellId], quantity, takerBuys, moves),
                Recorded(b, m, buyId, sellId, quantity, takerBuys, moves))
<1> DEFINE buy == b.orders[buyId]
           sell == b.orders[sellId]
           bought == Bought(buy, quantity, moves)
           sold == Sold(sell, quantity, moves)
           a == FundingAsset(buy.terms)
           c == FundingAsset(sell.terms)
           p == moves.fill.buyerReduction
           q == moves.amount + moves.surplus
           good == FillAccepted(m, buy, sell, quantity, takerBuys, moves)
           r == Recorded(b, m, buyId, sellId, quantity, takerBuys, moves)
           u == [b.orders EXCEPT ![buyId] = bought, ![sellId] = sold]
           v == [b.escrow EXCEPT ![<<m, a>>] = b.escrow[<<m, a>>] - p,
                                 ![<<m, c>>] = b.escrow[<<m, c>>] - q]
           w == b.ok /\ good
<1>1. a \in Assets /\ c \in Assets /\ a # c /\ buy \in OrderImages /\ sell \in OrderImages
  BY OppositeAssets DEF Opposite
<1>2. p \in Int /\ q \in Int /\ moves.amount \in Int /\ moves.surplus \in Int
  BY DEF MovesTypes, FillTypes
<1>3. bought \in OrderImages /\ sold \in OrderImages
  <2> HIDE DEF buy, sell
  <2>1. QED
    BY <1>1, BoughtEffect, SoldEffect
<1>4. b.orders \in [D -> OrderImages] /\ b.escrow \in [Markets \X Assets -> Int]
  BY DEF Ledgers, BookImages, EscrowImages
<1>5. u \in BookImages(D)
  <2> HIDE DEF bought, sold
  <2>1. QED
    BY <1>3, <1>4 DEF BookImages
<1>6. v \in EscrowImages
  <2> HIDE DEF p, q, a, c
  <2>1. QED
    BY <1>1, <1>2, <1>4 DEF EscrowImages
<1>7. w \in BOOLEAN
  OBVIOUS
<1>8. r = [b EXCEPT !.orders = u, !.escrow = v, !.ok = w]
  <2>1. b.escrow[<<m, c>>] - moves.amount - moves.surplus = b.escrow[<<m, c>>] - q
    <3>1. b.escrow[<<m, c>>] \in Int
      BY <1>1, <1>4
    <3> HIDE DEF c
    <3>2. QED
      BY <1>2, <3>1
  <2>2. <<m, a>> # <<m, c>>
    BY <1>1
  <2> DEFINE e == [b.escrow EXCEPT ![<<m, a>>] = @ - p,
                                   ![<<m, c>>] = @ - moves.amount - moves.surplus]
             d == [b.orders EXCEPT ![buyId] = bought, ![sellId] = sold]
             g == /\ b.ok
                  /\ FillOk(quantity, Caps(m).step, buy.remaining, sell.remaining,
                            buy.terms.price, sell.terms.price, ~takerBuys)
                  /\ RawOk(m, Delivers(sell.terms), quantity, FALSE)
                  /\ moves.amount \in 1 .. sell.reserved
  <2>3. r = [b EXCEPT !.orders = d, !.escrow = e, !.ok = g]
    BY DEF Recorded
  <2>4. e = v
    <3> HIDE DEF a, c, p, q
    <3>1. QED
      BY <1>1, <1>4, <2>1, <2>2
  <2>5. g = w /\ d = u
    BY DEF FillAccepted
  <2>6. QED
    BY <2>3, <2>4, <2>5
<1> HIDE DEF r, u, v, w
<1>9. /\ r \in Ledgers(D)
      /\ r.available = b.available /\ r.balance = b.balance /\ r.credits = b.credits
      /\ r.backing = b.backing /\ r.fees = b.fees /\ r.minted = b.minted
      /\ r.exposure = b.exposure /\ r.held = b.held
      /\ r.orders = u /\ r.escrow = v /\ r.ok = w
  BY <1>5, <1>6, <1>7, <1>8 DEF Ledgers
<1>10. QED
  BY <1>9 DEF r, u, v, w, RecordedPair

(* The escrow of both reservations after a fill.                           *)
LEMMA RecordedSettled ==
    ASSUME LedgersInv, NEW D, NEW m \in Markets, NEW F \in Lenders, NEW b, Images(D, m, F, b),
           NEW buyId, NEW sellId, NEW bought, NEW sold, NEW ok,
           NEW a \in SettledAssets(m), NEW c \in SettledAssets(m), a # c,
           NEW p \in Int, NEW q \in Int, NEW r \in Ledgers(D),
           RecordedPair(b, m, buyId, sellId, bought, sold, a, p, c, q, ok, r)
    PROVE  /\ Images(D, m, F, r)
           /\ \A x \in SettledAssets(m) :
                Holding(r, F, m, x) = Holding(b, F, m, x)
                  - (IF x = a THEN p ELSE 0) - (IF x = c THEN q ELSE 0)
<1> DEFINE e == [b.escrow EXCEPT ![<<m, a>>] = b.escrow[<<m, a>>] + (-p)]
           t == [b EXCEPT !.escrow = e]
<1>1. b \in Ledgers(D) /\ a \in Assets /\ c \in Assets /\ Naturals(b)
  BY DEF Images, SettledAssets
<1>2. b.escrow \in [Markets \X Assets -> Int]
  BY <1>1 DEF Ledgers, EscrowImages
<1>3. e \in EscrowImages
  BY <1>1, <1>2 DEF EscrowImages
<1>4. /\ e[<<m, c>>] = b.escrow[<<m, c>>] /\ b.escrow[<<m, c>>] \in Int
      /\ b.escrow[<<m, a>>] + (-p) = b.escrow[<<m, a>>] - p
  BY <1>1, <1>2
<1>5. /\ r.escrow = [e EXCEPT ![<<m, c>>] = e[<<m, c>>] + (-q)]
  <2>1. r.escrow = [b.escrow EXCEPT ![<<m, a>>] = b.escrow[<<m, a>>] - p,
                                    ![<<m, c>>] = b.escrow[<<m, c>>] - q]
    BY DEF RecordedPair
  <2>2. b.escrow[<<m, c>>] - q = e[<<m, c>>] + (-q)
    BY <1>4
  <2>3. QED
    BY <1>4, <2>1, <2>2
<1> HIDE DEF e
<1>6. /\ t \in Ledgers(D) /\ t.escrow = e /\ t.available = b.available /\ t.balance = b.balance
      /\ t.credits = b.credits /\ t.backing = b.backing /\ t.fees = b.fees
      /\ t.minted = b.minted
  BY <1>1, <1>3 DEF Ledgers
<1> HIDE DEF t
<1>7. Escrowed(b, m, a, -p, t)
  BY <1>6 DEF Escrowed, e
<1>8. -p \in Int /\ -q \in Int
  OBVIOUS
<1>9. Images(D, m, F, t) /\ Shifted(b, t, F, m, a, -p)
  BY <1>6, <1>7, <1>8, EscrowSettled
<1>10. Escrowed(t, m, c, -q, r)
  BY <1>5, <1>6 DEF Escrowed, RecordedPair
<1>11. Images(D, m, F, r) /\ Shifted(t, r, F, m, c, -q)
  BY <1>8, <1>9, <1>10, EscrowSettled
<1>12. ASSUME NEW x \in SettledAssets(m)
       PROVE  Holding(r, F, m, x) = Holding(b, F, m, x)
                  - (IF x = a THEN p ELSE 0) - (IF x = c THEN q ELSE 0)
  <2>1. Holding(b, F, m, x) \in Int
    BY <1>1, HoldingType
  <2>2. Holding(t, F, m, x) = Holding(b, F, m, x) + (IF x = a THEN -p ELSE 0)
    BY <1>9 DEF Shifted
  <2>3. Holding(r, F, m, x) = Holding(t, F, m, x) + (IF x = c THEN -q ELSE 0)
    BY <1>11 DEF Shifted
  <2>4. QED
    BY <2>1, <2>2, <2>3
<1>13. QED
  BY <1>11, <1>12

(* What the orders reserve and expose after two of them changed.           *)
BooksShifted(m, D, after, book, buyId, sellId, a, p, c, q, n, k) ==
    /\ after \in BookImages(D) /\ SoundAmounts(after)
    /\ \A x \in Markets, y \in Assets :
         ReservedBy(after, x, y) = ReservedBy(book, x, y)
           - (IF x = m /\ y = a THEN p ELSE 0) - (IF x = m /\ y = c THEN q ELSE 0)
    /\ \A x \in Markets :
         MarketNotional(after, x) = MarketNotional(book, x) - (IF x = m THEN n + k ELSE 0)
    /\ \A x \in Markets, o \in Owners :
         WalletNotional(after, x, o) = WalletNotional(book, x, o)
           - (IF x = m /\ o = buyId.owner THEN n ELSE 0)
           - (IF x = m /\ o = sellId.owner THEN k ELSE 0)

(* An order gave up p of what it reserves and n of what it exposes. *)
Lessened(before, after, p, n) ==
    /\ after \in OrderImages /\ after.terms = before.terms
    /\ after.reserved \in Nat /\ after.notional \in Nat
    /\ after.reserved = before.reserved - p /\ after.notional = before.notional - n

LEMMA TwoOrdersMoved ==
    ASSUME NEW D, IsFiniteSet(D), NEW book \in BookImages(D), SoundAmounts(book),
           NEW m, NEW buyId \in D, NEW sellId \in D, buyId # sellId,
           buyId.market = m, sellId.market = m,
           NEW bought, NEW sold, NEW p \in Int, NEW q \in Int, NEW n \in Int, NEW k \in Int,
           Lessened(book[buyId], bought, p, n), Lessened(book[sellId], sold, q, k),
           NEW after, after = [book EXCEPT ![buyId] = bought, ![sellId] = sold]
    PROVE  BooksShifted(m, D, after, book, buyId, sellId, FundingAsset(bought.terms), p,
                        FundingAsset(sold.terms), q, n, k)
<1>1. /\ bought \in OrderImages /\ bought.terms = book[buyId].terms
      /\ bought.reserved \in Nat /\ bought.notional \in Nat
      /\ bought.reserved = book[buyId].reserved - p
      /\ bought.notional = book[buyId].notional - n
  BY DEF Lessened
<1>2. /\ sold \in OrderImages /\ sold.terms = book[sellId].terms
      /\ sold.reserved \in Nat /\ sold.notional \in Nat
      /\ sold.reserved = book[sellId].reserved - q
      /\ sold.notional = book[sellId].notional - k
  BY DEF Lessened
<1> DEFINE mid == [book EXCEPT ![buyId] = bought]
           a == FundingAsset(bought.terms)
           c == FundingAsset(sold.terms)
<1>3. book \in [D -> OrderImages]
  BY DEF BookImages
<1>4. mid[sellId] = book[sellId] /\ after = [mid EXCEPT ![sellId] = sold]
        /\ mid = [book EXCEPT ![buyId] = bought]
  BY <1>3
<1>5. book[buyId].reserved \in Nat /\ book[sellId].reserved \in Nat
        /\ book[buyId].notional \in Nat /\ book[sellId].notional \in Nat
  BY <1>3 DEF SoundAmounts
<1>6. OrderMoved(mid, book, D, buyId, bought)
  <2> HIDE DEF mid
  <2>1. QED
    BY <1>1, <1>4, BookMoved
<1> HIDE DEF mid
<1>7. mid \in BookImages(D) /\ SoundAmounts(mid) /\ sold.terms = mid[sellId].terms
  BY <1>2, <1>4, <1>6 DEF OrderMoved
<1>8. OrderMoved(after, mid, D, sellId, sold)
  BY <1>2, <1>4, <1>7, BookMoved
<1>9. after \in BookImages(D) /\ SoundAmounts(after)
  BY <1>8 DEF OrderMoved
<1>10. /\ \A x, y : ReservedBy(book, x, y) \in Nat
       /\ \A x : MarketNotional(book, x) \in Nat
       /\ \A x, o : WalletNotional(book, x, o) \in Nat
  BY BookSumTypes
<1> HIDE DEF a, c
<1>11. ASSUME NEW x \in Markets, NEW y \in Assets
       PROVE  ReservedBy(after, x, y) = ReservedBy(book, x, y)
            - (IF x = m /\ y = a THEN p ELSE 0) - (IF x = m /\ y = c THEN q ELSE 0)
  <2>1. bought.reserved - book[buyId].reserved = -p /\ sold.reserved - mid[sellId].reserved = -q
    BY <1>1, <1>2, <1>4, <1>5
  <2>2. ReservedBy(mid, x, y) = ReservedBy(book, x, y) + (IF x = m /\ y = a THEN -p ELSE 0)
    BY <1>6, <2>1 DEF OrderMoved, a
  <2>3. ReservedBy(after, x, y) = ReservedBy(mid, x, y) + (IF x = m /\ y = c THEN -q ELSE 0)
    <3>1. ReservedBy(after, x, y) = ReservedBy(mid, x, y)
            + (IF sellId.market = x /\ c = y THEN sold.reserved - mid[sellId].reserved ELSE 0)
      BY <1>8 DEF OrderMoved, c
    <3>2. QED
      BY <2>1, <3>1
  <2>4. ReservedBy(book, x, y) \in Nat
    BY <1>10
  <2>5. QED
    BY <2>2, <2>3, <2>4
<1>12. bought.notional - book[buyId].notional = -n /\ sold.notional - mid[sellId].notional = -k
  BY <1>1, <1>2, <1>4, <1>5
<1>13. ASSUME NEW x \in Markets
       PROVE  MarketNotional(after, x) = MarketNotional(book, x) - (IF x = m THEN n + k ELSE 0)
  <2>1. MarketNotional(mid, x) = MarketNotional(book, x) + (IF x = m THEN -n ELSE 0)
    BY <1>6, <1>12 DEF OrderMoved
  <2>2. MarketNotional(after, x) = MarketNotional(mid, x) + (IF x = m THEN -k ELSE 0)
    BY <1>8, <1>12 DEF OrderMoved
  <2>3. MarketNotional(book, x) \in Nat
    BY <1>10
  <2>4. QED
    BY <2>1, <2>2, <2>3
<1>14. ASSUME NEW x \in Markets, NEW o \in Owners
       PROVE  WalletNotional(after, x, o) = WalletNotional(book, x, o)
            - (IF x = m /\ o = buyId.owner THEN n ELSE 0)
            - (IF x = m /\ o = sellId.owner THEN k ELSE 0)
  <2>1. WalletNotional(mid, x, o) = WalletNotional(book, x, o)
          + (IF x = m /\ o = buyId.owner THEN -n ELSE 0)
    BY <1>6, <1>12 DEF OrderMoved
  <2>2. WalletNotional(after, x, o) = WalletNotional(mid, x, o)
          + (IF x = m /\ o = sellId.owner THEN -k ELSE 0)
    BY <1>8, <1>12 DEF OrderMoved
  <2>3. WalletNotional(book, x, o) \in Nat
    BY <1>10
  <2>4. QED
    BY <2>1, <2>2, <2>3
<1>15. QED
  BY <1>9, <1>11, <1>13, <1>14 DEF BooksShifted, a, c

----------------------------------------------------------------------------
(* The parts of a fill after it is recorded: what is returned to both      *)
(* owners, their exposure and what is delivered to each other.             *)

Refunds(b, m, buyId, sellId, a, p, c, q) ==
    Credit(Credit(b, m, buyId.owner, a, p), m, sellId.owner, c, q)
Lowered(b, m, buyId, sellId, n, k) ==
    Expose(Expose(b, m, buyId.owner, -n), m, sellId.owner, -k)
Deliveries(b, m, buyId, sellId, buy, sell, moves) ==
    Settle(Settle(b, m, Delivers(sell), sell.funding, sellId.owner, buy.recipient, buy.branch,
                  moves.amount, moves.buyerFee.amount),
           m, QUOTE, buy.funding, buyId.owner, sell.recipient, buy.branch, moves.fill.quote,
           moves.sellerFee.amount)

LEMMA DeliveredParts ==
    ASSUME NEW b, NEW m, NEW buyId, NEW sellId, NEW moves, NEW buy, NEW sell,
           buy = b.orders[buyId].terms, sell = b.orders[sellId].terms
    PROVE  Delivered(b, m, buyId, sellId, moves) =
             Deliveries(Lowered(Refunds(b, m, buyId, sellId, FundingAsset(buy),
                                        moves.fill.improvement, FundingAsset(sell),
                                        moves.surplus),
                                m, buyId, sellId, moves.fill.buyerReduction,
                                moves.fill.sellerReduction),
                        m, buyId, sellId, buy, sell, moves)
BY DEF Delivered, Refunds, Lowered, Deliveries

SameSides(D, b, r) == r \in Ledgers(D) /\ SideFields(b, r) /\ r.ok = b.ok

LEMMA RefundsEffect ==
    ASSUME NEW D, NEW b \in Ledgers(D), NEW m \in Markets, NEW buyId, NEW sellId,
           buyId.owner \in Owners, sellId.owner \in Owners, NEW a \in Assets, NEW c \in Assets,
           NEW p \in Int, NEW q \in Int,
           a \notin ClaimAssets => MintOf(m, CollateralOf(a)) \in Mints,
           c \notin ClaimAssets => MintOf(m, CollateralOf(c)) \in Mints
    PROVE  SameSides(D, b, Refunds(b, m, buyId, sellId, a, p, c, q))
<1> DEFINE s == Credit(b, m, buyId.owner, a, p)
           r == Credit(s, m, sellId.owner, c, q)
<1>1. s \in Ledgers(D) /\ Credited(b, m, buyId.owner, a, p, s)
  BY CreditEffect
<1> HIDE DEF s
<1>2. r \in Ledgers(D) /\ Credited(s, m, sellId.owner, c, q, r)
  BY <1>1, CreditEffect
<1>3. r = Refunds(b, m, buyId, sellId, a, p, c, q)
  BY DEF Refunds, s
<1> HIDE DEF r
<1>4. SideFields(b, r) /\ r.ok = b.ok
  BY <1>1, <1>2 DEF Credited, SideFields
<1>5. QED
  BY <1>2, <1>3, <1>4 DEF SameSides

(* A credit can be returned: its frame was lent, or there is nothing.      *)
Framed(F, a, o, n) ==
    n \in Nat /\ (a \notin ClaimAssets => o \in F[CollateralOf(a)] \/ n = 0)

Refunded(D, b, r, F, m, a, p, c, q) ==
    /\ Images(D, m, F, r)
    /\ \A x \in SettledAssets(m) :
         Holding(r, F, m, x) = Holding(b, F, m, x)
           + (IF x = a THEN p ELSE 0) + (IF x = c THEN q ELSE 0)
    /\ r.minted = b.minted

LEMMA RefundsSettled ==
    ASSUME LedgersInv, NEW D, NEW m \in Markets, NEW F \in Lenders, NEW b, Images(D, m, F, b),
           NEW buyId, NEW sellId, buyId.owner \in Owners, sellId.owner \in Owners,
           NEW a \in SettledAssets(m), NEW c \in SettledAssets(m), NEW p, NEW q,
           Framed(F, a, buyId.owner, p), Framed(F, c, sellId.owner, q)
    PROVE  Refunded(D, b, Refunds(b, m, buyId, sellId, a, p, c, q), F, m, a, p, c, q)
<1>1. /\ p \in Nat /\ q \in Nat
      /\ a \notin ClaimAssets => buyId.owner \in F[CollateralOf(a)] \/ p = 0
      /\ c \notin ClaimAssets => sellId.owner \in F[CollateralOf(c)] \/ q = 0
  BY DEF Framed
<1> DEFINE s == Credit(b, m, buyId.owner, a, p)
           r == Credit(s, m, sellId.owner, c, q)
<1>2. Creditable(b, F, m, buyId.owner, a, p)
  BY <1>1, SettledMints DEF Creditable, Images, Naturals
<1>3. Images(D, m, F, s) /\ Credited(b, m, buyId.owner, a, p, s) /\ Shifted(b, s, F, m, a, p)
  <2>1. p \in Int
    BY <1>1
  <2>2. QED
    BY <1>2, <2>1, CreditSettled
<1> HIDE DEF s
<1>4. Creditable(s, F, m, sellId.owner, c, q)
  BY <1>1, <1>3, SettledMints DEF Creditable, Images, Naturals
<1>5. Images(D, m, F, r) /\ Credited(s, m, sellId.owner, c, q, r) /\ Shifted(s, r, F, m, c, q)
  <2>1. q \in Int
    BY <1>1
  <2>2. QED
    BY <1>3, <1>4, <2>1, CreditSettled
<1>6. r = Refunds(b, m, buyId, sellId, a, p, c, q)
  BY DEF Refunds, s
<1> HIDE DEF r
<1>7. ASSUME NEW x \in SettledAssets(m)
      PROVE  Holding(r, F, m, x) = Holding(b, F, m, x)
               + (IF x = a THEN p ELSE 0) + (IF x = c THEN q ELSE 0)
  BY <1>3, <1>5 DEF Shifted
<1>8. r.minted = b.minted
  BY <1>3, <1>5 DEF Credited
<1>9. QED
  BY <1>5, <1>6, <1>7, <1>8 DEF Refunded

(* The exposure of the market and of both owners. *)
ExposureLowered(b, m, buyId, sellId, n, k, r) ==
    /\ r.orders = b.orders /\ r.escrow = b.escrow /\ r.minted = b.minted /\ r.ok = b.ok
    /\ \A x \in Markets : r.exposure[x] = b.exposure[x] - (IF x = m THEN n + k ELSE 0)
    /\ \A x \in Markets, o \in Owners :
         r.held[<<x, o>>] = b.held[<<x, o>>]
           - (IF x = m /\ o = buyId.owner THEN n ELSE 0)
           - (IF x = m /\ o = sellId.owner THEN k ELSE 0)

LEMMA LoweredEffect ==
    ASSUME NEW D, NEW b \in Ledgers(D), NEW m \in Markets, NEW buyId, NEW sellId,
           buyId.owner \in Owners, sellId.owner \in Owners, NEW n \in Int, NEW k \in Int
    PROVE  /\ Lowered(b, m, buyId, sellId, n, k) \in Ledgers(D)
           /\ ExposureLowered(b, m, buyId, sellId, n, k, Lowered(b, m, buyId, sellId, n, k))
<1> DEFINE s == Expose(b, m, buyId.owner, -n)
           r == Expose(s, m, sellId.owner, -k)
<1>1. -n \in Int /\ -k \in Int
  OBVIOUS
<1>2. s \in Ledgers(D) /\ Exposed(b, m, buyId.owner, -n, s)
  BY <1>1, ExposeEffect
<1> HIDE DEF s
<1>3. r \in Ledgers(D) /\ Exposed(s, m, sellId.owner, -k, r)
  BY <1>1, <1>2, ExposeEffect
<1>4. r = Lowered(b, m, buyId, sellId, n, k)
  BY DEF Lowered, s
<1> HIDE DEF r
<1>5. r.orders = b.orders /\ r.escrow = b.escrow /\ r.minted = b.minted /\ r.ok = b.ok
  BY <1>2, <1>3 DEF Exposed
<1>6. b.exposure \in [Markets -> Int] /\ b.held \in [Markets \X Owners -> Int]
  BY DEF Ledgers, ExposureImages, HeldImages
<1>7. /\ s.exposure = [b.exposure EXCEPT ![m] = b.exposure[m] + (-n)]
      /\ s.held = [b.held EXCEPT ![<<m, buyId.owner>>] = b.held[<<m, buyId.owner>>] + (-n)]
      /\ r.exposure = [s.exposure EXCEPT ![m] = s.exposure[m] + (-k)]
      /\ r.held = [s.held EXCEPT ![<<m, sellId.owner>>] = s.held[<<m, sellId.owner>>] + (-k)]
  BY <1>2, <1>3 DEF Exposed
<1>8. ASSUME NEW x \in Markets
      PROVE  r.exposure[x] = b.exposure[x] - (IF x = m THEN n + k ELSE 0)
  BY <1>6, <1>7
<1>9. ASSUME NEW x \in Markets, NEW o \in Owners
      PROVE  r.held[<<x, o>>] = b.held[<<x, o>>]
               - (IF x = m /\ o = buyId.owner THEN n ELSE 0)
               - (IF x = m /\ o = sellId.owner THEN k ELSE 0)
  <2>1. s.held \in [Markets \X Owners -> Int]
    BY <1>6, <1>7
  <2>2. s.held[<<x, o>>] = b.held[<<x, o>>] - (IF x = m /\ o = buyId.owner THEN n ELSE 0)
    BY <1>6, <1>7
  <2>3. r.held[<<x, o>>] = s.held[<<x, o>>] - (IF x = m /\ o = sellId.owner THEN k ELSE 0)
    BY <1>7, <2>1
  <2>4. QED
    BY <2>2, <2>3
<1>10. QED
  BY <1>3, <1>4, <1>5, <1>8, <1>9 DEF ExposureLowered

(* Neither a balance nor a holding moved. *)
SameHoldings(D, b, r, F, m) ==
    /\ Images(D, m, F, r)
    /\ \A x \in SettledAssets(m) : Holding(r, F, m, x) = Holding(b, F, m, x)

LEMMA LoweredSettled ==
    ASSUME LedgersInv, NEW D, NEW m \in Markets, NEW F \in Lenders, NEW b, Images(D, m, F, b),
           NEW buyId, NEW sellId, buyId.owner \in Owners, sellId.owner \in Owners,
           NEW n \in Int, NEW k \in Int
    PROVE  SameHoldings(D, b, Lowered(b, m, buyId, sellId, n, k), F, m)
<1> DEFINE s == Expose(b, m, buyId.owner, -n)
           r == Expose(s, m, sellId.owner, -k)
<1>1. -n \in Int /\ -k \in Int
  OBVIOUS
<1>2. Images(D, m, F, s) /\ \A x \in SettledAssets(m) : Holding(s, F, m, x) = Holding(b, F, m, x)
  BY <1>1, ExposeSettled
<1> HIDE DEF s
<1>3. Images(D, m, F, r) /\ \A x \in SettledAssets(m) : Holding(r, F, m, x) = Holding(s, F, m, x)
  BY <1>1, <1>2, ExposeSettled
<1>4. r = Lowered(b, m, buyId, sellId, n, k)
  BY DEF Lowered, s
<1> HIDE DEF r
<1>5. QED
  BY <1>2, <1>3, <1>4 DEF SameHoldings

LEMMA DeliveriesEffect ==
    ASSUME NEW D, NEW b \in Ledgers(D), NEW m \in Markets, NEW buyId, NEW sellId,
           buyId.owner \in Owners, sellId.owner \in Owners, NEW buy, NEW sell,
           Delivers(sell) \in Collaterals, buy.recipient \in Owners, sell.recipient \in Owners,
           buy.branch \in {0, 1}, NEW moves, MovesTypes(moves)
    PROVE  /\ Deliveries(b, m, buyId, sellId, buy, sell, moves) \in Ledgers(D)
           /\ SideFields(b, Deliveries(b, m, buyId, sellId, buy, sell, moves))
           /\ Deliveries(b, m, buyId, sellId, buy, sell, moves).ok =
                (b.ok /\ moves.buyerFee.amount <= moves.amount
                      /\ moves.sellerFee.amount <= moves.fill.quote)
<1> DEFINE c == Delivers(sell)
           lent == sell.funding
           paid == buy.funding
           seller == sellId.owner
           buyer == buyId.owner
           bidder == buy.recipient
           asker == sell.recipient
           branch == buy.branch
           amount == moves.amount
           quote == moves.fill.quote
           fee == moves.buyerFee.amount
           charge == moves.sellerFee.amount
           s == Settle(b, m, c, lent, seller, bidder, branch, amount, fee)
           r == Settle(s, m, QUOTE, paid, buyer, asker, branch, quote, charge)
<1>1. /\ amount \in Int /\ fee \in Int /\ quote \in Int /\ charge \in Int
      /\ c \in Collaterals /\ QUOTE \in Collaterals /\ branch \in {0, 1}
      /\ seller \in Owners /\ buyer \in Owners /\ bidder \in Owners /\ asker \in Owners
  BY CollateralRange DEF MovesTypes, FillTypes
<1>2. r = Deliveries(b, m, buyId, sellId, buy, sell, moves)
  BY DEF Deliveries
<1> HIDE DEF c, lent, paid, seller, buyer, bidder, asker, branch, amount, quote, fee, charge
<1>3. SettleFields(D, b, amount, fee, s)
  BY <1>1, SettleEffect
<1> HIDE DEF s
<1>4. s \in Ledgers(D)
  BY <1>3 DEF SettleFields
<1>5. SettleFields(D, s, quote, charge, r)
  BY <1>1, <1>4, SettleEffect
<1> HIDE DEF r
<1>6. SideFields(b, r)
  BY <1>3, <1>5 DEF SideFields, SettleFields
<1>7. r \in Ledgers(D) /\ r.ok = (b.ok /\ fee <= amount /\ charge <= quote)
  BY <1>3, <1>5 DEF SettleFields
<1>8. QED
  BY <1>2, <1>6, <1>7 DEF amount, quote, fee, charge

(* What both deliveries of a fill add to the holdings and the claims.      *)
BothSides(b, r, F, m, buy, sell, amount, quote) ==
    /\ \A x \in SettledAssets(m) :
         Holding(r, F, m, x) = Holding(b, F, m, x)
           + SettledGain(Delivers(sell), sell.funding, buy.branch, amount, x)
           + SettledGain(QUOTE, buy.funding, buy.branch, quote, x)
    /\ \A d \in Collaterals :
         r.minted[d] = b.minted[d]
           + (IF sell.funding = UNDERLYING /\ d = Delivers(sell) THEN amount ELSE 0)
           + (IF buy.funding = UNDERLYING /\ d = QUOTE THEN quote ELSE 0)

LEMMA DeliveriesSettled ==
    ASSUME LedgersInv, NEW D, NEW m \in Markets, NEW F \in Lenders, NEW b, Images(D, m, F, b),
           NEW buyId, NEW sellId,
           buyId.owner \in Owners, sellId.owner \in Owners, NEW buy, NEW sell,
           Delivers(sell) \in Collaterals, buy.recipient \in Owners, sell.recipient \in Owners,
           buy.branch \in {0, 1}, Listed(m, Delivers(sell)), Listed(m, QUOTE), NEW moves,
           Deductible(moves.buyerFee.amount, moves.amount),
           Deductible(moves.sellerFee.amount, moves.fill.quote)
    PROVE  /\ Images(D, m, F, Deliveries(b, m, buyId, sellId, buy, sell, moves))
           /\ BothSides(b, Deliveries(b, m, buyId, sellId, buy, sell, moves), F, m, buy, sell,
                        moves.amount, moves.fill.quote)
<1> DEFINE c == Delivers(sell)
           lent == sell.funding
           paid == buy.funding
           seller == sellId.owner
           buyer == buyId.owner
           bidder == buy.recipient
           asker == sell.recipient
           branch == buy.branch
           amount == moves.amount
           quote == moves.fill.quote
           fee == moves.buyerFee.amount
           charge == moves.sellerFee.amount
           s == Settle(b, m, c, lent, seller, bidder, branch, amount, fee)
           r == Settle(s, m, QUOTE, paid, buyer, asker, branch, quote, charge)
<1>1. /\ Deductible(fee, amount) /\ Deductible(charge, quote) /\ Listed(m, c)
      /\ c \in Collaterals /\ QUOTE \in Collaterals /\ branch \in {0, 1}
      /\ seller \in Owners /\ buyer \in Owners /\ bidder \in Owners /\ asker \in Owners
  BY CollateralRange
<1>2. r = Deliveries(b, m, buyId, sellId, buy, sell, moves)
  BY DEF Deliveries
<1> HIDE DEF c, lent, paid, seller, buyer, bidder, asker, branch, amount, quote, fee, charge
<1>3. SettledSide(D, b, s, F, m, c, lent, branch, amount)
  BY <1>1, SettleSettled
<1> HIDE DEF s
<1>4. Images(D, m, F, s)
  BY <1>3 DEF SettledSide
<1>5. SettledSide(D, s, r, F, m, QUOTE, paid, branch, quote)
  <2>1. Listed(m, QUOTE) /\ QUOTE \in Collaterals /\ Deductible(charge, quote)
    BY <1>1
  <2>2. branch \in {0, 1} /\ buyer \in Owners /\ asker \in Owners
    BY <1>1
  <2>3. QED
    BY <1>4, <2>1, <2>2, SettleSettled
<1> HIDE DEF r
<1>6. BothSides(b, r, F, m, buy, sell, amount, quote)
  BY <1>3, <1>5 DEF SettledSide, BothSides, c, lent, paid, branch
<1>7. QED
  BY <1>5, <1>2, <1>6 DEF amount, quote, SettledSide

(* A side's delivery is what its reservation gave up: complete sets for    *)
(* the underlying, or the claims themselves.                               *)
LEMMA SideBalanced ==
    ASSUME NEW order \in OrderImages, NEW c \in Collaterals, Delivers(order.terms) = c,
           NEW amount \in Int, NEW x \in Assets
    PROVE  SettledGain(c, order.terms.funding, order.terms.branch, amount, x) =
             (IF x = FundingAsset(order.terms) THEN amount ELSE 0)
               + (IF x \in ClaimAssets /\ order.terms.funding = UNDERLYING /\ CollateralOf(x) = c
                  THEN amount ELSE 0)
<1>1. /\ CollateralOf(FundingAsset(order.terms)) = c
      /\ order.terms.funding = UNDERLYING =>
           FundingAsset(order.terms) = Underlying(c) /\ FundingAsset(order.terms) \notin ClaimAssets
      /\ order.terms.funding # UNDERLYING =>
           FundingAsset(order.terms) = Claim(c, order.terms.branch)
  BY Funding
<1>2. x \notin ClaimAssets => x = Underlying(CollateralOf(x))
  BY AssetKinds
<1>3. order.terms.branch \in {0, 1}
  BY OrderTypes
<1>4. CollateralOf(Claim(c, order.terms.branch)) = c /\ Claim(c, order.terms.branch) \in ClaimAssets
  BY <1>3, AssetsOfCollateral
<1>5. CASE order.terms.funding = UNDERLYING
  BY <1>1, <1>2, <1>4, <1>5 DEF SettledGain
<1>6. CASE order.terms.funding # UNDERLYING
  BY <1>1, <1>6 DEF SettledGain
<1>7. QED
  BY <1>5, <1>6

----------------------------------------------------------------------------
(* A whole fill.                                                           *)

TradeStep(D, m, b, r, buyId, sellId, quantity, takerBuys, moves) ==
    LET buy  == b.orders[buyId]
        sell == b.orders[sellId]
    IN  /\ r \in Ledgers(D)
        /\ r.orders = [b.orders EXCEPT ![buyId] = Bought(buy, quantity, moves),
                                       ![sellId] = Sold(sell, quantity, moves)]
        /\ r.escrow = [b.escrow EXCEPT
             ![<<m, FundingAsset(buy.terms)>>] =
                b.escrow[<<m, FundingAsset(buy.terms)>>] - moves.fill.buyerReduction,
             ![<<m, FundingAsset(sell.terms)>>] =
                b.escrow[<<m, FundingAsset(sell.terms)>>] - (moves.amount + moves.surplus)]
        /\ \A x \in Markets :
             r.exposure[x] = b.exposure[x]
               - (IF x = m THEN moves.fill.buyerReduction + moves.fill.sellerReduction ELSE 0)
        /\ \A x \in Markets, o \in Owners :
             r.held[<<x, o>>] = b.held[<<x, o>>]
               - (IF x = m /\ o = buyId.owner THEN moves.fill.buyerReduction ELSE 0)
               - (IF x = m /\ o = sellId.owner THEN moves.fill.sellerReduction ELSE 0)
        /\ r.ok => /\ b.ok /\ FillAccepted(m, buy, sell, quantity, takerBuys, moves)
                   /\ moves.buyerFee.amount <= moves.amount
                   /\ moves.sellerFee.amount <= moves.fill.quote

(* The images between the parts of a fill. *)
TradeStages(b, m, buyId, sellId, quantity, takerBuys, moves, s, t, u, r) ==
    LET buy  == b.orders[buyId].terms
        sell == b.orders[sellId].terms
    IN  /\ s = Recorded(b, m, buyId, sellId, quantity, takerBuys, moves)
        /\ t = Refunds(s, m, buyId, sellId, FundingAsset(buy), moves.fill.improvement,
                       FundingAsset(sell), moves.surplus)
        /\ u = Lowered(t, m, buyId, sellId, moves.fill.buyerReduction, moves.fill.sellerReduction)
        /\ r = Deliveries(u, m, buyId, sellId, buy, sell, moves)

LEMMA TradeParts ==
    ASSUME LedgersInv, NEW D, NEW b \in Ledgers(D), NEW m \in Markets,
           NEW buyId \in D, NEW sellId \in D, buyId # sellId,
           Opposite(m, b.orders[buyId], b.orders[sellId]),
           NEW quantity \in Int, NEW takerBuys, NEW moves, MovesTypes(moves)
    PROVE  \E s, t, u : TradeStages(b, m, buyId, sellId, quantity, takerBuys, moves, s, t, u,
                                    Trade(b, m, buyId, sellId, quantity, takerBuys, moves))
<1> DEFINE s == Recorded(b, m, buyId, sellId, quantity, takerBuys, moves)
           buy == b.orders[buyId]
           sell == b.orders[sellId]
           bought == Bought(buy, quantity, moves)
           sold == Sold(sell, quantity, moves)
           t == Refunds(s, m, buyId, sellId, FundingAsset(buy.terms), moves.fill.improvement,
                        FundingAsset(sell.terms), moves.surplus)
           u == Lowered(t, m, buyId, sellId, moves.fill.buyerReduction,
                        moves.fill.sellerReduction)
           r == Deliveries(u, m, buyId, sellId, buy.terms, sell.terms, moves)
<1>1. s.orders = [b.orders EXCEPT ![buyId] = bought, ![sellId] = sold]
  <2> DEFINE a == FundingAsset(buy.terms)
             c == FundingAsset(sell.terms)
             p == moves.fill.buyerReduction
             q == moves.amount + moves.surplus
             ok == FillAccepted(m, buy, sell, quantity, takerBuys, moves)
  <2>1. RecordedPair(b, m, buyId, sellId, bought, sold, a, p, c, q, ok, s)
    BY RecordedEffect
  <2> HIDE DEF a, c, p, q, ok, s, bought, sold
  <2>2. QED
    BY <2>1 DEF RecordedPair
<1>2. b.orders \in [D -> OrderImages]
  BY DEF Ledgers, BookImages
<1>3. bought.terms = buy.terms /\ sold.terms = sell.terms
  <2>1. buy \in OrderImages /\ sell \in OrderImages
    BY <1>2
  <2> HIDE DEF buy, sell
  <2>2. QED
    BY <2>1, BoughtEffect, SoldEffect DEF SameOrder
<1>4. s.orders[buyId].terms = buy.terms /\ s.orders[sellId].terms = sell.terms
  <2> HIDE DEF s, bought, sold, buy, sell
  <2>1. QED
    BY <1>1, <1>2, <1>3
<1>5. Delivered(s, m, buyId, sellId, moves) = r
  <2> HIDE DEF s, buy, sell
  <2>1. QED
    BY <1>4, DeliveredParts
<1>6. r = Trade(b, m, buyId, sellId, quantity, takerBuys, moves)
  BY <1>5 DEF Trade
<1>7. TradeStages(b, m, buyId, sellId, quantity, takerBuys, moves, s, t, u, r)
  BY DEF TradeStages
<1>8. QED
  BY <1>6, <1>7

(* The mints of what both orders are funded with. *)
LEMMA OppositeMints ==
    ASSUME LedgersInv, NEW m \in Markets, NEW buy, NEW sell, Opposite(m, buy, sell)
    PROVE  /\ FundingAsset(buy.terms) \notin ClaimAssets =>
                MintOf(m, CollateralOf(FundingAsset(buy.terms))) \in Mints
           /\ FundingAsset(sell.terms) \notin ClaimAssets =>
                MintOf(m, CollateralOf(FundingAsset(sell.terms))) \in Mints
<1>1. FundingAsset(buy.terms) \in SettledAssets(m) /\ FundingAsset(sell.terms) \in SettledAssets(m)
  BY OppositeAssets
<1>2. QED
  BY <1>1, SettledMints

LEMMA TradeEffect ==
    ASSUME LedgersInv, NEW D, NEW b \in Ledgers(D), NEW m \in Markets,
           NEW buyId \in D, NEW sellId \in D, buyId # sellId,
           buyId.owner \in Owners, sellId.owner \in Owners,
           Opposite(m, b.orders[buyId], b.orders[sellId]),
           NEW quantity \in Int, NEW takerBuys, NEW moves, MovesTypes(moves),
           NEW s, NEW t, NEW u, NEW r,
           TradeStages(b, m, buyId, sellId, quantity, takerBuys, moves, s, t, u, r)
    PROVE  TradeStep(D, m, b, r, buyId, sellId, quantity, takerBuys, moves)
<1> DEFINE buy == b.orders[buyId]
           sell == b.orders[sellId]
           bought == Bought(buy, quantity, moves)
           sold == Sold(sell, quantity, moves)
           a == FundingAsset(buy.terms)
           c == FundingAsset(sell.terms)
           p == moves.fill.buyerReduction
           q == moves.amount + moves.surplus
           n == moves.fill.improvement
           k == moves.surplus
           v == moves.fill.sellerReduction
           bid == buy.terms
           ask == sell.terms
           ok == FillAccepted(m, buy, sell, quantity, takerBuys, moves)
<1>1. /\ s = Recorded(b, m, buyId, sellId, quantity, takerBuys, moves)
      /\ t = Refunds(s, m, buyId, sellId, a, n, c, k)
      /\ u = Lowered(t, m, buyId, sellId, p, v)
      /\ r = Deliveries(u, m, buyId, sellId, bid, ask, moves)
  BY DEF TradeStages
<1>2. s \in Ledgers(D) /\ RecordedPair(b, m, buyId, sellId, bought, sold, a, p, c, q, ok, s)
  BY <1>1, RecordedEffect
<1>3. /\ a \in Assets /\ c \in Assets
      /\ a \notin ClaimAssets => MintOf(m, CollateralOf(a)) \in Mints
      /\ c \notin ClaimAssets => MintOf(m, CollateralOf(c)) \in Mints
  BY OppositeAssets, OppositeMints
<1>4. p \in Int /\ q \in Int /\ n \in Int /\ k \in Int /\ v \in Int
  BY DEF MovesTypes, FillTypes
<1>5. /\ bid.recipient \in Owners /\ ask.recipient \in Owners /\ bid.branch \in {0, 1}
      /\ Delivers(ask) \in Collaterals
  <2>1. buy \in OrderImages /\ sell \in OrderImages /\ Delivers(ask) \in Collaterals
    BY DEF Opposite
  <2> HIDE DEF buy, sell
  <2>2. QED
    BY <2>1, OrderTypes
<1> HIDE DEF a, c, p, q, n, k, v, bid, ask, ok, bought, sold
<1>6. SameSides(D, s, t)
  BY <1>1, <1>2, <1>3, <1>4, RefundsEffect
<1>7. t \in Ledgers(D) /\ SideFields(s, t) /\ t.ok = s.ok
  BY <1>6 DEF SameSides
<1>8. u \in Ledgers(D) /\ ExposureLowered(t, m, buyId, sellId, p, v, u)
  BY <1>1, <1>4, <1>7, LoweredEffect
<1>9. /\ r \in Ledgers(D) /\ SideFields(u, r)
      /\ r.ok = (u.ok /\ moves.buyerFee.amount <= moves.amount
                      /\ moves.sellerFee.amount <= moves.fill.quote)
  BY <1>1, <1>5, <1>8, DeliveriesEffect
<1>10. /\ r.orders = [b.orders EXCEPT ![buyId] = bought, ![sellId] = sold]
       /\ r.escrow = [b.escrow EXCEPT ![<<m, a>>] = b.escrow[<<m, a>>] - p,
                                      ![<<m, c>>] = b.escrow[<<m, c>>] - q]
  BY <1>2, <1>7, <1>8, <1>9 DEF RecordedPair, SideFields, ExposureLowered
<1>11. /\ \A x \in Markets : r.exposure[x] = b.exposure[x] - (IF x = m THEN p + v ELSE 0)
       /\ \A x \in Markets, o \in Owners :
            r.held[<<x, o>>] = b.held[<<x, o>>]
              - (IF x = m /\ o = buyId.owner THEN p ELSE 0)
              - (IF x = m /\ o = sellId.owner THEN v ELSE 0)
  BY <1>2, <1>7, <1>8, <1>9 DEF RecordedPair, SideFields, ExposureLowered
<1>12. r.ok => /\ b.ok /\ ok /\ moves.buyerFee.amount <= moves.amount
               /\ moves.sellerFee.amount <= moves.fill.quote
  BY <1>2, <1>7, <1>8, <1>9 DEF RecordedPair, ExposureLowered
<1>13. QED
  BY <1>9, <1>10, <1>11, <1>12 DEF TradeStep, a, c, p, q, v, ok, bought, sold

(* The market's holding of an asset, without the claims minted so far.     *)
NetHolding(b, F, m, a) ==
    Holding(b, F, m, a) - (IF a \in ClaimAssets THEN b.minted[CollateralOf(a)] ELSE 0)

(* Whoever gets something back was lent for it, or gets nothing.           *)
Returnable(F, buy, sell, buyId, sellId, moves) ==
    /\ buy.terms.funding = UNDERLYING =>
         buyId.owner \in F[QUOTE] \/ moves.fill.improvement = 0
    /\ sell.terms.funding = UNDERLYING =>
         sellId.owner \in F[Delivers(sell.terms)] \/ moves.surplus = 0

LEMMA TradeSettled ==
    ASSUME LedgersInv, NEW D, NEW m \in Markets, NEW F \in Lenders, NEW b, Images(D, m, F, b),
           NEW buyId \in D, NEW sellId \in D, buyId # sellId,
           buyId.owner \in Owners, sellId.owner \in Owners,
           Opposite(m, b.orders[buyId], b.orders[sellId]),
           NEW quantity \in Int, NEW takerBuys, NEW moves, MovesTypes(moves),
           MovesSound(moves, quantity, b.orders[buyId], b.orders[sellId]),
           Returnable(F, b.orders[buyId], b.orders[sellId], buyId, sellId, moves),
           moves.buyerFee.amount <= moves.amount, moves.sellerFee.amount <= moves.fill.quote,
           NEW s, NEW t, NEW u, NEW r,
           TradeStages(b, m, buyId, sellId, quantity, takerBuys, moves, s, t, u, r)
    PROVE  /\ Images(D, m, F, r)
           /\ \A x \in SettledAssets(m) : NetHolding(r, F, m, x) = NetHolding(b, F, m, x)
<1> DEFINE buy == b.orders[buyId]
           sell == b.orders[sellId]
           bought == Bought(buy, quantity, moves)
           sold == Sold(sell, quantity, moves)
           a == FundingAsset(buy.terms)
           c == FundingAsset(sell.terms)
           p == moves.fill.buyerReduction
           q == moves.amount + moves.surplus
           n == moves.fill.improvement
           k == moves.surplus
           v == moves.fill.sellerReduction
           bid == buy.terms
           ask == sell.terms
           amount == moves.amount
           quote == moves.fill.quote
           leg == Delivers(ask)
           ok == FillAccepted(m, buy, sell, quantity, takerBuys, moves)
<1>1. b \in Ledgers(D)
  BY DEF Images
<1>2. /\ s = Recorded(b, m, buyId, sellId, quantity, takerBuys, moves)
      /\ t = Refunds(s, m, buyId, sellId, a, n, c, k)
      /\ u = Lowered(t, m, buyId, sellId, p, v)
      /\ r = Deliveries(u, m, buyId, sellId, bid, ask, moves)
  BY DEF TradeStages
<1>3. s \in Ledgers(D) /\ RecordedPair(b, m, buyId, sellId, bought, sold, a, p, c, q, ok, s)
  BY <1>1, <1>2, RecordedEffect
<1>4. /\ a \in SettledAssets(m) /\ c \in SettledAssets(m) /\ a # c
      /\ CollateralOf(a) = QUOTE /\ CollateralOf(c) = leg
      /\ buy \in OrderImages /\ sell \in OrderImages /\ Delivers(bid) = QUOTE
      /\ leg \in Collaterals /\ QUOTE \in Collaterals /\ leg # QUOTE
      /\ Listed(m, leg) /\ Listed(m, QUOTE) /\ ask.branch = bid.branch
  BY OppositeAssets, CollateralRange DEF Opposite
<1>5. /\ p \in Int /\ q \in Int /\ n \in Nat /\ k \in Nat /\ v \in Int
      /\ amount \in Nat /\ quote \in Nat /\ p = quote + n /\ q = amount + k
      /\ Deductible(moves.buyerFee.amount, amount)
      /\ Deductible(moves.sellerFee.amount, quote)
  <2>1. amount \in 1 .. sell.reserved /\ k = IF quantity = sell.remaining
                                             THEN sell.reserved - amount ELSE 0
    BY DEF MovesSound
  <2>2. sell.reserved \in Int
    BY <1>4, OrderTypes
  <2>3. amount \in Nat /\ k \in Nat
    BY <2>1, <2>2
  <2>4. moves.buyerFee.amount \in Nat /\ moves.sellerFee.amount \in Nat
    BY DEF MovesTypes, MovesSound
  <2>5. quote \in Nat /\ n \in Nat /\ v \in Nat /\ p = quote + n
    BY DEF MovesSound, FillSound
  <2>6. QED
    BY <2>3, <2>4, <2>5 DEF Deductible
<1>6. /\ bid.recipient \in Owners /\ ask.recipient \in Owners /\ bid.branch \in {0, 1}
  <2> HIDE DEF buy, sell
  <2>1. QED
    BY <1>4, OrderTypes
<1>7. Framed(F, a, buyId.owner, n) /\ Framed(F, c, sellId.owner, k)
  <2>1. /\ a \notin ClaimAssets => buy.terms.funding = UNDERLYING
        /\ c \notin ClaimAssets => sell.terms.funding = UNDERLYING
    <3> HIDE DEF buy, sell
    <3>1. QED
      BY <1>4, Funding
  <2>2. QED
    BY <1>4, <1>5, <2>1 DEF Returnable, Framed
<1>8. \A x \in SettledAssets(m) :
        /\ SettledGain(leg, ask.funding, bid.branch, amount, x) =
             (IF x = c THEN amount ELSE 0)
               + (IF x \in ClaimAssets /\ ask.funding = UNDERLYING /\ CollateralOf(x) = leg
                  THEN amount ELSE 0)
        /\ SettledGain(QUOTE, bid.funding, bid.branch, quote, x) =
             (IF x = a THEN quote ELSE 0)
               + (IF x \in ClaimAssets /\ bid.funding = UNDERLYING /\ CollateralOf(x) = QUOTE
                  THEN quote ELSE 0)
  <2> SUFFICES ASSUME NEW x \in SettledAssets(m)
      PROVE  /\ SettledGain(leg, ask.funding, bid.branch, amount, x) =
                  (IF x = c THEN amount ELSE 0)
                    + (IF x \in ClaimAssets /\ ask.funding = UNDERLYING /\ CollateralOf(x) = leg
                       THEN amount ELSE 0)
             /\ SettledGain(QUOTE, bid.funding, bid.branch, quote, x) =
                  (IF x = a THEN quote ELSE 0)
                    + (IF x \in ClaimAssets /\ bid.funding = UNDERLYING /\ CollateralOf(x) = QUOTE
                       THEN quote ELSE 0)
    OBVIOUS
  <2>1. x \in Assets /\ amount \in Int /\ quote \in Int
    BY <1>5 DEF SettledAssets
  <2> HIDE DEF buy, sell, leg, amount, quote
  <2>2. Delivers(sell.terms) = leg
    BY DEF leg
  <2>3. SettledGain(leg, sell.terms.funding, sell.terms.branch, amount, x) =
             (IF x = FundingAsset(sell.terms) THEN amount ELSE 0)
               + (IF x \in ClaimAssets /\ sell.terms.funding = UNDERLYING /\ CollateralOf(x) = leg
                  THEN amount ELSE 0)
    BY <1>4, <2>1, <2>2, SideBalanced
  <2>4. SettledGain(QUOTE, buy.terms.funding, buy.terms.branch, quote, x) =
             (IF x = FundingAsset(buy.terms) THEN quote ELSE 0)
               + (IF x \in ClaimAssets /\ buy.terms.funding = UNDERLYING /\ CollateralOf(x) = QUOTE
                  THEN quote ELSE 0)
    BY <1>4, <2>1, SideBalanced
  <2>5. QED
    BY <1>4, <2>3, <2>4
<1>9. leg = Delivers(ask) /\ amount = moves.amount /\ quote = moves.fill.quote
  OBVIOUS
<1> HIDE DEF a, c, p, q, n, k, v, bid, ask, ok, bought, sold, amount, quote, leg
<1>10. /\ Images(D, m, F, s)
       /\ \A x \in SettledAssets(m) :
            Holding(s, F, m, x) = Holding(b, F, m, x)
              - (IF x = a THEN p ELSE 0) - (IF x = c THEN q ELSE 0)
  BY <1>3, <1>4, <1>5, RecordedSettled
<1>11. s.minted = b.minted
  BY <1>3 DEF RecordedPair
<1>12. Refunded(D, s, t, F, m, a, n, c, k)
  BY <1>2, <1>4, <1>7, <1>10, RefundsSettled
<1>13. /\ Images(D, m, F, t)
       /\ \A x \in SettledAssets(m) :
            Holding(t, F, m, x) = Holding(s, F, m, x)
              + (IF x = a THEN n ELSE 0) + (IF x = c THEN k ELSE 0)
       /\ t.minted = s.minted
  BY <1>12 DEF Refunded
<1>14. SameHoldings(D, t, u, F, m)
  BY <1>2, <1>5, <1>13, LoweredSettled
<1>15. /\ Images(D, m, F, u)
       /\ \A x \in SettledAssets(m) : Holding(u, F, m, x) = Holding(t, F, m, x)
  BY <1>14 DEF SameHoldings
<1>16. u.minted = t.minted
  <2>1. t \in Ledgers(D)
    BY <1>13 DEF Images
  <2>2. ExposureLowered(t, m, buyId, sellId, p, v, u)
    BY <1>2, <1>5, <2>1, LoweredEffect
  <2>3. QED
    BY <2>2 DEF ExposureLowered
<1>17. Images(D, m, F, r) /\ BothSides(u, r, F, m, bid, ask, amount, quote)
  BY <1>2, <1>4, <1>5, <1>6, <1>9, <1>15, DeliveriesSettled
<1>18. ASSUME NEW x \in SettledAssets(m)
       PROVE  NetHolding(r, F, m, x) = NetHolding(b, F, m, x)
  <2> DEFINE d == CollateralOf(x)
             first == IF ask.funding = UNDERLYING /\ d = leg THEN amount ELSE 0
             second == IF bid.funding = UNDERLYING /\ d = QUOTE THEN quote ELSE 0
  <2>1. d \in Collaterals
    BY AssetKinds DEF SettledAssets
  <2>2. Holding(b, F, m, x) \in Int /\ b.minted[d] \in Int
    <3>1. Naturals(b)
      BY DEF Images
    <3>2. \A y \in SettledAssets(m) : Holding(b, F, m, y) \in Int
      BY <1>1, <3>1, HoldingType
    <3>3. QED
      BY <2>1, <3>1, <3>2 DEF Naturals
  <2>3. Holding(r, F, m, x) = Holding(b, F, m, x)
          - (IF x = a THEN p ELSE 0) - (IF x = c THEN q ELSE 0)
          + (IF x = a THEN n ELSE 0) + (IF x = c THEN k ELSE 0)
          + SettledGain(leg, ask.funding, bid.branch, amount, x)
          + SettledGain(QUOTE, bid.funding, bid.branch, quote, x)
    BY <1>9, <1>10, <1>13, <1>15, <1>17 DEF BothSides
  <2>4. r.minted[d] = b.minted[d] + first + second
    BY <1>9, <1>11, <1>13, <1>16, <1>17, <2>1 DEF BothSides
  <2>5. first \in Int /\ second \in Int
    BY <1>5
  <2>6. /\ SettledGain(leg, ask.funding, bid.branch, amount, x) =
             (IF x = c THEN amount ELSE 0) + (IF x \in ClaimAssets THEN first ELSE 0)
        /\ SettledGain(QUOTE, bid.funding, bid.branch, quote, x) =
             (IF x = a THEN quote ELSE 0) + (IF x \in ClaimAssets THEN second ELSE 0)
    BY <1>8
  <2> HIDE DEF d, first, second
  <2>7. Holding(r, F, m, x) = Holding(b, F, m, x) + (IF x \in ClaimAssets THEN first + second ELSE 0)
    <3>1. p = quote + n /\ q = amount + k /\ a # c
      BY <1>4, <1>5
    <3>2. CASE x = a
      BY <1>5, <2>2, <2>3, <2>5, <2>6, <3>1, <3>2
    <3>3. CASE x = c
      BY <1>5, <2>2, <2>3, <2>5, <2>6, <3>1, <3>3
    <3>4. CASE x # a /\ x # c
      BY <1>5, <2>2, <2>3, <2>5, <2>6, <3>4
    <3>5. QED
      BY <3>2, <3>3, <3>4
  <2>8. QED
    BY <2>2, <2>4, <2>5, <2>7 DEF NetHolding, d
<1>19. QED
  BY <1>17, <1>18

----------------------------------------------------------------------------
(* The books agree with the orders.                                        *)

AllSound(book) == \A id \in DOMAIN book : OrderSound(book[id])

(* The escrow is what the orders reserve, and the exposures what they are  *)
(* worth at their limits.                                                  *)
EscrowKept(b) == \A x \in Markets, a \in Assets : b.escrow[<<x, a>>] = ReservedBy(b.orders, x, a)
ExposureKept(b) ==
    /\ \A x \in Markets : b.exposure[x] = MarketNotional(b.orders, x)
    /\ \A x \in Markets, o \in Owners : b.held[<<x, o>>] = WalletNotional(b.orders, x, o)

LEMMA AllSoundAmounts ==
    ASSUME NEW D, NEW book \in BookImages(D), AllSound(book)
    PROVE  SoundAmounts(book)
BY SoundOrders DEF AllSound, SoundAmounts, BookImages

(* A completed order stays completed. *)
StaysClosed(before, after) == after.status = LIVE => before.status = LIVE

LEMMA TradeBalanced ==
    ASSUME LedgersInv, NEW D, IsFiniteSet(D), NEW b \in Ledgers(D), NEW m \in Markets,
           NEW buyId \in D, NEW sellId \in D, buyId # sellId,
           buyId.market = m, sellId.market = m,
           Opposite(m, b.orders[buyId], b.orders[sellId]),
           NEW quantity \in Int, NEW takerBuys, NEW moves, MovesTypes(moves),
           MovesSound(moves, quantity, b.orders[buyId], b.orders[sellId]),
           AllSound(b.orders), EscrowKept(b), ExposureKept(b),
           NEW r, TradeStep(D, m, b, r, buyId, sellId, quantity, takerBuys, moves)
    PROVE  /\ AllSound(r.orders) /\ EscrowKept(r) /\ ExposureKept(r)
           /\ \A id \in D : StaysClosed(b.orders[id], r.orders[id])
<1> DEFINE buy == b.orders[buyId]
           sell == b.orders[sellId]
           bought == Bought(buy, quantity, moves)
           sold == Sold(sell, quantity, moves)
           a == FundingAsset(buy.terms)
           c == FundingAsset(sell.terms)
           p == moves.fill.buyerReduction
           q == moves.amount + moves.surplus
           v == moves.fill.sellerReduction
<1>1. /\ r \in Ledgers(D)
      /\ r.orders = [b.orders EXCEPT ![buyId] = bought, ![sellId] = sold]
      /\ r.escrow = [b.escrow EXCEPT ![<<m, a>>] = b.escrow[<<m, a>>] - p,
                                     ![<<m, c>>] = b.escrow[<<m, c>>] - q]
      /\ \A x \in Markets : r.exposure[x] = b.exposure[x] - (IF x = m THEN p + v ELSE 0)
      /\ \A x \in Markets, o \in Owners :
           r.held[<<x, o>>] = b.held[<<x, o>>]
             - (IF x = m /\ o = buyId.owner THEN p ELSE 0)
             - (IF x = m /\ o = sellId.owner THEN v ELSE 0)
  BY DEF TradeStep
<1>2. /\ buy \in OrderImages /\ sell \in OrderImages /\ OrderSound(buy) /\ OrderSound(sell)
      /\ b.orders \in BookImages(D) /\ DOMAIN b.orders = D
      /\ buy.terms.side = BUY /\ sell.terms.side = SELL
      /\ a \in Assets /\ c \in Assets /\ a # c
  BY OppositeAssets DEF Ledgers, BookImages, AllSound, Opposite
<1>3. p \in Int /\ q \in Int /\ v \in Int /\ moves.amount \in Int /\ moves.surplus \in Int
  BY DEF MovesTypes, FillTypes
<1>4. /\ bought \in OrderImages /\ sold \in OrderImages
      /\ bought.terms = buy.terms /\ sold.terms = sell.terms
      /\ bought.reserved = buy.reserved - p
      /\ bought.notional = buy.notional - p
      /\ sold.reserved = sell.reserved - moves.amount - moves.surplus
      /\ sold.notional = sell.notional - v
      /\ OrderSound(bought) /\ OrderSound(sold)
  <2> HIDE DEF buy, sell
  <2>1. bought \in OrderImages /\ SameOrder(buy, bought)
          /\ bought.notional = buy.notional - p
    BY <1>2, BoughtEffect
  <2>2. sold \in OrderImages /\ SameOrder(sell, sold)
          /\ sold.notional = sell.notional - v
          /\ sold.reserved = sell.reserved - moves.amount - moves.surplus
    BY <1>2, SoldEffect
  <2>3. MovesSound(moves, quantity, buy, sell)
    BY DEF buy, sell
  <2>4. OrderSound(bought) /\ bought.reserved = buy.reserved - p
    BY <1>2, <2>3, BoughtSound
  <2>5. OrderSound(sold)
    BY <1>2, <2>3, SoldSound
  <2>6. QED
    BY <2>1, <2>2, <2>4, <2>5 DEF SameOrder
<1>5. sold.reserved = sell.reserved - q
  <2>1. sell.reserved \in Int
    BY <1>2, OrderTypes
  <2> HIDE DEF sold, sell
  <2>2. QED
    BY <1>3, <1>4, <2>1
<1>6. buy.status = LIVE /\ sell.status = LIVE
  <2>1. quantity \in 1 .. buy.remaining /\ quantity <= sell.remaining
    BY DEF MovesSound, FillSound
  <2>2. buy.remaining \in Int /\ sell.remaining \in Int
    BY <1>2, OrderTypes
  <2> HIDE DEF buy, sell
  <2>3. buy.remaining # 0 /\ sell.remaining # 0
    BY <2>1, <2>2
  <2>4. QED
    BY <1>2, <2>3 DEF OrderSound
<1>7. /\ bought.reserved \in Nat /\ bought.notional \in Nat
      /\ sold.reserved \in Nat /\ sold.notional \in Nat
  <2> HIDE DEF bought, sold
  <2>1. QED
    BY <1>4, SoundOrders
<1>8. SoundAmounts(b.orders)
  BY <1>2, AllSoundAmounts
<1> HIDE DEF bought, sold, p, q, v
<1>9. Lessened(buy, bought, p, p) /\ Lessened(sell, sold, q, v)
  BY <1>4, <1>5, <1>7 DEF Lessened
<1>10. BooksShifted(m, D, r.orders, b.orders, buyId, sellId, FundingAsset(bought.terms), p,
                    FundingAsset(sold.terms), q, p, v)
  BY <1>1, <1>2, <1>3, <1>9, <1>8, TwoOrdersMoved
<1>11. BooksShifted(m, D, r.orders, b.orders, buyId, sellId, a, p, c, q, p, v)
  BY <1>4, <1>10
<1>12. AllSound(r.orders)
  <2>1. DOMAIN r.orders = D /\ \A id \in D : r.orders[id] \in {b.orders[id], bought, sold}
    BY <1>1, <1>2
  <2>2. QED
    BY <1>2, <1>4, <2>1 DEF AllSound
<1>13. EscrowKept(r)
  <2> SUFFICES ASSUME NEW x \in Markets, NEW y \in Assets
               PROVE  r.escrow[<<x, y>>] = ReservedBy(r.orders, x, y)
    BY DEF EscrowKept
  <2>1. b.escrow \in [Markets \X Assets -> Int]
    BY DEF Ledgers, EscrowImages
  <2>2. ReservedBy(r.orders, x, y) = ReservedBy(b.orders, x, y)
          - (IF x = m /\ y = a THEN p ELSE 0) - (IF x = m /\ y = c THEN q ELSE 0)
    BY <1>11 DEF BooksShifted
  <2>3. ReservedBy(b.orders, x, y) = b.escrow[<<x, y>>] /\ b.escrow[<<x, y>>] \in Int
    BY <2>1 DEF EscrowKept
  <2> HIDE DEF a, c
  <2>4. r.escrow[<<x, y>>] = b.escrow[<<x, y>>]
          - (IF x = m /\ y = a THEN p ELSE 0) - (IF x = m /\ y = c THEN q ELSE 0)
    <3>1. CASE <<x, y>> = <<m, a>>
      BY <1>1, <1>2, <1>3, <2>1, <3>1
    <3>2. CASE <<x, y>> = <<m, c>>
      BY <1>1, <1>2, <1>3, <2>1, <3>2
    <3>3. CASE <<x, y>> # <<m, a>> /\ <<x, y>> # <<m, c>>
      <4>1. r.escrow[<<x, y>>] = b.escrow[<<x, y>>]
        BY <1>1, <2>1, <3>3
      <4>2. QED
        BY <2>3, <3>3, <4>1
    <3>4. QED
      BY <3>1, <3>2, <3>3
  <2>5. QED
    BY <2>2, <2>3, <2>4
<1>14. ExposureKept(r)
  <2>1. /\ \A x \in Markets : MarketNotional(r.orders, x) = MarketNotional(b.orders, x)
             - (IF x = m THEN p + v ELSE 0)
        /\ \A x \in Markets, o \in Owners :
             WalletNotional(r.orders, x, o) = WalletNotional(b.orders, x, o)
               - (IF x = m /\ o = buyId.owner THEN p ELSE 0)
               - (IF x = m /\ o = sellId.owner THEN v ELSE 0)
    BY <1>11 DEF BooksShifted
  <2>2. QED
    BY <1>1, <2>1 DEF ExposureKept
<1>15. ASSUME NEW id \in D PROVE StaysClosed(b.orders[id], r.orders[id])
  BY <1>1, <1>2, <1>6 DEF StaysClosed
<1>16. QED
  BY <1>12, <1>13, <1>14, <1>15

----------------------------------------------------------------------------
(* One fill of a plan.                                                     *)

(* What every settlement keeps: the images sound, the books balanced.      *)
Balanced(D, m, F, b) ==
    /\ Images(D, m, F, b)
    /\ AllSound(b.orders) /\ EscrowKept(b) /\ ExposureKept(b)

(* What a fill may touch, whether or not it is accepted. *)
FillStep(D, b, x, y, r) ==
    /\ r \in Ledgers(D) /\ (r.ok => b.ok)
    /\ \A id \in D : /\ SameOrder(b.orders[id], r.orders[id])
                     /\ id \notin {x, y} => r.orders[id] = b.orders[id]

(* What it keeps when it is accepted. *)
FillKept(D, m, F, b, r) ==
    /\ Balanced(D, m, F, r)
    /\ \A x \in SettledAssets(m) : NetHolding(r, F, m, x) = NetHolding(b, F, m, x)
    /\ \A id \in D : StaysClosed(b.orders[id], r.orders[id])

(* The two orders of a fill on market m. *)
Parties(D, m, b, buyId, sellId) ==
    /\ buyId \in D /\ sellId \in D /\ buyId # sellId
    /\ buyId.owner \in Owners /\ sellId.owner \in Owners
    /\ buyId.market = m /\ sellId.market = m
    /\ Opposite(m, b.orders[buyId], b.orders[sellId])

LEMMA FillEffect ==
    ASSUME LedgersInv, NEW D, NEW b \in Ledgers(D), NEW m \in Markets, NEW buyId, NEW sellId,
           Parties(D, m, b, buyId, sellId), NEW quantity \in Int, NEW takerBuys, NEW moves,
           moves = Moves(m, b.orders[buyId], b.orders[sellId], quantity, takerBuys)
    PROVE  FillStep(D, b, buyId, sellId,
                    Trade(b, m, buyId, sellId, quantity, takerBuys, moves))
<1> DEFINE r == Trade(b, m, buyId, sellId, quantity, takerBuys, moves)
           bought == Bought(b.orders[buyId], quantity, moves)
           sold == Sold(b.orders[sellId], quantity, moves)
<1>1. /\ buyId \in D /\ sellId \in D /\ buyId # sellId
      /\ buyId.owner \in Owners /\ sellId.owner \in Owners
      /\ buyId.market = m /\ sellId.market = m
      /\ Opposite(m, b.orders[buyId], b.orders[sellId])
  BY DEF Parties
<1>2. MovesTypes(moves)
  BY <1>1, MovesAreTyped
<1>3. PICK s, t, u : TradeStages(b, m, buyId, sellId, quantity, takerBuys, moves, s, t, u, r)
  BY <1>1, <1>2, TradeParts
<1> HIDE DEF r
<1>4. TradeStep(D, m, b, r, buyId, sellId, quantity, takerBuys, moves)
  BY <1>1, <1>2, <1>3, TradeEffect
<1>5. /\ r \in Ledgers(D) /\ (r.ok => b.ok)
      /\ r.orders = [b.orders EXCEPT ![buyId] = bought, ![sellId] = sold]
  BY <1>4 DEF TradeStep
<1>6. b.orders \in [D -> OrderImages]
  BY DEF Ledgers, BookImages
<1>7. SameOrder(b.orders[buyId], bought) /\ SameOrder(b.orders[sellId], sold)
  <2>1. b.orders[buyId] \in OrderImages /\ b.orders[sellId] \in OrderImages
    BY <1>1, <1>6
  <2>2. QED
    BY <1>2, <2>1, BoughtEffect, SoldEffect
<1> HIDE DEF bought, sold
<1>8. ASSUME NEW id \in D
      PROVE  /\ SameOrder(b.orders[id], r.orders[id])
             /\ id \notin {buyId, sellId} => r.orders[id] = b.orders[id]
  <2>1. r.orders[id] = IF id = sellId THEN sold ELSE IF id = buyId THEN bought ELSE b.orders[id]
    BY <1>1, <1>5, <1>6
  <2>2. QED
    BY <1>1, <1>7, <2>1 DEF SameOrder
<1>9. QED
  BY <1>5, <1>8 DEF FillStep, r

LEMMA FillSettled ==
    ASSUME LedgersInv, NEW D, IsFiniteSet(D), NEW m \in Markets, NEW F \in Lenders,
           NEW b, Balanced(D, m, F, b), NEW buyId, NEW sellId,
           Parties(D, m, b, buyId, sellId), NEW quantity \in Int, NEW takerBuys, NEW moves,
           moves = Moves(m, b.orders[buyId], b.orders[sellId], quantity, takerBuys),
           Returnable(F, b.orders[buyId], b.orders[sellId], buyId, sellId, moves),
           Trade(b, m, buyId, sellId, quantity, takerBuys, moves).ok
    PROVE  FillKept(D, m, F, b, Trade(b, m, buyId, sellId, quantity, takerBuys, moves))
<1> DEFINE r == Trade(b, m, buyId, sellId, quantity, takerBuys, moves)
<1>1. /\ buyId \in D /\ sellId \in D /\ buyId # sellId
      /\ buyId.owner \in Owners /\ sellId.owner \in Owners
      /\ buyId.market = m /\ sellId.market = m
      /\ Opposite(m, b.orders[buyId], b.orders[sellId])
  BY DEF Parties
<1>2. /\ b \in Ledgers(D) /\ Images(D, m, F, b)
      /\ AllSound(b.orders) /\ EscrowKept(b) /\ ExposureKept(b)
  BY DEF Balanced, Images
<1>3. MovesTypes(moves)
  BY <1>1, MovesAreTyped
<1>4. PICK s, t, u : TradeStages(b, m, buyId, sellId, quantity, takerBuys, moves, s, t, u, r)
  BY <1>1, <1>2, <1>3, TradeParts
<1>5. r.ok
  OBVIOUS
<1> HIDE DEF r
<1>6. TradeStep(D, m, b, r, buyId, sellId, quantity, takerBuys, moves)
  BY <1>1, <1>2, <1>3, <1>4, TradeEffect
<1>7. /\ FillAccepted(m, b.orders[buyId], b.orders[sellId], quantity, takerBuys, moves)
      /\ moves.buyerFee.amount <= moves.amount /\ moves.sellerFee.amount <= moves.fill.quote
  BY <1>5, <1>6 DEF TradeStep
<1>8. MovesSound(moves, quantity, b.orders[buyId], b.orders[sellId])
  <2> DEFINE buy == b.orders[buyId]
             sell == b.orders[sellId]
             step == Caps(m).step
  <2>1. OrderSound(buy) /\ OrderSound(sell)
    BY <1>1, <1>2 DEF AllSound, Ledgers, BookImages
  <2>2. FillOk(quantity, step, buy.remaining, sell.remaining, buy.terms.price,
               sell.terms.price, ~takerBuys)
          /\ moves.amount \in 1 .. sell.reserved
    BY <1>7 DEF FillAccepted
  <2>3. Opposite(m, buy, sell) /\ moves = Moves(m, buy, sell, quantity, takerBuys)
    BY <1>1
  <2> HIDE DEF buy, sell, step
  <2>4. MovesSound(moves, quantity, buy, sell)
    BY <2>1, <2>2, <2>3, MovesAreSound
  <2>5. QED
    BY <2>4 DEF buy, sell
<1>9. /\ Images(D, m, F, r)
      /\ \A x \in SettledAssets(m) : NetHolding(r, F, m, x) = NetHolding(b, F, m, x)
  BY <1>1, <1>2, <1>3, <1>4, <1>7, <1>8, TradeSettled
<1>10. /\ AllSound(r.orders) /\ EscrowKept(r) /\ ExposureKept(r)
       /\ \A id \in D : StaysClosed(b.orders[id], r.orders[id])
  BY <1>1, <1>2, <1>3, <1>6, <1>8, TradeBalanced
<1>11. QED
  BY <1>9, <1>10 DEF FillKept, Balanced, r

----------------------------------------------------------------------------
(* One maker of a plan against the taker.                                  *)

Pair(m, taker, maker) ==
    IF taker.terms.side = BUY THEN Opposite(m, taker, maker) ELSE Opposite(m, maker, taker)

(* What a fill gives back has a frame to go to, or there is nothing: the   *)
(* taker's credit is lent, and the maker's when a price improvement or a   *)
(* rounding surplus is due to it.                                          *)
Returns(m, F, taker, maker, takerOwner, makerOwner, quantity) ==
    /\ taker.terms.funding = UNDERLYING => takerOwner \in F[Delivers(taker.terms)]
    /\ maker.terms.funding = UNDERLYING =>
         \/ makerOwner \in F[Delivers(maker.terms)]
         \/ IF taker.terms.side = BUY
            THEN quantity = maker.remaining =>
                   maker.reserved = Raw(m, Delivers(maker.terms), quantity, FALSE)
            ELSE QuoteUp(maker.remaining, maker.terms.price)
                   - QuoteUp(maker.remaining - quantity, maker.terms.price)
                   = QuoteDown(quantity, maker.terms.price)

Meets(D, m, F, b, takerId, makerId, quantity) ==
    /\ takerId \in D /\ makerId \in D /\ takerId # makerId
    /\ takerId.owner \in Owners /\ makerId.owner \in Owners
    /\ takerId.market = m /\ makerId.market = m
    /\ quantity \in Int
    /\ Pair(m, b.orders[takerId], b.orders[makerId])
    /\ Returns(m, F, b.orders[takerId], b.orders[makerId], takerId.owner, makerId.owner,
               quantity)

LEMMA ReturnsToBuyer ==
    ASSUME NEW m, NEW F, NEW taker \in OrderImages, NEW maker \in OrderImages, NEW takerId,
           NEW makerId, NEW quantity \in Int, taker.terms.side = BUY, Opposite(m, taker, maker),
           LedgersInv, m \in Markets,
           Returns(m, F, taker, maker, takerId.owner, makerId.owner, quantity)
    PROVE  Returnable(F, taker, maker, takerId, makerId, Moves(m, taker, maker, quantity, TRUE))
<1> DEFINE moves == Moves(m, taker, maker, quantity, TRUE)
<1>1. taker.terms.funding = UNDERLYING => takerId.owner \in F[QUOTE]
  BY DEF Returns, Delivers
<1>2. ASSUME maker.terms.funding = UNDERLYING, makerId.owner \notin F[Delivers(maker.terms)]
      PROVE  moves.surplus = 0
  <2>1. moves.surplus = IF quantity = maker.remaining
                        THEN maker.reserved - Raw(m, Delivers(maker.terms), quantity, FALSE)
                        ELSE 0
    BY DEF Moves
  <2>2. quantity = maker.remaining =>
          maker.reserved = Raw(m, Delivers(maker.terms), quantity, FALSE)
    BY <1>2 DEF Returns
  <2>3. maker.reserved \in Int
    BY OrderTypes
  <2>4. maker.reserved - maker.reserved = 0
    BY <2>3
  <2> HIDE DEF moves
  <2>5. CASE quantity = maker.remaining
    BY <2>1, <2>2, <2>4, <2>5
  <2>6. QED
    BY <2>1, <2>5
<1> HIDE DEF moves
<1>3. Returnable(F, taker, maker, takerId, makerId, moves)
  BY <1>1, <1>2 DEF Returnable
<1>4. QED
  BY <1>3 DEF moves

LEMMA ReturnsToSeller ==
    ASSUME NEW m, NEW F, NEW taker \in OrderImages, NEW maker \in OrderImages, NEW takerId,
           NEW makerId, NEW quantity \in Int, taker.terms.side # BUY, Opposite(m, maker, taker),
           Returns(m, F, taker, maker, takerId.owner, makerId.owner, quantity)
    PROVE  Returnable(F, maker, taker, makerId, takerId, Moves(m, maker, taker, quantity, FALSE))
<1> DEFINE moves == Moves(m, maker, taker, quantity, FALSE)
<1>1. taker.terms.funding = UNDERLYING => takerId.owner \in F[Delivers(taker.terms)]
  BY DEF Returns
<1>2. Delivers(maker.terms) = QUOTE
  BY DEF Opposite, Delivers
<1>3. ASSUME maker.terms.funding = UNDERLYING, makerId.owner \notin F[QUOTE]
      PROVE  moves.fill.improvement = 0
  <2>1. moves.fill.improvement = (QuoteUp(maker.remaining, maker.terms.price)
                                   - QuoteUp(maker.remaining - quantity, maker.terms.price))
                                  - QuoteDown(quantity, maker.terms.price)
    BY DEF Moves, Fill
  <2>2. QuoteUp(maker.remaining, maker.terms.price)
          - QuoteUp(maker.remaining - quantity, maker.terms.price)
          = QuoteDown(quantity, maker.terms.price)
    BY <1>2, <1>3 DEF Returns
  <2>3. QuoteDown(quantity, maker.terms.price) \in Int
    BY OrderTypes, QuoteTypes
  <2> HIDE DEF moves
  <2>4. QED
    BY <2>1, <2>2, <2>3
<1> HIDE DEF moves
<1>4. Returnable(F, maker, taker, makerId, takerId, moves)
  BY <1>1, <1>3 DEF Returnable
<1>5. QED
  BY <1>4 DEF moves

(* A fill that is left to do stays possible while other makers are filled. *)
LEMMA MeetsStill ==
    ASSUME NEW D, NEW m, NEW F, NEW b \in Ledgers(D), NEW r \in Ledgers(D), NEW takerId,
           NEW makerId, NEW quantity, Meets(D, m, F, b, takerId, makerId, quantity),
           SameOrder(b.orders[takerId], r.orders[takerId]),
           r.orders[makerId] = b.orders[makerId]
    PROVE  Meets(D, m, F, r, takerId, makerId, quantity)
<1> DEFINE taker == b.orders[takerId]
           maker == b.orders[makerId]
           later == r.orders[takerId]
<1>1. /\ takerId \in D /\ makerId \in D /\ takerId # makerId
      /\ takerId.owner \in Owners /\ makerId.owner \in Owners
      /\ takerId.market = m /\ makerId.market = m /\ quantity \in Int
      /\ Pair(m, taker, maker)
      /\ Returns(m, F, taker, maker, takerId.owner, makerId.owner, quantity)
  BY DEF Meets
<1>2. later \in OrderImages
  BY <1>1 DEF Ledgers, BookImages
<1>3. later.terms = taker.terms /\ r.orders[makerId] = maker
  BY DEF SameOrder
<1> HIDE DEF taker, maker, later
<1>4. Pair(m, later, maker)
  BY <1>1, <1>2, <1>3 DEF Pair, Opposite
<1>5. Returns(m, F, later, maker, takerId.owner, makerId.owner, quantity)
  BY <1>1, <1>3 DEF Returns
<1>6. QED
  BY <1>1, <1>3, <1>4, <1>5 DEF Meets, later

LEMMA ExecuteEffect ==
    ASSUME LedgersInv, NEW D, NEW m \in Markets, NEW F, NEW b \in Ledgers(D), NEW takerId,
           NEW makerId, NEW quantity, Meets(D, m, F, b, takerId, makerId, quantity)
    PROVE  FillStep(D, b, takerId, makerId, Execute(b, m, takerId, makerId, quantity))
<1> DEFINE taker == b.orders[takerId]
           maker == b.orders[makerId]
<1>1. /\ takerId \in D /\ makerId \in D /\ takerId # makerId
      /\ takerId.owner \in Owners /\ makerId.owner \in Owners
      /\ takerId.market = m /\ makerId.market = m /\ quantity \in Int
      /\ Pair(m, taker, maker)
  BY DEF Meets
<1>2. CASE taker.terms.side = BUY
  <2>1. Parties(D, m, b, takerId, makerId)
    BY <1>1, <1>2 DEF Parties, Pair
  <2>2. Execute(b, m, takerId, makerId, quantity)
          = Trade(b, m, takerId, makerId, quantity, TRUE, Moves(m, taker, maker, quantity, TRUE))
    BY <1>2 DEF Execute
  <2>3. FillStep(D, b, takerId, makerId,
                 Trade(b, m, takerId, makerId, quantity, TRUE,
                       Moves(m, taker, maker, quantity, TRUE)))
    BY <1>1, <2>1, FillEffect
  <2>4. QED
    BY <2>2, <2>3
<1>3. CASE taker.terms.side # BUY
  <2>1. Parties(D, m, b, makerId, takerId)
    BY <1>1, <1>3 DEF Parties, Pair
  <2>2. Execute(b, m, takerId, makerId, quantity)
          = Trade(b, m, makerId, takerId, quantity, FALSE,
                  Moves(m, maker, taker, quantity, FALSE))
    BY <1>3 DEF Execute
  <2>3. FillStep(D, b, makerId, takerId,
                 Trade(b, m, makerId, takerId, quantity, FALSE,
                       Moves(m, maker, taker, quantity, FALSE)))
    BY <1>1, <2>1, FillEffect
  <2>4. {makerId, takerId} = {takerId, makerId}
    OBVIOUS
  <2>5. QED
    BY <2>2, <2>3, <2>4 DEF FillStep
<1>4. QED
  BY <1>2, <1>3

LEMMA ExecuteSettled ==
    ASSUME LedgersInv, NEW D, IsFiniteSet(D), NEW m \in Markets, NEW F \in Lenders, NEW b,
           Balanced(D, m, F, b), NEW takerId, NEW makerId, NEW quantity,
           Meets(D, m, F, b, takerId, makerId, quantity),
           Execute(b, m, takerId, makerId, quantity).ok
    PROVE  FillKept(D, m, F, b, Execute(b, m, takerId, makerId, quantity))
<1> DEFINE taker == b.orders[takerId]
           maker == b.orders[makerId]
<1>1. /\ takerId \in D /\ makerId \in D /\ takerId # makerId
      /\ takerId.owner \in Owners /\ makerId.owner \in Owners
      /\ takerId.market = m /\ makerId.market = m /\ quantity \in Int
      /\ Pair(m, taker, maker)
      /\ Returns(m, F, taker, maker, takerId.owner, makerId.owner, quantity)
  BY DEF Meets
<1>2. taker \in OrderImages /\ maker \in OrderImages
  BY <1>1 DEF Balanced, Images, Ledgers, BookImages
<1>3. CASE taker.terms.side = BUY
  <2> DEFINE moves == Moves(m, taker, maker, quantity, TRUE)
  <2>1. Parties(D, m, b, takerId, makerId) /\ Opposite(m, taker, maker)
    BY <1>1, <1>3 DEF Parties, Pair
  <2>2. Execute(b, m, takerId, makerId, quantity)
          = Trade(b, m, takerId, makerId, quantity, TRUE, moves)
    BY <1>3 DEF Execute
  <2>3. Returnable(F, taker, maker, takerId, makerId, moves)
    <3> HIDE DEF taker, maker
    <3>1. QED
      BY <1>1, <1>2, <1>3, <2>1, ReturnsToBuyer
  <2>4. moves = Moves(m, b.orders[takerId], b.orders[makerId], quantity, TRUE)
    OBVIOUS
  <2> HIDE DEF moves
  <2>5. FillKept(D, m, F, b, Trade(b, m, takerId, makerId, quantity, TRUE, moves))
    BY <1>1, <2>1, <2>2, <2>3, <2>4, FillSettled
  <2>6. QED
    BY <2>2, <2>5
<1>4. CASE taker.terms.side # BUY
  <2> DEFINE moves == Moves(m, maker, taker, quantity, FALSE)
  <2>1. Parties(D, m, b, makerId, takerId) /\ Opposite(m, maker, taker)
    BY <1>1, <1>4 DEF Parties, Pair
  <2>2. Execute(b, m, takerId, makerId, quantity)
          = Trade(b, m, makerId, takerId, quantity, FALSE, moves)
    BY <1>4 DEF Execute
  <2>3. Returnable(F, maker, taker, makerId, takerId, moves)
    <3> HIDE DEF taker, maker
    <3>1. QED
      BY <1>1, <1>2, <1>4, <2>1, ReturnsToSeller
  <2>4. moves = Moves(m, b.orders[makerId], b.orders[takerId], quantity, FALSE)
    OBVIOUS
  <2> HIDE DEF moves
  <2>5. FillKept(D, m, F, b, Trade(b, m, makerId, takerId, quantity, FALSE, moves))
    BY <1>1, <2>1, <2>2, <2>3, <2>4, FillSettled
  <2>6. QED
    BY <2>2, <2>5
<1>5. QED
  BY <1>3, <1>4

----------------------------------------------------------------------------
(* All fills of a plan, in its order.                                      *)

(* The makers S are done: the others are as they were.                     *)
Filling(D, m, F, b, takerId, S, r) ==
    /\ r \in Ledgers(D) /\ (r.ok => b.ok)
    /\ \A id \in D : /\ SameOrder(b.orders[id], r.orders[id])
                     /\ id \notin S \cup {takerId} => r.orders[id] = b.orders[id]
    /\ IsFiniteSet(D) /\ Balanced(D, m, F, b) /\ r.ok => FillKept(D, m, F, b, r)

LEMMA FillingStarts ==
    ASSUME NEW D, NEW m, NEW F, NEW b \in Ledgers(D), NEW takerId
    PROVE  Filling(D, m, F, b, takerId, {}, b)
<1>1. \A id \in D : SameOrder(b.orders[id], b.orders[id]) /\ StaysClosed(b.orders[id], b.orders[id])
  BY DEF SameOrder, StaysClosed
<1>2. Balanced(D, m, F, b) => FillKept(D, m, F, b, b)
  BY <1>1 DEF FillKept
<1>3. QED
  BY <1>1, <1>2 DEF Filling

LEMMA FillingContinues ==
    ASSUME LedgersInv, NEW D, NEW m \in Markets, NEW F \in Lenders, NEW b \in Ledgers(D),
           NEW takerId, NEW S, NEW r, Filling(D, m, F, b, takerId, S, r),
           NEW makerId, makerId \notin S, NEW quantity,
           Meets(D, m, F, b, takerId, makerId, quantity)
    PROVE  Filling(D, m, F, b, takerId, S \cup {makerId},
                   Execute(r, m, takerId, makerId, quantity))
<1> DEFINE t == Execute(r, m, takerId, makerId, quantity)
<1>1. /\ r \in Ledgers(D) /\ (r.ok => b.ok)
      /\ \A id \in D : /\ SameOrder(b.orders[id], r.orders[id])
                       /\ id \notin S \cup {takerId} => r.orders[id] = b.orders[id]
      /\ IsFiniteSet(D) /\ Balanced(D, m, F, b) /\ r.ok => FillKept(D, m, F, b, r)
  BY DEF Filling
<1>2. takerId \in D /\ makerId \in D /\ takerId # makerId
  BY DEF Meets
<1>3. Meets(D, m, F, r, takerId, makerId, quantity)
  <2>1. SameOrder(b.orders[takerId], r.orders[takerId])
    BY <1>1, <1>2
  <2>2. r.orders[makerId] = b.orders[makerId]
    BY <1>1, <1>2
  <2>3. QED
    BY <1>1, <2>1, <2>2, MeetsStill
<1>4. FillStep(D, r, takerId, makerId, t)
  BY <1>1, <1>3, ExecuteEffect
<1>5. ASSUME IsFiniteSet(D), Balanced(D, m, F, r), t.ok
      PROVE  FillKept(D, m, F, r, t)
  BY <1>3, <1>5, ExecuteSettled
<1> HIDE DEF t
<1>6. /\ t \in Ledgers(D) /\ (t.ok => r.ok)
      /\ \A id \in D : /\ SameOrder(r.orders[id], t.orders[id])
                       /\ id \notin {takerId, makerId} => t.orders[id] = r.orders[id]
  BY <1>4 DEF FillStep
<1>7. ASSUME NEW id \in D
      PROVE  /\ SameOrder(b.orders[id], t.orders[id])
             /\ id \notin (S \cup {makerId}) \cup {takerId} => t.orders[id] = b.orders[id]
  <2>1. SameOrder(b.orders[id], t.orders[id])
    BY <1>1, <1>6 DEF SameOrder
  <2>2. QED
    BY <1>1, <1>6, <2>1
<1>8. ASSUME IsFiniteSet(D), Balanced(D, m, F, b), t.ok
      PROVE  FillKept(D, m, F, b, t)
  <2>1. FillKept(D, m, F, b, r)
    BY <1>1, <1>6, <1>8
  <2>2. FillKept(D, m, F, r, t)
    BY <1>5, <1>8, <2>1 DEF FillKept
  <2>3. /\ Balanced(D, m, F, t)
        /\ \A x \in SettledAssets(m) : NetHolding(t, F, m, x) = NetHolding(b, F, m, x)
    BY <2>1, <2>2 DEF FillKept
  <2>4. \A id \in D : StaysClosed(b.orders[id], t.orders[id])
    BY <2>1, <2>2 DEF FillKept, StaysClosed
  <2>5. QED
    BY <2>3, <2>4 DEF FillKept
<1>9. QED
  BY <1>1, <1>6, <1>7, <1>8 DEF Filling, t

(* Every maker left of the plan can be filled.                             *)
MeetsAll(D, m, F, b, takerId, makers) ==
    /\ \A i \in DOMAIN makers :
         Meets(D, m, F, b, takerId, makers[i].id, makers[i].quantity)
    /\ \A i, j \in DOMAIN makers : i # j => makers[i].id # makers[j].id

LEMMA ExecuteAllSettled ==
    ASSUME LedgersInv, NEW D, NEW m \in Markets, NEW F \in Lenders, NEW b \in Ledgers(D),
           NEW takerId, NEW n \in Nat, NEW makers, DOMAIN makers \subseteq 1 .. n,
           MeetsAll(D, m, F, b, takerId, makers)
    PROVE  Filling(D, m, F, b, takerId, {makers[i].id : i \in DOMAIN makers},
                   ExecuteAll(b, m, takerId, n, makers))
<1> DEFINE Done(k) == {makers[i].id : i \in DOMAIN makers \cap (1 .. k)}
<1>1. PICK after : /\ Executed(after, b, m, takerId, n, makers)
                   /\ ExecuteAll(b, m, takerId, n, makers) = after[n]
  BY ExecutedAt
<1>2. after = [i \in 0 .. n |->
        IF i = 0 THEN b
        ELSE IF i \in DOMAIN makers
        THEN Execute(after[i - 1], m, takerId, makers[i].id, makers[i].quantity)
        ELSE after[i - 1]]
  BY <1>1 DEF Executed
<1> DEFINE T == {k \in 0 .. n : Filling(D, m, F, b, takerId, Done(k), after[k])}
<1>3. 0 \in T
  <2>1. Done(0) = {}
    OBVIOUS
  <2>2. after[0] = b
    BY <1>2
  <2> HIDE DEF Done
  <2>3. QED
    BY <2>1, <2>2, FillingStarts
<1>4. ASSUME NEW k \in 1 .. n, k - 1 \in T
      PROVE  k \in T
  <2>1. Filling(D, m, F, b, takerId, Done(k - 1), after[k - 1])
    BY <1>4
  <2>2. CASE k \in DOMAIN makers
    <3>1. after[k] = Execute(after[k - 1], m, takerId, makers[k].id, makers[k].quantity)
      BY <1>2, <2>2
    <3>2. Done(k) = Done(k - 1) \cup {makers[k].id}
      <4>1. DOMAIN makers \cap (1 .. k) = (DOMAIN makers \cap (1 .. k - 1)) \cup {k}
        BY <2>2
      <4>2. QED
        BY <4>1
    <3>3. makers[k].id \notin Done(k - 1)
      <4>1. \A i \in DOMAIN makers \cap (1 .. k - 1) : i # k
        OBVIOUS
      <4>2. QED
        BY <2>2, <4>1 DEF MeetsAll
    <3>4. Meets(D, m, F, b, takerId, makers[k].id, makers[k].quantity)
      BY <2>2 DEF MeetsAll
    <3> HIDE DEF Done
    <3>5. QED
      BY <2>1, <3>1, <3>2, <3>3, <3>4, FillingContinues
  <2>3. CASE k \notin DOMAIN makers
    <3>1. after[k] = after[k - 1]
      BY <1>2, <2>3
    <3>2. Done(k) = Done(k - 1)
      <4>1. DOMAIN makers \cap (1 .. k) = DOMAIN makers \cap (1 .. k - 1)
        BY <2>3
      <4>2. QED
        BY <4>1
    <3> HIDE DEF Done
    <3>3. QED
      BY <2>1, <3>1, <3>2
  <2>4. QED
    BY <2>2, <2>3
<1>5. n \in T
  <2> HIDE DEF T
  <2>1. QED
    BY <1>3, <1>4, UpTo
<1>6. Done(n) = {makers[i].id : i \in DOMAIN makers}
  <2>1. DOMAIN makers \cap (1 .. n) = DOMAIN makers
    OBVIOUS
  <2>2. QED
    BY <2>1
<1> HIDE DEF Done
<1>7. QED
  BY <1>1, <1>5, <1>6

----------------------------------------------------------------------------
(* What an order reserves moves between its owner's credit and the escrow. *)

(* n is credited from the escrow, the exposure rises by v, and the orders  *)
(* are book.                                                               *)
Unreserve(b, m, o, a, n, v, book) ==
    [Expose(Credit(b, m, o, a, n), m, o, v)
       EXCEPT !.escrow[<<m, a>>] = @ - n, !.orders = book]

Unreserved(E, b, m, o, a, n, v, book, r) ==
    /\ r \in Ledgers(E) /\ r.orders = book /\ r.ok = b.ok /\ r.minted = b.minted
    /\ r.backing = b.backing /\ r.fees = b.fees
    /\ r.available = Credit(b, m, o, a, n).available
    /\ r.balance = Credit(b, m, o, a, n).balance /\ r.credits = Credit(b, m, o, a, n).credits
    /\ r.exposure = [b.exposure EXCEPT ![m] = b.exposure[m] + v]
    /\ r.held = [b.held EXCEPT ![<<m, o>>] = b.held[<<m, o>>] + v]
    /\ r.escrow = [b.escrow EXCEPT ![<<m, a>>] = b.escrow[<<m, a>>] - n]

LEMMA UnreserveEffect ==
    ASSUME NEW D, NEW E, NEW b \in Ledgers(D), NEW m \in Markets, NEW o \in Owners,
           NEW a \in Assets, a \notin ClaimAssets => MintOf(m, CollateralOf(a)) \in Mints,
           NEW n \in Int, NEW v \in Int, NEW book \in BookImages(E)
    PROVE  Unreserved(E, b, m, o, a, n, v, book, Unreserve(b, m, o, a, n, v, book))
<1> DEFINE s == Credit(b, m, o, a, n)
           t == Expose(s, m, o, v)
           e == [b.escrow EXCEPT ![<<m, a>>] = b.escrow[<<m, a>>] - n]
           r == Unreserve(b, m, o, a, n, v, book)
<1>1. s \in Ledgers(D) /\ Credited(b, m, o, a, n, s)
  BY CreditEffect
<1> HIDE DEF s
<1>2. t \in Ledgers(D) /\ Exposed(s, m, o, v, t)
  BY <1>1, ExposeEffect
<1>3. e \in EscrowImages
  BY DEF Ledgers, EscrowImages
<1>4. t.escrow = b.escrow
  BY <1>1, <1>2 DEF Credited, Exposed
<1>5. r = [t EXCEPT !.escrow = e, !.orders = book]
  BY <1>4 DEF Unreserve, s
<1> HIDE DEF r, t, e
<1>6. /\ r \in Ledgers(E) /\ r.orders = book /\ r.escrow = e /\ r.ok = t.ok
      /\ r.minted = t.minted /\ r.exposure = t.exposure /\ r.held = t.held
      /\ r.backing = t.backing /\ r.fees = t.fees
      /\ r.available = t.available /\ r.balance = t.balance /\ r.credits = t.credits
  BY <1>2, <1>3, <1>5 DEF Ledgers
<1>7. /\ t.ok = b.ok /\ t.minted = b.minted /\ t.backing = b.backing /\ t.fees = b.fees
      /\ t.available = s.available /\ t.balance = s.balance /\ t.credits = s.credits
      /\ t.exposure = [b.exposure EXCEPT ![m] = b.exposure[m] + v]
      /\ t.held = [b.held EXCEPT ![<<m, o>>] = b.held[<<m, o>>] + v]
  BY <1>1, <1>2 DEF Credited, Exposed
<1>8. QED
  BY <1>6, <1>7 DEF Unreserved, r, e, s

(* The images stay sound and the market's holdings are the same.           *)
SameNet(E, m, F, b, r) ==
    /\ Images(E, m, F, r)
    /\ \A x \in SettledAssets(m) : NetHolding(r, F, m, x) = NetHolding(b, F, m, x)

LEMMA UnreserveSettled ==
    ASSUME LedgersInv, NEW D, NEW E, NEW m \in Markets, NEW F \in Lenders, NEW b,
           Images(D, m, F, b), NEW o \in Owners, NEW a \in SettledAssets(m),
           NEW n \in Int, NEW v \in Int, NEW book \in BookImages(E),
           Creditable(b, F, m, o, a, n)
    PROVE  SameNet(E, m, F, b, Unreserve(b, m, o, a, n, v, book))
<1> DEFINE s == Credit(b, m, o, a, n)
           t == Expose(s, m, o, v)
           e == [b.escrow EXCEPT ![<<m, a>>] = b.escrow[<<m, a>>] + (-n)]
           r == Unreserve(b, m, o, a, n, v, book)
<1>1. /\ b \in Ledgers(D) /\ a \in Assets /\ Naturals(b)
      /\ a \notin ClaimAssets => MintOf(m, CollateralOf(a)) \in Mints
  BY SettledMints DEF Images, SettledAssets
<1>2. Images(D, m, F, s) /\ Credited(b, m, o, a, n, s) /\ Shifted(b, s, F, m, a, n)
  BY CreditSettled
<1> HIDE DEF s
<1>3. /\ Images(D, m, F, t) /\ Exposed(s, m, o, v, t)
      /\ \A x \in SettledAssets(m) : Holding(t, F, m, x) = Holding(s, F, m, x)
  <2>1. Images(D, m, F, s) /\ s \in Ledgers(D)
    BY <1>2 DEF Images
  <2>2. Exposed(s, m, o, v, t)
    BY <2>1, ExposeEffect
  <2>3. Images(D, m, F, t) /\ \A x \in SettledAssets(m) : Holding(t, F, m, x) = Holding(s, F, m, x)
    BY <2>1, ExposeSettled
  <2>4. QED
    BY <2>2, <2>3
<1>4. t \in Ledgers(D) /\ t.escrow = b.escrow /\ t.minted = b.minted
  BY <1>2, <1>3 DEF Images, Credited, Exposed
<1>5. e \in EscrowImages
  BY <1>1 DEF Ledgers, EscrowImages
<1>6. b.escrow[<<m, a>>] - n = b.escrow[<<m, a>>] + (-n)
  BY <1>1 DEF Ledgers, EscrowImages
<1>7. r = [t EXCEPT !.escrow = e, !.orders = book]
  BY <1>4, <1>6 DEF Unreserve, s
<1> HIDE DEF r, t, e
<1>8. /\ r \in Ledgers(E) /\ r.escrow = e /\ r.minted = t.minted
      /\ r.available = t.available /\ r.balance = t.balance /\ r.credits = t.credits
      /\ r.backing = t.backing /\ r.fees = t.fees
  BY <1>4, <1>5, <1>7 DEF Ledgers
<1>9. Escrowed(t, m, a, -n, r)
  BY <1>4, <1>8 DEF Escrowed, e
<1>10. -n \in Int
  OBVIOUS
<1>11. Images(E, m, F, r) /\ Shifted(t, r, F, m, a, -n)
  BY <1>3, <1>8, <1>9, <1>10, EscrowSettled
<1>12. ASSUME NEW x \in SettledAssets(m)
       PROVE  NetHolding(r, F, m, x) = NetHolding(b, F, m, x)
  <2>1. Holding(b, F, m, x) \in Int
    BY <1>1, HoldingType
  <2>2. Holding(s, F, m, x) = Holding(b, F, m, x) + (IF x = a THEN n ELSE 0)
    BY <1>2 DEF Shifted
  <2>3. Holding(r, F, m, x) = Holding(t, F, m, x) + (IF x = a THEN -n ELSE 0)
    BY <1>11 DEF Shifted
  <2>4. Holding(t, F, m, x) = Holding(s, F, m, x)
    BY <1>3
  <2>5. Holding(r, F, m, x) = Holding(b, F, m, x)
    BY <2>1, <2>2, <2>3, <2>4
  <2>6. r.minted = b.minted
    BY <1>4, <1>8
  <2>7. QED
    BY <2>5, <2>6 DEF NetHolding
<1>13. QED
  BY <1>11, <1>12 DEF SameNet, r

(* The orders give up n reserved units of a and gain v of notional.        *)
BookStep(before, after, E, id, a, n, v) ==
    /\ after \in BookImages(E) /\ AllSound(after)
    /\ \A x \in Markets, y \in Assets :
         ReservedBy(after, x, y) =
           ReservedBy(before, x, y) - (IF x = id.market /\ y = a THEN n ELSE 0)
    /\ \A x \in Markets :
         MarketNotional(after, x) = MarketNotional(before, x) + (IF x = id.market THEN v ELSE 0)
    /\ \A x \in Markets, o \in Owners :
         WalletNotional(after, x, o) =
           WalletNotional(before, x, o) + (IF x = id.market /\ o = id.owner THEN v ELSE 0)

BooksKept(b) == AllSound(b.orders) /\ EscrowKept(b) /\ ExposureKept(b)

LEMMA UnreservedBalanced ==
    ASSUME NEW D, NEW E, NEW b \in Ledgers(D), EscrowKept(b), ExposureKept(b), NEW id,
           id.market \in Markets, id.owner \in Owners, NEW a \in Assets, NEW n \in Int,
           NEW v \in Int, NEW book, BookStep(b.orders, book, E, id, a, n, v),
           NEW r, Unreserved(E, b, id.market, id.owner, a, n, v, book, r)
    PROVE  BooksKept(r)
<1> DEFINE m == id.market
           w == id.owner
<1>1. /\ r.orders = book
      /\ r.exposure = [b.exposure EXCEPT ![m] = b.exposure[m] + v]
      /\ r.held = [b.held EXCEPT ![<<m, w>>] = b.held[<<m, w>>] + v]
      /\ r.escrow = [b.escrow EXCEPT ![<<m, a>>] = b.escrow[<<m, a>>] - n]
  BY DEF Unreserved
<1>2. AllSound(r.orders)
  BY <1>1 DEF BookStep
<1>3. /\ b.escrow \in [Markets \X Assets -> Int] /\ b.exposure \in [Markets -> Int]
      /\ b.held \in [Markets \X Owners -> Int] /\ m \in Markets /\ w \in Owners
  BY DEF Ledgers, EscrowImages, ExposureImages, HeldImages
<1>4. EscrowKept(r)
  <2> SUFFICES ASSUME NEW x \in Markets, NEW y \in Assets
               PROVE  r.escrow[<<x, y>>] = ReservedBy(r.orders, x, y)
    BY DEF EscrowKept
  <2>1. ReservedBy(r.orders, x, y) =
          ReservedBy(b.orders, x, y) - (IF x = m /\ y = a THEN n ELSE 0)
    BY <1>1 DEF BookStep
  <2>2. ReservedBy(b.orders, x, y) = b.escrow[<<x, y>>] /\ b.escrow[<<x, y>>] \in Int
    BY <1>3 DEF EscrowKept
  <2> HIDE DEF m, w
  <2>3. CASE <<x, y>> = <<m, a>>
    BY <1>1, <1>3, <2>1, <2>2, <2>3
  <2>4. CASE <<x, y>> # <<m, a>>
    <3>1. r.escrow[<<x, y>>] = b.escrow[<<x, y>>]
      BY <1>1, <1>3, <2>4
    <3>2. QED
      BY <2>1, <2>2, <2>4, <3>1
  <2>5. QED
    BY <2>3, <2>4
<1>5. ExposureKept(r)
  <2>1. ASSUME NEW x \in Markets
        PROVE  r.exposure[x] = MarketNotional(r.orders, x)
    <3>1. MarketNotional(r.orders, x) = MarketNotional(b.orders, x) + (IF x = m THEN v ELSE 0)
      BY <1>1 DEF BookStep
    <3>2. MarketNotional(b.orders, x) = b.exposure[x] /\ b.exposure[x] \in Int
      BY <1>3 DEF ExposureKept
    <3> HIDE DEF m, w
    <3>3. r.exposure[x] = b.exposure[x] + (IF x = m THEN v ELSE 0)
      BY <1>1, <1>3, <3>2
    <3>4. QED
      BY <3>1, <3>2, <3>3
  <2>2. ASSUME NEW x \in Markets, NEW o \in Owners
        PROVE  r.held[<<x, o>>] = WalletNotional(r.orders, x, o)
    <3>1. WalletNotional(r.orders, x, o) =
            WalletNotional(b.orders, x, o) + (IF x = m /\ o = w THEN v ELSE 0)
      BY <1>1 DEF BookStep
    <3>2. WalletNotional(b.orders, x, o) = b.held[<<x, o>>] /\ b.held[<<x, o>>] \in Int
      BY <1>3 DEF ExposureKept
    <3> HIDE DEF m, w
    <3>3. CASE <<x, o>> = <<m, w>>
      BY <1>1, <1>3, <3>1, <3>2, <3>3
    <3>4. CASE <<x, o>> # <<m, w>>
      <4>1. r.held[<<x, o>>] = b.held[<<x, o>>]
        BY <1>1, <1>3, <3>4
      <4>2. QED
        BY <3>1, <3>2, <3>4, <4>1
    <3>5. QED
      BY <3>3, <3>4
  <2>3. QED
    BY <2>1, <2>2 DEF ExposureKept
<1>6. QED
  BY <1>2, <1>4, <1>5 DEF BooksKept

----------------------------------------------------------------------------
(* An order leaves the book.                                               *)

Closed(order) ==
    [order EXCEPT !.remaining = 0, !.reserved = 0, !.notional = 0, !.status = CANCELLED]

LEMMA ClosedEffect ==
    ASSUME NEW order \in OrderImages
    PROVE  /\ Closed(order) \in OrderImages
           /\ SameOrder(order, Closed(order))
           /\ Closed(order).reserved = 0 /\ Closed(order).notional = 0
           /\ Closed(order).remaining = 0 /\ Closed(order).status = CANCELLED
           /\ Closed(order).filled = order.filled /\ Closed(order).carry = order.carry
<1> DEFINE r == Closed(order)
<1>1. /\ r.reserved = 0 /\ r.notional = 0 /\ r.remaining = 0 /\ r.status = CANCELLED
      /\ r.filled = order.filled /\ r.carry = order.carry
      /\ r.terms = order.terms /\ r.delegate = order.delegate
      /\ r.sequence = order.sequence /\ r.planned = order.planned
  BY DEF Closed, OrderImages
<1>2. r \in OrderImages
  <2> DEFINE none == 0
             status == CANCELLED
  <2>1. none \in Int /\ status \in {LIVE, FILLED, CANCELLED}
    OBVIOUS
  <2>2. r = [order EXCEPT !.remaining = none, !.reserved = none, !.notional = none,
                          !.status = status]
    BY DEF Closed
  <2> HIDE DEF r, none, status
  <2>3. QED
    BY <2>1, <2>2 DEF OrderImages
<1> HIDE DEF r
<1>3. SameOrder(order, r)
  BY <1>1 DEF SameOrder
<1>4. QED
  BY <1>1, <1>2, <1>3 DEF r

LEMMA ClosedSound ==
    ASSUME NEW order \in OrderImages, OrderSound(order)
    PROVE  OrderSound(Closed(order))
<1> DEFINE r == Closed(order)
<1>1. /\ r.reserved = 0 /\ r.notional = 0 /\ r.remaining = 0
      /\ r.filled = order.filled /\ r.carry = order.carry /\ r.terms = order.terms
  BY ClosedEffect DEF SameOrder
<1>2. /\ order.remaining \in Int /\ order.filled \in Int /\ order.terms.quantity \in Nat
      /\ order.terms.price \in Nat
  BY OrderTypes
<1>3. /\ order.remaining >= 0 /\ order.filled >= 0 /\ order.carry \in 0 .. Bps - 1
      /\ order.filled + order.remaining <= order.terms.quantity
  BY DEF OrderSound
<1>4. QuoteUp(0, order.terms.price) = 0
  BY <1>2, QuoteOfNothing
<1> HIDE DEF r
<1>5. r.filled + r.remaining <= r.terms.quantity
  BY <1>1, <1>2, <1>3
<1>6. OrderSound(r)
  BY <1>1, <1>3, <1>4, <1>5 DEF OrderSound
<1>7. QED
  BY <1>6 DEF r

LEMMA ClosedMoved ==
    ASSUME NEW D, IsFiniteSet(D), NEW book \in BookImages(D), AllSound(book), NEW id \in D
    PROVE  BookStep(book, [book EXCEPT ![id] = Closed(book[id])], D, id,
                    FundingAsset(book[id].terms), book[id].reserved, -book[id].notional)
<1> DEFINE order == book[id]
           closed == Closed(order)
           after == [book EXCEPT ![id] = closed]
           a == FundingAsset(order.terms)
<1>1. order \in OrderImages /\ OrderSound(order) /\ DOMAIN book = D
  BY DEF BookImages, AllSound
<1> HIDE DEF order
<1>2. /\ closed \in OrderImages /\ closed.terms = order.terms
      /\ closed.reserved = 0 /\ closed.notional = 0
  BY <1>1, ClosedEffect DEF SameOrder
<1>3. OrderSound(closed)
  BY <1>1, ClosedSound
<1>4. order.reserved \in Nat /\ order.notional \in Nat
  BY <1>1, SoundOrders
<1> HIDE DEF closed
<1>5. SoundAmounts(book)
  BY AllSoundAmounts
<1>6. OrderMoved(after, book, D, id, closed)
  <2>1. /\ closed \in OrderImages /\ closed.terms = book[id].terms
        /\ closed.reserved \in Nat /\ closed.notional \in Nat
    BY <1>2 DEF order
  <2>2. after = [book EXCEPT ![id] = closed]
    OBVIOUS
  <2> HIDE DEF after
  <2>3. QED
    BY <1>5, <2>1, <2>2, BookMoved
<1>7. after \in BookImages(D) /\ AllSound(after)
  <2>1. after \in BookImages(D)
    BY <1>6 DEF OrderMoved
  <2>2. QED
    BY <1>1, <1>3, <2>1 DEF AllSound, BookImages
<1> HIDE DEF after
<1>8. /\ \A x, y : ReservedBy(book, x, y) \in Nat
      /\ \A x : MarketNotional(book, x) \in Nat
      /\ \A x, o : WalletNotional(book, x, o) \in Nat
  BY <1>5, BookSumTypes
<1>9. /\ \A m, c : ReservedBy(after, m, c) = ReservedBy(book, m, c)
           + (IF id.market = m /\ a = c THEN 0 - order.reserved ELSE 0)
      /\ \A m : MarketNotional(after, m) = MarketNotional(book, m)
           + (IF id.market = m THEN 0 - order.notional ELSE 0)
      /\ \A m, o : WalletNotional(after, m, o) = WalletNotional(book, m, o)
           + (IF id.market = m /\ id.owner = o THEN 0 - order.notional ELSE 0)
  BY <1>2, <1>6 DEF OrderMoved, order
<1> HIDE DEF a
<1>10. ASSUME NEW x \in Markets, NEW y \in Assets
       PROVE  ReservedBy(after, x, y) = ReservedBy(book, x, y)
                - (IF x = id.market /\ y = a THEN order.reserved ELSE 0)
  <2>1. ReservedBy(after, x, y) = ReservedBy(book, x, y)
           + (IF id.market = x /\ a = y THEN 0 - order.reserved ELSE 0)
    BY <1>9
  <2>2. ReservedBy(book, x, y) \in Nat
    BY <1>8
  <2>3. QED
    BY <1>4, <2>1, <2>2
<1>11. /\ \A x \in Markets : MarketNotional(after, x) = MarketNotional(book, x)
            + (IF x = id.market THEN -order.notional ELSE 0)
       /\ \A x \in Markets, o \in Owners : WalletNotional(after, x, o) =
            WalletNotional(book, x, o)
              + (IF x = id.market /\ o = id.owner THEN -order.notional ELSE 0)
  <2>1. 0 - order.notional = -order.notional
    BY <1>4
  <2>2. QED
    BY <1>9, <2>1
<1>12. BookStep(book, after, D, id, a, order.reserved, -order.notional)
  BY <1>7, <1>10, <1>11 DEF BookStep
<1>13. QED
  BY <1>12 DEF order, closed, after, a

(* The order on market m can be released: its reservation is of one of the *)
(* market's assets, and goes back to a credit that was lent.               *)
MayReturn(D, m, F, b, id) ==
    LET a == FundingAsset(b.orders[id].terms)
    IN  /\ id \in D /\ id.market = m /\ id.owner \in Owners
        /\ a \in SettledAssets(m)
        /\ a \notin ClaimAssets => id.owner \in F[CollateralOf(a)]

LEMMA ReleaseIs ==
    ASSUME NEW D, NEW b \in Ledgers(D), NEW id \in D, id.market \in Markets,
           id.owner \in Owners, NEW order, order = b.orders[id], NEW a \in Assets,
           a = FundingAsset(order.terms),
           a \notin ClaimAssets => MintOf(id.market, CollateralOf(a)) \in Mints
    PROVE  Release(b, id) = Unreserve(b, id.market, id.owner, a, order.reserved,
                                      -order.notional, [b.orders EXCEPT ![id] = Closed(order)])
<1> DEFINE s == Credit(b, id.market, id.owner, a, order.reserved)
           t == Expose(s, id.market, id.owner, -order.notional)
           closed == Closed(order)
<1>1. order.reserved \in Int /\ order.notional \in Int /\ -order.notional \in Int
  <2>1. order \in OrderImages
    BY DEF Ledgers, BookImages
  <2>2. QED
    BY <2>1, OrderTypes
<1>2. s \in Ledgers(D) /\ Credited(b, id.market, id.owner, a, order.reserved, s)
  BY <1>1, CreditEffect
<1> HIDE DEF s
<1>3. t \in Ledgers(D) /\ Exposed(s, id.market, id.owner, -order.notional, t)
  BY <1>1, <1>2, ExposeEffect
<1>4. t.orders = b.orders /\ t \in Ledgers(D)
  BY <1>2, <1>3 DEF Credited, Exposed
<1>5. Release(b, id) = [t EXCEPT !.escrow[<<id.market, a>>] = @ - order.reserved,
                                 !.orders[id] = closed]
  BY DEF Release, Closed, s
<1>6. Unreserve(b, id.market, id.owner, a, order.reserved, -order.notional,
                [b.orders EXCEPT ![id] = closed])
        = [t EXCEPT !.escrow[<<id.market, a>>] = @ - order.reserved,
                    !.orders = [b.orders EXCEPT ![id] = closed]]
  BY DEF Unreserve, s
<1> HIDE DEF t, closed
<1>7. QED
  BY <1>4, <1>5, <1>6 DEF Ledgers, closed

LEMMA ReleaseEffect ==
    ASSUME LedgersInv, NEW D, NEW m \in Markets, NEW F, NEW b \in Ledgers(D), NEW id,
           MayReturn(D, m, F, b, id)
    PROVE  /\ FillStep(D, b, id, id, Release(b, id))
           /\ Unreserved(D, b, id.market, id.owner, FundingAsset(b.orders[id].terms),
                         b.orders[id].reserved, -b.orders[id].notional,
                         [b.orders EXCEPT ![id] = Closed(b.orders[id])], Release(b, id))
<1> DEFINE order == b.orders[id]
           a == FundingAsset(order.terms)
           n == order.reserved
           v == -order.notional
           closed == Closed(order)
           book == [b.orders EXCEPT ![id] = closed]
           r == Release(b, id)
<1>1. /\ id \in D /\ id.market = m /\ id.owner \in Owners /\ a \in Assets
      /\ a \notin ClaimAssets => MintOf(id.market, CollateralOf(a)) \in Mints
  BY SettledMints DEF MayReturn, SettledAssets
<1>2. order \in OrderImages /\ b.orders \in [D -> OrderImages]
  BY <1>1 DEF Ledgers, BookImages
<1>3. r = Unreserve(b, id.market, id.owner, a, n, v, book)
  BY <1>1, ReleaseIs
<1> HIDE DEF order, r
<1>4. closed \in OrderImages /\ SameOrder(order, closed)
  BY <1>2, ClosedEffect
<1>5. n \in Int /\ v \in Int
  BY <1>2, OrderTypes
<1> HIDE DEF closed
<1>6. book \in BookImages(D)
  BY <1>1, <1>2, <1>4 DEF BookImages
<1> HIDE DEF a, n, v
<1>7. Unreserved(D, b, id.market, id.owner, a, n, v, book, r)
  <2> HIDE DEF book
  <2>1. QED
    BY <1>1, <1>3, <1>5, <1>6, UnreserveEffect
<1>8. r \in Ledgers(D) /\ r.orders = book /\ r.ok = b.ok
  BY <1>7 DEF Unreserved
<1>9. ASSUME NEW x \in D
      PROVE  SameOrder(b.orders[x], r.orders[x]) /\ (x # id => r.orders[x] = b.orders[x])
  BY <1>1, <1>2, <1>4, <1>8 DEF SameOrder, order
<1>10. FillStep(D, b, id, id, r)
  BY <1>8, <1>9 DEF FillStep
<1>11. QED
  BY <1>7, <1>10 DEF order, a, n, v, closed, r

LEMMA ReleaseSettled ==
    ASSUME LedgersInv, NEW D, IsFiniteSet(D), NEW m \in Markets, NEW F \in Lenders, NEW b,
           Balanced(D, m, F, b), NEW id, MayReturn(D, m, F, b, id)
    PROVE  FillKept(D, m, F, b, Release(b, id))
<1> DEFINE order == b.orders[id]
           a == FundingAsset(order.terms)
           n == order.reserved
           v == -order.notional
           book == [b.orders EXCEPT ![id] = Closed(order)]
           r == Release(b, id)
<1>1. /\ id \in D /\ id.market = m /\ id.owner \in Owners
      /\ a \in SettledAssets(m) /\ a \in Assets
      /\ a \notin ClaimAssets => id.owner \in F[CollateralOf(a)]
      /\ a \notin ClaimAssets => MintOf(id.market, CollateralOf(a)) \in Mints
  BY SettledMints DEF MayReturn, SettledAssets
<1>2. /\ b \in Ledgers(D) /\ Images(D, m, F, b) /\ Naturals(b)
      /\ AllSound(b.orders) /\ EscrowKept(b) /\ ExposureKept(b)
  BY DEF Balanced, Images
<1>3. order \in OrderImages /\ b.orders \in BookImages(D) /\ OrderSound(order)
  BY <1>1, <1>2 DEF Ledgers, BookImages, AllSound
<1>4. /\ FillStep(D, b, id, id, r)
      /\ Unreserved(D, b, id.market, id.owner, a, n, v, book, r)
  BY <1>2, ReleaseEffect
<1>5. r = Unreserve(b, id.market, id.owner, a, n, v, book)
  BY <1>1, <1>2, ReleaseIs
<1>6. BookStep(b.orders, book, D, id, a, n, v)
  BY <1>1, <1>2, <1>3, ClosedMoved
<1>7. n \in Nat /\ v \in Int
  <2> HIDE DEF order
  <2>1. QED
    BY <1>3, SoundOrders
<1> HIDE DEF order, a, n, v, book, r
<1>8. Creditable(b, F, m, id.owner, a, n)
  <2>1. CASE a \in ClaimAssets
    <3>1. b.balance[<<m, id.owner, a>>] \in Nat /\ b.credits[<<m, a>>] \in Nat
      BY <1>1, <1>2, <2>1 DEF Naturals
    <3>2. QED
      BY <1>7, <2>1, <3>1 DEF Creditable
  <2>2. CASE a \notin ClaimAssets
    <3>1. b.available[<<MintOf(m, CollateralOf(a)), id.owner>>] \in Nat
      BY <1>1, <1>2, <2>2 DEF Naturals
    <3>2. QED
      BY <1>1, <1>7, <2>2, <3>1 DEF Creditable
  <2>3. QED
    BY <2>1, <2>2
<1>9. BooksKept(r)
  <2>1. id.market \in Markets /\ a \in Assets /\ n \in Int /\ v \in Int
    BY <1>1, <1>7
  <2>2. QED
    BY <1>1, <1>2, <1>4, <1>6, <2>1, UnreservedBalanced
<1>10. book \in BookImages(D)
  BY <1>6 DEF BookStep
<1>11. SameNet(D, m, F, b, r)
  <2>1. SameNet(D, m, F, b, Unreserve(b, m, id.owner, a, n, v, book))
    BY <1>1, <1>2, <1>7, <1>8, <1>10, UnreserveSettled
  <2>2. QED
    BY <1>1, <1>5, <2>1
<1>12. ASSUME NEW x \in D PROVE StaysClosed(b.orders[x], r.orders[x])
  <2>1. r.orders = book
    BY <1>4 DEF Unreserved
  <2>2. r.orders[x] = IF x = id THEN Closed(order) ELSE b.orders[x]
    BY <1>1, <1>3, <2>1 DEF book, BookImages
  <2>3. Closed(order).status # LIVE
    BY <1>3, ClosedEffect, SidesDistinct
  <2>4. QED
    BY <2>2, <2>3 DEF StaysClosed
<1>13. QED
  BY <1>9, <1>11, <1>12 DEF FillKept, Balanced, BooksKept, SameNet, r

(* The images after each order of a batch. *)
Released(after, ids) ==
    after = [i \in 0 .. Len(ids) |->
      IF i = 0 THEN Ledger
      ELSE IF IsLive(ids[i]) THEN Release(after[i - 1], ids[i]) ELSE after[i - 1]]

LEMMA ReleasedAt ==
    ASSUME NEW ids, Len(ids) \in Nat
    PROVE  \E after : Released(after, ids) /\ ReleaseAll(ids) = after[Len(ids)]
<1> DEFINE n == Len(ids)
           Turn(g, i) == IF i = 0 THEN Ledger
                         ELSE IF IsLive(ids[i]) THEN Release(g[i - 1], ids[i]) ELSE g[i - 1]
           T == {k \in 0 .. n : \E g : g = [i \in 0 .. k |-> Turn(g, i)]}
<1>1. 0 \in T
  <2> DEFINE g == [i \in 0 .. 0 |-> Ledger]
  <2>1. g = [i \in 0 .. 0 |-> Turn(g, i)]
    OBVIOUS
  <2>2. \E f : f = [i \in 0 .. 0 |-> Turn(f, i)]
    <3> HIDE DEF g, Turn
    <3>1. QED
      BY <2>1
  <2>3. QED
    BY <2>2
<1>2. ASSUME NEW k \in 1 .. n, k - 1 \in T
      PROVE  k \in T
  <2>1. PICK g : g = [i \in 0 .. k - 1 |-> Turn(g, i)]
    BY <1>2
  <2> DEFINE h == [i \in 0 .. k |-> IF i < k THEN g[i] ELSE Turn(g, k)]
  <2>2. \A i \in 0 .. k : Turn(h, i) = h[i]
    <3> TAKE i \in 0 .. k
    <3>1. CASE i = 0
      BY <2>1, <3>1
    <3>2. CASE i \in 1 .. k - 1
      <4>1. h[i - 1] = g[i - 1] /\ h[i] = g[i] /\ i \in 0 .. k - 1 /\ i # 0
        BY <3>2
      <4>2. g[i] = Turn(g, i)
        BY <2>1, <4>1
      <4>3. QED
        BY <4>1, <4>2
    <3>3. CASE i = k
      <4>1. h[k - 1] = g[k - 1] /\ h[k] = Turn(g, k) /\ k # 0
        OBVIOUS
      <4>2. QED
        BY <3>3, <4>1
    <3>4. QED
      BY <3>1, <3>2, <3>3
  <2>3. h = [i \in 0 .. k |-> Turn(h, i)]
    <3> HIDE DEF Turn
    <3>1. QED
      BY <2>2
  <2>4. \E f : f = [i \in 0 .. k |-> Turn(f, i)]
    <3> HIDE DEF h, Turn
    <3>1. QED
      BY <2>3
  <2>5. QED
    BY <2>4
<1>3. n \in T
  <2> HIDE DEF T
  <2>1. QED
    BY <1>1, <1>2, UpTo
<1>4. QED
  BY <1>3 DEF ReleaseAll, Released

(* The live orders S of a batch are closed, and nothing else changed.      *)
Releasing(D, m, F, b, S, r) ==
    /\ r \in Ledgers(D) /\ r.minted = b.minted
    /\ \A id \in D : IF id \in S THEN r.orders[id] = Closed(b.orders[id])
                                 ELSE r.orders[id] = b.orders[id]
    /\ IsFiniteSet(D) /\ Balanced(D, m, F, b) => FillKept(D, m, F, b, r)

LEMMA ReleasingStarts ==
    ASSUME NEW D, NEW m, NEW F, NEW b \in Ledgers(D)
    PROVE  Releasing(D, m, F, b, {}, b)
BY DEF Releasing, FillKept, StaysClosed

LEMMA ReleasingContinues ==
    ASSUME LedgersInv, NEW D, NEW m \in Markets, NEW F \in Lenders, NEW b \in Ledgers(D), NEW S,
           NEW r, Releasing(D, m, F, b, S, r), NEW id, id \notin S, MayReturn(D, m, F, b, id)
    PROVE  Releasing(D, m, F, b, S \cup {id}, Release(r, id))
<1> DEFINE t == Release(r, id)
<1>1. /\ r \in Ledgers(D) /\ id \in D /\ r.orders[id] = b.orders[id] /\ r.minted = b.minted
      /\ IsFiniteSet(D) /\ Balanced(D, m, F, b) => FillKept(D, m, F, b, r)
  BY DEF Releasing, MayReturn
<1>2. MayReturn(D, m, F, r, id)
  BY <1>1 DEF MayReturn
<1>3. Unreserved(D, r, id.market, id.owner, FundingAsset(r.orders[id].terms),
                 r.orders[id].reserved, -r.orders[id].notional,
                 [r.orders EXCEPT ![id] = Closed(r.orders[id])], t)
  BY <1>1, <1>2, ReleaseEffect
<1>4. ASSUME IsFiniteSet(D), Balanced(D, m, F, r)
      PROVE  FillKept(D, m, F, r, t)
  BY <1>2, <1>4, ReleaseSettled
<1> HIDE DEF t
<1>5. /\ t \in Ledgers(D) /\ t.orders = [r.orders EXCEPT ![id] = Closed(r.orders[id])]
      /\ t.minted = r.minted
  BY <1>3 DEF Unreserved
<1>6. ASSUME NEW x \in D
      PROVE  IF x \in S \cup {id} THEN t.orders[x] = Closed(b.orders[x])
                                  ELSE t.orders[x] = b.orders[x]
  <2>1. r.orders \in [D -> OrderImages]
    BY <1>1 DEF Ledgers, BookImages
  <2>2. t.orders[x] = IF x = id THEN Closed(r.orders[id]) ELSE r.orders[x]
    BY <1>5, <2>1
  <2>3. IF x \in S THEN r.orders[x] = Closed(b.orders[x]) ELSE r.orders[x] = b.orders[x]
    BY DEF Releasing
  <2>4. QED
    BY <1>1, <2>2, <2>3
<1>7. ASSUME IsFiniteSet(D), Balanced(D, m, F, b)
      PROVE  FillKept(D, m, F, b, t)
  <2>1. FillKept(D, m, F, b, r)
    BY <1>1, <1>7
  <2>2. FillKept(D, m, F, r, t)
    BY <1>4, <1>7, <2>1 DEF FillKept
  <2>3. /\ Balanced(D, m, F, t)
        /\ \A x \in SettledAssets(m) : NetHolding(t, F, m, x) = NetHolding(b, F, m, x)
    BY <2>1, <2>2 DEF FillKept
  <2>4. \A x \in D : StaysClosed(b.orders[x], t.orders[x])
    BY <2>1, <2>2 DEF FillKept, StaysClosed
  <2>5. QED
    BY <2>3, <2>4 DEF FillKept
<1>8. t.minted = b.minted
  BY <1>1, <1>5
<1>9. QED
  BY <1>5, <1>6, <1>7, <1>8 DEF Releasing, t

(* Every live order of a batch is released.                                *)
LEMMA ReleaseAllSettled ==
    ASSUME LedgersInv, NEW D, NEW m \in Markets, NEW F \in Lenders, Ledger \in Ledgers(D),
           NEW ids, Len(ids) \in Nat,
           \A i, j \in 1 .. Len(ids) : i # j => ids[i] # ids[j],
           \A i \in 1 .. Len(ids) : IsLive(ids[i]) => MayReturn(D, m, F, Ledger, ids[i])
    PROVE  Releasing(D, m, F, Ledger, {x \in {ids[i] : i \in 1 .. Len(ids)} : IsLive(x)},
                     ReleaseAll(ids))
<1> DEFINE n == Len(ids)
           Gone(k) == {x \in {ids[i] : i \in 1 .. k} : IsLive(x)}
<1>1. PICK after : Released(after, ids) /\ ReleaseAll(ids) = after[Len(ids)]
  BY ReleasedAt
<1>2. after = [i \in 0 .. n |->
        IF i = 0 THEN Ledger
        ELSE IF IsLive(ids[i]) THEN Release(after[i - 1], ids[i]) ELSE after[i - 1]]
  BY <1>1 DEF Released
<1> DEFINE T == {k \in 0 .. n : Releasing(D, m, F, Ledger, Gone(k), after[k])}
<1>3. 0 \in T
  <2>1. Gone(0) = {}
    OBVIOUS
  <2>2. after[0] = Ledger
    BY <1>2
  <2>3. Releasing(D, m, F, Ledger, {}, Ledger)
    BY ReleasingStarts
  <2> HIDE DEF Gone
  <2>4. Releasing(D, m, F, Ledger, Gone(0), after[0])
    BY <2>1, <2>2, <2>3
  <2>5. 0 \in 0 .. n
    OBVIOUS
  <2>6. QED
    BY <2>4, <2>5
<1>4. ASSUME NEW k \in 1 .. n, k - 1 \in T
      PROVE  k \in T
  <2>1. Releasing(D, m, F, Ledger, Gone(k - 1), after[k - 1])
    BY <1>4
  <2>2. CASE IsLive(ids[k])
    <3>1. after[k] = Release(after[k - 1], ids[k])
      BY <1>2, <2>2
    <3>2. Gone(k) = Gone(k - 1) \cup {ids[k]}
      <4>1. 1 .. k = (1 .. k - 1) \cup {k}
        OBVIOUS
      <4>2. {ids[i] : i \in 1 .. k} = {ids[i] : i \in 1 .. k - 1} \cup {ids[k]}
        BY <4>1
      <4>3. QED
        BY <2>2, <4>2
    <3>3. ids[k] \notin Gone(k - 1)
      <4>1. \A i \in 1 .. k - 1 : i # k /\ i \in 1 .. n
        OBVIOUS
      <4>2. QED
        BY <4>1
    <3>4. MayReturn(D, m, F, Ledger, ids[k])
      BY <2>2
    <3> HIDE DEF Gone
    <3>5. QED
      BY <2>1, <3>1, <3>2, <3>3, <3>4, ReleasingContinues
  <2>3. CASE ~IsLive(ids[k])
    <3>1. after[k] = after[k - 1]
      BY <1>2, <2>3
    <3>2. Gone(k) = Gone(k - 1)
      <4>1. 1 .. k = (1 .. k - 1) \cup {k}
        OBVIOUS
      <4>2. {ids[i] : i \in 1 .. k} = {ids[i] : i \in 1 .. k - 1} \cup {ids[k]}
        BY <4>1
      <4>3. QED
        BY <2>3, <4>2
    <3> HIDE DEF Gone
    <3>3. QED
      BY <2>1, <3>1, <3>2
  <2>4. QED
    BY <2>2, <2>3
<1>5. n \in T
  <2> HIDE DEF T
  <2>1. QED
    BY <1>3, <1>4, UpTo
<1>6. QED
  BY <1>1, <1>5

=============================================================================
