-------------------------- MODULE ExchangeProofs --------------------------
(***************************************************************************)
(* Proofs about the order book of Exchange: what a placement, a            *)
(* cancellation and a batch write back keeps the books exact, an order is  *)
(* placed once, resting orders cross only where the later plan could see   *)
(* the earlier one, a delegate stays within its budget, and an order       *)
(* trades only while it is wanted.                                         *)
(***************************************************************************)
EXTENDS SettlementProofs

----------------------------------------------------------------------------
(* A new order enters the book.                                            *)

LEMMA SumExtended ==
    ASSUME NEW S, IsFiniteSet(S), NEW x, x \notin S, NEW f \in [S \cup {x} -> Nat]
    PROVE  Sum(f) = Sum([y \in S |-> f[y]]) + f[x]
<1>1. IsFiniteSet(S \cup {x}) /\ (S \cup {x}) \ {x} = S
  BY FS_AddElement
<1>2. Sum(f) = Sum([y \in (S \cup {x}) \ {x} |-> f[y]]) + f[x]
  BY <1>1, SumAt
<1>3. QED
  BY <1>1, <1>2

(* What is counted of an order that was not in the book.                   *)
OneMore(D, id, S, T, mine, f, g) ==
    Sum([x \in T |-> g[x]]) = Sum([x \in S |-> f[x]]) + (IF mine THEN g[id] ELSE 0)

LEMMA BookSumExtended ==
    ASSUME NEW D, IsFiniteSet(D), NEW id, id \notin D, NEW S \in SUBSET D, NEW T,
           NEW mine \in BOOLEAN, T = S \cup (IF mine THEN {id} ELSE {}),
           NEW f \in [D -> Nat], NEW g \in [D \cup {id} -> Nat], \A x \in D : g[x] = f[x]
    PROVE  OneMore(D, id, S, T, mine, f, g)
<1> DEFINE u == [x \in S |-> f[x]]
           v == [x \in T |-> g[x]]
<1>1. IsFiniteSet(S) /\ id \notin S
  BY FS_Subset
<1>2. u \in [S -> Nat]
  OBVIOUS
<1>3. Sum(u) \in Nat
  <2> HIDE DEF u
  <2>1. QED
    BY <1>1, <1>2, SumType
<1>4. CASE mine
  <2>1. T = S \cup {id}
    BY <1>4
  <2>2. v \in [S \cup {id} -> Nat] /\ v[id] = g[id] /\ [y \in S |-> v[y]] = u
    BY <2>1
  <2> HIDE DEF u, v
  <2>3. Sum(v) = Sum([y \in S |-> v[y]]) + v[id]
    BY <1>1, <2>2, SumExtended
  <2>4. Sum(v) = Sum(u) + g[id]
    BY <2>2, <2>3
  <2>5. QED
    BY <1>4, <2>4 DEF OneMore, u, v
<1>5. CASE ~mine
  <2>1. T = S
    BY <1>5
  <2>2. v = u
    BY <2>1
  <2> HIDE DEF u
  <2>3. Sum(v) = Sum(u) + 0
    BY <1>3, <2>2
  <2> HIDE DEF v
  <2>4. QED
    BY <1>5, <2>3 DEF OneMore, u, v
<1>6. QED
  BY <1>4, <1>5 DEF OneMore

LEMMA BookGrown ==
    ASSUME NEW D, IsFiniteSet(D), NEW book \in BookImages(D), AllSound(book),
           NEW id, id \notin D, NEW order \in OrderImages, OrderSound(order), NEW after,
           after = [x \in D \cup {id} |-> IF x = id THEN order ELSE book[x]]
    PROVE  BookStep(book, after, D \cup {id}, id, FundingAsset(order.terms),
                    -order.reserved, order.notional)
<1> DEFINE E == D \cup {id}
           a == FundingAsset(order.terms)
<1>1. /\ DOMAIN book = D /\ DOMAIN after = E /\ after[id] = order
      /\ \A x \in D : after[x] = book[x] /\ x # id
  BY DEF BookImages
<1>2. after \in BookImages(E) /\ AllSound(after)
  BY <1>1 DEF BookImages, AllSound
<1>3. order.reserved \in Nat /\ order.notional \in Nat
  BY SoundOrders
<1>4. \A x \in D : book[x].reserved \in Nat /\ book[x].notional \in Nat
  BY <1>1, AllSoundAmounts DEF SoundAmounts
<1> DEFINE f == [x \in D |-> book[x].reserved]
           g == [x \in E |-> after[x].reserved]
           p == [x \in D |-> book[x].notional]
           q == [x \in E |-> after[x].notional]
<1>5. /\ f \in [D -> Nat] /\ g \in [E -> Nat] /\ \A x \in D : g[x] = f[x]
      /\ g[id] = order.reserved
  BY <1>1, <1>3, <1>4
<1>6. /\ p \in [D -> Nat] /\ q \in [E -> Nat] /\ \A x \in D : q[x] = p[x]
      /\ q[id] = order.notional
  BY <1>1, <1>3, <1>4
<1>7. SoundAmounts(book)
  BY AllSoundAmounts
<1>8. /\ \A x, y : ReservedBy(book, x, y) \in Nat
      /\ \A x : MarketNotional(book, x) \in Nat
      /\ \A x, o : WalletNotional(book, x, o) \in Nat
  BY <1>7, BookSumTypes
<1>9. ASSUME NEW x \in Markets, NEW y \in Assets
      PROVE  ReservedBy(after, x, y) = ReservedBy(book, x, y)
               - (IF x = id.market /\ y = a THEN -order.reserved ELSE 0)
  <2> DEFINE S == {i \in D : i.market = x /\ FundingAsset(book[i].terms) = y}
             T == {i \in E : i.market = x /\ FundingAsset(after[i].terms) = y}
             mine == x = id.market /\ y = a
  <2>1. T = S \cup (IF mine THEN {id} ELSE {})
    BY <1>1
  <2>2. /\ ReservedBy(book, x, y) = Sum([i \in S |-> f[i]])
        /\ ReservedBy(after, x, y) = Sum([i \in T |-> g[i]])
    <3>1. /\ [i \in S |-> f[i]] = [i \in S |-> book[i].reserved]
          /\ [i \in T |-> g[i]] = [i \in T |-> after[i].reserved]
      OBVIOUS
    <3> HIDE DEF f, g
    <3>2. QED
      BY <1>1, <3>1 DEF ReservedBy
  <2>3. S \in SUBSET D /\ mine \in BOOLEAN
    OBVIOUS
  <2> HIDE DEF S, T, mine, f, g
  <2>4. Sum([i \in T |-> g[i]]) = Sum([i \in S |-> f[i]]) + (IF mine THEN g[id] ELSE 0)
    <3>1. OneMore(D, id, S, T, mine, f, g)
      BY <1>5, <2>1, <2>3, BookSumExtended
    <3>2. QED
      BY <3>1 DEF OneMore
  <2>5. ReservedBy(book, x, y) \in Nat
    BY <1>8
  <2>6. QED
    BY <1>3, <1>5, <2>2, <2>4, <2>5 DEF mine
<1>10. ASSUME NEW x \in Markets
       PROVE  MarketNotional(after, x) = MarketNotional(book, x)
                + (IF x = id.market THEN order.notional ELSE 0)
  <2> DEFINE S == {i \in D : i.market = x}
             T == {i \in E : i.market = x}
             mine == x = id.market
  <2>1. T = S \cup (IF mine THEN {id} ELSE {})
    BY <1>1
  <2>2. /\ MarketNotional(book, x) = Sum([i \in S |-> p[i]])
        /\ MarketNotional(after, x) = Sum([i \in T |-> q[i]])
    <3>1. /\ [i \in S |-> p[i]] = [i \in S |-> book[i].notional]
          /\ [i \in T |-> q[i]] = [i \in T |-> after[i].notional]
      OBVIOUS
    <3> HIDE DEF p, q
    <3>2. QED
      BY <1>1, <3>1 DEF MarketNotional
  <2>3. S \in SUBSET D /\ mine \in BOOLEAN
    OBVIOUS
  <2> HIDE DEF S, T, mine, p, q
  <2>4. Sum([i \in T |-> q[i]]) = Sum([i \in S |-> p[i]]) + (IF mine THEN q[id] ELSE 0)
    <3>1. OneMore(D, id, S, T, mine, p, q)
      BY <1>6, <2>1, <2>3, BookSumExtended
    <3>2. QED
      BY <3>1 DEF OneMore
  <2>5. QED
    BY <1>6, <2>2, <2>4 DEF mine
<1>11. ASSUME NEW x \in Markets, NEW o \in Owners
       PROVE  WalletNotional(after, x, o) = WalletNotional(book, x, o)
                + (IF x = id.market /\ o = id.owner THEN order.notional ELSE 0)
  <2> DEFINE S == {i \in D : i.market = x /\ i.owner = o}
             T == {i \in E : i.market = x /\ i.owner = o}
             mine == x = id.market /\ o = id.owner
  <2>1. T = S \cup (IF mine THEN {id} ELSE {})
    BY <1>1
  <2>2. /\ WalletNotional(book, x, o) = Sum([i \in S |-> p[i]])
        /\ WalletNotional(after, x, o) = Sum([i \in T |-> q[i]])
    <3>1. /\ [i \in S |-> p[i]] = [i \in S |-> book[i].notional]
          /\ [i \in T |-> q[i]] = [i \in T |-> after[i].notional]
      OBVIOUS
    <3> HIDE DEF p, q
    <3>2. QED
      BY <1>1, <3>1 DEF WalletNotional
  <2>3. S \in SUBSET D /\ mine \in BOOLEAN
    OBVIOUS
  <2> HIDE DEF S, T, mine, p, q
  <2>4. Sum([i \in T |-> q[i]]) = Sum([i \in S |-> p[i]]) + (IF mine THEN q[id] ELSE 0)
    <3>1. OneMore(D, id, S, T, mine, p, q)
      BY <1>6, <2>1, <2>3, BookSumExtended
    <3>2. QED
      BY <3>1 DEF OneMore
  <2>5. QED
    BY <1>6, <2>2, <2>4 DEF mine
<1>12. QED
  BY <1>2, <1>9, <1>10, <1>11 DEF BookStep

----------------------------------------------------------------------------
(* The books between two instructions.                                     *)

OrderIds == [market : Markets, owner : Owners, salt : Salts]

TradesListed(m, terms) ==
    market[m].state # NONE /\ terms.bases # {} /\ terms.bases \subseteq 1 .. market[m].bases

OrdersType ==
    /\ IsFiniteSet(DOMAIN orders) /\ orders \in BookImages(DOMAIN orders)
    /\ DOMAIN orders \subseteq OrderIds
    /\ sequence \in [Markets \X {0, 1} -> Nat]
    /\ exposure \in ExposureImages /\ held \in HeldImages

OrdersListed == \A id \in DOMAIN orders : TradesListed(id.market, orders[id].terms)

BookInv == LedgersInv /\ OrdersType /\ OrdersListed /\ BooksKept(Ledger)

(* The assets an order delivers and is funded with are its market's.       *)
LEMMA TradedAssets ==
    ASSUME LedgersInv, NEW m \in Markets, NEW order \in OrderImages, TradesListed(m, order.terms)
    PROVE  /\ Listed(m, QUOTE) /\ Delivers(order.terms) \in Collaterals
           /\ Listed(m, Delivers(order.terms))
           /\ order.terms.side # BUY => Delivers(order.terms) \in order.terms.bases
           /\ FundingAsset(order.terms) \in SettledAssets(m)
           /\ CollateralOf(FundingAsset(order.terms)) = Delivers(order.terms)
           /\ order.terms.funding = UNDERLYING <=> FundingAsset(order.terms) \notin ClaimAssets
<1> DEFINE terms == order.terms
           d == Delivers(terms)
<1>1. market[m].bases \in Nat /\ market[m].bases <= MaxBases /\ MaxBases \in Nat
  <2>1. market[m].bases \in Collaterals
    BY MarketRecord DEF LedgersInv, CustodyInv, ListingInv
  <2>2. QED
    BY <2>1, CollateralRange DEF Collaterals
<1>2. /\ market[m].state # NONE /\ terms.bases # {} /\ terms.bases \subseteq 1 .. market[m].bases
  BY DEF TradesListed
<1>3. d = QUOTE \/ d \in terms.bases
  BY <1>2 DEF Delivers
<1>4. terms.side # BUY => d \in terms.bases
  BY <1>2 DEF Delivers
<1>5. QUOTE = 0
  BY DEF QUOTE
<1> HIDE DEF d
<1>6. d \in 0 .. market[m].bases /\ d \in 0 .. MaxBases /\ QUOTE \in 0 .. market[m].bases
  BY <1>1, <1>2, <1>3, <1>5
<1>7. Listed(m, d) /\ Listed(m, QUOTE) /\ d \in Collaterals
  BY <1>2, <1>6 DEF Listed, Collaterals
<1> USE DEF d
<1>8. /\ FundingAsset(terms) \in Assets
      /\ CollateralOf(FundingAsset(terms)) = d
      /\ terms.funding = UNDERLYING => FundingAsset(terms) \notin ClaimAssets
      /\ terms.funding # UNDERLYING => FundingAsset(terms) \in ClaimAssets
  BY <1>7, Funding
<1> HIDE DEF d
<1>9. FundingAsset(terms) \in SettledAssets(m)
  BY <1>7, <1>8 DEF SettledAssets
<1>10. QED
  BY <1>4, <1>7, <1>8, <1>9 DEF d

LEMMA NatsInts == \A S, f : f \in [S -> Nat] => f \in [S -> Int]
OBVIOUS

LEMMA U64Functions == \A S, f : f \in [S -> U64] => f \in [S -> Nat] /\ f \in [S -> Int]
<1> SUFFICES ASSUME NEW S, NEW f \in [S -> U64] PROVE f \in [S -> Nat] /\ f \in [S -> Int]
  OBVIOUS
<1>1. \A x \in S : f[x] \in Nat
  BY U64Nat
<1>2. f \in [S -> Nat]
  BY <1>1
<1>3. QED
  BY <1>2, NatsInts

LEMMA LedgerImages ==
    ASSUME LedgersInv, OrdersType, NEW m \in Markets, NEW F
    PROVE  Images(DOMAIN orders, m, F, Ledger)
<1> DEFINE b == Ledger
<1>1. /\ b.available = available /\ b.balance = balance /\ b.credits = credits
      /\ b.escrow = escrow /\ b.backing = backing /\ b.fees = fees /\ b.orders = orders
      /\ b.exposure = exposure /\ b.held = held /\ b.minted = [c \in Collaterals |-> 0]
      /\ b.ok = TRUE
  BY DEF Ledger
<1>2. /\ available \in [Mints \X Owners -> U64]
      /\ balance \in [Markets \X Owners \X ClaimAssets -> U64]
      /\ credits \in [Markets \X ClaimAssets -> Nat]
      /\ escrow \in [Markets \X Assets -> Nat]
      /\ backing \in [Markets \X Collaterals -> U64]
      /\ fees \in [Markets \X ClaimAssets -> U64]
      /\ CreditLedgerExact
  BY DEF LedgersInv, LedgersExact, CustodyInv, CustodyType, ListingInv, PoolType
<1>3. /\ available \in [Mints \X Owners -> Nat] /\ available \in CreditImages
      /\ balance \in [Markets \X Owners \X ClaimAssets -> Nat] /\ balance \in BalanceImages
      /\ credits \in ClaimImages /\ escrow \in EscrowImages
  <2>1. available \in [Mints \X Owners -> Nat] /\ available \in CreditImages
    BY <1>2, U64Functions DEF CreditImages
  <2>2. balance \in [Markets \X Owners \X ClaimAssets -> Nat] /\ balance \in BalanceImages
    BY <1>2, U64Functions DEF BalanceImages
  <2>3. credits \in ClaimImages /\ escrow \in EscrowImages
    BY <1>2, NatsInts DEF ClaimImages, EscrowImages
  <2>4. QED
    BY <2>1, <2>2, <2>3
<1>4. /\ backing \in [Markets \X Collaterals -> Nat] /\ backing \in BackingImages
      /\ fees \in [Markets \X ClaimAssets -> Nat] /\ fees \in ClaimImages
  <2>1. backing \in [Markets \X Collaterals -> Nat] /\ backing \in BackingImages
    BY <1>2, U64Functions DEF BackingImages
  <2>2. fees \in [Markets \X ClaimAssets -> Nat] /\ fees \in ClaimImages
    BY <1>2, U64Functions DEF ClaimImages
  <2>3. QED
    BY <2>1, <2>2
<1>5. /\ b.minted \in [Collaterals -> Nat] /\ b.minted \in MintedImages
      /\ \A c \in Collaterals : b.minted[c] = 0
  BY <1>1 DEF MintedImages
<1>6. b \in Ledgers(DOMAIN orders)
  <2>1. /\ orders \in BookImages(DOMAIN orders) /\ exposure \in ExposureImages
        /\ held \in HeldImages /\ [c \in Collaterals |-> 0] \in MintedImages
    BY <1>1, <1>5 DEF OrdersType
  <2>2. QED
    BY <1>3, <1>4, <2>1 DEF Ledger, Ledgers
<1> HIDE DEF b
<1>7. Naturals(b)
  BY <1>1, <1>2, <1>3, <1>4, <1>5 DEF Naturals
<1>8. Wallets(m, b)
  BY <1>1, <1>2 DEF CreditLedgerExact, BalancesOf, Wallets
<1>9. Backed(m, b)
  BY <1>1, <1>4, <1>5 DEF Backed
<1>10. LocalCredits(m, F, b) /\ LocalBooks(m, b) /\ LocalEscrow(m, b)
  BY <1>1 DEF LocalCredits, LocalBooks, LocalEscrow
<1>11. QED
  BY <1>6, <1>7, <1>8, <1>9, <1>10 DEF Images, b

LEMMA LedgerBalanced ==
    ASSUME BookInv, NEW m \in Markets, NEW F
    PROVE  Balanced(DOMAIN orders, m, F, Ledger)
BY LedgerImages DEF BookInv, Balanced, BooksKept

LEMMA LedgerFields ==
    /\ Ledger.available = available /\ Ledger.balance = balance /\ Ledger.credits = credits
    /\ Ledger.escrow = escrow /\ Ledger.backing = backing /\ Ledger.fees = fees
    /\ Ledger.orders = orders /\ Ledger.exposure = exposure /\ Ledger.held = held
    /\ Ledger.minted = [c \in Collaterals |-> 0] /\ Ledger.ok = TRUE
BY DEF Ledger

----------------------------------------------------------------------------
(* The images once a new order's collateral is in escrow.                  *)

NewOrder(id, terms, delegate, reserved, notional, planned) ==
    [terms |-> terms, delegate |-> delegate, remaining |-> terms.quantity,
     filled |-> 0, reserved |-> reserved, notional |-> notional,
     sequence |-> sequence[<<id.market, terms.branch>>], carry |-> 0,
     status |-> LIVE, planned |-> planned]

WithOrder(id, order) ==
    [x \in DOMAIN orders \cup {id} |-> IF x = id THEN order ELSE orders[x]]

(* The order id is new, and its owner's funds were lent to the instruction. *)
Offered(id, terms, delegate, F) ==
    /\ id \in OrderIds /\ id \notin DOMAIN orders
    /\ terms \in SignedTerms /\ delegate \in Delegates \cup {NoKey}
    /\ TradesListed(id.market, terms)
    /\ terms.funding = UNDERLYING => id.owner \in F[Delivers(terms)]

LEMMA LedgersEqual ==
    ASSUME NEW E, NEW r \in Ledgers(E), NEW t \in Ledgers(E),
           r.available = t.available, r.balance = t.balance, r.credits = t.credits,
           r.escrow = t.escrow, r.backing = t.backing, r.fees = t.fees,
           r.orders = t.orders, r.exposure = t.exposure, r.held = t.held,
           r.minted = t.minted, r.ok = t.ok
    PROVE  r = t
BY DEF Ledgers

LEMMA NewOrderType ==
    ASSUME OrdersType, NEW id \in OrderIds, NEW terms \in SignedTerms,
           NEW delegate \in Delegates \cup {NoKey}, NEW reserved \in Int, NEW notional \in Int,
           NEW planned \in Int
    PROVE  NewOrder(id, terms, delegate, reserved, notional, planned) \in OrderImages
<1>1. terms.quantity \in Nat /\ terms.branch \in {0, 1}
  BY U64Nat DEF SignedTerms
<1>2. sequence[<<id.market, terms.branch>>] \in Nat
  BY <1>1 DEF OrdersType, OrderIds
<1>3. QED
  BY <1>1, <1>2 DEF NewOrder, OrderImages

LEMMA ReserveIs ==
    ASSUME LedgersInv, OrdersType, NEW F \in Lenders, NEW id, NEW terms, NEW delegate,
           Offered(id, terms, delegate, F), NEW reserved \in Int, NEW notional \in Int,
           NEW planned \in Int, NEW order,
           order = NewOrder(id, terms, delegate, reserved, notional, planned)
    PROVE  Reserve(id, terms, delegate, reserved, notional, planned)
             = Unreserve(Ledger, id.market, id.owner, FundingAsset(terms), -reserved, notional,
                         WithOrder(id, order))
<1> DEFINE E == DOMAIN orders \cup {id}
           m == id.market
           o == id.owner
           a == FundingAsset(terms)
           accounts == WithOrder(id, order)
           l == [Ledger EXCEPT !.orders = accounts]
           s == Credit(l, m, o, a, -reserved)
           t == Expose(s, m, o, notional)
           u == Credit(Ledger, m, o, a, -reserved)
           v == Expose(u, m, o, notional)
           e == [escrow EXCEPT ![<<m, a>>] = escrow[<<m, a>>] + reserved]
           r == Reserve(id, terms, delegate, reserved, notional, planned)
           z == Unreserve(Ledger, m, o, a, -reserved, notional, accounts)
<1>1. /\ m \in Markets /\ o \in Owners /\ id \in OrderIds /\ id \notin DOMAIN orders
      /\ terms \in SignedTerms /\ delegate \in Delegates \cup {NoKey} /\ TradesListed(m, terms)
  BY DEF Offered, OrderIds
<1>2. order \in OrderImages
  BY <1>1, NewOrderType
<1>3. order.terms = terms
  BY DEF NewOrder
<1>4. /\ a \in SettledAssets(m) /\ a \in Assets
      /\ a \notin ClaimAssets => MintOf(m, CollateralOf(a)) \in Mints
  <2>1. FundingAsset(order.terms) \in SettledAssets(m)
    BY <1>1, <1>2, <1>3, TradedAssets
  <2>2. QED
    BY <1>1, <1>3, <2>1, SettledMints DEF SettledAssets
<1>5. orders \in BookImages(DOMAIN orders) /\ Ledger \in Ledgers(DOMAIN orders)
  BY <1>1, LedgerImages DEF OrdersType, Images
<1>6. accounts \in BookImages(E)
  BY <1>2, <1>5 DEF BookImages, WithOrder
<1>7. accounts = [x \in E |-> IF x = id THEN order ELSE orders[x]]
  BY DEF WithOrder
<1>8. /\ Ledger.available = available /\ Ledger.balance = balance /\ Ledger.credits = credits
      /\ Ledger.escrow = escrow /\ Ledger.backing = backing /\ Ledger.fees = fees
      /\ Ledger.orders = orders /\ Ledger.exposure = exposure /\ Ledger.held = held
  BY LedgerFields
<1>9. -reserved \in Int
  OBVIOUS
<1>10. r = [t EXCEPT !.escrow[<<m, a>>] = @ + reserved]
  BY DEF Reserve, NewOrder, WithOrder
<1>11. z = [v EXCEPT !.escrow[<<m, a>>] = @ - (-reserved), !.orders = accounts]
  BY DEF Unreserve
<1>12. e \in EscrowImages /\ escrow[<<m, a>>] + reserved = escrow[<<m, a>>] - (-reserved)
  BY <1>1, <1>4, <1>5, <1>8 DEF Ledgers, EscrowImages
<1> HIDE DEF m, o, a, accounts, E, r, z
<1>13. /\ l \in Ledgers(E) /\ l.orders = accounts
       /\ l.available = Ledger.available /\ l.balance = Ledger.balance
       /\ l.credits = Ledger.credits /\ l.escrow = Ledger.escrow
       /\ l.backing = Ledger.backing /\ l.fees = Ledger.fees
       /\ l.exposure = Ledger.exposure /\ l.held = Ledger.held
       /\ l.minted = Ledger.minted /\ l.ok = Ledger.ok
  BY <1>5, <1>6 DEF Ledgers
<1> HIDE DEF l
<1>14. s \in Ledgers(E) /\ Credited(l, m, o, a, -reserved, s)
  BY <1>1, <1>4, <1>9, <1>13, CreditEffect
<1>15. u \in Ledgers(DOMAIN orders) /\ Credited(Ledger, m, o, a, -reserved, u)
  BY <1>1, <1>4, <1>5, <1>9, CreditEffect
<1> HIDE DEF s, u
<1>16. t \in Ledgers(E) /\ Exposed(s, m, o, notional, t)
  BY <1>1, <1>14, ExposeEffect
<1>17. v \in Ledgers(DOMAIN orders) /\ Exposed(u, m, o, notional, v)
  BY <1>1, <1>15, ExposeEffect
<1> HIDE DEF t, v
<1>18. /\ s.available = u.available /\ s.balance = u.balance /\ s.credits = u.credits
       /\ s.backing = u.backing /\ s.fees = u.fees /\ s.minted = u.minted /\ s.ok = u.ok
       /\ s.exposure = u.exposure /\ s.held = u.held /\ s.orders = accounts
       /\ s.escrow = escrow /\ u.escrow = escrow
  BY <1>8, <1>13, <1>14, <1>15 DEF Credited
<1>19. /\ t.available = v.available /\ t.balance = v.balance /\ t.credits = v.credits
       /\ t.backing = v.backing /\ t.fees = v.fees /\ t.minted = v.minted /\ t.ok = v.ok
       /\ t.exposure = v.exposure /\ t.held = v.held /\ t.orders = accounts
       /\ t.escrow = escrow /\ v.escrow = escrow
  BY <1>16, <1>17, <1>18 DEF Exposed
<1>20. r = [t EXCEPT !.escrow = e]
  BY <1>10, <1>19
<1>21. z = [v EXCEPT !.escrow = e, !.orders = accounts]
  BY <1>11, <1>12, <1>19
<1> HIDE DEF e
<1>22. /\ r \in Ledgers(E) /\ r.escrow = e /\ r.orders = t.orders
       /\ r.available = t.available /\ r.balance = t.balance /\ r.credits = t.credits
       /\ r.backing = t.backing /\ r.fees = t.fees /\ r.minted = t.minted /\ r.ok = t.ok
       /\ r.exposure = t.exposure /\ r.held = t.held
  BY <1>12, <1>16, <1>20 DEF Ledgers
<1>23. /\ z \in Ledgers(E) /\ z.escrow = e /\ z.orders = accounts
       /\ z.available = v.available /\ z.balance = v.balance /\ z.credits = v.credits
       /\ z.backing = v.backing /\ z.fees = v.fees /\ z.minted = v.minted /\ z.ok = v.ok
       /\ z.exposure = v.exposure /\ z.held = v.held
  BY <1>6, <1>12, <1>17, <1>21 DEF Ledgers
<1>24. r = z
  BY <1>19, <1>22, <1>23, LedgersEqual
<1>25. QED
  BY <1>24 DEF r, z, m, o, a, accounts

LEMMA NewOrderSound ==
    ASSUME NEW id, NEW terms \in SignedTerms, NEW delegate, NEW reserved \in Nat, NEW notional,
           NEW planned, notional = QuoteUp(terms.quantity, terms.price),
           terms.side = BUY => reserved = notional
    PROVE  OrderSound(NewOrder(id, terms, delegate, reserved, notional, planned))
<1> DEFINE order == NewOrder(id, terms, delegate, reserved, notional, planned)
<1>1. /\ order.terms = terms /\ order.remaining = terms.quantity /\ order.filled = 0
      /\ order.reserved = reserved /\ order.notional = notional /\ order.carry = 0
      /\ order.status = LIVE
  BY DEF NewOrder
<1>2. terms.quantity \in Nat
  BY U64Nat DEF SignedTerms
<1>3. 0 \in 0 .. Bps - 1
  BY RulesConstants
<1> HIDE DEF order
<1>4. order.filled + order.remaining <= order.terms.quantity
  BY <1>1, <1>2
<1>5. OrderSound(order)
  BY <1>1, <1>2, <1>3, <1>4 DEF OrderSound
<1>6. QED
  BY <1>5 DEF order

(* Debited from the owner, in escrow, and in the book.                     *)
OrderReserved(id, m, F, order, r) ==
    /\ Balanced(DOMAIN orders \cup {id}, m, F, r) /\ r.orders = WithOrder(id, order)
    /\ \A x \in SettledAssets(m) : NetHolding(r, F, m, x) = NetHolding(Ledger, F, m, x)

LEMMA ReserveSettled ==
    ASSUME BookInv, NEW F \in Lenders, NEW id, NEW terms, NEW delegate,
           Offered(id, terms, delegate, F), NEW reserved \in Nat, NEW notional,
           NEW planned \in Int, notional = QuoteUp(terms.quantity, terms.price),
           terms.side = BUY => reserved = notional, NEW order,
           order = NewOrder(id, terms, delegate, reserved, notional, planned),
           NEW r, r = Reserve(id, terms, delegate, reserved, notional, planned), Fits(r)
    PROVE  OrderReserved(id, id.market, F, order, r)
<1> DEFINE D == DOMAIN orders
           E == D \cup {id}
           m == id.market
           o == id.owner
           a == FundingAsset(terms)
           n == -reserved
           k == MintOf(m, CollateralOf(a))
           book == WithOrder(id, order)
           s == Credit(Ledger, m, o, a, n)
<1>1. /\ m \in Markets /\ o \in Owners /\ id \in OrderIds /\ id \notin D
      /\ terms \in SignedTerms /\ delegate \in Delegates \cup {NoKey} /\ TradesListed(m, terms)
      /\ terms.funding = UNDERLYING => o \in F[Delivers(terms)]
  BY DEF Offered, OrderIds
<1>2. /\ LedgersInv /\ OrdersType /\ BooksKept(Ledger)
  BY DEF BookInv
<1>3. notional \in Int /\ reserved \in Int /\ n \in Int
  <2>1. terms.quantity \in Nat /\ terms.price \in Nat
    BY <1>1, U64Nat DEF SignedTerms
  <2>2. QuoteUp(terms.quantity, terms.price) \in Int
    <3>1. terms.quantity \in Int
      BY <2>1
    <3>2. QED
      BY <2>1, <3>1, QuoteTypes
  <2>3. QED
    BY <2>2
<1>4. order \in OrderImages /\ OrderSound(order)
  BY <1>1, <1>2, <1>3, NewOrderType, NewOrderSound
<1>5. order.terms = terms /\ order.reserved = reserved /\ order.notional = notional
  BY DEF NewOrder
<1>6. /\ a \in SettledAssets(m) /\ a \in Assets /\ CollateralOf(a) = Delivers(terms)
      /\ terms.funding = UNDERLYING <=> a \notin ClaimAssets
      /\ a \notin ClaimAssets => k \in Mints
  <2>1. /\ FundingAsset(order.terms) \in SettledAssets(m)
        /\ CollateralOf(FundingAsset(order.terms)) = Delivers(order.terms)
        /\ order.terms.funding = UNDERLYING <=> FundingAsset(order.terms) \notin ClaimAssets
    BY <1>1, <1>2, <1>4, <1>5, TradedAssets
  <2>2. QED
    BY <1>1, <1>2, <1>5, <2>1, SettledMints DEF SettledAssets
<1>7. /\ Images(D, m, F, Ledger) /\ Ledger \in Ledgers(D) /\ Naturals(Ledger)
      /\ AllSound(orders) /\ EscrowKept(Ledger) /\ ExposureKept(Ledger)
      /\ orders \in BookImages(D) /\ IsFiniteSet(D) /\ Ledger.orders = orders
  BY <1>1, <1>2, LedgerImages, LedgerFields DEF Images, BooksKept, OrdersType
<1>8. BookStep(orders, book, E, id, a, n, notional)
  <2>1. book = [x \in D \cup {id} |-> IF x = id THEN order ELSE orders[x]]
    BY DEF WithOrder
  <2> HIDE DEF book
  <2>2. BookStep(orders, book, D \cup {id}, id, FundingAsset(order.terms),
                 -order.reserved, order.notional)
    BY <1>1, <1>4, <1>7, <2>1, BookGrown
  <2>3. QED
    BY <1>5, <2>2
<1>9. r = Unreserve(Ledger, m, o, a, n, notional, book)
  BY <1>2, <1>3, ReserveIs
<1>10. book \in BookImages(E)
  BY <1>8 DEF BookStep
<1>11. s \in Ledgers(D) /\ Credited(Ledger, m, o, a, n, s)
  BY <1>1, <1>3, <1>6, <1>7, CreditEffect
<1> HIDE DEF D, E, m, o, a, n, k, book
<1>12. Unreserved(E, Ledger, m, o, a, n, notional, book, r)
  <2>1. a \notin ClaimAssets => MintOf(m, CollateralOf(a)) \in Mints
    BY <1>6 DEF k
  <2>2. Unreserved(E, Ledger, m, o, a, n, notional, book,
                   Unreserve(Ledger, m, o, a, n, notional, book))
    BY <1>1, <1>3, <1>6, <1>7, <1>10, <2>1, UnreserveEffect
  <2>3. QED
    BY <1>9, <2>2
<1>13. Creditable(Ledger, F, m, o, a, n)
  <2>1. r.available = s.available /\ r.balance = s.balance /\ r.credits = s.credits
    BY <1>12 DEF Unreserved
  <2>2. /\ \A x \in DOMAIN r.available : r.available[x] \in U64
        /\ \A x \in DOMAIN r.balance : r.balance[x] \in U64
        /\ \A x \in DOMAIN r.credits : r.credits[x] >= 0
    BY DEF Fits
  <2>3. /\ DOMAIN s.available = Mints \X Owners
        /\ DOMAIN s.balance = Markets \X Owners \X ClaimAssets
        /\ DOMAIN s.credits = Markets \X ClaimAssets
    BY <1>11 DEF Ledgers, CreditImages, BalanceImages, ClaimImages
  <2>4. CASE a \in ClaimAssets
    <3>1. /\ s.balance[<<m, o, a>>] = Ledger.balance[<<m, o, a>>] + n
          /\ s.credits[<<m, a>>] = Ledger.credits[<<m, a>>] + n
      BY <1>1, <1>7, <1>11, <2>4 DEF Credited, Naturals
    <3>2. s.balance[<<m, o, a>>] >= 0 /\ s.credits[<<m, a>>] >= 0
      <4>1. <<m, o, a>> \in DOMAIN r.balance /\ <<m, a>> \in DOMAIN r.credits
        BY <1>1, <2>1, <2>3, <2>4
      <4>2. r.balance[<<m, o, a>>] \in U64 /\ r.credits[<<m, a>>] >= 0
        BY <2>2, <4>1
      <4>3. r.balance[<<m, o, a>>] \in Nat
        BY <4>2, U64Nat
      <4>4. QED
        BY <2>1, <4>2, <4>3
    <3>3. QED
      BY <2>4, <3>1, <3>2 DEF Creditable
  <2>5. CASE a \notin ClaimAssets
    <3>1. s.available[<<k, o>>] = Ledger.available[<<k, o>>] + n
      BY <1>1, <1>6, <1>7, <1>11, <2>5 DEF Credited, Naturals, k
    <3>2. s.available[<<k, o>>] >= 0
      <4>1. <<k, o>> \in DOMAIN r.available
        BY <1>1, <1>6, <2>1, <2>3, <2>5
      <4>2. r.available[<<k, o>>] \in Nat
        BY <2>2, <4>1, U64Nat
      <4>3. QED
        BY <2>1, <4>2
    <3>3. QED
      BY <1>1, <1>6, <2>5, <3>1, <3>2 DEF Creditable, k
  <2>6. QED
    BY <2>4, <2>5
<1> HIDE DEF s
<1>14. SameNet(E, m, F, Ledger, r)
  <2>1. SameNet(E, m, F, Ledger, Unreserve(Ledger, m, o, a, n, notional, book))
    BY <1>1, <1>2, <1>3, <1>6, <1>7, <1>10, <1>13, UnreserveSettled
  <2>2. QED
    BY <1>9, <2>1
<1>15. BooksKept(r)
  <2>1. /\ id.market \in Markets /\ id.owner \in Owners
        /\ BookStep(Ledger.orders, book, E, id, a, n, notional)
        /\ Unreserved(E, Ledger, id.market, id.owner, a, n, notional, book, r)
    BY <1>1, <1>7, <1>8, <1>12 DEF m, o
  <2>2. QED
    BY <1>3, <1>6, <1>7, <2>1, UnreservedBalanced
<1>16. r.orders = book
  BY <1>12 DEF Unreserved
<1>17. QED
  BY <1>14, <1>15, <1>16 DEF OrderReserved, Balanced, SameNet, BooksKept, D, E, m, book

----------------------------------------------------------------------------
(* A placement.                                                            *)

(* What callers submit: only the types matter. *)
Submitted(actor, id, terms, plan, frames) ==
    /\ id \in OrderIds /\ terms \in SignedTerms /\ actor \in {id.owner} \cup Delegates
    /\ Len(plan.legs) \in Nat /\ DOMAIN plan.legs = 1 .. Len(plan.legs)
    /\ \A i \in DOMAIN plan.legs :
         plan.legs[i].id \in DOMAIN orders /\ plan.legs[i].quantity \in Int
    /\ plan.next \in Int

(* The owners whose credit of a collateral is lent, by collateral. *)
LentBy(frames) == [c \in Collaterals |-> {o \in Owners : <<o, c>> \in frames}]

(* Any lenders that include those of the frames will do.                   *)
Covers(F, frames) ==
    F \in Lenders /\ \A c \in Collaterals, o \in Owners : <<o, c>> \in frames => o \in F[c]

DelegateOf(actor, id) == IF actor = id.owner THEN NoKey ELSE actor
ReservedFor(id, terms) ==
    IF terms.side = BUY THEN QuoteUp(terms.quantity, terms.price)
    ELSE Raw(id.market, Delivers(terms), terms.quantity, TRUE)
PlacedOrder(actor, id, terms, plan) ==
    NewOrder(id, terms, DelegateOf(actor, id), ReservedFor(id, terms),
             QuoteUp(terms.quantity, terms.price), plan.next)

LEMMA PlaceListed ==
    ASSUME NEW actor, NEW id, NEW terms, NEW plan, NEW frames, NEW touched,
           PlaceOk(actor, id, terms, plan, frames, touched)
    PROVE  /\ TradesListed(id.market, terms) /\ market[id.market].state = OPEN
           /\ touched \subseteq 1 .. market[id.market].bases
BY DEF PlaceOk, TermsOk, TradingOk, TradesListed, OPEN, NONE

LEMMA PlaceOffered ==
    ASSUME BookInv, NEW actor, NEW id, NEW terms, NEW plan, NEW frames, NEW touched,
           Submitted(actor, id, terms, plan, frames),
           PlaceOk(actor, id, terms, plan, frames, touched), NEW F, Covers(F, frames)
    PROVE  Offered(id, terms, DelegateOf(actor, id), F)
<1> DEFINE order == NewOrder(id, terms, DelegateOf(actor, id), 0, 0, 0)
<1>1. id \in OrderIds /\ id \notin DOMAIN orders /\ terms \in SignedTerms
  BY DEF Submitted, PlaceOk
<1>2. TradesListed(id.market, terms)
  BY PlaceListed
<1>3. DelegateOf(actor, id) \in Delegates \cup {NoKey}
  BY DEF Submitted, DelegateOf
<1>4. id.market \in Markets /\ id.owner \in Owners /\ LedgersInv /\ OrdersType
  BY <1>1 DEF OrderIds, BookInv
<1>5. order \in OrderImages
  BY <1>1, <1>3, <1>4, NewOrderType
<1>6. order.terms = terms
  BY DEF NewOrder
<1> HIDE DEF order
<1>7. Delivers(terms) \in Collaterals
  BY <1>2, <1>4, <1>5, <1>6, TradedAssets
<1>8. terms.funding = UNDERLYING => <<id.owner, Delivers(terms)>> \in frames
  BY DEF PlaceOk
<1>9. QED
  BY <1>1, <1>2, <1>3, <1>4, <1>7, <1>8 DEF Offered, Covers

LEMMA RawNat ==
    ASSUME MarketType, PoolType, NEW m \in Markets, NEW c \in Collaterals, NEW units \in Nat,
           MintOf(m, c) \in Mints, MultiplierOk(LiveMultiplier(MintOf(m, c)))
    PROVE  Raw(m, c, units, TRUE) \in Nat
<1> DEFINE live == LiveMultiplier(MintOf(m, c))
           scale == legs[<<m, c>>].scale
<1>1. live.mantissa \in Nat \ {0} /\ live.power \in Nat
  BY LiveMultiplierType DEF MultiplierOk
<1>2. scale \in Nat
  BY DEF MarketType, Leg
<1>3. Raw(m, c, units, TRUE) = BaseRaw(units, scale, live, TRUE)
  BY DEF Raw
<1> HIDE DEF live, scale
<1> DEFINE x == units * scale * live.power
<1>4. x \in Nat
  <2>1. units * scale \in Nat
    BY <1>2
  <2>2. QED
    BY <1>1, <2>1
<1>5. BaseRaw(units, scale, live, TRUE) = (x + live.mantissa - 1) \div live.mantissa
  BY DEF BaseRaw, CeilDiv
<1> HIDE DEF x
<1>6. x + live.mantissa - 1 \in Nat
  BY <1>1, <1>4
<1>7. \A y \in Nat, d \in Nat \ {0} : y \div d \in Nat
  OBVIOUS
<1>8. (x + live.mantissa - 1) \div live.mantissa \in Nat
  BY <1>1, <1>6, <1>7
<1>9. QED
  BY <1>3, <1>5, <1>8

(* A base leg that passed validate_leg. *)
LEMMA LegReady ==
    ASSUME LedgersInv, NEW m \in Markets, NEW c \in Collaterals, LegOk(m, c)
    PROVE  /\ c # QUOTE /\ Listed(m, c) /\ MintOf(m, c) \in Mints
           /\ MultiplierOk(LiveMultiplier(MintOf(m, c)))
<1>1. c # QUOTE /\ Listed(m, c) /\ MultiplierOk(LiveMultiplier(MintOf(m, c)))
  BY DEF LegOk, Exposable, Ready, InspectOk
<1>2. Underlying(c) \in SettledAssets(m) /\ Underlying(c) \notin ClaimAssets
        /\ CollateralOf(Underlying(c)) = c
  BY <1>1, AssetsOfCollateral DEF SettledAssets
<1>3. MintOf(m, c) \in Mints
  BY <1>2, SettledMints
<1>4. QED
  BY <1>1, <1>3

LEMMA ReservedNat ==
    ASSUME BookInv, NEW actor, NEW id, NEW terms, NEW plan, NEW frames, NEW touched,
           Submitted(actor, id, terms, plan, frames),
           PlaceOk(actor, id, terms, plan, frames, touched)
    PROVE  /\ ReservedFor(id, terms) \in Nat
           /\ terms.side = BUY => ReservedFor(id, terms) = QuoteUp(terms.quantity, terms.price)
<1>1. terms.quantity \in Nat /\ terms.price \in Nat
  <2>1. terms.quantity \in U64 /\ terms.price \in Nat
    BY DEF Submitted, SignedTerms
  <2>2. terms.quantity \in Nat
    BY <2>1, U64Nat
  <2>3. QED
    BY <2>1, <2>2
<1>2. CASE terms.side = BUY
  <2> DEFINE q == terms.quantity
             p == terms.price
  <2>1. q \in Int /\ q >= 0 /\ p \in Nat
    BY <1>1
  <2> HIDE DEF q, p
  <2>2. QuoteUp(q, p) \in Int
    BY <2>1, QuoteTypes
  <2>3. QuoteUp(q, p) >= 0
    BY <2>1, QuoteTypes
  <2>4. QuoteUp(q, p) \in Nat
    BY <2>2, <2>3
  <2>5. QED
    BY <1>2, <2>4 DEF ReservedFor, q, p
<1>3. CASE terms.side # BUY
  <2> DEFINE c == Delivers(terms)
             m == id.market
  <2>1. m \in Markets
    BY DEF Submitted, OrderIds
  <2>2. terms.side = SELL
    BY <1>3 DEF Submitted, SignedTerms
  <2>3. c \in touched
    BY <1>3, <2>2 DEF PlaceOk, TermsOk, Delivers
  <2>4. LegOk(m, c) /\ touched \subseteq 1 .. market[m].bases
    BY <2>3 DEF PlaceOk, TermsOk
  <2>5. LedgersInv /\ MarketInv /\ MarketType /\ PoolType
    BY DEF BookInv, LedgersInv, CustodyInv, ListingInv, MarketInv
  <2>6. c \in Collaterals
    <3>1. market[m].bases \in Collaterals
      BY <2>1, <2>5, MarketRecord
    <3>2. QED
      BY <2>3, <2>4, <3>1, CollateralRange DEF Collaterals
  <2> HIDE DEF c, m
  <2>7. MintOf(m, c) \in Mints /\ MultiplierOk(LiveMultiplier(MintOf(m, c)))
    BY <2>1, <2>4, <2>5, <2>6, LegReady
  <2>8. Raw(m, c, terms.quantity, TRUE) \in Nat
    BY <1>1, <2>1, <2>5, <2>6, <2>7, RawNat
  <2>9. QED
    BY <1>3, <2>8 DEF ReservedFor, c, m
<1>4. QED
  BY <1>2, <1>3

----------------------------------------------------------------------------
(* The makers of a plan that are left.                                     *)

(* What the handler found out about a maker it is going to fill. *)
Counterparty(id, terms, plan, frames, touched, leg) ==
    /\ leg.id \in DOMAIN orders /\ leg.id # id /\ leg.id.market = id.market
    /\ leg.id.owner \in Owners /\ leg.quantity \in Int
    /\ WellFormed(terms, plan, leg) /\ Judged(id.market, terms, leg, touched)
    /\ Deliverable(terms, leg, frames)

LEMMA LegJudged ==
    ASSUME BookInv, NEW actor, NEW id, NEW terms, NEW plan, NEW frames, NEW touched,
           Submitted(actor, id, terms, plan, frames),
           PlaceOk(actor, id, terms, plan, frames, touched),
           NEW i \in DOMAIN plan.legs, Fillable(terms, plan.legs[i], frames)
    PROVE  Counterparty(id, terms, plan, frames, touched, plan.legs[i])
<1> DEFINE leg == plan.legs[i]
<1>1. leg.id \in DOMAIN orders /\ leg.quantity \in Int
  BY DEF Submitted
<1>2. leg.id \in OrderIds /\ id \notin DOMAIN orders
  BY <1>1 DEF BookInv, OrdersType, PlaceOk
<1>3. leg.id.owner \in Owners
  BY <1>2 DEF OrderIds
<1>4. IsLive(leg.id) /\ Tradable(leg.id) /\ Deliverable(terms, leg, frames)
  BY DEF Fillable
<1>5. IsLive(leg.id) => /\ leg.id.market = id.market /\ WellFormed(terms, plan, leg)
                        /\ Tradable(leg.id) => Judged(id.market, terms, leg, touched)
  BY DEF PlaceOk
<1> HIDE DEF leg
<1>6. Counterparty(id, terms, plan, frames, touched, leg)
  BY <1>1, <1>2, <1>3, <1>4, <1>5 DEF Counterparty
<1>7. QED
  BY <1>6 DEF leg

(* The legs the instruction touches were validated. *)
LEMMA TouchedReady ==
    ASSUME BookInv, NEW actor, NEW id, NEW terms, NEW plan, NEW frames, NEW touched,
           Submitted(actor, id, terms, plan, frames),
           PlaceOk(actor, id, terms, plan, frames, touched), NEW c \in touched, c \in Collaterals
    PROVE  /\ c # QUOTE /\ MintOf(id.market, c) \in Mints
           /\ MultiplierOk(LiveMultiplier(MintOf(id.market, c)))
<1>1. LegOk(id.market, c)
  BY DEF PlaceOk
<1>2. LedgersInv /\ id.market \in Markets
  BY DEF BookInv, Submitted, OrderIds
<1>3. QED
  BY <1>1, <1>2, LegReady

LEMMA PairMade ==
    ASSUME BookInv, NEW actor, NEW id, NEW terms, NEW plan, NEW frames, NEW touched,
           Submitted(actor, id, terms, plan, frames),
           PlaceOk(actor, id, terms, plan, frames, touched),
           NEW leg, Counterparty(id, terms, plan, frames, touched, leg),
           NEW order \in OrderImages, order.terms = terms
    PROVE  Pair(id.market, order, orders[leg.id])
<1> DEFINE m == id.market
           maker == orders[leg.id]
<1>1. m \in Markets /\ LedgersInv /\ maker \in OrderImages
  BY DEF BookInv, Submitted, OrderIds, OrdersType, BookImages, Counterparty
<1>2. TradesListed(m, order.terms)
  BY PlaceListed
<1>3. TradesListed(m, maker.terms)
  BY DEF BookInv, OrdersListed, Counterparty
<1>4. /\ maker.terms.branch = order.terms.branch /\ maker.terms.side # order.terms.side
  BY DEF Counterparty, WellFormed
<1>5. order.terms.side \in {BUY, SELL} /\ maker.terms.side \in {BUY, SELL} /\ BUY # SELL
  <2>1. order.terms.side \in {BUY, SELL}
    BY OrderTypes
  <2> HIDE DEF maker
  <2>2. maker.terms.side \in {BUY, SELL}
    BY <1>1, OrderTypes
  <2>3. QED
    BY <2>1, <2>2, SidesDistinct
<1>6. CASE order.terms.side = BUY
  <2>1. maker.terms.side = SELL
    BY <1>4, <1>5, <1>6
  <2>2. Delivers(maker.terms) \in touched
    BY <1>6 DEF Counterparty, Judged
  <2> HIDE DEF maker
  <2>3. /\ Listed(m, QUOTE) /\ Delivers(maker.terms) \in Collaterals
        /\ Listed(m, Delivers(maker.terms))
    BY <1>1, <1>3, TradedAssets
  <2>4. /\ Delivers(maker.terms) # QUOTE
        /\ MultiplierOk(LiveMultiplier(MintOf(m, Delivers(maker.terms))))
    BY <2>2, <2>3, TouchedReady
  <2>5. Opposite(m, order, maker)
    BY <1>1, <1>4, <1>6, <2>1, <2>3, <2>4 DEF Opposite
  <2>6. Pair(m, order, maker)
    BY <1>6, <2>5 DEF Pair
  <2>7. QED
    BY <2>6 DEF maker
<1>7. CASE order.terms.side # BUY
  <2>1. order.terms.side = SELL /\ maker.terms.side = BUY
    BY <1>4, <1>5, <1>7
  <2>2. /\ Listed(m, QUOTE) /\ Delivers(order.terms) \in Collaterals
        /\ Listed(m, Delivers(order.terms)) /\ Delivers(order.terms) \in order.terms.bases
    BY <1>1, <1>2, <1>7, TradedAssets
  <2>3. order.terms.bases \subseteq touched
    BY <2>1 DEF PlaceOk
  <2>4. /\ Delivers(order.terms) # QUOTE
        /\ MultiplierOk(LiveMultiplier(MintOf(m, Delivers(order.terms))))
    BY <2>2, <2>3, TouchedReady
  <2> HIDE DEF maker
  <2>5. Opposite(m, maker, order)
    BY <1>1, <1>4, <2>1, <2>2, <2>4 DEF Opposite
  <2>6. Pair(m, order, maker)
    BY <1>7, <2>5 DEF Pair
  <2>7. QED
    BY <2>6 DEF maker
<1>8. QED
  BY <1>6, <1>7

(* What the fill gives back to the maker has a frame to go to. *)
LEMMA MakerFramed ==
    ASSUME BookInv, NEW id, NEW terms, NEW plan, NEW frames, NEW touched,
           NEW F, Covers(F, frames),
           NEW leg, Counterparty(id, terms, plan, frames, touched, leg),
           orders[leg.id] \in OrderImages, Delivers(orders[leg.id].terms) \in Collaterals,
           NEW order, order.terms = terms,
           terms.funding = UNDERLYING => id.owner \in F[Delivers(terms)]
    PROVE  Returns(id.market, F, order, orders[leg.id], id.owner, leg.id.owner, Capped(leg))
<1> DEFINE maker == orders[leg.id]
           quantity == Capped(leg)
           amount == Raw(id.market, Delivers(maker.terms), quantity, FALSE)
           framed == <<leg.id.owner, Delivers(maker.terms)>> \in frames
<1>1. framed => leg.id.owner \in F[Delivers(maker.terms)]
  BY DEF Covers, Counterparty
<1>2. CASE terms.side = BUY
  <2>1. /\ amount \in 1 .. maker.reserved
        /\ quantity = maker.remaining /\ maker.reserved > amount
             /\ maker.terms.funding = UNDERLYING => framed
    BY <1>2 DEF Counterparty, Deliverable
  <2>2. maker.reserved \in Int
    BY DEF OrderImages
  <2> HIDE DEF quantity, amount, framed, maker
  <2>3. maker.terms.funding = UNDERLYING =>
          framed \/ (quantity = maker.remaining => maker.reserved = amount)
    BY <2>1, <2>2
  <2>4. QED
    BY <1>1, <1>2, <2>3 DEF Returns, maker, quantity, amount
<1>3. CASE terms.side # BUY
  <2> DEFINE fill == Fill(quantity, maker.remaining, quantity, maker.terms.price,
                          terms.price, TRUE)
             up == QuoteUp(maker.remaining, maker.terms.price)
             rest == QuoteUp(maker.remaining - quantity, maker.terms.price)
             quote == QuoteDown(quantity, maker.terms.price)
  <2>1. fill.improvement > 0 /\ maker.terms.funding = UNDERLYING => framed
    BY <1>3 DEF Counterparty, Deliverable
  <2>2. FillOk(quantity, Caps(id.market).step, maker.remaining, quantity, maker.terms.price,
               terms.price, TRUE)
    BY <1>3 DEF Counterparty, Judged
  <2>3. up >= rest + quote
    BY <2>2 DEF FillOk
  <2>4. fill.improvement = up - rest - quote
    BY DEF Fill
  <2>5. quantity \in Int /\ maker.remaining \in Int /\ maker.terms.price \in Nat
    <3>1. maker.remaining \in Int
      BY DEF OrderImages
    <3>2. leg.quantity \in Int
      BY DEF Counterparty
    <3>3. QED
      BY <3>1, <3>2, OrderTypes DEF Capped
  <2> HIDE DEF quantity, maker
  <2>6. up \in Int /\ rest \in Int /\ quote \in Int
    <3>1. maker.remaining - quantity \in Int
      BY <2>5
    <3>2. up \in Int
      BY <2>5, QuoteTypes
    <3>3. rest \in Int
      BY <2>5, <3>1, QuoteTypes
    <3>4. quote \in Int
      BY <2>5, QuoteTypes
    <3>5. QED
      BY <3>2, <3>3, <3>4
  <2> HIDE DEF up, rest, quote, fill, framed
  <2>7. maker.terms.funding = UNDERLYING => framed \/ up - rest = quote
    <3>1. CASE fill.improvement > 0
      BY <2>1, <3>1
    <3>2. CASE ~(fill.improvement > 0)
      BY <2>3, <2>4, <2>6, <3>2
    <3>3. QED
      BY <3>1, <3>2
  <2>8. QED
    BY <1>1, <1>3, <2>7 DEF Returns, maker, quantity, up, rest, quote
<1>4. QED
  BY <1>2, <1>3

----------------------------------------------------------------------------
(* The images of a placement.                                              *)

LEMMA PlacedOrderType ==
    ASSUME BookInv, NEW actor, NEW id, NEW terms, NEW plan, NEW frames, NEW touched,
           Submitted(actor, id, terms, plan, frames),
           PlaceOk(actor, id, terms, plan, frames, touched)
    PROVE  /\ PlacedOrder(actor, id, terms, plan) \in OrderImages
           /\ PlacedOrder(actor, id, terms, plan).terms = terms
<1>1. id \in OrderIds /\ terms \in SignedTerms /\ plan.next \in Int /\ OrdersType
  BY DEF Submitted, BookInv
<1>2. DelegateOf(actor, id) \in Delegates \cup {NoKey}
  BY DEF Submitted, DelegateOf
<1>3. ReservedFor(id, terms) \in Int
  BY ReservedNat
<1>4. terms.quantity \in Int /\ terms.price \in Nat
  <2>1. terms.quantity \in U64 /\ terms.price \in Nat
    BY <1>1 DEF SignedTerms
  <2>2. QED
    BY <2>1, U64Int
<1>5. QuoteUp(terms.quantity, terms.price) \in Int
  BY <1>4, QuoteTypes
<1> DEFINE delegate == DelegateOf(actor, id)
           reserved == ReservedFor(id, terms)
           notional == QuoteUp(terms.quantity, terms.price)
           next == plan.next
<1>6. NewOrder(id, terms, delegate, reserved, notional, next) \in OrderImages
  <2> HIDE DEF delegate, reserved, notional, next
  <2>1. delegate \in Delegates \cup {NoKey} /\ reserved \in Int /\ notional \in Int /\ next \in Int
    BY <1>1, <1>2, <1>3, <1>5 DEF delegate, reserved, notional, next
  <2>2. QED
    BY <1>1, <2>1, NewOrderType
<1>7. NewOrder(id, terms, delegate, reserved, notional, next).terms = terms
  BY DEF NewOrder
<1>8. QED
  BY <1>6, <1>7 DEF PlacedOrder

(* Every maker left of the plan can be filled against the placed order. *)
LEMMA LegMeets ==
    ASSUME BookInv, NEW actor, NEW id, NEW terms, NEW plan, NEW frames, NEW touched,
           Submitted(actor, id, terms, plan, frames),
           PlaceOk(actor, id, terms, plan, frames, touched), NEW F, Covers(F, frames),
           NEW b, b.orders = WithOrder(id, PlacedOrder(actor, id, terms, plan)),
           NEW leg, Counterparty(id, terms, plan, frames, touched, leg)
    PROVE  Meets(DOMAIN orders \cup {id}, id.market, F, b, id, leg.id, Capped(leg))
<1> DEFINE order == PlacedOrder(actor, id, terms, plan)
           maker == orders[leg.id]
<1>1. /\ leg.id \in DOMAIN orders /\ leg.id # id /\ leg.id.market = id.market
      /\ leg.id.owner \in Owners /\ leg.quantity \in Int
  BY DEF Counterparty
<1>2. b.orders[id] = order /\ b.orders[leg.id] = maker
  BY <1>1 DEF WithOrder
<1>3. order \in OrderImages /\ order.terms = terms
  BY PlacedOrderType
<1>4. maker \in OrderImages
  BY <1>1 DEF BookInv, OrdersType, BookImages
<1>5. Capped(leg) \in Int
  BY <1>1, <1>4 DEF Capped, OrderImages
<1> HIDE DEF order
<1>6. Pair(id.market, order, maker)
  BY <1>3, PairMade
<1>7. Offered(id, terms, DelegateOf(actor, id), F)
  BY PlaceOffered
<1>8. id.owner \in Owners /\ id.market \in Markets
  BY DEF Submitted, OrderIds
<1>9. Delivers(maker.terms) \in Collaterals
  <2>1. TradesListed(id.market, maker.terms)
    BY <1>1 DEF BookInv, OrdersListed
  <2>2. LedgersInv
    BY DEF BookInv
  <2> HIDE DEF maker
  <2>3. QED
    BY <1>4, <1>8, <2>1, <2>2, TradedAssets
<1>10. terms.funding = UNDERLYING => id.owner \in F[Delivers(terms)]
  BY <1>7 DEF Offered
<1>11. Returns(id.market, F, order, maker, id.owner, leg.id.owner, Capped(leg))
  BY <1>3, <1>4, <1>9, <1>10, MakerFramed
<1>12. QED
  BY <1>1, <1>2, <1>5, <1>6, <1>8, <1>11 DEF Meets

LEMMA MakersMeet ==
    ASSUME BookInv, NEW actor, NEW id, NEW terms, NEW plan, NEW frames, NEW touched,
           Submitted(actor, id, terms, plan, frames),
           PlaceOk(actor, id, terms, plan, frames, touched), NEW F, Covers(F, frames),
           NEW b, b.orders = WithOrder(id, PlacedOrder(actor, id, terms, plan))
    PROVE  MeetsAll(DOMAIN orders \cup {id}, id.market, F, b, id, Makers(terms, plan, frames))
<1> DEFINE makers == Makers(terms, plan, frames)
           D == DOMAIN orders \cup {id}
<1>1. ASSUME NEW i \in DOMAIN makers
      PROVE  /\ i \in DOMAIN plan.legs /\ Fillable(terms, plan.legs[i], frames)
             /\ makers[i].id = plan.legs[i].id /\ makers[i].quantity = Capped(plan.legs[i])
  BY DEF Makers
<1> HIDE DEF makers
<1>2. ASSUME NEW i \in DOMAIN makers
      PROVE  Meets(D, id.market, F, b, id, makers[i].id, makers[i].quantity)
  <2> DEFINE leg == plan.legs[i]
  <2>1. Counterparty(id, terms, plan, frames, touched, leg)
    BY <1>1, LegJudged
  <2>2. Meets(D, id.market, F, b, id, leg.id, Capped(leg))
    <3> HIDE DEF leg
    <3>1. QED
      BY <2>1, LegMeets
  <2>3. QED
    BY <1>1, <2>2
<1>3. ASSUME NEW i \in DOMAIN makers, NEW j \in DOMAIN makers, i # j
      PROVE  makers[i].id # makers[j].id
  BY <1>1, <1>3 DEF PlaceOk
<1>4. MeetsAll(D, id.market, F, b, id, makers)
  BY <1>2, <1>3 DEF MeetsAll
<1>5. QED
  BY <1>4 DEF makers

----------------------------------------------------------------------------
LEMMA PlacedReserved ==
    ASSUME BookInv, NEW actor, NEW id, NEW terms, NEW plan, NEW frames, NEW touched,
           Submitted(actor, id, terms, plan, frames),
           PlaceOk(actor, id, terms, plan, frames, touched), NEW F, Covers(F, frames)
    PROVE  OrderReserved(id, id.market, F, PlacedOrder(actor, id, terms, plan),
                         Placed(actor, id, terms, plan))
<1> DEFINE delegate == DelegateOf(actor, id)
           reserved == ReservedFor(id, terms)
           notional == QuoteUp(terms.quantity, terms.price)
           next == plan.next
           order == PlacedOrder(actor, id, terms, plan)
           r == Placed(actor, id, terms, plan)
<1>1. r = Reserve(id, terms, delegate, reserved, notional, next)
  BY DEF Placed, DelegateOf, ReservedFor
<1>2. Fits(r)
  BY DEF PlaceOk
<1>3. order = NewOrder(id, terms, delegate, reserved, notional, next)
  BY DEF PlacedOrder
<1>4. reserved \in Nat /\ (terms.side = BUY => reserved = notional)
  BY ReservedNat
<1>5. next \in Int
  BY DEF Submitted
<1>6. Offered(id, terms, delegate, F) /\ F \in Lenders
  BY PlaceOffered DEF Covers
<1>7. notional = QuoteUp(terms.quantity, terms.price)
  OBVIOUS
<1> HIDE DEF delegate, reserved, notional, next, order, r
<1>8. OrderReserved(id, id.market, F, order, r)
  BY <1>1, <1>2, <1>3, <1>4, <1>5, <1>6, <1>7, ReserveSettled
<1>9. QED
  BY <1>8 DEF order, r

(* The images r of a placement: the new order and the makers S changed.    *)
Settlement(id, m, F, order, S, r) ==
    /\ Balanced(DOMAIN orders \cup {id}, m, F, r)
    /\ \A x \in SettledAssets(m) : NetHolding(r, F, m, x) = NetHolding(Ledger, F, m, x)
    /\ \A x \in DOMAIN orders :
         /\ SameOrder(orders[x], r.orders[x]) /\ StaysClosed(orders[x], r.orders[x])
         /\ x \notin S => r.orders[x] = orders[x]
    /\ SameOrder(order, r.orders[id])

MakerIds(terms, plan, frames) ==
    {Makers(terms, plan, frames)[i].id : i \in DOMAIN Makers(terms, plan, frames)}

LEMMA SettlementMade ==
    ASSUME BookInv, NEW id, id \in OrderIds, id \notin DOMAIN orders, NEW F \in Lenders,
           NEW order, NEW S, NEW placed, OrderReserved(id, id.market, F, order, placed),
           NEW mid, FillKept(DOMAIN orders \cup {id}, id.market, F, placed, mid),
           \A x \in DOMAIN orders \cup {id} :
             /\ SameOrder(placed.orders[x], mid.orders[x])
             /\ x \notin S \cup {id} => mid.orders[x] = placed.orders[x]
    PROVE  Settlement(id, id.market, F, order, S, mid)
<1>1. /\ placed.orders = WithOrder(id, order)
      /\ \A x \in SettledAssets(id.market) :
           NetHolding(placed, F, id.market, x) = NetHolding(Ledger, F, id.market, x)
  BY DEF OrderReserved
<1>2. /\ Balanced(DOMAIN orders \cup {id}, id.market, F, mid)
      /\ \A x \in SettledAssets(id.market) :
           NetHolding(mid, F, id.market, x) = NetHolding(placed, F, id.market, x)
      /\ \A x \in DOMAIN orders \cup {id} : StaysClosed(placed.orders[x], mid.orders[x])
  BY DEF FillKept
<1>3. placed.orders[id] = order /\ \A x \in DOMAIN orders : placed.orders[x] = orders[x]
  BY <1>1 DEF WithOrder
<1>4. SameOrder(order, mid.orders[id])
  BY <1>3
<1>5. ASSUME NEW x \in DOMAIN orders
      PROVE  /\ SameOrder(orders[x], mid.orders[x]) /\ StaysClosed(orders[x], mid.orders[x])
             /\ x \notin S => mid.orders[x] = orders[x]
  <2>1. placed.orders[x] = orders[x] /\ x # id
    BY <1>3
  <2>2. SameOrder(placed.orders[x], mid.orders[x]) /\ StaysClosed(placed.orders[x], mid.orders[x])
    BY <1>2
  <2>3. x \notin S => mid.orders[x] = placed.orders[x]
    BY <2>1
  <2>4. QED
    BY <2>1, <2>2, <2>3
<1>6. QED
  BY <1>1, <1>2, <1>4, <1>5 DEF Settlement

(* The rest of an immediate order goes back to its owner. *)
LEMMA RestReturned ==
    ASSUME BookInv, NEW id, id \in OrderIds, id \notin DOMAIN orders, NEW F \in Lenders,
           NEW order, order \in OrderImages, TradesListed(id.market, order.terms),
           order.terms.funding = UNDERLYING => id.owner \in F[Delivers(order.terms)],
           NEW S, NEW r, Settlement(id, id.market, F, order, S, r)
    PROVE  Settlement(id, id.market, F, order, S, Release(r, id))
<1> DEFINE D == DOMAIN orders \cup {id}
           m == id.market
           after == Release(r, id)
           a == FundingAsset(r.orders[id].terms)
<1>1. id \in D /\ m \in Markets /\ id.owner \in Owners /\ LedgersInv /\ IsFiniteSet(D)
  <2>1. IsFiniteSet(DOMAIN orders)
    BY DEF BookInv, OrdersType
  <2>2. IsFiniteSet(D)
    BY <2>1, FS_AddElement
  <2>3. QED
    BY <2>2 DEF OrderIds, BookInv
<1>2. Balanced(D, m, F, r) /\ r.orders[id].terms = order.terms
  BY DEF Settlement, SameOrder
<1>3. /\ a \in SettledAssets(m) /\ CollateralOf(a) = Delivers(order.terms)
      /\ order.terms.funding = UNDERLYING <=> a \notin ClaimAssets
  <2> HIDE DEF m
  <2>1. a = FundingAsset(order.terms)
    BY <1>2
  <2>2. TradesListed(m, order.terms)
    BY DEF m
  <2> HIDE DEF a
  <2>3. QED
    BY <1>1, <2>1, <2>2, TradedAssets
<1>4. MayReturn(D, m, F, r, id)
  BY <1>1, <1>3 DEF MayReturn
<1>5. r \in Ledgers(D)
  BY <1>2 DEF Balanced, Images
<1> HIDE DEF D, m, after, a
<1>6. FillKept(D, m, F, r, Release(r, id))
  BY <1>1, <1>2, <1>4, ReleaseSettled
<1>7. FillStep(D, r, id, id, Release(r, id))
  BY <1>1, <1>4, <1>5, ReleaseEffect
<1>8. /\ Balanced(D, m, F, after)
      /\ \A x \in SettledAssets(m) : NetHolding(after, F, m, x) = NetHolding(r, F, m, x)
      /\ \A x \in D : /\ StaysClosed(r.orders[x], after.orders[x])
                      /\ SameOrder(r.orders[x], after.orders[x])
                      /\ x # id => after.orders[x] = r.orders[x]
  BY <1>6, <1>7 DEF FillKept, FillStep, after
<1>9. \A x \in SettledAssets(m) : NetHolding(after, F, m, x) = NetHolding(Ledger, F, m, x)
  BY <1>8 DEF Settlement, m
<1>10. SameOrder(order, after.orders[id])
  BY <1>1, <1>8 DEF Settlement, SameOrder
<1>11. ASSUME NEW x \in DOMAIN orders
       PROVE  /\ SameOrder(orders[x], after.orders[x]) /\ StaysClosed(orders[x], after.orders[x])
              /\ x \notin S => after.orders[x] = orders[x]
  <2>1. after.orders[x] = r.orders[x]
    BY <1>8 DEF D
  <2>2. QED
    BY <2>1 DEF Settlement
<1>12. QED
  BY <1>8, <1>9, <1>10, <1>11 DEF Settlement, D, m, after

----------------------------------------------------------------------------
FinalImages(actor, id, terms, plan, frames) ==
    Matched(id, Placed(actor, id, terms, plan), Len(plan.legs), Makers(terms, plan, frames))

LEMMA PlacementSettled ==
    ASSUME BookInv, NEW actor, NEW id, NEW terms, NEW plan, NEW frames, NEW touched,
           Submitted(actor, id, terms, plan, frames),
           PlaceOk(actor, id, terms, plan, frames, touched), NEW F, Covers(F, frames),
           Fits(FinalImages(actor, id, terms, plan, frames))
    PROVE  Settlement(id, id.market, F, PlacedOrder(actor, id, terms, plan),
                      MakerIds(terms, plan, frames), FinalImages(actor, id, terms, plan, frames))
<1> DEFINE D == DOMAIN orders \cup {id}
           m == id.market
           order == PlacedOrder(actor, id, terms, plan)
           placed == Placed(actor, id, terms, plan)
           makers == Makers(terms, plan, frames)
           n == Len(plan.legs)
           mid == ExecuteAll(placed, m, id, n, makers)
           S == {makers[i].id : i \in DOMAIN makers}
           final == FinalImages(actor, id, terms, plan, frames)
<1>1. /\ id \in OrderIds /\ m \in Markets /\ n \in Nat /\ F \in Lenders /\ LedgersInv
      /\ DOMAIN plan.legs = 1 .. n /\ id \notin DOMAIN orders /\ id \in D
  BY DEF Submitted, OrderIds, Covers, BookInv, PlaceOk
<1>2. IsFiniteSet(D)
  <2>1. IsFiniteSet(DOMAIN orders)
    BY DEF BookInv, OrdersType
  <2>2. QED
    BY <2>1, FS_AddElement
<1>3. OrderReserved(id, m, F, order, placed)
  BY PlacedReserved
<1>4. placed.orders = WithOrder(id, order) /\ Balanced(D, m, F, placed)
  BY <1>3 DEF OrderReserved
<1>5. placed \in Ledgers(D)
  BY <1>4 DEF Balanced, Images
<1>6. MeetsAll(D, m, F, placed, id, makers)
  BY <1>4, MakersMeet
<1>7. DOMAIN makers \subseteq 1 .. n
  BY <1>1 DEF Makers
<1>8. final = ReleaseRest(mid, id) /\ Fits(final)
  BY DEF FinalImages, Matched
<1>9. order \in OrderImages /\ order.terms = terms
  BY PlacedOrderType
<1>10. TradesListed(m, terms)
  BY PlaceListed
<1>11. terms.funding = UNDERLYING => id.owner \in F[Delivers(terms)]
  <2>1. Offered(id, terms, DelegateOf(actor, id), F)
    BY PlaceOffered
  <2>2. QED
    BY <2>1 DEF Offered
<1>12. S = MakerIds(terms, plan, frames)
  BY DEF MakerIds
<1> HIDE DEF D, m, order, placed, makers, n
<1>13. Filling(D, m, F, placed, id, S, mid)
  BY <1>1, <1>5, <1>6, <1>7, ExecuteAllSettled
<1> HIDE DEF mid, S, final
<1>14. /\ mid \in Ledgers(D)
       /\ \A x \in D : /\ SameOrder(placed.orders[x], mid.orders[x])
                       /\ x \notin S \cup {id} => mid.orders[x] = placed.orders[x]
       /\ mid.ok => FillKept(D, m, F, placed, mid)
  BY <1>2, <1>4, <1>13 DEF Filling
<1>15. CASE FillKept(D, m, F, placed, mid)
  <2>1. Settlement(id, m, F, order, S, mid)
    <3>1. FillKept(DOMAIN orders \cup {id}, id.market, F, placed, mid)
      BY <1>15 DEF D, m
    <3>2. OrderReserved(id, id.market, F, order, placed)
      BY <1>3 DEF m
    <3>3. \A x \in DOMAIN orders \cup {id} :
             /\ SameOrder(placed.orders[x], mid.orders[x])
             /\ x \notin S \cup {id} => mid.orders[x] = placed.orders[x]
      BY <1>14 DEF D
    <3>4. QED
      BY <1>1, <3>1, <3>2, <3>3, SettlementMade DEF m
  <2>2. Settlement(id, m, F, order, S, Release(mid, id))
    <3>1. TradesListed(id.market, order.terms)
      BY <1>9, <1>10 DEF m
    <3>2. order.terms.funding = UNDERLYING => id.owner \in F[Delivers(order.terms)]
      BY <1>9, <1>11
    <3>3. Settlement(id, id.market, F, order, S, mid)
      BY <2>1 DEF m
    <3>4. QED
      BY <1>1, <1>9, <3>1, <3>2, <3>3, RestReturned DEF m
  <2>3. final \in {mid, Release(mid, id)}
    BY <1>8 DEF ReleaseRest
  <2>4. Settlement(id, m, F, order, S, final)
    BY <2>1, <2>2, <2>3
  <2>5. QED
    BY <1>12, <2>4 DEF m, order, final
<1>16. CASE ~FillKept(D, m, F, placed, mid)
  <2>1. ~mid.ok
    BY <1>14, <1>16
  <2>2. final = mid \/ final = Release(mid, id)
    BY <1>8 DEF ReleaseRest
  <2>3. final.ok
    BY <1>8 DEF Fits
  <2>4. final = Release(mid, id)
    BY <2>1, <2>2, <2>3
  <2>5. mid.orders[id].terms = terms
    <3>1. SameOrder(placed.orders[id], mid.orders[id]) /\ placed.orders[id] = order
      BY <1>1, <1>4, <1>14 DEF WithOrder
    <3>2. QED
      BY <1>9, <3>1 DEF SameOrder
  <2>6. MayReturn(D, m, F, mid, id)
    <3>1. FundingAsset(order.terms) \in SettledAssets(m)
            /\ CollateralOf(FundingAsset(order.terms)) = Delivers(order.terms)
            /\ (order.terms.funding = UNDERLYING <=> FundingAsset(order.terms) \notin ClaimAssets)
      BY <1>1, <1>9, <1>10, TradedAssets
    <3>2. id.owner \in Owners /\ id.market = m
      BY <1>1 DEF OrderIds, m
    <3>3. QED
      BY <1>1, <1>9, <1>11, <2>5, <3>1, <3>2 DEF MayReturn
  <2>7. FillStep(D, mid, id, id, Release(mid, id))
    BY <1>1, <1>14, <2>6, ReleaseEffect
  <2>8. Release(mid, id).ok => mid.ok
    BY <2>7 DEF FillStep
  <2>9. QED
    BY <2>1, <2>3, <2>4, <2>8
<1>17. QED
  BY <1>15, <1>16

----------------------------------------------------------------------------
(* Writing the images.                                                     *)

Everyone == [c \in Collaterals |-> Owners]

(* The images b that an instruction on market m ends with. *)
Settled(D, m, b) ==
    /\ Images(D, m, Everyone, b) /\ Fits(b)
    /\ \A x \in SettledAssets(m) :
         NetHolding(b, Everyone, m, x) = NetHolding(Ledger, Everyone, m, x)
    /\ \A k \in Mints, o \in Owners :
         <<k, o>> \notin opened => b.available[<<k, o>>] = available[<<k, o>>]
    /\ \A a \in ClaimAssets :
         /\ supply[<<m, a>>] + b.minted[CollateralOf(a)] \in U64
         /\ vault[<<m, a>>] + b.minted[CollateralOf(a)] \in U64

WithMinted(m, b, f) ==
    [x \in DOMAIN f |-> f[x] + (IF x[1] = m THEN b.minted[CollateralOf(x[2])] ELSE 0)]

Written(m, b) ==
    /\ Commit(b)
    /\ supply' = WithMinted(m, b, supply) /\ vault' = WithMinted(m, b, vault)
    /\ UNCHANGED settledElsewhere

LEMMA CustodySame ==
    UNCHANGED settledElsewhere =>
      /\ now' = now /\ config' = config /\ noticed' = noticed /\ market' = market /\ legs' = legs
      /\ issuer' = issuer /\ pools' = pools /\ liability' = liability /\ reserve' = reserve
      /\ opened' = opened /\ seized' = seized /\ wallets' = wallets /\ burned' = burned
      /\ minimumNonce' = minimumNonce /\ epoch' = epoch
      /\ UNCHANGED configVars /\ UNCHANGED marketVars
BY DEF settledElsewhere, configVars, marketVars

MintsOnly(m, b) ==
    /\ \A a \in ClaimAssets :
         /\ supply'[<<m, a>>] = supply[<<m, a>>] + b.minted[CollateralOf(a)]
         /\ vault'[<<m, a>>] = vault[<<m, a>>] + b.minted[CollateralOf(a)]
    /\ \A x \in Markets \ {m}, a \in ClaimAssets :
         supply'[<<x, a>>] = supply[<<x, a>>] /\ vault'[<<x, a>>] = vault[<<x, a>>]

LEMMA MintedAt ==
    ASSUME LedgersInv, NEW D, NEW m \in Markets, NEW b, Settled(D, m, b), Written(m, b)
    PROVE  MintsOnly(m, b)
<1>1. CustodyType
  BY DEF LedgersInv, CustodyInv
<1>2. DOMAIN supply = Markets \X ClaimAssets /\ DOMAIN vault = Markets \X ClaimAssets
  BY <1>1 DEF CustodyType
<1>3. \A x \in Markets, a \in ClaimAssets : supply[<<x, a>>] \in Int /\ vault[<<x, a>>] \in Int
  BY <1>1, CustodyInts
<1>4. supply' = WithMinted(m, b, supply) /\ vault' = WithMinted(m, b, vault)
  BY DEF Written
<1>5. QED
  BY <1>2, <1>3, <1>4 DEF WithMinted, MintsOnly

LEMMA WrittenTypes ==
    ASSUME LedgersInv, NEW D, NEW m \in Markets, NEW b, Settled(D, m, b), Written(m, b)
    PROVE  PoolType' /\ CustodyType'
<1>1. PoolType /\ CustodyType
  BY DEF LedgersInv, CustodyInv, ListingInv
<1>2. /\ available' = b.available /\ balance' = b.balance /\ credits' = b.credits
      /\ escrow' = b.escrow /\ backing' = b.backing /\ fees' = b.fees /\ tripped' = tripped
  BY DEF Written, Commit
<1>3. b \in Ledgers(D) /\ Naturals(b) /\ Fits(b)
  BY DEF Settled, Images
<1>4. /\ b.available \in CreditImages /\ b.balance \in BalanceImages
      /\ b.escrow \in EscrowImages /\ b.backing \in BackingImages /\ b.fees \in ClaimImages
  BY <1>3 DEF Ledgers
<1>5. \A S, T, f : f \in [S -> T] /\ (\A x \in DOMAIN f : f[x] \in U64) => f \in [S -> U64]
  OBVIOUS
<1>6. available' \in [Mints \X Owners -> U64]
  BY <1>2, <1>3, <1>4, <1>5 DEF Fits, CreditImages
<1>7. balance' \in [Markets \X Owners \X ClaimAssets -> U64]
  BY <1>2, <1>3, <1>4, <1>5 DEF Fits, BalanceImages
<1>8. backing' \in [Markets \X Collaterals -> U64]
  BY <1>2, <1>3, <1>4, <1>5 DEF Fits, BackingImages
<1>9. fees' \in [Markets \X ClaimAssets -> U64]
  BY <1>2, <1>3, <1>4, <1>5 DEF Fits, ClaimImages
<1>10. credits' \in [Markets \X ClaimAssets -> Nat]
  BY <1>2, <1>3 DEF Naturals
<1>11. escrow' \in [Markets \X Assets -> Nat]
  <2>1. \A x \in DOMAIN b.escrow : b.escrow[x] >= 0
    BY <1>3 DEF Fits
  <2>2. b.escrow \in [Markets \X Assets -> Int]
    BY <1>4 DEF EscrowImages
  <2>3. \A S, f : f \in [S -> Int] /\ (\A x \in DOMAIN f : f[x] >= 0) => f \in [S -> Nat]
    OBVIOUS
  <2>4. QED
    BY <1>2, <2>1, <2>2, <2>3
<1>12. supply' \in [Markets \X ClaimAssets -> U64] /\ vault' \in [Markets \X ClaimAssets -> U64]
  <2>1. supply \in [Markets \X ClaimAssets -> U64] /\ vault \in [Markets \X ClaimAssets -> U64]
    BY <1>1 DEF CustodyType
  <2>2. supply' = WithMinted(m, b, supply) /\ vault' = WithMinted(m, b, vault)
    BY DEF Written
  <2>3. DOMAIN supply' = Markets \X ClaimAssets /\ DOMAIN vault' = Markets \X ClaimAssets
    BY <2>1, <2>2 DEF WithMinted
  <2>4. \A x \in Markets, a \in ClaimAssets : supply'[<<x, a>>] \in U64 /\ vault'[<<x, a>>] \in U64
    <3> TAKE x \in Markets, a \in ClaimAssets
    <3>1. CASE x = m
      BY <3>1, MintedAt DEF Settled, MintsOnly
    <3>2. CASE x # m
      BY <2>1, <3>2, MintedAt DEF MintsOnly
    <3>3. QED
      BY <3>1, <3>2
  <2>5. \A x \in Markets \X ClaimAssets : supply'[x] \in U64 /\ vault'[x] \in U64
    BY <2>4
  <2>6. supply' = [x \in Markets \X ClaimAssets |-> supply'[x]]
    BY <2>2, <2>3 DEF WithMinted
  <2>7. vault' = [x \in Markets \X ClaimAssets |-> vault'[x]]
    BY <2>2, <2>3 DEF WithMinted
  <2>8. supply' \in [Markets \X ClaimAssets -> U64]
    BY <2>5, <2>6
  <2>9. vault' \in [Markets \X ClaimAssets -> U64]
    BY <2>5, <2>7
  <2>10. QED
    BY <2>8, <2>9
<1>13. UNCHANGED settledElsewhere
  BY DEF Written
<1>14. PoolType'
  <2>1. /\ issuer' = issuer /\ pools' = pools /\ liability' = liability /\ reserve' = reserve
        /\ opened' = opened /\ seized' = seized
    BY <1>13, CustodySame
  <2>2. QED
    BY <1>1, <1>2, <1>6, <2>1 DEF PoolType
<1>15. CustodyType'
  <2>1. wallets' = wallets /\ burned' = burned
    BY <1>13, CustodySame
  <2>2. QED
    BY <1>1, <1>7, <1>8, <1>9, <1>10, <1>11, <1>12, <2>1 DEF CustodyType
<1>16. QED
  BY <1>14, <1>15

(* The claims stay backed and in custody. *)
LEMMA WrittenClaims ==
    ASSUME LedgersInv, NEW D, NEW m \in Markets, NEW b, Settled(D, m, b), Written(m, b)
    PROVE  ClaimCustody' /\ ClaimsBacked' /\ BackingExact'
<1>1. PoolType /\ CustodyType /\ ClaimCustody /\ ClaimsBacked /\ BackingExact /\ CustodyInv
  BY DEF LedgersInv, LedgersExact, CustodyInv, ListingInv
<1>2. /\ credits' = b.credits /\ escrow' = b.escrow /\ backing' = b.backing /\ fees' = b.fees
      /\ market' = market /\ burned' = burned
  BY CustodySame DEF Written, Commit
<1>3. b \in Ledgers(D) /\ Naturals(b) /\ Backed(m, b) /\ LocalBooks(m, b)
  BY DEF Settled, Images
<1>4. MintsOnly(m, b)
  BY MintedAt
<1>5. ASSUME NEW a \in ClaimAssets
      PROVE  /\ b.credits[<<m, a>>] + b.escrow[<<m, a>>] + b.fees[<<m, a>>]
                  = ClaimLiability(m, a) + b.minted[CollateralOf(a)]
             /\ CollateralOf(a) \in Collaterals /\ b.minted[CollateralOf(a)] \in Nat
  <2>1. a \in SettledAssets(m) /\ a \in Assets
    BY DEF SettledAssets, ClaimAssets
  <2>2. NetHolding(b, Everyone, m, a) = NetHolding(Ledger, Everyone, m, a)
    BY <2>1 DEF Settled
  <2>3. CollateralOf(a) \in Collaterals
    BY <2>1, CollateralRange, AssetKinds
  <2>4. Ledger.minted[CollateralOf(a)] = 0
    BY <2>3 DEF Ledger
  <2>5. NetHolding(Ledger, Everyone, m, a) = ClaimLiability(m, a) - 0
    BY <2>4, LedgerFields DEF NetHolding, Holding, ClaimLiability
  <2>6. NetHolding(b, Everyone, m, a)
          = (b.credits[<<m, a>>] + b.escrow[<<m, a>>] + b.fees[<<m, a>>]) - b.minted[CollateralOf(a)]
    <3>1. Holding(b, Everyone, m, a) = b.credits[<<m, a>>] + b.escrow[<<m, a>>] + b.fees[<<m, a>>]
      BY DEF Holding
    <3>2. NetHolding(b, Everyone, m, a) = Holding(b, Everyone, m, a) - b.minted[CollateralOf(a)]
      BY DEF NetHolding
    <3>3. QED
      BY <3>1, <3>2
  <2>7. b.minted[CollateralOf(a)] \in Nat
    BY <1>3, <2>3 DEF Naturals
  <2>8. b.credits[<<m, a>>] \in Int /\ b.escrow[<<m, a>>] \in Int /\ b.fees[<<m, a>>] \in Int
    BY <1>3, <2>1 DEF Ledgers, ClaimImages, EscrowImages
  <2>9. ClaimLiability(m, a) \in Int
    BY <1>1, CustodyInts
  <2> DEFINE x == b.credits[<<m, a>>] + b.escrow[<<m, a>>] + b.fees[<<m, a>>]
             y == b.minted[CollateralOf(a)]
             z == ClaimLiability(m, a)
  <2>10. x \in Int /\ y \in Int /\ z \in Int /\ x - y = z - 0
    BY <2>2, <2>5, <2>6, <2>7, <2>8, <2>9
  <2> HIDE DEF x, y, z
  <2>11. x = z + y
    BY <2>10
  <2>12. QED
    BY <2>3, <2>7, <2>11 DEF x, y, z
<1>6. ClaimCustody'
  <2> SUFFICES ASSUME NEW x \in Markets, NEW a \in ClaimAssets
               PROVE  vault'[<<x, a>>] >= ClaimLiability(x, a)' /\ supply'[<<x, a>>] >= vault'[<<x, a>>]
    BY DEF ClaimCustody
  <2>1. vault[<<x, a>>] >= ClaimLiability(x, a) /\ supply[<<x, a>>] >= vault[<<x, a>>]
    BY <1>1 DEF ClaimCustody
  <2>2. vault[<<x, a>>] \in Int /\ supply[<<x, a>>] \in Int /\ ClaimLiability(x, a) \in Int
    BY <1>1, CustodyInts
  <2>3. ClaimLiability(x, a)' = b.credits[<<x, a>>] + b.escrow[<<x, a>>] + b.fees[<<x, a>>]
    BY <1>2 DEF ClaimLiability
  <2>4. CASE x = m
    <3>1. /\ ClaimLiability(m, a)' = ClaimLiability(m, a) + b.minted[CollateralOf(a)]
          /\ b.minted[CollateralOf(a)] \in Nat
      BY <1>5, <2>3, <2>4
    <3>2. /\ vault'[<<m, a>>] = vault[<<m, a>>] + b.minted[CollateralOf(a)]
          /\ supply'[<<m, a>>] = supply[<<m, a>>] + b.minted[CollateralOf(a)]
      BY <1>4 DEF MintsOnly
    <3>3. QED
      BY <2>1, <2>2, <2>4, <3>1, <3>2
  <2>5. CASE x # m
    <3>1. a \in Assets /\ x \in Markets \ {m}
      BY <2>5 DEF ClaimAssets
    <3>2. ClaimLiability(x, a)' = ClaimLiability(x, a)
      BY <1>3, <2>3, <3>1 DEF LocalBooks, ClaimLiability
    <3>3. QED
      BY <2>1, <3>1, <3>2, <1>4 DEF MintsOnly
  <2>6. QED
    BY <2>4, <2>5
<1>7. ASSUME NEW x \in Markets, NEW c \in Collaterals
      PROVE  \E n \in Nat :
               /\ backing'[<<x, c>>] = backing[<<x, c>>] + n
               /\ supply'[<<x, Claim(c, 0)>>] = supply[<<x, Claim(c, 0)>>] + n
               /\ supply'[<<x, Claim(c, 1)>>] = supply[<<x, Claim(c, 1)>>] + n
  <2>1. Claim(c, 0) \in ClaimAssets /\ Claim(c, 1) \in ClaimAssets
    BY ClaimFacts
  <2>2. CASE x = m
    <3>1. CollateralOf(Claim(c, 0)) = c /\ CollateralOf(Claim(c, 1)) = c
      BY AssetsOfCollateral
    <3>2. b.minted[c] \in Nat
      BY <1>3 DEF Naturals
    <3>3. backing'[<<m, c>>] = backing[<<m, c>>] + b.minted[c]
      BY <1>2, <1>3 DEF Backed
    <3>4. /\ supply'[<<m, Claim(c, 0)>>] = supply[<<m, Claim(c, 0)>>] + b.minted[c]
          /\ supply'[<<m, Claim(c, 1)>>] = supply[<<m, Claim(c, 1)>>] + b.minted[c]
      BY <2>1, <3>1, <1>4 DEF MintsOnly
    <3>5. QED
      BY <2>2, <3>2, <3>3, <3>4
  <2>3. CASE x # m
    <3>1. backing'[<<x, c>>] = backing[<<x, c>>]
      BY <1>2, <1>3, <2>3 DEF LocalBooks
    <3>2. /\ supply'[<<x, Claim(c, 0)>>] = supply[<<x, Claim(c, 0)>>]
          /\ supply'[<<x, Claim(c, 1)>>] = supply[<<x, Claim(c, 1)>>]
      BY <2>1, <2>3, <1>4 DEF MintsOnly
    <3>3. /\ backing[<<x, c>>] \in Int /\ supply[<<x, Claim(c, 0)>>] \in Int
          /\ supply[<<x, Claim(c, 1)>>] \in Int
      BY <1>1, <2>1, CustodyInts
    <3>4. \A y \in Int : y + 0 = y
      OBVIOUS
    <3>5. QED
      BY <3>1, <3>2, <3>3, <3>4
  <2>4. QED
    BY <2>2, <2>3
<1>8. ClaimsBacked'
  <2> SUFFICES ASSUME NEW x \in Markets, NEW c \in Collaterals
               PROVE  backing'[<<x, c>>] >= ClaimBacking(supply'[<<x, Claim(c, 0)>>],
                         supply'[<<x, Claim(c, 1)>>], market[x].payouts)
    BY <1>2 DEF ClaimsBacked
  <2> DEFINE yes == supply[<<x, Claim(c, 0)>>]
             no == supply[<<x, Claim(c, 1)>>]
             payouts == market[x].payouts
  <2>1. PICK n \in Nat : /\ backing'[<<x, c>>] = backing[<<x, c>>] + n
                         /\ supply'[<<x, Claim(c, 0)>>] = yes + n
                         /\ supply'[<<x, Claim(c, 1)>>] = no + n
    BY <1>7
  <2>2. /\ yes \in Int /\ no \in Int /\ backing[<<x, c>>] \in Int
        /\ backing[<<x, c>>] >= ClaimBacking(yes, no, payouts)
        /\ ClaimBacking(yes, no, payouts) \in Int
    BY <1>1, ClaimValues
  <2>3. payouts \in PayoutPairs
    BY <1>1, PayoutsType
  <2> HIDE DEF yes, no, payouts
  <2>4. ClaimBacking(yes + n, no + n, payouts) = ClaimBacking(yes, no, payouts) + n
    BY <2>2, <2>3, BackingOfSets
  <2>5. backing'[<<x, c>>] >= ClaimBacking(yes + n, no + n, payouts)
    BY <2>1, <2>2, <2>4
  <2>6. QED
    BY <2>1, <2>5 DEF payouts
<1>9. BackingExact'
  <2> SUFFICES ASSUME NEW x \in Markets, NEW c \in Collaterals,
                      {<<x, Claim(c, 0)>>, <<x, Claim(c, 1)>>} \cap burned = {}
               PROVE  Worth(supply'[<<x, Claim(c, 0)>>], supply'[<<x, Claim(c, 1)>>],
                            backing'[<<x, c>>], market[x].payouts)
    BY <1>2 DEF BackingExact, Worth
  <2> DEFINE yes == supply[<<x, Claim(c, 0)>>]
             no == supply[<<x, Claim(c, 1)>>]
             payouts == market[x].payouts
             back == backing[<<x, c>>]
  <2>1. PICK n \in Nat : /\ backing'[<<x, c>>] = back + n
                         /\ supply'[<<x, Claim(c, 0)>>] = yes + n
                         /\ supply'[<<x, Claim(c, 1)>>] = no + n
    BY <1>7
  <2>2. yes \in Int /\ no \in Int /\ back \in Int
    BY <1>1, ClaimValues
  <2>3. payouts \in PayoutPairs
    BY <1>1, PayoutsType
  <2>4. Worth(yes, no, back, payouts)
    BY <1>1 DEF BackingExact, Worth
  <2> HIDE DEF yes, no, payouts, back
  <2>5. Worth(yes + n, no + n, back + n, payouts)
    BY <2>2, <2>3, <2>4, WorthOfSets
  <2>6. QED
    BY <2>1, <2>5 DEF payouts
<1>10. QED
  BY <1>6, <1>8, <1>9

----------------------------------------------------------------------------
(* The pools owe what they did.                                            *)
CreditIn(b, k) == [o \in Owners |-> b.available[<<k, o>>]]
HeldIn(b, k) ==
    [x \in Markets \X Collaterals |->
       IF MintOf(x[1], x[2]) = k
       THEN b.escrow[<<x[1], Underlying(x[2])>>] + b.backing[<<x[1], x[2]>>] ELSE 0]

LEMMA HeldInType ==
    ASSUME NEW D, NEW b \in Ledgers(D), Naturals(b), Fits(b), NEW k
    PROVE  HeldIn(b, k) \in [Markets \X Collaterals -> Nat]
<1>1. \A x \in Markets, c \in Collaterals :
        b.escrow[<<x, Underlying(c)>>] + b.backing[<<x, c>>] \in Nat
  <2> TAKE x \in Markets, c \in Collaterals
  <2>1. Underlying(c) \in Assets
    BY AssetsOfCollateral
  <2>2. b.escrow \in [Markets \X Assets -> Int]
    BY DEF Ledgers, EscrowImages
  <2>3. b.escrow[<<x, Underlying(c)>>] \in Int /\ b.escrow[<<x, Underlying(c)>>] >= 0
    BY <2>1, <2>2 DEF Fits
  <2>4. b.backing[<<x, c>>] \in Nat
    BY DEF Naturals
  <2>5. QED
    BY <2>3, <2>4
<1>2. \A y \in Markets \X Collaterals :
        (IF MintOf(y[1], y[2]) = k
         THEN b.escrow[<<y[1], Underlying(y[2])>>] + b.backing[<<y[1], y[2]>>] ELSE 0) \in Nat
  BY <1>1
<1>3. QED
  BY <1>2 DEF HeldIn

(* What an unlisted leg of the market holds, and what other markets hold. *)
SameHeld(b, x, d) ==
    /\ b.escrow[<<x, Underlying(d)>>] = escrow[<<x, Underlying(d)>>]
    /\ b.backing[<<x, d>>] = backing[<<x, d>>]

LEMMA HeldElsewhere ==
    ASSUME LedgersInv, NEW D, NEW m \in Markets, NEW b, Settled(D, m, b),
           NEW x \in Markets, NEW d \in Collaterals, x # m \/ ~Listed(m, d)
    PROVE  SameHeld(b, x, d)
<1>1. Underlying(d) \in Assets
  BY AssetsOfCollateral
<1>2. LocalBooks(m, b) /\ LocalEscrow(m, b) /\ Backed(m, b) /\ b \in Ledgers(D)
  BY DEF Settled, Images
<1>3. CASE x # m
  BY <1>1, <1>2, <1>3 DEF LocalBooks, SameHeld
<1>4. CASE x = m
  <2>1. ~Listed(m, d)
    BY <1>4
  <2>2. b.escrow[<<m, Underlying(d)>>] = escrow[<<m, Underlying(d)>>]
    BY <1>2, <2>1 DEF LocalEscrow
  <2>3. b.backing[<<m, d>>] = backing[<<m, d>>] + 0
    BY <1>2, <2>1 DEF Backed
  <2>4. backing[<<m, d>>] \in Int
    BY CustodyInts DEF LedgersInv, CustodyInv
  <2>5. QED
    BY <1>4, <2>2, <2>3, <2>4 DEF SameHeld
<1>5. QED
  BY <1>3, <1>4

LEMMA PoolsOwe ==
    ASSUME LedgersInv, NEW D, NEW m \in Markets, NEW b, Settled(D, m, b), NEW k \in Mints
    PROVE  Sum(CreditIn(b, k)) + Sum(HeldIn(b, k)) = Sum(CreditOf(k)) + Sum(HeldOf(k))
<1>1. /\ b \in Ledgers(D) /\ Naturals(b) /\ Fits(b) /\ LocalCredits(m, Everyone, b)
  BY DEF Settled, Images
<1>2. PoolType /\ CustodyType /\ MarketInv
  BY DEF LedgersInv, CustodyInv, ListingInv
<1>3. /\ HeldIn(b, k) \in [Markets \X Collaterals -> Nat]
      /\ HeldOf(k) \in [Markets \X Collaterals -> Nat] /\ IsFiniteSet(Markets \X Collaterals)
  BY <1>1, <1>2, HeldInType, HeldOfType
<1>4. CASE \E c \in Collaterals : Listed(m, c) /\ MintOf(m, c) = k
  <2>1. PICK c \in Collaterals : Listed(m, c) /\ MintOf(m, c) = k
    BY <1>4
  <2> DEFINE a == Underlying(c)
             old == escrow[<<m, a>>] + backing[<<m, c>>]
             new == b.escrow[<<m, a>>] + b.backing[<<m, c>>]
  <2>2. a \in SettledAssets(m) /\ a \notin ClaimAssets /\ CollateralOf(a) = c /\ a \in Assets
    BY <2>1, AssetsOfCollateral DEF SettledAssets
  <2>3. NetHolding(b, Everyone, m, a) = NetHolding(Ledger, Everyone, m, a)
    BY <2>2 DEF Settled
  <2>4. /\ NetHolding(b, Everyone, m, a) = Holding(b, Everyone, m, a) - 0
        /\ NetHolding(Ledger, Everyone, m, a) = Holding(Ledger, Everyone, m, a) - 0
    BY <2>2 DEF NetHolding
  <2>5. Holding(b, Everyone, m, a) = Sum(CreditIn(b, k)) + b.escrow[<<m, a>>] + b.backing[<<m, c>>]
    BY <2>1, <2>2 DEF Holding, LentOf, Everyone, CreditIn
  <2>6. Holding(Ledger, Everyone, m, a) = Sum(CreditOf(k)) + escrow[<<m, a>>] + backing[<<m, c>>]
    BY <2>1, <2>2, LedgerFields DEF Holding, LentOf, Everyone, CreditOf
  <2>7. /\ b.escrow[<<m, a>>] \in Int /\ b.backing[<<m, c>>] \in Int
        /\ escrow[<<m, a>>] \in Int /\ backing[<<m, c>>] \in Int
    <3>1. escrow[<<m, a>>] \in Int /\ backing[<<m, c>>] \in Int
      BY <1>2, <2>2, CustodyInts, CustodyValues
    <3>2. b.escrow[<<m, a>>] \in Int /\ b.backing[<<m, c>>] \in Int
      BY <1>1, <2>2 DEF Ledgers, EscrowImages, BackingImages
    <3>3. QED
      BY <3>1, <3>2
  <2>8. Sum(CreditOf(k)) \in Int /\ Sum(HeldOf(k)) \in Int /\ Sum(CreditIn(b, k)) \in Int
    <3>1. Sum(CreditOf(k)) \in Int /\ Sum(HeldOf(k)) \in Int
      BY <1>2, LedgerSumsType
    <3>2. CreditIn(b, k) \in [Owners -> Nat]
      BY <1>1 DEF Naturals, CreditIn
    <3>3. Sum(CreditIn(b, k)) \in Nat
      BY <3>2, OwnersFinite, SumType
    <3>4. QED
      BY <3>1, <3>3
  <2>9. HeldIn(b, k)[<<m, c>>] = new /\ HeldOf(k)[<<m, c>>] = old
    BY <2>1 DEF HeldIn, HeldOf
  <2>10. \A y \in (Markets \X Collaterals) \ {<<m, c>>} : HeldIn(b, k)[y] = HeldOf(k)[y]
    <3> SUFFICES ASSUME NEW x \in Markets, NEW d \in Collaterals, <<x, d>> # <<m, c>>
                 PROVE  HeldIn(b, k)[<<x, d>>] = HeldOf(k)[<<x, d>>]
      OBVIOUS
    <3>1. CASE MintOf(x, d) = k
      <4>1. x # m \/ ~Listed(m, d)
        BY <1>2, <2>1, <3>1 DEF MarketInv, SegregatedCollateral
      <4>2. SameHeld(b, x, d)
        BY <4>1, HeldElsewhere
      <4>3. QED
        BY <4>2 DEF SameHeld, HeldIn, HeldOf
    <3>2. CASE MintOf(x, d) # k
      BY <3>2 DEF HeldIn, HeldOf
    <3>3. QED
      BY <3>1, <3>2
  <2> HIDE DEF a
  <2>11. Sum(HeldIn(b, k)) = Sum(HeldOf(k)) - HeldOf(k)[<<m, c>>] + HeldIn(b, k)[<<m, c>>]
    BY <1>3, <2>10, SumMoved
  <2>12. Sum(CreditIn(b, k)) + new = Sum(CreditOf(k)) + old
    <3> DEFINE p == Sum(CreditIn(b, k))
               q == Sum(CreditOf(k))
               e == b.escrow[<<m, a>>]
               v == b.backing[<<m, c>>]
               f == escrow[<<m, a>>]
               w == backing[<<m, c>>]
    <3>1. /\ p \in Int /\ q \in Int /\ e \in Int /\ v \in Int /\ f \in Int /\ w \in Int
      BY <2>7, <2>8
    <3>2. (p + e + v) - 0 = (q + f + w) - 0
      BY <2>3, <2>4, <2>5, <2>6
    <3> HIDE DEF p, q, e, v, f, w
    <3>3. p + (e + v) = q + (f + w)
      BY <3>1, <3>2
    <3>4. QED
      BY <3>3 DEF p, q, e, v, f, w
  <2>13. old \in Int /\ new \in Int
    BY <2>7
  <2> HIDE DEF old, new
  <2>14. QED
    BY <2>8, <2>9, <2>11, <2>12, <2>13
<1>5. CASE \A c \in Collaterals : Listed(m, c) => MintOf(m, c) # k
  <2>1. CreditIn(b, k) = CreditOf(k)
    <3>1. \A o \in Owners : b.available[<<k, o>>] = available[<<k, o>>]
      BY <1>1, <1>5 DEF LocalCredits
    <3>2. QED
      BY <3>1 DEF CreditIn, CreditOf
  <2>2. ASSUME NEW x \in Markets, NEW d \in Collaterals
        PROVE  HeldIn(b, k)[<<x, d>>] = HeldOf(k)[<<x, d>>]
    <3>1. CASE MintOf(x, d) = k
      <4>1. x # m \/ ~Listed(m, d)
        BY <1>5, <3>1
      <4>2. SameHeld(b, x, d)
        BY <4>1, HeldElsewhere
      <4>3. QED
        BY <4>2 DEF SameHeld, HeldIn, HeldOf
    <3>2. CASE MintOf(x, d) # k
      BY <3>2 DEF HeldIn, HeldOf
    <3>3. QED
      BY <3>1, <3>2
  <2>3. \A y \in Markets \X Collaterals : HeldIn(b, k)[y] = HeldOf(k)[y]
    BY <2>2
  <2>4. HeldIn(b, k) = HeldOf(k)
    BY <1>3, <2>3
  <2>5. QED
    BY <2>1, <2>4
<1>6. QED
  BY <1>4, <1>5

----------------------------------------------------------------------------
LEMMA WrittenLedgers ==
    ASSUME LedgersInv, NEW D, NEW m \in Markets, NEW b, Settled(D, m, b), Written(m, b)
    PROVE  LedgersInv'
<1>1. /\ PoolType /\ CustodyType /\ ConfigType /\ MarketInv /\ SelfChecksSilent
      /\ PoolLedgerExact /\ CreditLedgerExact /\ Unopened /\ UnlistedEmpty
  BY DEF LedgersInv, LedgersExact, CustodyInv, ListingInv
<1>2. /\ available' = b.available /\ balance' = b.balance /\ credits' = b.credits
      /\ escrow' = b.escrow /\ backing' = b.backing /\ tripped' = tripped
  BY DEF Written, Commit
<1>3. UNCHANGED settledElsewhere
  BY DEF Written
<1>4. /\ liability' = liability /\ reserve' = reserve /\ opened' = opened /\ seized' = seized
      /\ market' = market /\ legs' = legs /\ config' = config /\ now' = now /\ noticed' = noticed
      /\ UNCHANGED marketVars
  BY <1>3, CustodySame
<1>5. PoolType' /\ CustodyType'
  BY WrittenTypes
<1>6. ClaimCustody' /\ ClaimsBacked' /\ BackingExact'
  BY WrittenClaims
<1>7. ConfigType' /\ SelfChecksSilent'
  BY <1>1, <1>2, <1>4 DEF ConfigType, SelfChecksSilent
<1>8. MarketInv'
  BY <1>1, <1>4, MarketInvUnchanged
<1>9. CustodyInv'
  BY <1>5, <1>6, <1>7, <1>8 DEF CustodyInv, ListingInv
<1>10. PoolLedgerExact'
  <2> SUFFICES ASSUME NEW k \in Mints
               PROVE  /\ liability'[k] = (Sum(CreditOf(k)))' + (Sum(HeldOf(k)))'
                      /\ k \notin seized' => reserve'[k] >= liability'[k]
    BY DEF PoolLedgerExact
  <2>1. CreditOf(k)' = CreditIn(b, k)
    BY <1>2 DEF CreditOf, CreditIn
  <2>2. HeldOf(k)' = HeldIn(b, k)
    BY <1>2, <1>4 DEF HeldOf, HeldIn, MintOf
  <2>3. (Sum(CreditOf(k)))' = Sum(CreditIn(b, k)) /\ (Sum(HeldOf(k)))' = Sum(HeldIn(b, k))
    BY <2>1, <2>2 DEF Sum, Units
  <2>4. Sum(CreditIn(b, k)) + Sum(HeldIn(b, k)) = Sum(CreditOf(k)) + Sum(HeldOf(k))
    BY PoolsOwe
  <2>5. /\ liability[k] = Sum(CreditOf(k)) + Sum(HeldOf(k))
        /\ k \notin seized => reserve[k] >= liability[k]
    BY <1>1 DEF PoolLedgerExact
  <2>6. QED
    BY <1>4, <2>3, <2>4, <2>5
<1>11. CreditLedgerExact'
  <2> SUFFICES ASSUME NEW x \in Markets, NEW a \in ClaimAssets
               PROVE  credits'[<<x, a>>] = (Sum(BalancesOf(x, a)))'
    BY DEF CreditLedgerExact
  <2>1. (Sum(BalancesOf(x, a)))' = Sum([o \in Owners |-> b.balance[<<x, o, a>>]])
    BY <1>2 DEF BalancesOf, Sum, Units
  <2>2. Wallets(m, b) /\ LocalBooks(m, b)
    BY DEF Settled, Images
  <2>3. CASE x = m
    BY <1>2, <2>1, <2>2, <2>3 DEF Wallets
  <2>4. CASE x # m
    <3>1. /\ b.credits[<<x, a>>] = credits[<<x, a>>]
          /\ \A o \in Owners : b.balance[<<x, o, a>>] = balance[<<x, o, a>>]
      BY <2>2, <2>4 DEF LocalBooks
    <3>2. [o \in Owners |-> b.balance[<<x, o, a>>]] = BalancesOf(x, a)
      BY <3>1 DEF BalancesOf
    <3>3. credits[<<x, a>>] = Sum(BalancesOf(x, a))
      BY <1>1 DEF CreditLedgerExact
    <3>4. QED
      BY <1>2, <2>1, <3>1, <3>2, <3>3
  <2>5. QED
    BY <2>3, <2>4
<1>12. Unopened'
  <2> SUFFICES ASSUME NEW k \in Mints, NEW o \in Owners, <<k, o>> \notin opened
               PROVE  available'[<<k, o>>] = 0
    BY <1>4 DEF Unopened
  <2>1. b.available[<<k, o>>] = available[<<k, o>>]
    BY DEF Settled
  <2>2. QED
    BY <1>1, <1>2, <2>1 DEF Unopened
<1>13. UnlistedEmpty'
  <2> SUFFICES ASSUME NEW x \in Markets, NEW c \in Collaterals, ~Listed(x, c)
               PROVE  escrow'[<<x, Underlying(c)>>] = 0 /\ backing'[<<x, c>>] = 0
    BY <1>4 DEF UnlistedEmpty, Listed
  <2>1. x # m \/ ~Listed(m, c)
    OBVIOUS
  <2>2. SameHeld(b, x, c)
    BY <2>1, HeldElsewhere
  <2>3. QED
    BY <1>1, <1>2, <2>2 DEF UnlistedEmpty, SameHeld
<1>14. QED
  BY <1>6, <1>9, <1>10, <1>11, <1>12, <1>13 DEF LedgersInv, LedgersExact

----------------------------------------------------------------------------
(* The handlers' own checks.                                               *)

(* What the settlement keeps for the owners that were lent. *)
NetKept(m, F, b) ==
    \A x \in SettledAssets(m) : NetHolding(b, F, m, x) = NetHolding(Ledger, F, m, x)

LEMMA ConservedHolds ==
    ASSUME LedgersInv, NEW D, NEW m \in Markets, market[m].state # NONE, NEW frames,
           NEW b, Images(D, m, LentBy(frames), b), NetKept(m, LentBy(frames), b)
    PROVE  Conserved(b, frames, m)
<1> DEFINE F == LentBy(frames)
<1>1. PoolType /\ CustodyType /\ MarketInv
  BY DEF LedgersInv, CustodyInv, ListingInv
<1>2. \A c \in 0 .. market[m].bases : c \in Collaterals /\ Listed(m, c)
  <2>1. market[m].bases \in Collaterals
    BY <1>1, MarketRecord
  <2>2. QED
    BY <2>1, MarketConstants DEF Collaterals, Listed
<1>3. ASSUME NEW c \in 0 .. market[m].bases
      PROVE  Lent(b, frames, m, c) + b.escrow[<<m, Underlying(c)>>] + b.backing[<<m, c>>]
               = Liability(m, c, Lent(Ledger, frames, m, c))
  <2> DEFINE a == Underlying(c)
  <2>1. c \in Collaterals /\ Listed(m, c)
    BY <1>2
  <2>2. a \in SettledAssets(m) /\ a \notin ClaimAssets /\ CollateralOf(a) = c /\ a \in Assets
    BY <2>1, AssetsOfCollateral DEF SettledAssets
  <2>3. NetHolding(b, F, m, a) = NetHolding(Ledger, F, m, a)
    BY <2>2 DEF NetKept
  <2>4. /\ Lent(b, frames, m, c) = LentOf(b, F, m, c)
        /\ Lent(Ledger, frames, m, c) = LentOf(Ledger, F, m, c)
    BY <2>1 DEF Lent, LentOf, LentBy
  <2> DEFINE x == LentOf(b, F, m, c)
             y == LentOf(Ledger, F, m, c)
  <2> HIDE DEF a, F, x, y
  <2>5. /\ Holding(b, F, m, a) = x + b.escrow[<<m, a>>] + b.backing[<<m, c>>]
        /\ Holding(Ledger, F, m, a) = y + escrow[<<m, a>>] + backing[<<m, c>>]
    BY <2>2, LedgerFields DEF Holding, x, y
  <2>6. /\ NetHolding(b, F, m, a) = Holding(b, F, m, a) - 0
        /\ NetHolding(Ledger, F, m, a) = Holding(Ledger, F, m, a) - 0
    BY <2>2 DEF NetHolding
  <2>7. Holding(b, F, m, a) \in Int /\ Holding(Ledger, F, m, a) \in Int
    <3>1. F \in Lenders
      BY DEF F, LentBy, Lenders
    <3>2. b \in Ledgers(D) /\ Naturals(b)
      BY DEF Images, F
    <3>3. Holding(b, F, m, a) \in Int
      BY <2>2, <3>1, <3>2, HoldingType
    <3>4. x \in Int /\ y \in Int
      <4>1. [o \in F[c] |-> b.available[<<MintOf(m, c), o>>]] \in [F[c] -> Nat]
        <5>1. MintOf(m, c) \in Mints
          BY <1>1, <2>1 DEF MarketInv, MintsListed
        <5>2. F[c] \subseteq Owners
          BY <2>1, <3>1 DEF Lenders
        <5>3. QED
          BY <3>2, <5>1, <5>2 DEF Naturals
      <4>2. [o \in F[c] |-> Ledger.available[<<MintOf(m, c), o>>]] \in [F[c] -> Nat]
        <5>1. MintOf(m, c) \in Mints
          BY <1>1, <2>1 DEF MarketInv, MintsListed
        <5>2. F[c] \subseteq Owners
          BY <2>1, <3>1 DEF Lenders
        <5>3. available \in [Mints \X Owners -> Nat]
          BY <1>1, U64Functions DEF PoolType
        <5>4. QED
          BY <5>1, <5>2, <5>3, LedgerFields
      <4>3. IsFiniteSet(F[c])
        BY <2>1, <3>1, OwnersFinite DEF Lenders
      <4>4. QED
        <5>1. Sum([o \in F[c] |-> b.available[<<MintOf(m, c), o>>]]) \in Nat
          BY <4>1, <4>3, SumType
        <5>2. Sum([o \in F[c] |-> Ledger.available[<<MintOf(m, c), o>>]]) \in Nat
          BY <4>2, <4>3, SumType
        <5>3. QED
          BY <5>1, <5>2 DEF x, y, LentOf
    <3>5. escrow[<<m, a>>] \in Int /\ backing[<<m, c>>] \in Int
      <4>1. backing[<<m, c>>] \in Int
        BY <1>1, <2>1, CustodyInts
      <4>2. escrow[<<m, a>>] \in Nat
        BY <1>1, <2>2 DEF CustodyType
      <4>3. QED
        BY <4>1, <4>2
    <3>6. QED
      BY <2>5, <3>3, <3>4, <3>5
  <2>8. Holding(b, F, m, a) = Holding(Ledger, F, m, a)
    <3> DEFINE p == Holding(b, F, m, a)
               q == Holding(Ledger, F, m, a)
    <3>1. p \in Int /\ q \in Int /\ p - 0 = q - 0
      BY <2>3, <2>6, <2>7
    <3> HIDE DEF p, q
    <3>2. p = q
      BY <3>1
    <3>3. QED
      BY <3>2 DEF p, q
  <2>9. x + b.escrow[<<m, a>>] + b.backing[<<m, c>>] = y + escrow[<<m, a>>] + backing[<<m, c>>]
    BY <2>5, <2>8
  <2>10. QED
    BY <2>4, <2>9 DEF Liability, a, x, y
<1>4. ASSUME NEW c \in 0 .. market[m].bases, NEW p \in Owners, <<p, c>> \notin frames
      PROVE  b.available[<<MintOf(m, c), p>>] = available[<<MintOf(m, c), p>>]
  <2>1. c \in Collaterals /\ Listed(m, c)
    BY <1>2
  <2>2. MintOf(m, c) \in Mints
    BY <1>1, <2>1 DEF MarketInv, MintsListed
  <2>3. LocalCredits(m, F, b)
    BY DEF Images
  <2>4. SUFFICES ASSUME b.available[<<MintOf(m, c), p>>] # available[<<MintOf(m, c), p>>]
                 PROVE  FALSE
    OBVIOUS
  <2>5. PICK d \in Collaterals : Listed(m, d) /\ MintOf(m, c) = MintOf(m, d) /\ p \in F[d]
    BY <2>2, <2>3, <2>4 DEF LocalCredits
  <2>6. d = c
    BY <1>1, <2>1, <2>5 DEF MarketInv, SegregatedCollateral
  <2>7. QED
    BY <1>4, <2>1, <2>5, <2>6 DEF LentBy
<1>5. QED
  BY <1>3, <1>4 DEF Conserved

----------------------------------------------------------------------------
LEMMA SumPart ==
    ASSUME NEW S, IsFiniteSet(S), NEW f \in [S -> Nat], NEW T \in SUBSET S
    PROVE  Sum([x \in T |-> f[x]]) <= Sum(f)
<1> DEFINE g == [x \in T |-> f[x]]
<1>1. Units(g) \subseteq Units(f)
  BY DEF Units
<1>2. IsFiniteSet(Units(f))
  BY UnitsFinite
<1>3. Cardinality(Units(g)) <= Cardinality(Units(f))
  BY <1>1, <1>2, FS_Subset
<1>4. QED
  BY <1>3 DEF Sum

(* What a pool owes covers what any of its owners and one leg hold. *)
LEMMA OwedCovers ==
    ASSUME LedgersInv, NEW m \in Markets, NEW c \in Collaterals, MintOf(m, c) \in Mints,
           NEW frames
    PROVE  Liability(m, c, Lent(Ledger, frames, m, c)) <= liability[MintOf(m, c)]
<1> DEFINE k == MintOf(m, c)
           T == {q \in Owners : <<q, c>> \in frames}
           p == Sum(CreditOf(k))
           h == Sum(HeldOf(k))
           part == Sum([o \in T |-> CreditOf(k)[o]])
           e == escrow[<<m, Underlying(c)>>] + backing[<<m, c>>]
<1>1. PoolType /\ CustodyType /\ PoolLedgerExact
  BY DEF LedgersInv, LedgersExact, CustodyInv, ListingInv
<1>2. CreditOf(k) \in [Owners -> Nat] /\ IsFiniteSet(Owners)
  BY <1>1, CreditOfType
<1>3. part <= p
  BY <1>2, SumPart
<1>4. Lent(Ledger, frames, m, c) = part
  <2>1. [o \in T |-> Ledger.available[<<MintOf(m, c), o>>]] = [o \in T |-> CreditOf(k)[o]]
    BY LedgerFields DEF CreditOf
  <2>2. QED
    BY <2>1 DEF Lent
<1>5. /\ escrow[<<m, Underlying(c)>>] \in Int /\ backing[<<m, c>>] \in Int
  <2>1. backing[<<m, c>>] \in Int
    BY <1>1, CustodyInts
  <2>2. Underlying(c) \in Assets
    BY AssetsOfCollateral
  <2>3. escrow[<<m, Underlying(c)>>] \in Nat
    BY <1>1, <2>2 DEF CustodyType
  <2>4. QED
    BY <2>1, <2>3
<1>6. p \in Nat /\ h \in Nat
  BY <1>1, LedgerSumsType
<1>7. part \in Nat
  <2>1. [o \in T |-> CreditOf(k)[o]] \in [T -> Nat] /\ IsFiniteSet(T)
    BY <1>2, OwnersFinite
  <2> HIDE DEF T
  <2>2. QED
    BY <2>1, SumType
<1>8. e <= h
  <2> DEFINE H == HeldOf(k)
             rest == Sum([y \in (Markets \X Collaterals) \ {<<m, c>>} |-> H[y]])
  <2>1. H \in [Markets \X Collaterals -> Nat] /\ IsFiniteSet(Markets \X Collaterals)
    BY <1>1, HeldOfType
  <2>2. H[<<m, c>>] = e
    BY DEF HeldOf
  <2>3. Sum(H) = rest + H[<<m, c>>]
    <3> HIDE DEF H
    <3>1. QED
      BY <2>1, SumAt
  <2>4. rest \in Nat
    <3> DEFINE S == (Markets \X Collaterals) \ {<<m, c>>}
    <3> HIDE DEF H
    <3>1. IsFiniteSet(S) /\ [y \in S |-> H[y]] \in [S -> Nat]
      BY <2>1, FS_Subset
    <3> HIDE DEF S
    <3>2. Sum([y \in S |-> H[y]]) \in Nat
      BY <3>1, SumType
    <3>3. QED
      BY <3>2 DEF S
  <2>5. e \in Int
    BY <1>5
  <2> HIDE DEF rest, e
  <2>6. QED
    BY <2>2, <2>3, <2>4, <2>5
<1>9. liability[k] = p + h
  BY <1>1 DEF PoolLedgerExact
<1>10. Liability(m, c, part) = part + e
  <2> HIDE DEF part
  <2>1. QED
    BY <1>5, <1>7 DEF Liability
<1>11. e \in Int
  BY <1>5
<1> HIDE DEF p, h, part, e
<1>12. part + e <= p + h
  BY <1>3, <1>6, <1>7, <1>8, <1>11
<1>13. QED
  BY <1>4, <1>9, <1>10, <1>12

(* The claims of the images are in custody and backed. *)
ClaimsCovered(m, b, c) ==
    /\ b.backing[<<m, c>>] >= ClaimBacking(supply[<<m, Claim(c, 0)>>] + b.minted[c],
                                          supply[<<m, Claim(c, 1)>>] + b.minted[c],
                                          market[m].payouts)
    /\ \A a \in {Claim(c, 0), Claim(c, 1)} :
         /\ supply[<<m, a>>] + b.minted[c] >= vault[<<m, a>>] + b.minted[c]
         /\ vault[<<m, a>>] + b.minted[c]
              >= b.credits[<<m, a>>] + b.escrow[<<m, a>>] + b.fees[<<m, a>>]

LEMMA ClaimsHold ==
    ASSUME LedgersInv, NEW D, NEW m \in Markets, NEW F, NEW b, Images(D, m, F, b),
           NetKept(m, F, b), NEW c \in Collaterals
    PROVE  ClaimsCovered(m, b, c)
<1> DEFINE n == b.minted[c]
<1>1. CustodyType /\ ClaimCustody /\ CustodyInv
  BY DEF LedgersInv, CustodyInv
<1>2. b \in Ledgers(D) /\ Naturals(b) /\ Backed(m, b)
  BY DEF Images
<1>3. n \in Nat
  BY <1>2 DEF Naturals
<1>4. ASSUME NEW a \in {Claim(c, 0), Claim(c, 1)}
      PROVE  /\ supply[<<m, a>>] + n >= vault[<<m, a>>] + n
             /\ vault[<<m, a>>] + n >= b.credits[<<m, a>>] + b.escrow[<<m, a>>] + b.fees[<<m, a>>]
  <2>1. a \in ClaimAssets
    BY ClaimFacts
  <2>2. CollateralOf(a) = c /\ a \in Assets /\ a \in SettledAssets(m)
    BY <2>1, AssetsOfCollateral DEF ClaimAssets, SettledAssets
  <2>3. NetHolding(b, F, m, a) = NetHolding(Ledger, F, m, a)
    BY <2>2 DEF NetKept
  <2> DEFINE x == b.credits[<<m, a>>] + b.escrow[<<m, a>>] + b.fees[<<m, a>>]
             z == ClaimLiability(m, a)
             s == supply[<<m, a>>]
             v == vault[<<m, a>>]
  <2>4. NetHolding(b, F, m, a) = x - n
    <3>1. Holding(b, F, m, a) = x
      BY <2>1 DEF Holding
    <3>2. NetHolding(b, F, m, a) = Holding(b, F, m, a) - n
      BY <2>1, <2>2 DEF NetHolding
    <3>3. QED
      BY <3>1, <3>2
  <2>5. NetHolding(Ledger, F, m, a) = z - 0
    <3>1. Holding(Ledger, F, m, a) = z
      BY <2>1, LedgerFields DEF Holding, ClaimLiability
    <3>2. Ledger.minted[c] = 0
      BY DEF Ledger
    <3>3. NetHolding(Ledger, F, m, a) = Holding(Ledger, F, m, a) - 0
      BY <2>1, <2>2, <3>2 DEF NetHolding
    <3>4. QED
      BY <3>1, <3>3
  <2>6. x \in Int
    BY <1>2, <2>1, <2>2 DEF Ledgers, ClaimImages, EscrowImages
  <2>7. z \in Int /\ s \in Int /\ v \in Int
    BY <1>1, <2>1, CustodyInts
  <2>8. v >= z /\ s >= v
    BY <1>1, <2>1 DEF ClaimCustody
  <2> HIDE DEF x, z, s, v, n
  <2>9. x = z + n
    <3>1. x - n = z - 0
      BY <2>3, <2>4, <2>5
    <3>2. QED
      BY <1>3, <2>6, <2>7, <3>1
  <2>10. s + n >= v + n /\ v + n >= x
    BY <1>3, <2>7, <2>8, <2>9
  <2>11. QED
    BY <2>10 DEF x, s, v
<1>5. b.backing[<<m, c>>] >= ClaimBacking(supply[<<m, Claim(c, 0)>>] + n,
                                         supply[<<m, Claim(c, 1)>>] + n, market[m].payouts)
  <2> DEFINE yes == supply[<<m, Claim(c, 0)>>]
             no == supply[<<m, Claim(c, 1)>>]
             payouts == market[m].payouts
  <2>1. /\ yes \in Int /\ no \in Int /\ backing[<<m, c>>] \in Int
        /\ backing[<<m, c>>] >= ClaimBacking(yes, no, payouts)
        /\ ClaimBacking(yes, no, payouts) \in Int
    BY <1>1, ClaimValues
  <2>2. payouts \in PayoutPairs
    BY <1>1, PayoutsType
  <2>3. b.backing[<<m, c>>] = backing[<<m, c>>] + n
    BY <1>2 DEF Backed
  <2> HIDE DEF yes, no, payouts, n
  <2>4. ClaimBacking(yes + n, no + n, payouts) = ClaimBacking(yes, no, payouts) + n
    BY <1>3, <2>1, <2>2, BackingOfSets
  <2>5. b.backing[<<m, c>>] >= ClaimBacking(yes + n, no + n, payouts)
    BY <1>3, <2>1, <2>3, <2>4
  <2>6. QED
    BY <2>5 DEF yes, no, payouts
<1>6. QED
  BY <1>4, <1>5 DEF ClaimsCovered

LEMMA ImageChecks ==
    ASSUME LedgersInv, NEW D, NEW m \in Markets, NEW frames, NEW b,
           Images(D, m, LentBy(frames), b), NetKept(m, LentBy(frames), b),
           NEW c \in Collaterals, Listed(m, c), MintOf(m, c) \in Mints,
           reserve[MintOf(m, c)] >= liability[MintOf(m, c)]
    PROVE  CheckCollateral(m, MintedImage(b, m, c, Lent(b, frames, m, c)))
<1> DEFINE img == MintedImage(b, m, c, Lent(b, frames, m, c))
           n == b.minted[c]
           k == MintOf(m, c)
           owed(a) == b.credits[<<m, a>>] + b.escrow[<<m, a>>] + b.fees[<<m, a>>]
<1>1. ClaimsCovered(m, b, c)
  BY ClaimsHold
<1>2. /\ img.backing = b.backing[<<m, c>>] /\ img.reserve = reserve[k]
      /\ img.owed = Lent(b, frames, m, c) + b.escrow[<<m, Underlying(c)>>] + b.backing[<<m, c>>]
  BY DEF MintedImage, Image
<1>3. /\ img.supply = <<supply[<<m, Claim(c, 0)>>] + n, supply[<<m, Claim(c, 1)>>] + n>>
      /\ img.vault = <<vault[<<m, Claim(c, 0)>>] + n, vault[<<m, Claim(c, 1)>>] + n>>
      /\ img.claims = <<owed(Claim(c, 0)), owed(Claim(c, 1))>>
  BY DEF MintedImage, Image
<1>4. img.reserve >= img.owed
  <2>1. Conserved(b, frames, m)
    BY ConservedHolds DEF Listed
  <2>2. img.owed = Liability(m, c, Lent(Ledger, frames, m, c))
    BY <1>2, <2>1 DEF Conserved, Listed
  <2>3. Liability(m, c, Lent(Ledger, frames, m, c)) <= liability[k]
    BY OwedCovers
  <2>4. reserve[k] \in Int /\ liability[k] \in Int /\ img.owed \in Int
    <3>1. reserve[k] \in Int /\ liability[k] \in Int
      BY U64Int DEF LedgersInv, CustodyInv, ListingInv, PoolType
    <3>2. Lent(Ledger, frames, m, c) \in Nat
      <4> DEFINE T == {q \in Owners : <<q, c>> \in frames}
      <4>1. available \in [Mints \X Owners -> Nat]
        BY U64Functions DEF LedgersInv, CustodyInv, ListingInv, PoolType
      <4>2. [q \in T |-> Ledger.available[<<k, q>>]] \in [T -> Nat] /\ IsFiniteSet(T)
        BY <4>1, LedgerFields, OwnersFinite
      <4> HIDE DEF T
      <4>3. Sum([q \in T |-> Ledger.available[<<k, q>>]]) \in Nat
        BY <4>2, SumType
      <4>4. QED
        BY <4>3 DEF Lent, T
    <3>3. Lent(Ledger, frames, m, c) \in Int
      BY <3>2
    <3>4. Liability(m, c, Lent(Ledger, frames, m, c)) \in Int
      <4> HIDE DEF img
      <4>1. CustodyType
        BY DEF LedgersInv, CustodyInv
      <4>2. QED
        BY <3>3, <4>1, CustodyInts
    <3>5. QED
      BY <2>2, <3>1, <3>4
  <2>5. QED
    BY <1>2, <2>2, <2>3, <2>4
<1>5. \A i \in 1 .. 2 : img.supply[i] >= img.vault[i] /\ img.vault[i] >= img.claims[i]
  <2>1. img.supply[1] >= img.vault[1] /\ img.vault[1] >= img.claims[1]
    BY <1>1, <1>3 DEF ClaimsCovered
  <2>2. img.supply[2] >= img.vault[2] /\ img.vault[2] >= img.claims[2]
    BY <1>1, <1>3 DEF ClaimsCovered
  <2>3. \A i \in 1 .. 2 : i = 1 \/ i = 2
    OBVIOUS
  <2>4. QED
    BY <2>1, <2>2, <2>3
<1>6. img.backing >= ClaimBacking(img.supply[1], img.supply[2], market[m].payouts)
  BY <1>1, <1>2, <1>3 DEF ClaimsCovered
<1> HIDE DEF img
<1>7. CheckCollateral(m, img)
  BY <1>4, <1>5, <1>6 DEF CheckCollateral
<1>8. QED
  BY <1>7 DEF img

----------------------------------------------------------------------------
(* The order accounts that are written with the images b. *)
BookWritten(b, book) ==
    /\ orders' = book /\ book \in BookImages(DOMAIN book) /\ IsFiniteSet(DOMAIN book)
    /\ DOMAIN book \subseteq OrderIds /\ AllSound(book)
    /\ \A id \in DOMAIN book : TradesListed(id.market, book[id].terms)
    /\ \A x \in Markets, a \in Assets : b.escrow[<<x, a>>] = ReservedBy(book, x, a)
    /\ \A x \in Markets : b.exposure[x] = MarketNotional(book, x)
    /\ \A x \in Markets, o \in Owners : b.held[<<x, o>>] = WalletNotional(book, x, o)

LEMMA BookInvWritten ==
    ASSUME BookInv, NEW D, NEW m \in Markets, NEW b, Settled(D, m, b), Written(m, b),
           NEW book, BookWritten(b, book), sequence' \in [Markets \X {0, 1} -> Nat]
    PROVE  BookInv'
<1>1. LedgersInv'
  BY WrittenLedgers DEF BookInv
<1>2. /\ orders' = book /\ escrow' = b.escrow /\ exposure' = b.exposure /\ held' = b.held
      /\ market' = market
  BY CustodySame DEF Written, Commit, BookWritten
<1>3. OrdersType'
  <2>1. b.exposure \in ExposureImages /\ b.held \in HeldImages
    BY DEF Settled, Images, Ledgers
  <2>2. /\ IsFiniteSet(DOMAIN orders') /\ orders' \in BookImages(DOMAIN orders')
        /\ DOMAIN orders' \subseteq OrderIds
    BY <1>2 DEF BookWritten
  <2>3. exposure' \in ExposureImages /\ held' \in HeldImages
    BY <1>2, <2>1
  <2>4. QED
    BY <2>2, <2>3 DEF OrdersType, BookImages, OrderImages, ExposureImages, HeldImages, OrderIds
<1>4. OrdersListed'
  BY <1>2 DEF OrdersListed, BookWritten, TradesListed
<1>5. BooksKept(Ledger)'
  <2>1. /\ Ledger'.orders = book /\ Ledger'.escrow = b.escrow /\ Ledger'.exposure = b.exposure
        /\ Ledger'.held = b.held
    BY <1>2 DEF Ledger
  <2>2. AllSound(Ledger'.orders)
    BY <2>1 DEF BookWritten
  <2>3. EscrowKept(Ledger')
    BY <2>1 DEF BookWritten, EscrowKept
  <2>4. ExposureKept(Ledger')
    BY <2>1 DEF BookWritten, ExposureKept
  <2>5. BooksKept(Ledger')
    BY <2>2, <2>3, <2>4 DEF BooksKept
  <2>6. QED
    BY <2>5 DEF BooksKept, AllSound, EscrowKept, ExposureKept, ReservedBy, MarketNotional,
                WalletNotional, Sum, Units, OrderSound
<1>6. QED
  BY <1>1, <1>3, <1>4, <1>5 DEF BookInv

----------------------------------------------------------------------------
(* What a placement ends with.                                             *)

LEMMA PlacementImages ==
    ASSUME BookInv, NEW actor, NEW id, NEW terms, NEW plan, NEW frames, NEW touched,
           Submitted(actor, id, terms, plan, frames),
           PlaceOk(actor, id, terms, plan, frames, touched), NEW b,
           b = FinalImages(actor, id, terms, plan, frames), CloseOk(id, terms, plan, b)
    PROVE  Settled(DOMAIN orders \cup {id}, id.market, b)
<1> DEFINE m == id.market
           order == PlacedOrder(actor, id, terms, plan)
           S == MakerIds(terms, plan, frames)
           F == LentBy(frames)
<1>1. Fits(b)
  BY DEF CloseOk
<1>2. Everyone \in Lenders /\ F \in Lenders
  BY DEF Everyone, Lenders, LentBy
<1>3. Covers(Everyone, frames) /\ Covers(F, frames)
  BY <1>2 DEF Covers, Everyone, LentBy
<1>4. Settlement(id, id.market, Everyone, order, S, b)
  BY <1>1, <1>3, PlacementSettled
<1>5. Settlement(id, id.market, F, order, S, b)
  <2> HIDE DEF F
  <2>1. QED
    BY <1>1, <1>3, PlacementSettled
<1>6. /\ Images(DOMAIN orders \cup {id}, m, Everyone, b)
      /\ \A x \in SettledAssets(m) :
           NetHolding(b, Everyone, m, x) = NetHolding(Ledger, Everyone, m, x)
  BY <1>4 DEF Settlement, Balanced
<1>7. LocalCredits(m, F, b)
  BY <1>5 DEF Settlement, Balanced, Images
<1>8. ASSUME NEW k \in Mints, NEW o \in Owners, <<k, o>> \notin opened
      PROVE  b.available[<<k, o>>] = available[<<k, o>>]
  <2>1. SUFFICES ASSUME b.available[<<k, o>>] # available[<<k, o>>] PROVE FALSE
    OBVIOUS
  <2>2. PICK c \in Collaterals : Listed(m, c) /\ k = MintOf(m, c) /\ o \in F[c]
    BY <1>7, <2>1 DEF LocalCredits
  <2>3. <<o, c>> \in frames
    BY <2>2 DEF LentBy
  <2>4. <<MintOf(m, c), o>> \in opened
    BY <2>3 DEF PlaceOk
  <2>5. QED
    BY <1>8, <2>2, <2>4
<1>9. ASSUME NEW a \in ClaimAssets
      PROVE  /\ supply[<<m, a>>] + b.minted[CollateralOf(a)] \in U64
             /\ vault[<<m, a>>] + b.minted[CollateralOf(a)] \in U64
  <2>1. <<m, a>> \in DOMAIN supply
    BY DEF BookInv, LedgersInv, CustodyInv, CustodyType, Submitted, OrderIds
  <2>2. QED
    BY <2>1 DEF CloseOk
<1>10. QED
  BY <1>1, <1>6, <1>8, <1>9 DEF Settled

LEMMA PlacementChecks ==
    ASSUME BookInv, NEW actor, NEW id, NEW terms, NEW plan, NEW frames, NEW touched,
           Submitted(actor, id, terms, plan, frames),
           PlaceOk(actor, id, terms, plan, frames, touched), NEW b,
           b = FinalImages(actor, id, terms, plan, frames), CloseOk(id, terms, plan, b)
    PROVE  CloseChecks(id.market, frames, {QUOTE} \cup touched, b)
<1> DEFINE m == id.market
           order == PlacedOrder(actor, id, terms, plan)
           S == MakerIds(terms, plan, frames)
           F == LentBy(frames)
           D == DOMAIN orders \cup {id}
<1>1. Fits(b)
  BY DEF CloseOk
<1>2. F \in Lenders
  BY DEF Lenders, LentBy
<1>3. Covers(F, frames)
  BY <1>2 DEF Covers, LentBy
<1>4. Settlement(id, id.market, F, order, S, b)
  <2> HIDE DEF F
  <2>1. QED
    BY <1>1, <1>3, PlacementSettled
<1>5. Images(D, m, F, b) /\ NetKept(m, F, b)
  BY <1>4 DEF Settlement, Balanced, NetKept
<1>6. LedgersInv /\ m \in Markets /\ market[m].state # NONE
  BY PlaceListed DEF BookInv, Submitted, OrderIds, TradesListed
<1> HIDE DEF m, D
<1>7. Conserved(b, frames, m)
  BY <1>5, <1>6, ConservedHolds
<1>8. ASSUME NEW c \in {QUOTE} \cup touched
      PROVE  CheckCollateral(m, MintedImage(b, m, c, Lent(b, frames, m, c)))
  <2>1. Ready(m, c) /\ SnapshotOk(m, c, 0)
    BY DEF PlaceOk, m
  <2>2. Listed(m, c) /\ reserve[MintOf(m, c)] >= liability[MintOf(m, c)]
    BY <2>1 DEF Ready, SnapshotOk
  <2>3. c \in Collaterals
    <3>1. market[m].bases \in Collaterals
      BY <1>6, MarketRecord DEF LedgersInv, CustodyInv, ListingInv
    <3>2. QED
      BY <2>2, <3>1, MarketConstants DEF Listed, Collaterals
  <2>4. MintOf(m, c) \in Mints
    BY <1>6, <2>2, <2>3 DEF LedgersInv, CustodyInv, ListingInv, MarketInv, MintsListed
  <2>5. QED
    BY <1>5, <1>6, <2>2, <2>3, <2>4, ImageChecks
<1>9. CloseChecks(m, frames, {QUOTE} \cup touched, b)
  BY <1>7, <1>8 DEF CloseChecks
<1>10. QED
  BY <1>9 DEF m

----------------------------------------------------------------------------
LEMMA PlacementBook ==
    ASSUME BookInv, NEW actor, NEW id, NEW terms, NEW plan, NEW frames, NEW touched,
           Submitted(actor, id, terms, plan, frames),
           PlaceOk(actor, id, terms, plan, frames, touched), NEW b,
           b = FinalImages(actor, id, terms, plan, frames), Fits(b), orders' = b.orders
    PROVE  BookWritten(b, b.orders)
<1> DEFINE m == id.market
           order == PlacedOrder(actor, id, terms, plan)
           S == MakerIds(terms, plan, frames)
           D == DOMAIN orders \cup {id}
<1>1. Covers(Everyone, frames)
  BY DEF Covers, Everyone, Lenders
<1>2. Settlement(id, m, Everyone, order, S, b)
  BY <1>1, PlacementSettled
<1>3. b \in Ledgers(D) /\ AllSound(b.orders) /\ EscrowKept(b) /\ ExposureKept(b)
  BY <1>2 DEF Settlement, Balanced, Images
<1>4. b.orders \in BookImages(D) /\ DOMAIN b.orders = D
  BY <1>3 DEF Ledgers, BookImages
<1>5. IsFiniteSet(D) /\ D \subseteq OrderIds
  <2>1. IsFiniteSet(DOMAIN orders) /\ DOMAIN orders \subseteq OrderIds /\ id \in OrderIds
    BY DEF BookInv, OrdersType, Submitted
  <2>2. QED
    BY <2>1, FS_AddElement
<1>6. ASSUME NEW x \in D
      PROVE  TradesListed(x.market, b.orders[x].terms)
  <2>1. CASE x = id
    <3>1. SameOrder(order, b.orders[id]) /\ order.terms = terms
      BY <1>2, PlacedOrderType DEF Settlement
    <3>2. TradesListed(id.market, terms)
      BY PlaceListed
    <3>3. QED
      BY <2>1, <3>1, <3>2 DEF SameOrder
  <2>2. CASE x # id
    <3>1. x \in DOMAIN orders
      BY <2>2
    <3>2. SameOrder(orders[x], b.orders[x])
      BY <1>2, <3>1 DEF Settlement
    <3>3. QED
      BY <3>1, <3>2 DEF SameOrder, BookInv, OrdersListed
  <2>3. QED
    BY <2>1, <2>2
<1> HIDE DEF D
<1>7. QED
  BY <1>3, <1>4, <1>5, <1>6 DEF BookWritten, EscrowKept, ExposureKept

LEMMA PlaceInv ==
    ASSUME BookInv, NEW actor, NEW id, NEW terms, NEW plan, NEW frames, NEW touched,
           Submitted(actor, id, terms, plan, frames),
           PlaceOk(actor, id, terms, plan, frames, touched), NEW b,
           b = FinalImages(actor, id, terms, plan, frames),
           ClosePlacement(actor, id, terms, plan, frames, {QUOTE} \cup touched, b),
           UNCHANGED settledElsewhere
    PROVE  BookInv' /\ Commit(b) /\ orders' = b.orders
<1> DEFINE m == id.market
           D == DOMAIN orders \cup {id}
           x == <<m, terms.branch>>
<1>1. CloseOk(id, terms, plan, b)
  BY DEF ClosePlacement
<1>2. CloseChecks(m, frames, {QUOTE} \cup touched, b)
  BY <1>1, PlacementChecks
<1>3. /\ Commit(b) /\ orders' = b.orders
      /\ sequence' = [sequence EXCEPT ![x] = sequence[x] + 1]
      /\ supply' = [y \in DOMAIN supply |-> supply[y] +
                      [z \in DOMAIN supply |-> IF z[1] = m THEN b.minted[CollateralOf(z[2])]
                                                           ELSE 0][y]]
      /\ vault' = [y \in DOMAIN vault |-> vault[y] +
                     [z \in DOMAIN supply |-> IF z[1] = m THEN b.minted[CollateralOf(z[2])]
                                                          ELSE 0][y]]
  BY <1>2 DEF ClosePlacement
<1>4. DOMAIN vault = DOMAIN supply
  BY DEF BookInv, LedgersInv, CustodyInv, CustodyType
<1>5. supply' = WithMinted(m, b, supply) /\ vault' = WithMinted(m, b, vault)
  BY <1>3, <1>4 DEF WithMinted
<1>6. Written(m, b)
  BY <1>3, <1>5 DEF Written
<1>7. Settled(D, m, b)
  BY <1>1, PlacementImages
<1>8. BookWritten(b, b.orders)
  BY <1>1, <1>3, PlacementBook DEF CloseOk
<1>9. sequence' \in [Markets \X {0, 1} -> Nat]
  <2>1. sequence \in [Markets \X {0, 1} -> Nat] /\ x \in Markets \X {0, 1}
    BY DEF BookInv, OrdersType, Submitted, OrderIds, SignedTerms
  <2> HIDE DEF x
  <2>2. sequence[x] + 1 \in Nat
    BY <2>1
  <2>3. QED
    BY <1>3, <2>1, <2>2
<1>10. m \in Markets
  BY DEF Submitted, OrderIds
<1> HIDE DEF m, D
<1>11. BookInv'
  BY <1>6, <1>7, <1>8, <1>9, <1>10, BookInvWritten
<1>12. QED
  BY <1>3, <1>11

(* Callers submit what the model's inputs allow. *)
LEMMA SubmitIs ==
    ASSUME BookInv, NEW o \in Owners, NEW m \in Markets, NEW salt \in Salts,
           NEW n \in 0 .. MaxMakers, NEW lag \in 0 .. MaxLag, NEW terms \in OrderTerms[o],
           NEW planLegs \in [1 .. n -> PlanLegs(m, terms)], Submit(o, m, salt, terms, planLegs, lag)
    PROVE  \E actor, id, plan, frames, touched :
             /\ Submitted(actor, id, terms, plan, frames)
             /\ PlaceOk(actor, id, terms, plan, frames, touched)
             /\ ClosePlacement(actor, id, terms, plan, frames, {QUOTE} \cup touched,
                               FinalImages(actor, id, terms, plan, frames))
             /\ plan.next <= sequence[<<id.market, terms.branch>>]
<1> DEFINE next == sequence[<<m, terms.branch>>] - lag
           touched == NeededLegs(terms, planLegs)
           plan == [deadline |-> terms.expiry, next |-> next, minFill |-> 0,
                    maker |-> config.makerBps, taker |-> config.takerBps, legs |-> planLegs]
           id == [market |-> m, owner |-> o, salt |-> salt]
<1>1. PICK actor \in Signers(o), lent \in {{o}, Owners} :
        Place(actor, o, m, salt, terms, plan,
              {f \in lent \X ({QUOTE} \cup touched) : <<MintOf(m, f[2]), f[1]>> \in opened}, touched)
  BY DEF Submit
<1> DEFINE frames == {f \in lent \X ({QUOTE} \cup touched) : <<MintOf(m, f[2]), f[1]>> \in opened}
<1>2. id \in OrderIds /\ id.owner = o /\ id.market = m
  BY DEF OrderIds
<1>3. terms \in SignedTerms
  BY ExchangeAssumption
<1>4. actor \in {id.owner} \cup Delegates
  BY <1>2 DEF Signers
<1>5. MaxMakers \in Nat /\ MaxLag \in Nat
  BY ExchangeAssumption
<1>6. n \in Nat
  BY <1>5
<1>7. Len(planLegs) = n /\ DOMAIN planLegs = 1 .. n
  BY <1>6
<1>8. ASSUME NEW i \in 1 .. n
      PROVE  planLegs[i].id \in DOMAIN orders /\ planLegs[i].quantity \in Int
  <2>1. planLegs[i] \in PlanLegs(m, terms)
    OBVIOUS
  <2>2. planLegs[i].id \in DOMAIN orders /\ planLegs[i].quantity \in Plans
    BY <2>1 DEF PlanLegs
  <2>3. Plans \subseteq Nat
    BY ExchangeAssumption
  <2>4. \A q \in Plans : q \in Int
    BY <2>3
  <2>5. planLegs[i].quantity \in Int
    BY <2>2, <2>4
  <2>6. QED
    BY <2>2, <2>5
<1>9. next \in Int /\ next <= sequence[<<m, terms.branch>>]
  <2>1. sequence[<<m, terms.branch>>] \in Nat
    <3>1. terms.branch \in {0, 1}
      BY <1>3 DEF SignedTerms
    <3>2. QED
      BY <3>1 DEF BookInv, OrdersType
  <2>2. lag \in Nat
    BY <1>5
  <2>3. QED
    BY <2>1, <2>2
<1>10. plan.legs = planLegs /\ plan.next = next
  OBVIOUS
<1> HIDE DEF next
<1>11. Submitted(actor, id, terms, plan, frames)
  BY <1>2, <1>3, <1>4, <1>6, <1>7, <1>8, <1>9, <1>10 DEF Submitted
<1>12. PlaceOk(actor, id, terms, plan, frames, touched)
  BY <1>1 DEF Place
<1>13. ClosePlacement(actor, id, terms, plan, frames, {QUOTE} \cup touched,
                      FinalImages(actor, id, terms, plan, frames))
  BY <1>1 DEF Place, FinalImages
<1>14. plan.next <= sequence[<<id.market, terms.branch>>]
  BY <1>2, <1>9, <1>10
<1>15. QED
  BY <1>11, <1>12, <1>13, <1>14

----------------------------------------------------------------------------
(* Leaving the book.                                                       *)

OpenFrames(m) == [c \in Collaterals |-> {o \in Owners : <<MintOf(m, c), o>> \in opened}]

LEMMA MayReturnHeld ==
    ASSUME BookInv, NEW id \in DOMAIN orders, HasFrame(id)
    PROVE  /\ MayReturn(DOMAIN orders, id.market, Everyone, Ledger, id)
           /\ MayReturn(DOMAIN orders, id.market, OpenFrames(id.market), Ledger, id)
<1> DEFINE m == id.market
           order == orders[id]
           a == FundingAsset(order.terms)
<1>1. m \in Markets /\ id.owner \in Owners /\ LedgersInv /\ order \in OrderImages
  BY DEF BookInv, OrdersType, OrderIds, BookImages
<1>2. TradesListed(m, order.terms)
  BY DEF BookInv, OrdersListed
<1>3. /\ Delivers(order.terms) \in Collaterals /\ a \in SettledAssets(m)
      /\ CollateralOf(a) = Delivers(order.terms)
  <2> HIDE DEF m, order
  <2>1. QED
    BY <1>1, <1>2, TradedAssets
<1>4. a \notin ClaimAssets => <<MintOf(m, Delivers(order.terms)), id.owner>> \in opened
  BY DEF HasFrame
<1>5. Ledger.orders[id] = order
  BY LedgerFields
<1> HIDE DEF m, order
<1>6. MayReturn(DOMAIN orders, m, Everyone, Ledger, id)
  BY <1>1, <1>3, <1>5 DEF MayReturn, Everyone, m
<1>7. MayReturn(DOMAIN orders, m, OpenFrames(m), Ledger, id)
  BY <1>1, <1>3, <1>4, <1>5 DEF MayReturn, OpenFrames, m
<1>8. QED
  BY <1>6, <1>7 DEF m

LEMMA LendersTyped ==
    /\ Everyone \in Lenders
    /\ \A m : OpenFrames(m) \in Lenders
    /\ Everyone = LentBy(Owners \X Collaterals)
<1>1. Everyone \in Lenders
  BY DEF Everyone, Lenders
<1>2. \A m : OpenFrames(m) \in Lenders
  BY DEF OpenFrames, Lenders
<1>3. Everyone = LentBy(Owners \X Collaterals)
  BY DEF Everyone, LentBy
<1>4. QED
  BY <1>1, <1>2, <1>3

(* The images b give orders' reservations back and mint nothing.           *)
Returned(m, b) ==
    /\ FillKept(DOMAIN orders, m, Everyone, Ledger, b)
    /\ FillKept(DOMAIN orders, m, OpenFrames(m), Ledger, b)
    /\ b.minted = Ledger.minted
    /\ \A x \in DOMAIN orders : b.orders[x] \in {orders[x], Closed(orders[x])}

LEMMA ReturnedSettled ==
    ASSUME BookInv, NEW m \in Markets, NEW b, Returned(m, b), Fits(b)
    PROVE  Settled(DOMAIN orders, m, b)
<1> DEFINE F == OpenFrames(m)
<1>1. /\ Images(DOMAIN orders, m, Everyone, b)
      /\ \A x \in SettledAssets(m) :
           NetHolding(b, Everyone, m, x) = NetHolding(Ledger, Everyone, m, x)
      /\ LocalCredits(m, F, b)
  BY DEF Returned, FillKept, Balanced, Images
<1>2. ASSUME NEW k \in Mints, NEW o \in Owners, <<k, o>> \notin opened
      PROVE  b.available[<<k, o>>] = available[<<k, o>>]
  BY <1>1, <1>2 DEF LocalCredits, OpenFrames
<1>3. ASSUME NEW a \in ClaimAssets
      PROVE  /\ supply[<<m, a>>] + b.minted[CollateralOf(a)] \in U64
             /\ vault[<<m, a>>] + b.minted[CollateralOf(a)] \in U64
  <2>1. CustodyType
    BY DEF BookInv, LedgersInv, CustodyInv
  <2>2. CollateralOf(a) \in Collaterals
    BY CollateralRange, AssetKinds
  <2>3. b.minted[CollateralOf(a)] = 0
    BY <2>2 DEF Returned, Ledger
  <2>4. supply[<<m, a>>] \in U64 /\ vault[<<m, a>>] \in U64
    BY <2>1 DEF CustodyType
  <2>5. supply[<<m, a>>] \in Int /\ vault[<<m, a>>] \in Int
    BY <2>4, U64Int
  <2>6. supply[<<m, a>>] + 0 = supply[<<m, a>>] /\ vault[<<m, a>>] + 0 = vault[<<m, a>>]
    BY <2>5
  <2>7. QED
    BY <2>3, <2>4, <2>6
<1>4. QED
  BY <1>1, <1>2, <1>3 DEF Settled

LEMMA ReturnedConserved ==
    ASSUME BookInv, NEW m \in Markets, market[m].state # NONE, NEW b, Returned(m, b)
    PROVE  Conserved(b, Owners \X Collaterals, m)
<1> DEFINE frames == Owners \X Collaterals
<1>1. Images(DOMAIN orders, m, LentBy(frames), b) /\ NetKept(m, LentBy(frames), b)
  BY LendersTyped DEF Returned, FillKept, Balanced, NetKept
<1>2. LedgersInv
  BY DEF BookInv
<1> HIDE DEF frames
<1>3. Conserved(b, frames, m)
  BY <1>1, <1>2, ConservedHolds
<1>4. QED
  BY <1>3 DEF frames

LEMMA ReturnedWritten ==
    ASSUME BookInv, NEW m \in Markets, NEW b, Returned(m, b), Commit(b),
           UNCHANGED settledElsewhere, supply' = supply, vault' = vault
    PROVE  Written(m, b)
<1>1. CustodyType
  BY DEF BookInv, LedgersInv, CustodyInv
<1>2. ASSUME NEW f \in [Markets \X ClaimAssets -> U64]
      PROVE  WithMinted(m, b, f) = f
  <2>1. \A x \in Markets \X ClaimAssets :
          f[x] + (IF x[1] = m THEN b.minted[CollateralOf(x[2])] ELSE 0) = f[x]
    <3> SUFFICES ASSUME NEW x \in Markets \X ClaimAssets
                 PROVE  f[x] + (IF x[1] = m THEN b.minted[CollateralOf(x[2])] ELSE 0) = f[x]
      OBVIOUS
    <3>1. x[2] \in ClaimAssets
      OBVIOUS
    <3> DEFINE y == x[2]
    <3>2. y \in ClaimAssets
      BY <3>1
    <3> HIDE DEF y
    <3>3. CollateralOf(y) \in Collaterals
      BY <3>2, CollateralRange, AssetKinds
    <3>4. CollateralOf(x[2]) \in Collaterals
      BY <3>3 DEF y
    <3>5. b.minted[CollateralOf(x[2])] = 0
      BY <3>4 DEF Returned, Ledger
    <3>6. f[x] \in Int
      BY U64Int
    <3>7. QED
      BY <3>5, <3>6
  <2>2. WithMinted(m, b, f) = [x \in Markets \X ClaimAssets |-> f[x]]
    BY <2>1 DEF WithMinted
  <2>3. QED
    BY <2>2
<1>3. supply' = WithMinted(m, b, supply) /\ vault' = WithMinted(m, b, vault)
  BY <1>1, <1>2 DEF CustodyType
<1>4. QED
  BY <1>3 DEF Written

(* Orders that reserve nothing can leave the book. *)
LEMMA SumDropped ==
    ASSUME NEW f, NEW S, S \subseteq DOMAIN f, \A x \in DOMAIN f \ S : f[x] = 0
    PROVE  Sum([x \in S |-> f[x]]) = Sum(f)
<1> DEFINE g == [x \in S |-> f[x]]
<1>1. \A x \in DOMAIN f : x \notin S => 1 .. f[x] = {}
  OBVIOUS
<1>2. Units(g) = Units(f)
  BY <1>1 DEF Units
<1>3. QED
  BY <1>2 DEF Sum

----------------------------------------------------------------------------
(* The orders of b keep their books. *)
BookKeeps(b) ==
    /\ b.orders \in BookImages(DOMAIN orders) /\ DOMAIN b.orders = DOMAIN orders
    /\ AllSound(b.orders) /\ EscrowKept(b) /\ ExposureKept(b)
    /\ \A x \in DOMAIN orders : TradesListed(x.market, b.orders[x].terms)

LEMMA SameItself == \A order : SameOrder(order, order)
BY DEF SameOrder

LEMMA ReturnedOrders ==
    ASSUME BookInv, NEW m \in Markets, NEW b, Returned(m, b), NEW x \in DOMAIN orders
    PROVE  SameOrder(orders[x], b.orders[x])
<1>1. orders[x] \in OrderImages
  BY DEF BookInv, OrdersType, BookImages
<1>2. SameOrder(orders[x], Closed(orders[x]))
  BY <1>1, ClosedEffect
<1>3. b.orders[x] \in {orders[x], Closed(orders[x])}
  BY DEF Returned
<1>4. QED
  BY <1>2, <1>3, SameItself

LEMMA ReturnedKeeps ==
    ASSUME BookInv, NEW m \in Markets, NEW b, Returned(m, b)
    PROVE  BookKeeps(b)
<1>1. /\ b \in Ledgers(DOMAIN orders) /\ AllSound(b.orders) /\ EscrowKept(b) /\ ExposureKept(b)
  BY DEF Returned, FillKept, Balanced, Images
<1>2. b.orders \in BookImages(DOMAIN orders)
  BY <1>1 DEF Ledgers
<1>3. DOMAIN b.orders = DOMAIN orders
  BY <1>2 DEF BookImages
<1>4. ASSUME NEW x \in DOMAIN orders
      PROVE  TradesListed(x.market, b.orders[x].terms)
  <2>1. SameOrder(orders[x], b.orders[x])
    BY ReturnedOrders
  <2>2. QED
    BY <2>1 DEF SameOrder, BookInv, OrdersListed
<1>5. QED
  BY <1>1, <1>2, <1>3, <1>4 DEF BookKeeps

LEMMA ReturnedBook ==
    ASSUME BookInv, NEW m \in Markets, NEW b, Returned(m, b), orders' = b.orders
    PROVE  BookWritten(b, b.orders)
<1>1. BookKeeps(b)
  BY ReturnedKeeps
<1>2. IsFiniteSet(DOMAIN orders) /\ DOMAIN orders \subseteq OrderIds
  BY DEF BookInv, OrdersType
<1>3. QED
  BY <1>1, <1>2 DEF BookWritten, BookKeeps, EscrowKept, ExposureKept

LEMMA CancelReturns ==
    ASSUME BookInv, NEW id, IsLive(id), HasFrame(id)
    PROVE  Returned(id.market, Release(Ledger, id))
<1> DEFINE m == id.market
           D == DOMAIN orders
           b == Release(Ledger, id)
           order == orders[id]
<1>1. id \in D /\ IsFiniteSet(D) /\ m \in Markets /\ LedgersInv
  BY DEF IsLive, BookInv, OrdersType, OrderIds
<1>2. /\ MayReturn(D, m, Everyone, Ledger, id)
      /\ MayReturn(D, m, OpenFrames(m), Ledger, id)
  BY <1>1, MayReturnHeld
<1>3. /\ Balanced(D, m, Everyone, Ledger)
      /\ Balanced(D, m, OpenFrames(m), Ledger)
  BY <1>1, LedgerBalanced
<1>4. Everyone \in Lenders /\ OpenFrames(m) \in Lenders
  BY LendersTyped
<1>5. Ledger \in Ledgers(D)
  BY <1>3 DEF Balanced, Images
<1> HIDE DEF m, D
<1>6. FillKept(D, m, Everyone, Ledger, b)
  BY <1>1, <1>2, <1>3, <1>4, ReleaseSettled
<1>7. FillKept(D, m, OpenFrames(m), Ledger, b)
  BY <1>1, <1>2, <1>3, <1>4, ReleaseSettled
<1>8. FillStep(D, Ledger, id, id, b)
  BY <1>1, <1>2, <1>5, ReleaseEffect
<1>9. Unreserved(D, Ledger, id.market, id.owner, FundingAsset(Ledger.orders[id].terms),
                 Ledger.orders[id].reserved, -Ledger.orders[id].notional,
                 [Ledger.orders EXCEPT ![id] = Closed(Ledger.orders[id])], b)
  BY <1>1, <1>2, <1>5, ReleaseEffect
<1>10. b.minted = Ledger.minted
  BY <1>9 DEF Unreserved
<1>11. ASSUME NEW x \in D
       PROVE  b.orders[x] \in {orders[x], Closed(orders[x])}
  <2>1. orders \in BookImages(D)
    BY DEF BookInv, OrdersType, D
  <2>2. b.orders = [orders EXCEPT ![id] = Closed(orders[id])]
    BY <1>9, LedgerFields DEF Unreserved
  <2>3. QED
    BY <1>1, <2>1, <2>2 DEF BookImages
<1>12. QED
  BY <1>6, <1>7, <1>10, <1>11 DEF Returned, m, D

(* Leaving the book keeps the books.                                       *)
LEMMA ReturnedInv ==
    ASSUME BookInv, NEW m \in Markets, NEW b, Returned(m, b), Fits(b), Commit(b),
           NEW book, BookWritten(b, book),
           UNCHANGED <<settledElsewhere, grants, used, sequence, ring, supply, vault>>
    PROVE  BookInv'
<1>1. /\ UNCHANGED settledElsewhere
      /\ supply' = supply /\ vault' = vault /\ sequence' = sequence
  OBVIOUS
<1>2. Settled(DOMAIN orders, m, b)
  BY ReturnedSettled
<1>3. Written(m, b)
  BY <1>1, ReturnedWritten
<1>4. sequence' \in [Markets \X {0, 1} -> Nat]
  BY <1>1 DEF BookInv, OrdersType
<1>5. QED
  BY <1>2, <1>3, <1>4, BookInvWritten

LEMMA OrderMarket ==
    ASSUME BookInv, NEW id \in DOMAIN orders
    PROVE  id.market \in Markets /\ id.owner \in Owners /\ market[id.market].state # NONE
  BY DEF BookInv, OrdersType, OrderIds, OrdersListed, TradesListed

LEMMA CancelInv ==
    ASSUME BookInv, NEW actor, NEW id, Cancel(actor, id)
    PROVE  BookInv' /\ UNCHANGED tripped
<1> DEFINE b == Release(Ledger, id)
           m == id.market
<1>1. IsLive(id) /\ HasFrame(id) /\ Fits(b)
  BY DEF Cancel
<1>2. m \in Markets /\ market[m].state # NONE
  BY <1>1, OrderMarket DEF IsLive
<1>3. Returned(m, b)
  BY <1>1, CancelReturns
<1>4. Conserved(b, Owners \X Collaterals, m)
  <2> HIDE DEF b, m
  <2>1. QED
    BY <1>2, <1>3, ReturnedConserved
<1>5. Commit(b) /\ orders' = b.orders
  BY <1>4 DEF Cancel
<1>6. UNCHANGED <<settledElsewhere, grants, used, sequence, ring, supply, vault>>
  BY DEF Cancel
<1> HIDE DEF b, m
<1>7. BookWritten(b, b.orders)
  BY <1>2, <1>3, <1>5, ReturnedBook
<1>8. BookInv'
  BY <1>1, <1>2, <1>3, <1>5, <1>6, <1>7, ReturnedInv
<1>9. QED
  BY <1>5, <1>8 DEF Commit

----------------------------------------------------------------------------
(* A batch an owner may process on market m. *)
Batch(m, ids) ==
    /\ Len(ids) \in Nat
    /\ \A i, j \in 1 .. Len(ids) : i # j => ids[i] # ids[j]
    /\ \A i \in 1 .. Len(ids) : /\ ids[i] \in DOMAIN orders /\ ids[i].market = m
                                /\ IsLive(ids[i]) => HasFrame(ids[i])

BatchIds(ids) == {ids[i] : i \in 1 .. Len(ids)}

Emptied(order) ==
    /\ order.status \in {FILLED, CANCELLED}
    /\ order.remaining = 0 /\ order.reserved = 0 /\ order.notional = 0

LEMMA BatchReleases ==
    ASSUME BookInv, NEW m \in Markets, NEW ids, Batch(m, ids), NEW F \in Lenders,
           F \in {Everyone, OpenFrames(m)}
    PROVE  Releasing(DOMAIN orders, m, F, Ledger, {x \in BatchIds(ids) : IsLive(x)},
                     ReleaseAll(ids))
<1>1. LedgersInv /\ Ledger \in Ledgers(DOMAIN orders)
  BY LedgerBalanced DEF BookInv, Balanced, Images
<1>2. \A i \in 1 .. Len(ids) :
        IsLive(ids[i]) => MayReturn(DOMAIN orders, m, F, Ledger, ids[i])
  BY MayReturnHeld DEF Batch
<1>3. Len(ids) \in Nat /\ \A i, j \in 1 .. Len(ids) : i # j => ids[i] # ids[j]
  BY DEF Batch
<1>4. QED
  BY <1>1, <1>2, <1>3, ReleaseAllSettled DEF BatchIds

LEMMA BatchReturns ==
    ASSUME BookInv, NEW m \in Markets, NEW ids, Batch(m, ids)
    PROVE  Returned(m, ReleaseAll(ids))
<1> DEFINE b == ReleaseAll(ids)
           S == {x \in BatchIds(ids) : IsLive(x)}
           D == DOMAIN orders
<1>1. Everyone \in Lenders /\ OpenFrames(m) \in Lenders
  BY LendersTyped
<1>2. /\ Balanced(D, m, Everyone, Ledger) /\ Balanced(D, m, OpenFrames(m), Ledger)
  BY LedgerBalanced
<1>3. IsFiniteSet(D)
  BY DEF BookInv, OrdersType
<1>4. Releasing(D, m, Everyone, Ledger, S, b)
  BY <1>1, BatchReleases
<1>5. Releasing(D, m, OpenFrames(m), Ledger, S, b)
  BY <1>1, BatchReleases
<1> HIDE DEF b, S, D
<1>6. FillKept(D, m, Everyone, Ledger, b) /\ FillKept(D, m, OpenFrames(m), Ledger, b)
  BY <1>2, <1>3, <1>4, <1>5 DEF Releasing
<1>7. b.minted = Ledger.minted
  BY <1>4 DEF Releasing
<1>8. ASSUME NEW x \in D
      PROVE  b.orders[x] \in {orders[x], Closed(orders[x])}
  BY <1>4, LedgerFields DEF Releasing
<1>9. QED
  BY <1>6, <1>7, <1>8 DEF Returned, b, D

LEMMA BatchEmpties ==
    ASSUME BookInv, NEW m \in Markets, NEW ids, Batch(m, ids), NEW id \in BatchIds(ids)
    PROVE  Emptied(ReleaseAll(ids).orders[id])
<1> DEFINE b == ReleaseAll(ids)
           S == {x \in BatchIds(ids) : IsLive(x)}
           D == DOMAIN orders
<1>1. Releasing(D, m, Everyone, Ledger, S, b)
  BY LendersTyped, BatchReleases
<1>2. id \in D /\ orders[id] \in OrderImages /\ OrderSound(orders[id])
  BY LedgerFields DEF Batch, BatchIds, BookInv, OrdersType, BookImages, BooksKept, AllSound
<1>3. CASE IsLive(id)
  <2>1. b.orders[id] = Closed(orders[id])
    BY <1>1, <1>2, <1>3, LedgerFields DEF Releasing
  <2>2. /\ Closed(orders[id]).reserved = 0 /\ Closed(orders[id]).notional = 0
        /\ Closed(orders[id]).remaining = 0 /\ Closed(orders[id]).status = CANCELLED
    BY <1>2, ClosedEffect
  <2>3. QED
    BY <2>1, <2>2 DEF Emptied
<1>4. CASE ~IsLive(id)
  <2>1. b.orders[id] = orders[id]
    BY <1>1, <1>2, <1>4, LedgerFields DEF Releasing
  <2>2. orders[id].status # LIVE /\ orders[id].status \in {LIVE, FILLED, CANCELLED}
    BY <1>2, <1>4 DEF IsLive, OrderImages
  <2>3. orders[id].remaining = 0 /\ orders[id].reserved = 0
    BY <1>2, <2>2 DEF OrderSound
  <2>4. orders[id].terms.price \in Nat
    BY <1>2, OrderTypes
  <2>5. orders[id].notional = 0
    BY <1>2, <2>3, <2>4, QuoteOfNothing DEF OrderSound
  <2>6. QED
    BY <2>1, <2>2, <2>3, <2>5 DEF Emptied
<1>5. QED
  BY <1>3, <1>4

(* Closing the accounts of emptied orders leaves all sums as they are.     *)
LEMMA RetiredBook ==
    ASSUME BookInv, NEW m \in Markets, NEW b, Returned(m, b), NEW closed,
           \A id \in closed : Emptied(b.orders[id]), NEW book,
           book = [id \in DOMAIN orders \ closed |-> b.orders[id]], orders' = book
    PROVE  BookWritten(b, book)
<1> DEFINE D == DOMAIN orders
           E == DOMAIN orders \ closed
<1>1. BookKeeps(b)
  BY ReturnedKeeps
<1>2. IsFiniteSet(D) /\ D \subseteq OrderIds
  BY DEF BookInv, OrdersType
<1>3. DOMAIN book = E /\ E \subseteq D /\ IsFiniteSet(E)
  BY <1>2, FS_Subset
<1>4. book \in BookImages(E)
  BY <1>1 DEF BookImages, BookKeeps
<1>5. AllSound(book)
  BY <1>1 DEF AllSound, BookKeeps
<1>6. \A id \in E : TradesListed(id.market, book[id].terms)
  BY <1>1 DEF BookKeeps
<1>7. ASSUME NEW x \in Markets, NEW a \in Assets
      PROVE  ReservedBy(book, x, a) = ReservedBy(b.orders, x, a)
  <2> DEFINE S == {y \in DOMAIN b.orders : y.market = x /\ FundingAsset(b.orders[y].terms) = a}
             T == {y \in DOMAIN book : y.market = x /\ FundingAsset(book[y].terms) = a}
             f == [y \in S |-> b.orders[y].reserved]
  <2>1. T \subseteq S /\ \A y \in S \ T : y \in closed
    BY <1>1, <1>3 DEF BookKeeps
  <2>2. \A y \in S \ T : f[y] = 0
    BY <2>1 DEF Emptied
  <2>3. [y \in T |-> book[y].reserved] = [y \in T |-> f[y]]
    BY <2>1, <1>3
  <2>4. DOMAIN f = S
    OBVIOUS
  <2> HIDE DEF f, S, T
  <2>5. Sum([y \in T |-> f[y]]) = Sum(f)
    BY <2>1, <2>2, <2>4, SumDropped
  <2>6. QED
    BY <2>3, <2>5 DEF ReservedBy, f, S, T
<1>8. ASSUME NEW x \in Markets
      PROVE  MarketNotional(book, x) = MarketNotional(b.orders, x)
  <2> DEFINE S == {y \in DOMAIN b.orders : y.market = x}
             T == {y \in DOMAIN book : y.market = x}
             f == [y \in S |-> b.orders[y].notional]
  <2>1. T \subseteq S /\ \A y \in S \ T : y \in closed
    BY <1>1, <1>3 DEF BookKeeps
  <2>2. \A y \in S \ T : f[y] = 0
    BY <2>1 DEF Emptied
  <2>3. [y \in T |-> book[y].notional] = [y \in T |-> f[y]]
    BY <2>1, <1>3
  <2>4. DOMAIN f = S
    OBVIOUS
  <2> HIDE DEF f, S, T
  <2>5. Sum([y \in T |-> f[y]]) = Sum(f)
    BY <2>1, <2>2, <2>4, SumDropped
  <2>6. QED
    BY <2>3, <2>5 DEF MarketNotional, f, S, T
<1>9. ASSUME NEW x \in Markets, NEW o \in Owners
      PROVE  WalletNotional(book, x, o) = WalletNotional(b.orders, x, o)
  <2> DEFINE S == {y \in DOMAIN b.orders : y.market = x /\ y.owner = o}
             T == {y \in DOMAIN book : y.market = x /\ y.owner = o}
             f == [y \in S |-> b.orders[y].notional]
  <2>1. T \subseteq S /\ \A y \in S \ T : y \in closed
    BY <1>1, <1>3 DEF BookKeeps
  <2>2. \A y \in S \ T : f[y] = 0
    BY <2>1 DEF Emptied
  <2>3. [y \in T |-> book[y].notional] = [y \in T |-> f[y]]
    BY <2>1, <1>3
  <2>4. DOMAIN f = S
    OBVIOUS
  <2> HIDE DEF f, S, T
  <2>5. Sum([y \in T |-> f[y]]) = Sum(f)
    BY <2>1, <2>2, <2>4, SumDropped
  <2>6. QED
    BY <2>3, <2>5 DEF WalletNotional, f, S, T
<1>10. EscrowKept(b) /\ ExposureKept(b)
  BY <1>1 DEF BookKeeps
<1> HIDE DEF D, E
<1>11. DOMAIN book \subseteq OrderIds
  BY <1>2, <1>3
<1>12. QED
  BY <1>3, <1>4, <1>5, <1>6, <1>7, <1>8, <1>9, <1>10, <1>11
     DEF BookWritten, EscrowKept, ExposureKept

----------------------------------------------------------------------------
LEMMA ProcessInv ==
    ASSUME BookInv, NEW actor, NEW o, NEW m, NEW ids, NEW retire \in BOOLEAN,
           ProcessOrders(actor, o, m, ids, retire)
    PROVE  BookInv' /\ UNCHANGED tripped
<1> DEFINE b == ReleaseAll(ids)
           closed == BatchIds(ids)
           book == IF retire THEN [id \in DOMAIN orders \ closed |-> b.orders[id]] ELSE b.orders
<1>1. Len(ids) \in 1 .. MaxMakers /\ MaxMakers \in Nat
  BY ExchangeAssumption DEF ProcessOrders
<1>2. closed \subseteq DOMAIN orders /\ \A id \in closed : id.market = m /\ (IsLive(id) => HasFrame(id))
  BY DEF ProcessOrders, BatchIds
<1>3. \A i \in 1 .. Len(ids) : ids[i] \in closed
  BY DEF BatchIds
<1>4. Batch(m, ids)
  BY <1>1, <1>2, <1>3 DEF Batch, ProcessOrders
<1>5. ids[1] \in closed
  BY <1>1, <1>3
<1>6. m \in Markets /\ market[m].state # NONE
  BY <1>2, <1>5, OrderMarket
<1>7. Returned(m, b)
  BY <1>4, <1>6, BatchReturns
<1>8. \A id \in closed : Emptied(b.orders[id])
  BY <1>4, <1>6, BatchEmpties
<1>9. Conserved(b, Owners \X Collaterals, m)
  <2> HIDE DEF b
  <2>1. QED
    BY <1>6, <1>7, ReturnedConserved
<1>10. Fits(b) /\ Commit(b) /\ orders' = book
  BY <1>8, <1>9 DEF ProcessOrders, Emptied, BatchIds
<1>11. UNCHANGED <<settledElsewhere, grants, used, sequence, ring, supply, vault>>
  BY DEF ProcessOrders
<1>12. BookWritten(b, book)
  <2>1. CASE retire
    <3>1. book = [id \in DOMAIN orders \ closed |-> b.orders[id]]
      BY <2>1
    <3> HIDE DEF b, closed, book
    <3>2. QED
      BY <3>1, <1>6, <1>7, <1>8, <1>10, RetiredBook
  <2>2. CASE ~retire
    <3>1. book = b.orders
      BY <2>2
    <3> HIDE DEF b, closed, book
    <3>2. BookWritten(b, b.orders)
      BY <3>1, <1>6, <1>7, <1>10, ReturnedBook
    <3>3. QED
      BY <3>1, <3>2
  <2>3. QED
    BY <2>1, <2>2
<1> HIDE DEF b, closed, book
<1>13. BookInv'
  BY <1>6, <1>7, <1>10, <1>11, <1>12, ReturnedInv
<1>14. QED
  BY <1>10, <1>13 DEF Commit

(* Positions and the listing move no reservation. *)
LEMMA EscrowStays == [Next]_vars => escrow' = escrow
<1>1. CASE ListingNext /\ UNCHANGED custodyVars
  BY <1>1 DEF custodyVars
<1>2. CASE PositionNext
  <2>1. ASSUME NEW o, NEW m, NEW c, NEW d, Reposition(o, m, c, d)
        PROVE  escrow' = escrow
    BY <2>1 DEF Reposition
  <2>2. ASSUME NEW o, NEW m, NEW c, NEW n, Split(o, m, c, n) \/ Merge(o, m, c, n)
        PROVE  escrow' = escrow
    BY <2>1, <2>2 DEF Split, Merge
  <2>3. ASSUME NEW o, NEW m, NEW c, NEW yes, NEW no, Redeem(o, m, c, yes, no)
        PROVE  escrow' = escrow
    BY <2>1, <2>3 DEF Redeem
  <2>4. ASSUME NEW o, NEW m, InitializeWallet(o, m)
        PROVE  escrow' = escrow
    BY <2>4 DEF InitializeWallet
  <2>5. ASSUME NEW m, NEW a, NEW held1, NEW owed, NEW o, NEW n,
               CloseClaimTransfer(m, a, held1, owed, o, n)
        PROVE  escrow' = escrow
    BY <2>5 DEF CloseClaimTransfer, custodyVars
  <2>6. ASSUME NEW o, NEW m, NEW a, NEW n, DepositClaim(o, m, a, n) \/ WithdrawClaim(o, m, a, n)
        PROVE  escrow' = escrow
    BY <2>5, <2>6 DEF DepositClaim, WithdrawClaim
  <2>7. ASSUME NEW o, NEW p, NEW m, NEW a, NEW n,
               TransferCredit(o, p, m, a, n) \/ ClaimFees(o, p, m, a, n)
        PROVE  escrow' = escrow
    BY <2>7 DEF TransferCredit, ClaimFees
  <2>8. ASSUME NEW m, NEW a, NEW n, BurnOutside(m, a, n) \/ DonateClaim(m, a, n)
        PROVE  escrow' = escrow
    BY <2>8 DEF BurnOutside, DonateClaim
  <2>9. QED
    BY <1>2, <2>2, <2>3, <2>4, <2>6, <2>7, <2>8 DEF PositionNext
<1>3. CASE UNCHANGED vars
  BY <1>3 DEF vars, custodyVars
<1>4. QED
  BY <1>1, <1>2, <1>3 DEF Next

ListedNext(m, terms) ==
    market'[m].state # NONE /\ terms.bases # {} /\ terms.bases \subseteq 1 .. market'[m].bases

LEMMA TradesStayListed ==
    ASSUME LedgersInv, [Next]_vars, NEW m \in Markets, NEW terms,
           terms.bases \subseteq 1 .. MaxBases, TradesListed(m, terms)
    PROVE  ListedNext(m, terms)
<1>1. CASE UNCHANGED marketVars
  BY <1>1 DEF TradesListed, ListedNext, marketVars
<1>2. CASE ListingNext
  <2>1. ListingInv
    BY DEF LedgersInv, CustodyInv
  <2>2. market[m].bases \in Int
    <3>1. MarketInv
      BY <2>1 DEF ListingInv
    <3>2. market[m].bases \in Collaterals /\ Collaterals \subseteq Int
      BY <3>1, MarketRecord, CollateralRange
    <3>3. QED
      BY <3>2
  <2>3. ASSUME NEW c \in terms.bases
        PROVE  market'[m].state # NONE /\ c \in 1 .. market'[m].bases
    <3>1. c \in Collaterals /\ c \in 1 .. market[m].bases /\ market[m].state # NONE
      BY CollateralRange DEF TradesListed
    <3>2. Listed(m, c)
      BY <3>1, <2>2 DEF Listed
    <3>3. (Listed(m, c))'
      BY <1>2, <2>1, <3>1, <3>2, ListedKept
    <3>4. QED
      BY <3>1, <3>3 DEF Listed
  <2>4. QED
    BY <2>3 DEF TradesListed, ListedNext
<1>3. QED
  BY <1>1, <1>2 DEF Next, vars

LEMMA BookInvElsewhere ==
    ASSUME BookInv, [Next]_vars, UNCHANGED exchangeVars
    PROVE  BookInv'
<1>1. LedgersInv'
  BY LedgersInvStep DEF BookInv
<1>2. escrow' = escrow
  BY EscrowStays
<1>3. orders' = orders /\ sequence' = sequence /\ exposure' = exposure /\ held' = held
  BY DEF exchangeVars
<1>4. OrdersType'
  BY <1>3 DEF BookInv, OrdersType, BookImages, OrderImages, OrderIds, SignedTerms, ExposureImages,
              HeldImages
<1>5. OrdersListed'
  <2>1. ASSUME NEW id \in DOMAIN orders
        PROVE  ListedNext(id.market, orders[id].terms)
    <3> DEFINE m == id.market
               terms == orders[id].terms
    <3>1. m \in Markets /\ terms \in SignedTerms
      BY DEF BookInv, OrdersType, OrderIds, BookImages, OrderImages
    <3>2. terms.bases \subseteq 1 .. MaxBases
      BY <3>1 DEF SignedTerms
    <3>3. TradesListed(m, terms) /\ LedgersInv
      BY DEF BookInv, OrdersListed
    <3> HIDE DEF m, terms
    <3>4. ListedNext(m, terms)
      BY <3>1, <3>2, <3>3, TradesStayListed
    <3>5. QED
      BY <3>4 DEF m, terms
  <2>2. QED
    BY <1>3, <2>1 DEF OrdersListed, TradesListed, ListedNext
<1>6. BooksKept(Ledger)'
  <2>1. /\ Ledger'.orders = Ledger.orders /\ Ledger'.escrow = Ledger.escrow
        /\ Ledger'.exposure = Ledger.exposure /\ Ledger'.held = Ledger.held
    BY <1>2, <1>3 DEF Ledger
  <2>2. BooksKept(Ledger)
    BY DEF BookInv
  <2>3. AllSound(Ledger'.orders)
    BY <2>1, <2>2 DEF BooksKept
  <2>4. EscrowKept(Ledger')
    BY <2>1, <2>2 DEF BooksKept, EscrowKept
  <2>5. ExposureKept(Ledger')
    BY <2>1, <2>2 DEF BooksKept, ExposureKept
  <2>6. BooksKept(Ledger')
    BY <2>3, <2>4, <2>5 DEF BooksKept
  <2>7. QED
    BY <2>6 DEF BooksKept, AllSound, EscrowKept, ExposureKept, ReservedBy, MarketNotional,
                WalletNotional, Sum, Units, OrderSound
<1>7. QED
  BY <1>1, <1>4, <1>5, <1>6 DEF BookInv

LEMMA BookInvInit == ExchangeSpecInit => BookInv
<1> SUFFICES ASSUME ExchangeSpecInit PROVE BookInv
  OBVIOUS
<1>1. LedgersInv
  BY LedgersInvInit DEF ExchangeSpecInit
<1>2. DOMAIN orders = {}
  BY DEF ExchangeSpecInit, ExchangeInit
<1>3. IsFiniteSet({})
  BY FS_EmptySet
<1>4. OrdersType
  BY <1>2, <1>3 DEF OrdersType, BookImages, ExchangeSpecInit, ExchangeInit, ExposureImages, HeldImages
<1>5. OrdersListed
  BY <1>2 DEF OrdersListed
<1>6. \A T, f : T \subseteq DOMAIN orders => Sum([id \in T |-> f[id]]) = 0
  BY <1>2, SumZero
<1>7. ASSUME NEW x \in Markets, NEW a \in Assets
      PROVE  ReservedBy(orders, x, a) = 0
  <2> DEFINE T == {y \in DOMAIN orders : y.market = x /\ FundingAsset(orders[y].terms) = a}
  <2>1. \A y \in DOMAIN [y \in T |-> orders[y].reserved] : FALSE
    BY <1>2
  <2>2. Sum([y \in T |-> orders[y].reserved]) = 0
    BY <2>1, SumZero
  <2>3. QED
    BY <2>2 DEF ReservedBy
<1>8. ASSUME NEW x \in Markets
      PROVE  MarketNotional(orders, x) = 0
  <2> DEFINE T == {y \in DOMAIN orders : y.market = x}
  <2>1. \A y \in DOMAIN [y \in T |-> orders[y].notional] : FALSE
    BY <1>2
  <2>2. Sum([y \in T |-> orders[y].notional]) = 0
    BY <2>1, SumZero
  <2>3. QED
    BY <2>2 DEF MarketNotional
<1>9. ASSUME NEW x \in Markets, NEW o \in Owners
      PROVE  WalletNotional(orders, x, o) = 0
  <2> DEFINE T == {y \in DOMAIN orders : y.market = x /\ y.owner = o}
  <2>1. \A y \in DOMAIN [y \in T |-> orders[y].notional] : FALSE
    BY <1>2
  <2>2. Sum([y \in T |-> orders[y].notional]) = 0
    BY <2>1, SumZero
  <2>3. QED
    BY <2>2 DEF WalletNotional
<1>10. /\ \A x \in Markets, a \in Assets : escrow[<<x, a>>] = 0
       /\ \A x \in Markets : exposure[x] = 0
       /\ \A x \in Markets, o \in Owners : held[<<x, o>>] = 0
  BY DEF ExchangeSpecInit, ExchangeInit, Init, CustodyInit
<1>11. BooksKept(Ledger)
  BY <1>2, <1>7, <1>8, <1>9, <1>10, LedgerFields DEF BooksKept, AllSound, EscrowKept, ExposureKept
<1>12. QED
  BY <1>1, <1>4, <1>5, <1>11 DEF BookInv

LEMMA PlacedInv ==
    ASSUME BookInv, PlaceAny
    PROVE  BookInv' /\ UNCHANGED tripped
<1>1. PICK o \in Owners, m \in Markets, salt \in Salts, n \in 0 .. MaxMakers, lag \in 0 .. MaxLag :
        \E terms \in OrderTerms[o] :
          \E planLegs \in [1 .. n -> PlanLegs(m, terms)] : Submit(o, m, salt, terms, planLegs, lag)
  BY DEF PlaceAny
<1>2. PICK terms \in OrderTerms[o] :
        \E planLegs \in [1 .. n -> PlanLegs(m, terms)] : Submit(o, m, salt, terms, planLegs, lag)
  BY <1>1
<1>3. PICK planLegs \in [1 .. n -> PlanLegs(m, terms)] : Submit(o, m, salt, terms, planLegs, lag)
  BY <1>2
<1>4. PICK actor, id, plan, frames, touched :
        /\ Submitted(actor, id, terms, plan, frames)
        /\ PlaceOk(actor, id, terms, plan, frames, touched)
        /\ ClosePlacement(actor, id, terms, plan, frames, {QUOTE} \cup touched,
                          FinalImages(actor, id, terms, plan, frames))
        /\ plan.next <= sequence[<<id.market, terms.branch>>]
  BY <1>3, SubmitIs
<1>5. UNCHANGED settledElsewhere
  BY <1>4 DEF ClosePlacement
<1>6. BookInv' /\ Commit(FinalImages(actor, id, terms, plan, frames))
  BY <1>4, <1>5, PlaceInv
<1>7. QED
  BY <1>6 DEF Commit

LEMMA OrderStep ==
    ASSUME BookInv, OrderNext
    PROVE  BookInv' /\ UNCHANGED tripped
<1>1. CASE PlaceAny
  BY <1>1, PlacedInv
<1>2. CASE CancelAny
  BY <1>2, CancelInv DEF CancelAny
<1>3. CASE ProcessAny
  <2>1. PICK o \in Owners, actor \in Owners \cup Delegates, m \in Markets, retire \in BOOLEAN,
             n \in 1 .. MaxMakers :
          \E ids \in [1 .. n -> {x \in DOMAIN orders : x.market = m /\ x.owner = o}] :
            ProcessOrders(actor, o, m, ids, retire)
    BY <1>3 DEF ProcessAny
  <2>2. QED
    BY <2>1, ProcessInv
<1>4. QED
  BY <1>1, <1>2, <1>3 DEF OrderNext

LEMMA BookInvStep == BookInv /\ [ExchangeNext]_ExchangeVars => BookInv'
<1> SUFFICES ASSUME BookInv, [ExchangeNext]_ExchangeVars PROVE BookInv'
  OBVIOUS
<1>1. CASE Next /\ UNCHANGED <<delegationVars, exchangeVars>>
  BY <1>1, BookInvElsewhere
<1>2. CASE UNCHANGED <<vars, exchangeVars>>
  BY <1>2, BookInvElsewhere
<1>3. CASE OrderNext
  BY <1>3, OrderStep
<1>4. QED
  BY <1>1, <1>2, <1>3 DEF ExchangeNext, ExchangeVars

LEMMA BooksAreExact == BookInv => BooksExact
<1> SUFFICES ASSUME BookInv PROVE BooksExact
  OBVIOUS
<1>1. LedgersExact /\ SelfChecksSilent
  BY DEF BookInv, LedgersInv, CustodyInv
<1>2. /\ AllSound(orders)
      /\ \A m \in Markets, a \in Assets : escrow[<<m, a>>] = ReservedBy(orders, m, a)
      /\ \A m \in Markets : exposure[m] = MarketNotional(orders, m)
      /\ \A m \in Markets, o \in Owners : held[<<m, o>>] = WalletNotional(orders, m, o)
  BY LedgerFields DEF BookInv, BooksKept, EscrowKept, ExposureKept
<1>3. \A m, a : ReservedBy(orders, m, a) = Sum(ReservedIn(m, a))
  <2>1. \A m, a : {x \in OrdersOf(m) : FundingAsset(orders[x].terms) = a}
          = {x \in DOMAIN orders : x.market = m /\ FundingAsset(orders[x].terms) = a}
    BY DEF OrdersOf
  <2>2. QED
    BY <2>1 DEF ReservedBy, ReservedIn
<1>4. \A m : MarketNotional(orders, m) = Sum(NotionalOf(OrdersOf(m)))
  BY DEF MarketNotional, NotionalOf, OrdersOf
<1>5. \A m, o : WalletNotional(orders, m, o) = Sum(NotionalOf({id \in OrdersOf(m) : id.owner = o}))
  <2>1. \A m, o : {id \in OrdersOf(m) : id.owner = o}
                    = {x \in DOMAIN orders : x.market = m /\ x.owner = o}
    BY DEF OrdersOf
  <2>2. QED
    BY <2>1 DEF WalletNotional, NotionalOf
<1>6. \A id \in DOMAIN orders : OrderSound(orders[id]) /\ orders[id].carry < Bps
  <2>1. \A id \in DOMAIN orders : orders[id].carry \in 0 .. Bps - 1
    BY <1>2 DEF AllSound, OrderSound
  <2>2. Bps \in Int
    BY RulesConstants
  <2>3. \A id \in DOMAIN orders : orders[id].carry < Bps
    BY <2>1, <2>2
  <2>4. QED
    BY <1>2, <2>3 DEF AllSound
<1>7. EscrowExact
  BY <1>2, <1>3 DEF EscrowExact
<1>8. ExposureExact
  BY <1>2, <1>4, <1>5, <1>6 DEF ExposureExact, OrderSound
<1>9. QED
  BY <1>1, <1>7, <1>8 DEF BooksExact

(* For any number of mints, markets, legs, owners, delegates and orders,   *)
(* settlement keeps all books at once: the escrow and the exposure of a    *)
(* market are exactly what its orders reserve and expose, the pools and    *)
(* the claims are what they are kept for, and no check that a handler      *)
(* makes of its own work ever fires (settle, cancel, process_orders).      *)
THEOREM BooksStayExact == ExchangeSpec => []BooksExact
<1>1. QED
  BY BooksAreExact, BookInvInit, BookInvStep, PTL DEF ExchangeSpec

----------------------------------------------------------------------------
(* A placement that fills no maker leaves the placed order unfilled.       *)
LEMMA NothingExecuted ==
    ASSUME NEW b, NEW m, NEW takerId, NEW n \in Nat, NEW makers, DOMAIN makers = {}
    PROVE  ExecuteAll(b, m, takerId, n, makers) = b
<1>1. PICK after : /\ Executed(after, b, m, takerId, n, makers)
                   /\ ExecuteAll(b, m, takerId, n, makers) = after[n]
  BY ExecutedAt
<1>2. after = [i \in 0 .. n |-> IF i = 0 THEN b ELSE after[i - 1]]
  BY <1>1 DEF Executed
<1> DEFINE T == {k \in 0 .. n : after[k] = b}
<1>3. 0 \in T
  BY <1>2
<1>4. ASSUME NEW k \in 1 .. n, k - 1 \in T
      PROVE  k \in T
  BY <1>2, <1>4
<1>5. n \in T
  <2> HIDE DEF T
  <2>1. QED
    BY <1>3, <1>4, UpTo
<1>6. QED
  BY <1>1, <1>5

LEMMA Unfilled ==
    ASSUME BookInv, NEW actor, NEW id, NEW terms, NEW plan, NEW frames, NEW touched,
           Submitted(actor, id, terms, plan, frames),
           PlaceOk(actor, id, terms, plan, frames, touched),
           MakerIds(terms, plan, frames) = {}
    PROVE  FinalImages(actor, id, terms, plan, frames).orders[id].filled = 0
<1> DEFINE D == DOMAIN orders \cup {id}
           m == id.market
           order == PlacedOrder(actor, id, terms, plan)
           placed == Placed(actor, id, terms, plan)
           makers == Makers(terms, plan, frames)
           n == Len(plan.legs)
           final == FinalImages(actor, id, terms, plan, frames)
           F == Everyone
<1>1. /\ m \in Markets /\ n \in Nat /\ LedgersInv /\ id \in D /\ id.owner \in Owners
  BY DEF Submitted, OrderIds, BookInv
<1>2. Covers(F, frames) /\ F \in Lenders
  BY DEF Covers, Everyone, Lenders
<1>3. DOMAIN makers = {}
  BY DEF MakerIds
<1>4. final = ReleaseRest(ExecuteAll(placed, m, id, n, makers), id)
  BY DEF FinalImages, Matched
<1>5. OrderReserved(id, m, F, order, placed)
  BY <1>2, PlacedReserved
<1>6. order.filled = 0
  BY DEF PlacedOrder, NewOrder
<1>7. order \in OrderImages /\ order.terms = terms
  BY PlacedOrderType
<1>8. TradesListed(m, terms)
  BY PlaceListed
<1>9. terms.funding = UNDERLYING => id.owner \in F[Delivers(terms)]
  <2>1. Offered(id, terms, DelegateOf(actor, id), F)
    BY <1>2, PlaceOffered
  <2>2. QED
    BY <2>1 DEF Offered
<1> HIDE DEF D, m, order, placed, makers, n, final, F
<1>10. final = ReleaseRest(placed, id)
  BY <1>1, <1>3, <1>4, NothingExecuted
<1>11. placed \in Ledgers(D) /\ placed.orders[id] = order
  BY <1>1, <1>5 DEF OrderReserved, Balanced, Images, WithOrder, D
<1>12. MayReturn(D, m, F, placed, id)
  <2>1. /\ FundingAsset(order.terms) \in SettledAssets(m)
        /\ CollateralOf(FundingAsset(order.terms)) = Delivers(order.terms)
        /\ (order.terms.funding = UNDERLYING <=> FundingAsset(order.terms) \notin ClaimAssets)
    BY <1>1, <1>7, <1>8, TradedAssets
  <2>2. id.market = m
    BY DEF m
  <2>3. QED
    BY <1>1, <1>7, <1>9, <1>11, <2>1, <2>2 DEF MayReturn
<1>13. Release(placed, id).orders[id].filled = 0
  <2>1. Release(placed, id).orders = [placed.orders EXCEPT ![id] = Closed(placed.orders[id])]
    <3>1. Unreserved(D, placed, id.market, id.owner, FundingAsset(placed.orders[id].terms),
                     placed.orders[id].reserved, -placed.orders[id].notional,
                     [placed.orders EXCEPT ![id] = Closed(placed.orders[id])], Release(placed, id))
      BY <1>1, <1>11, <1>12, ReleaseEffect
    <3>2. QED
      BY <3>1 DEF Unreserved
  <2>2. DOMAIN placed.orders = D
    BY <1>11 DEF Ledgers, BookImages
  <2>3. Release(placed, id).orders[id] = Closed(order)
    BY <1>1, <1>11, <2>1, <2>2
  <2>4. Closed(order).filled = order.filled
    BY <1>7, ClosedEffect
  <2>5. QED
    BY <1>6, <2>3, <2>4
<1>14. final = placed \/ final = Release(placed, id)
  BY <1>10 DEF ReleaseRest
<1>15. QED
  BY <1>6, <1>11, <1>13, <1>14 DEF final

----------------------------------------------------------------------------
(* What an instruction does to the orders.                                 *)

(* Orders in the book stay what they were signed as. *)
Kept(id) == SameOrder(orders[id], orders'[id]) /\ StaysClosed(orders[id], orders'[id])

(* The placement of id with order: nothing else enters or leaves.          *)
Entered(id, order) ==
    /\ id \notin DOMAIN orders /\ DOMAIN orders' = DOMAIN orders \cup {id}
    /\ \A x \in DOMAIN orders : Kept(x)
    /\ SameOrder(order, orders'[id])

Recording(actor, id, terms) ==
    LET x == <<id.market, terms.branch>>
        q == sequence[x]
    IN  /\ used' = used \cup {id}
        /\ sequence' = [sequence EXCEPT ![x] = q + 1]
        /\ ring' = [ring EXCEPT ![x][q % Window] =
                      [ticks |-> terms.price \div Caps(id.market).tick,
                       side  |-> IF orders'[id].status = LIVE THEN terms.side ELSE SIDE_NONE]]
        /\ grants' = IF actor = id.owner THEN grants
                     ELSE [grants EXCEPT ![<<id.owner, actor>>].remaining =
                             @ - QuoteUp(terms.quantity, terms.price)]
        /\ orders'[id].status = LIVE =>
             RaceFree(Window, orders'[id].planned, q, terms.side,
                      terms.price \div Caps(id.market).tick, ring[x])

(* Only the placed order and the makers that were left trade. *)
Traded(id, terms, plan, frames) ==
    /\ \A x \in DOMAIN orders \ MakerIds(terms, plan, frames) : orders'[x] = orders[x]
    /\ MakerIds(terms, plan, frames) = {} => orders'[id].filled = 0

(* A placement that was accepted. *)
Placing(actor, id, terms, plan, frames, touched) ==
    /\ Submitted(actor, id, terms, plan, frames)
    /\ PlaceOk(actor, id, terms, plan, frames, touched)
    /\ Entered(id, PlacedOrder(actor, id, terms, plan))
    /\ Recording(actor, id, terms)
    /\ Traded(id, terms, plan, frames)
    /\ UNCHANGED settledElsewhere

(* Orders that left the book, or stay in it without having traded. *)
Leaving ==
    /\ DOMAIN orders' \subseteq DOMAIN orders
    /\ \A id \in DOMAIN orders' : orders'[id] \in {orders[id], Closed(orders[id])}
    /\ \A id \in DOMAIN orders \ DOMAIN orders' : Retirable(id)
    /\ UNCHANGED <<settledElsewhere, grants, used, sequence, ring>>

LEMMA PlacementMoves ==
    ASSUME BookInv, NEW actor, NEW id, NEW terms, NEW plan, NEW frames, NEW touched,
           Submitted(actor, id, terms, plan, frames),
           PlaceOk(actor, id, terms, plan, frames, touched), NEW b,
           b = FinalImages(actor, id, terms, plan, frames),
           ClosePlacement(actor, id, terms, plan, frames, {QUOTE} \cup touched, b)
    PROVE  Placing(actor, id, terms, plan, frames, touched)
<1> DEFINE m == id.market
           D == DOMAIN orders \cup {id}
           order == PlacedOrder(actor, id, terms, plan)
           S == MakerIds(terms, plan, frames)
<1>1. UNCHANGED settledElsewhere /\ CloseOk(id, terms, plan, b)
  BY DEF ClosePlacement
<1>2. Commit(b) /\ orders' = b.orders
  BY <1>1, PlaceInv
<1>3. CloseChecks(m, frames, {QUOTE} \cup touched, b)
  BY <1>1, PlacementChecks
<1>4. Covers(Everyone, frames)
  BY DEF Covers, Everyone, Lenders
<1>5. Fits(b)
  BY <1>1 DEF CloseOk
<1>6. Settlement(id, m, Everyone, order, S, b)
  BY <1>4, <1>5, PlacementSettled
<1>7. DOMAIN b.orders = D
  BY <1>6 DEF Settlement, Balanced, Images, Ledgers, BookImages
<1>8. id \notin DOMAIN orders
  BY DEF PlaceOk
<1>9. Entered(id, order)
  <2> HIDE DEF order, S, m
  <2>1. \A x \in DOMAIN orders : Kept(x)
    BY <1>2, <1>6 DEF Settlement, Kept
  <2>2. SameOrder(order, orders'[id])
    BY <1>2, <1>6 DEF Settlement
  <2>3. QED
    BY <1>2, <1>7, <1>8, <2>1, <2>2 DEF Entered
<1>10. orders'[id].planned = plan.next
  <2>1. order.planned = plan.next
    BY DEF PlacedOrder, NewOrder
  <2> HIDE DEF order
  <2>2. QED
    BY <1>9, <2>1 DEF Entered, SameOrder
<1>11. Recording(actor, id, terms)
  BY <1>1, <1>2, <1>3, <1>10 DEF Recording, ClosePlacement, CloseOk
<1>12. Traded(id, terms, plan, frames)
  <2>1. S = {} => b.orders[id].filled = 0
    BY Unfilled
  <2> HIDE DEF order, m
  <2>2. \A x \in DOMAIN orders \ S : b.orders[x] = orders[x]
    BY <1>6 DEF Settlement
  <2>3. QED
    BY <1>2, <2>1, <2>2 DEF Traded
<1>13. QED
  BY <1>1, <1>9, <1>11, <1>12 DEF Placing

LEMMA PlaceMoves ==
    ASSUME BookInv, PlaceAny
    PROVE  \E actor, id, terms, plan, frames, touched :
             /\ Placing(actor, id, terms, plan, frames, touched)
             /\ plan.next <= sequence[<<id.market, terms.branch>>]
<1>1. PICK o \in Owners, m \in Markets, salt \in Salts, n \in 0 .. MaxMakers, lag \in 0 .. MaxLag :
        \E terms \in OrderTerms[o] :
          \E planLegs \in [1 .. n -> PlanLegs(m, terms)] : Submit(o, m, salt, terms, planLegs, lag)
  BY DEF PlaceAny
<1>2. PICK terms \in OrderTerms[o] :
        \E planLegs \in [1 .. n -> PlanLegs(m, terms)] : Submit(o, m, salt, terms, planLegs, lag)
  BY <1>1
<1>3. PICK planLegs \in [1 .. n -> PlanLegs(m, terms)] : Submit(o, m, salt, terms, planLegs, lag)
  BY <1>2
<1>4. PICK actor, id, plan, frames, touched :
        /\ Submitted(actor, id, terms, plan, frames)
        /\ PlaceOk(actor, id, terms, plan, frames, touched)
        /\ ClosePlacement(actor, id, terms, plan, frames, {QUOTE} \cup touched,
                          FinalImages(actor, id, terms, plan, frames))
        /\ plan.next <= sequence[<<id.market, terms.branch>>]
  BY <1>3, SubmitIs
<1>5. Placing(actor, id, terms, plan, frames, touched)
  BY <1>4, PlacementMoves
<1>6. QED
  BY <1>4, <1>5

LEMMA CancelMoves ==
    ASSUME BookInv, NEW actor, NEW id, Cancel(actor, id)
    PROVE  Leaving
<1> DEFINE b == Release(Ledger, id)
           m == id.market
<1>1. IsLive(id) /\ HasFrame(id)
  BY DEF Cancel
<1>2. m \in Markets /\ market[m].state # NONE
  BY <1>1, OrderMarket DEF IsLive
<1>3. Returned(m, b)
  BY <1>1, CancelReturns
<1>4. Conserved(b, Owners \X Collaterals, m)
  <2> HIDE DEF b, m
  <2>1. QED
    BY <1>2, <1>3, ReturnedConserved
<1>5. orders' = b.orders
  BY <1>4 DEF Cancel
<1>6. UNCHANGED <<settledElsewhere, grants, used, sequence, ring>>
  BY DEF Cancel
<1> HIDE DEF b, m
<1>7. BookKeeps(b)
  BY <1>2, <1>3, ReturnedKeeps
<1>8. QED
  BY <1>3, <1>5, <1>6, <1>7 DEF Leaving, Returned, BookKeeps

LEMMA ProcessMoves ==
    ASSUME BookInv, NEW actor, NEW o, NEW m, NEW ids, NEW retire \in BOOLEAN,
           ProcessOrders(actor, o, m, ids, retire)
    PROVE  Leaving
<1> DEFINE b == ReleaseAll(ids)
           closed == BatchIds(ids)
           book == IF retire THEN [id \in DOMAIN orders \ closed |-> b.orders[id]] ELSE b.orders
<1>1. Len(ids) \in 1 .. MaxMakers /\ MaxMakers \in Nat
  BY ExchangeAssumption DEF ProcessOrders
<1>2. closed \subseteq DOMAIN orders /\ \A id \in closed : id.market = m /\ (IsLive(id) => HasFrame(id))
  BY DEF ProcessOrders, BatchIds
<1>3. \A i \in 1 .. Len(ids) : ids[i] \in closed
  BY DEF BatchIds
<1>4. Batch(m, ids)
  BY <1>1, <1>2, <1>3 DEF Batch, ProcessOrders
<1>5. ids[1] \in closed
  BY <1>1, <1>3
<1>6. m \in Markets /\ market[m].state # NONE
  BY <1>2, <1>5, OrderMarket
<1>7. Returned(m, b)
  BY <1>4, <1>6, BatchReturns
<1>8. \A id \in closed : Emptied(b.orders[id])
  BY <1>4, <1>6, BatchEmpties
<1>9. Conserved(b, Owners \X Collaterals, m)
  <2> HIDE DEF b
  <2>1. QED
    BY <1>6, <1>7, ReturnedConserved
<1>10. orders' = book
  BY <1>8, <1>9 DEF ProcessOrders, Emptied, BatchIds
<1>11. UNCHANGED <<settledElsewhere, grants, used, sequence, ring>>
  BY DEF ProcessOrders
<1>12. retire => \A id \in closed : Retirable(id)
  BY DEF ProcessOrders, BatchIds
<1>13. BookKeeps(b)
  <2> HIDE DEF b
  <2>1. QED
    BY <1>6, <1>7, ReturnedKeeps
<1>14. CASE retire
  <2>1. orders' = [id \in DOMAIN orders \ closed |-> b.orders[id]]
    BY <1>10, <1>14
  <2> HIDE DEF b, closed, book
  <2>2. QED
    BY <1>7, <1>11, <1>12, <1>14, <2>1 DEF Leaving, Returned
<1>15. CASE ~retire
  <2>1. orders' = b.orders
    BY <1>10, <1>15
  <2> HIDE DEF b, closed, book
  <2>2. QED
    BY <1>7, <1>11, <1>13, <2>1 DEF Leaving, Returned, BookKeeps
<1>16. QED
  BY <1>14, <1>15

(* An instruction on orders places one or makes some leave. *)
LEMMA OrderMoves ==
    ASSUME BookInv, OrderNext
    PROVE  \/ Leaving
           \/ \E actor, id, terms, plan, frames, touched :
                /\ Placing(actor, id, terms, plan, frames, touched)
                /\ plan.next <= sequence[<<id.market, terms.branch>>]
<1>1. CASE PlaceAny
  BY <1>1, PlaceMoves
<1>2. CASE CancelAny
  BY <1>2, CancelMoves DEF CancelAny
<1>3. CASE ProcessAny
  <2>1. PICK o \in Owners, actor \in Owners \cup Delegates, m \in Markets, retire \in BOOLEAN,
             n \in 1 .. MaxMakers :
          \E ids \in [1 .. n -> {x \in DOMAIN orders : x.market = m /\ x.owner = o}] :
            ProcessOrders(actor, o, m, ids, retire)
    BY <1>3 DEF ProcessAny
  <2>2. QED
    BY <2>1, ProcessMoves
<1>4. QED
  BY <1>1, <1>2, <1>3 DEF OrderNext

----------------------------------------------------------------------------
(* What was retired stays retired.                                         *)

(* No order can be placed at the address any more. *)
ClosedForGood(id) ==
    \/ PermanentlyClosed(id.market)
    \/ BoundNonce[id.salt] # Unbound /\ BoundNonce[id.salt] < minimumNonce[id.owner]

RetiredInv ==
    /\ minimumNonce \in [Owners -> Nat] /\ used \subseteq OrderIds
    /\ \A id \in used \ DOMAIN orders : ClosedForGood(id)

ReplayInv == BookInv /\ RetiredInv

LEMMA TimeMoves ==
    ASSUME ConfigType, [ConfigNext]_configVars
    PROVE  now' >= now
<1>1. now \in Int
  BY ConfigConstants DEF ConfigType
<1>2. CASE Tick
  BY <1>1, <1>2 DEF Tick
<1>3. CASE UNCHANGED now
  BY <1>1, <1>3
<1>4. QED
  BY <1>2, <1>3 DEF ConfigNext, Configure, ProposeAdmin, AcceptAdmin, Pause, configVars

LEMMA ListingIs ==
    ASSUME [Next]_vars
    PROVE  [ListingNext]_ListingVars \/ (PositionNext /\ UNCHANGED <<configVars, marketVars>>)
BY DEF Next, vars, ListingVars

LEMMA ClosureMoves ==
    ASSUME LedgersInv, [Next]_vars, NEW m \in Markets, PermanentlyClosed(m)
    PROVE  now' >= Terms[m].cutoff \/ market'[m].state \in {FROZEN, AWAITING, REDEEMABLE, ARCHIVED}
<1>1. ListingInv /\ MarketInv /\ ConfigType
  BY DEF LedgersInv, CustodyInv, ListingInv
<1>2. CASE UNCHANGED <<configVars, marketVars>>
  BY <1>2 DEF PermanentlyClosed, configVars, marketVars
<1>3. CASE [ListingNext]_ListingVars
  <2>1. [ConfigNext]_configVars
    BY <1>3 DEF ListingNext, ListingVars
  <2>2. now' >= now /\ now \in Int /\ now' \in Int
    <3>1. ConfigType'
      BY <1>1, <2>1, ConfigTypeStep
    <3>2. now \in Int /\ now' \in Int
      BY <1>1, <3>1, ConfigConstants DEF ConfigType
    <3>3. QED
      BY <1>1, <2>1, <3>2, TimeMoves
  <2>3. Terms[m].cutoff \in Int
    BY MarketAssumption
  <2>4. CASE now >= Terms[m].cutoff
    BY <2>2, <2>3, <2>4
  <2>5. CASE market[m].state \in {FROZEN, AWAITING, REDEEMABLE, ARCHIVED}
    <3>1. Forward(m)
      BY <1>1, <1>3, ListingMoves
    <3>2. Rank(market'[m].state) >= Rank(market[m].state)
      BY <3>1 DEF Forward
    <3>3. market'[m].state \in States
      BY <1>1, <1>3, ListingInvStep, MarketRecord DEF ListingInv, MarketInv, MarketType, MarketState
    <3>4. QED
      BY <2>5, <3>2, <3>3, RankValues, StatesDistinct
  <2>6. QED
    BY <2>4, <2>5 DEF PermanentlyClosed
<1>4. QED
  BY <1>2, <1>3, ListingIs

(* Nothing else than a placement reopens an address, and a placement does  *)
(* not: it needs an open market and a nonce that is still valid.           *)
LEMMA PlacedIsNew ==
    ASSUME ReplayInv, NEW actor, NEW id, NEW terms, NEW plan, NEW frames, NEW touched,
           Placing(actor, id, terms, plan, frames, touched)
    PROVE  id \notin used
<1>1. SUFFICES ASSUME id \in used PROVE FALSE
  OBVIOUS
<1>2. id \notin DOMAIN orders /\ id \in OrderIds /\ terms \in SignedTerms
  BY DEF Placing, Entered, Submitted
<1>3. ClosedForGood(id)
  BY <1>1, <1>2 DEF ReplayInv, RetiredInv
<1>4. /\ market[id.market].state = OPEN /\ now < Terms[id.market].cutoff
      /\ BoundNonce[id.salt] # Unbound => terms.nonce = BoundNonce[id.salt]
      /\ terms.nonce >= minimumNonce[id.owner]
  BY DEF Placing, PlaceOk, TradingOk, TermsOk, NonceOk
<1>5. now \in Int /\ Terms[id.market].cutoff \in Int
  <2>1. ConfigType /\ id.market \in Markets
    BY <1>2 DEF ReplayInv, BookInv, LedgersInv, CustodyInv, ListingInv, OrderIds
  <2>2. QED
    BY <2>1, ConfigConstants, MarketAssumption DEF ConfigType
<1>6. ~PermanentlyClosed(id.market)
  BY <1>4, <1>5, StatesDistinct DEF PermanentlyClosed
<1>7. terms.nonce \in Int /\ minimumNonce[id.owner] \in Int
  BY <1>2 DEF ReplayInv, RetiredInv, OrderIds, SignedTerms
<1>8. QED
  BY <1>3, <1>4, <1>6, <1>7 DEF ClosedForGood

LEMMA FloorMoves ==
    ASSUME minimumNonce \in [Owners -> Nat], DelegationNext
    PROVE  /\ minimumNonce' \in [Owners -> Nat]
           /\ \A o \in Owners : minimumNonce'[o] >= minimumNonce[o]
<1>1. Nonces \subseteq Nat
  BY DelegationAssumption
<1>2. CASE UNCHANGED minimumNonce
  BY <1>2
<1>3. ASSUME NEW o \in Owners, NEW minimum \in Nonces, InvalidateNonce(o, minimum)
      PROVE  /\ minimumNonce' \in [Owners -> Nat]
             /\ \A p \in Owners : minimumNonce'[p] >= minimumNonce[p]
  <2>1. minimum \in Nat /\ minimum > minimumNonce[o]
    BY <1>1, <1>3 DEF InvalidateNonce
  <2>2. minimumNonce' = [minimumNonce EXCEPT ![o] = minimum]
    BY <1>3 DEF InvalidateNonce
  <2>3. QED
    BY <2>1, <2>2
<1>4. QED
  BY <1>2, <1>3 DEF DelegationNext, Approve, Revoke, RevokeAll

LEMMA RetiredInvStep ==
    ASSUME ReplayInv, [ExchangeNext]_ExchangeVars
    PROVE  RetiredInv'
<1>1. LedgersInv /\ OrdersType /\ BookInv /\ RetiredInv
  BY DEF ReplayInv, BookInv
<1>2. CASE [Next]_vars /\ UNCHANGED <<delegationVars, exchangeVars>>
  <2>1. minimumNonce' = minimumNonce /\ used' = used /\ orders' = orders
    BY <1>2 DEF delegationVars, exchangeVars
  <2>2. ASSUME NEW id \in used \ DOMAIN orders
        PROVE  ClosedForGood(id)'
    <3>1. id.market \in Markets /\ ClosedForGood(id)
      BY <1>1 DEF RetiredInv, OrderIds
    <3>2. CASE PermanentlyClosed(id.market)
      BY <1>1, <1>2, <3>1, <3>2, ClosureMoves DEF ClosedForGood, PermanentlyClosed
    <3>3. QED
      BY <2>1, <3>1, <3>2 DEF ClosedForGood
  <2>3. QED
    BY <1>1, <2>1, <2>2 DEF RetiredInv, OrderIds
<1>3. CASE DelegationNext /\ UNCHANGED <<vars, exchangeVars>>
  <2>1. /\ used' = used /\ orders' = orders /\ now' = now /\ market' = market
    BY <1>3 DEF exchangeVars, vars, configVars, marketVars
  <2>2. /\ minimumNonce' \in [Owners -> Nat]
        /\ \A o \in Owners : minimumNonce'[o] >= minimumNonce[o]
    BY <1>1, <1>3, FloorMoves DEF RetiredInv
  <2>3. ASSUME NEW id \in used \ DOMAIN orders
        PROVE  ClosedForGood(id)'
    <3>1. id.owner \in Owners /\ id.salt \in Salts /\ ClosedForGood(id)
      BY <1>1 DEF RetiredInv, OrderIds
    <3>2. BoundNonce[id.salt] \in Int
      BY <3>1, ExchangeAssumption DEF Unbound
    <3>3. minimumNonce[id.owner] \in Int /\ minimumNonce'[id.owner] \in Int
      BY <1>1, <2>2, <3>1 DEF RetiredInv
    <3>4. minimumNonce'[id.owner] >= minimumNonce[id.owner]
      BY <2>2, <3>1
    <3>5. QED
      BY <2>1, <3>1, <3>2, <3>3, <3>4 DEF ClosedForGood, PermanentlyClosed
  <2>4. QED
    BY <1>1, <2>1, <2>2, <2>3 DEF RetiredInv, OrderIds
<1>4. CASE Leaving
  <2>1. /\ used' = used /\ now' = now /\ market' = market /\ minimumNonce' = minimumNonce
    BY <1>4, CustodySame DEF Leaving
  <2>2. ASSUME NEW id \in used \ DOMAIN orders'
        PROVE  ClosedForGood(id)
    <3>1. CASE id \notin DOMAIN orders
      BY <1>1, <3>1 DEF RetiredInv
    <3>2. CASE id \in DOMAIN orders
      <4>1. Retirable(id)
        BY <1>4, <2>2, <3>2 DEF Leaving
      <4>2. orders[id].terms.nonce \in Nat
        BY <1>1, <3>2 DEF OrdersType, BookImages, OrderImages, SignedTerms
      <4>3. QED
        BY <4>1, <4>2 DEF Retirable, ClosedForGood, Unbound
    <3>3. QED
      BY <3>1, <3>2
  <2>3. QED
    BY <1>1, <2>1, <2>2 DEF RetiredInv, OrderIds, ClosedForGood, PermanentlyClosed
<1>5. ASSUME NEW actor, NEW id, NEW terms, NEW plan, NEW frames, NEW touched,
             Placing(actor, id, terms, plan, frames, touched)
      PROVE  RetiredInv'
  <2>1. /\ used' = used \cup {id} /\ DOMAIN orders' = DOMAIN orders \cup {id}
        /\ now' = now /\ market' = market /\ minimumNonce' = minimumNonce
    BY <1>5, CustodySame DEF Placing, Entered, Recording
  <2>2. id \in OrderIds
    BY <1>5 DEF Placing, Submitted
  <2>3. \A x \in used' \ DOMAIN orders' : ClosedForGood(x)
    BY <1>1, <2>1 DEF RetiredInv
  <2>4. QED
    BY <1>1, <2>1, <2>2, <2>3 DEF RetiredInv, OrderIds, ClosedForGood, PermanentlyClosed
<1>6. CASE UNCHANGED ExchangeVars
  <2>1. [Next]_vars /\ UNCHANGED <<delegationVars, exchangeVars>>
    BY <1>6 DEF ExchangeVars
  <2>2. QED
    BY <1>2, <2>1
<1>7. QED
  BY <1>1, <1>2, <1>3, <1>4, <1>5, <1>6, OrderMoves DEF ExchangeNext

LEMMA ReplayInvInit == ExchangeSpecInit => ReplayInv
<1> SUFFICES ASSUME ExchangeSpecInit PROVE ReplayInv
  OBVIOUS
<1>1. BookInv
  BY BookInvInit
<1>2. RetiredInv
  BY DEF RetiredInv, ExchangeSpecInit, ExchangeInit, DelegationInit
<1>3. QED
  BY <1>1, <1>2 DEF ReplayInv

LEMMA ReplayInvStep == ReplayInv /\ [ExchangeNext]_ExchangeVars => ReplayInv'
BY BookInvStep, RetiredInvStep DEF ReplayInv

LEMMA NewIdsUnused ==
    ReplayInv /\ [ExchangeNext]_ExchangeVars =>
      \A id \in DOMAIN orders' \ DOMAIN orders : id \notin used
<1> SUFFICES ASSUME ReplayInv, [ExchangeNext]_ExchangeVars, NEW x \in DOMAIN orders' \ DOMAIN orders
             PROVE  x \notin used
  OBVIOUS
<1>1. orders' # orders
  OBVIOUS
<1>2. ExchangeNext /\ ~UNCHANGED exchangeVars
  BY <1>1 DEF ExchangeVars, exchangeVars
<1>3. OrderNext /\ BookInv
  BY <1>2 DEF ExchangeNext, ReplayInv
<1>4. CASE Leaving
  BY <1>4 DEF Leaving
<1>5. ASSUME NEW actor, NEW id, NEW terms, NEW plan, NEW frames, NEW touched,
             Placing(actor, id, terms, plan, frames, touched)
      PROVE  x \notin used
  <2>1. x = id
    BY <1>5 DEF Placing, Entered
  <2>2. QED
    BY <1>5, <2>1, PlacedIsNew
<1>6. QED
  BY <1>3, <1>4, <1>5, OrderMoves

(* NoReplay of every step: an order account that was closed is never       *)
(* created again, so what an owner signed is executed at most once.        *)
(* Retiring needs a market that is closed for good or a nonce that the     *)
(* salt binds and the owner invalidated, and neither is ever undone.       *)
THEOREM NeverReplayed == ExchangeSpec => NoReplay
<1>1. ReplayInv /\ [ExchangeNext]_ExchangeVars =>
        [\A id \in DOMAIN orders' \ DOMAIN orders : id \notin used]_ExchangeVars
  BY NewIdsUnused
<1>2. QED
  BY <1>1, ReplayInvInit, ReplayInvStep, PTL DEF ExchangeSpec, NoReplay

----------------------------------------------------------------------------
(* Division.                                                               *)

LEMMA Divided ==
    ASSUME NEW n \in Int, NEW d \in Nat \ {0}
    PROVE  /\ n \div d \in Int /\ n % d \in 0 .. d - 1
           /\ n = d * (n \div d) + (n % d)
BY SMT

LEMMA Multiples ==
    ASSUME NEW d \in Nat \ {0}, NEW k \in Int
    PROVE  /\ k >= 1 => d * k >= d
           /\ k <= 0 => d * k <= 0
           /\ k <= -1 => d * k <= -d
BY SMT

(* Division keeps the order. *)
LEMMA DivMono ==
    ASSUME NEW d \in Nat \ {0}, NEW n \in Int, NEW p \in Int, n <= p
    PROVE  n \div d <= p \div d
<1> DEFINE a == n \div d
           b == p \div d
           i == n % d
           j == p % d
<1>1. a \in Int /\ i \in 0 .. d - 1 /\ n = d * a + i
  BY Divided
<1>2. b \in Int /\ j \in 0 .. d - 1 /\ p = d * b + j
  BY Divided
<1> HIDE DEF a, b, i, j
<1>3. b - a \in Int
  BY <1>1, <1>2
<1>4. d * (b - a) = d * b - d * a
  BY <1>1, <1>2
<1>5. b - a <= -1 => d * (b - a) <= -d
  BY <1>3, Multiples
<1>6. d * a \in Int /\ d * b \in Int
  BY <1>1, <1>2
<1> DEFINE x == d * a
           y == d * b
           z == d * (b - a)
<1> HIDE DEF x, y, z
<1>7. a <= b
  <2>1. z = y - x /\ x \in Int /\ y \in Int /\ n = x + i /\ p = y + j
    BY <1>1, <1>2, <1>4, <1>6 DEF x, y, z
  <2>2. b - a <= -1 => z <= -d
    BY <1>5 DEF z
  <2>3. QED
    BY <2>1, <2>2, <1>1, <1>2
<1>8. QED
  BY <1>7 DEF a, b

(* Fewer than d numbers in a row have different remainders. *)
LEMMA SlotsDistinct ==
    ASSUME NEW d \in Nat \ {0}, NEW s \in Int, NEW q \in Int, s < q, q - s < d
    PROVE  s % d # q % d
<1> DEFINE a == s \div d
           b == q \div d
           i == s % d
           j == q % d
<1>1. a \in Int /\ i \in 0 .. d - 1 /\ s = d * a + i
  BY Divided
<1>2. b \in Int /\ j \in 0 .. d - 1 /\ q = d * b + j
  BY Divided
<1> HIDE DEF a, b, i, j
<1>3. b - a \in Int
  BY <1>1, <1>2
<1>4. d * (b - a) = d * b - d * a
  BY <1>1, <1>2
<1>5. /\ b - a >= 1 => d * (b - a) >= d
      /\ b - a <= 0 => d * (b - a) <= 0
  BY <1>3, Multiples
<1>6. d * a \in Int /\ d * b \in Int
  BY <1>1, <1>2
<1> DEFINE x == d * a
           y == d * b
           z == d * (b - a)
<1> HIDE DEF x, y, z
<1>7. i # j
  <2>1. z = y - x /\ x \in Int /\ y \in Int /\ s = x + i /\ q = y + j
    BY <1>1, <1>2, <1>4, <1>6 DEF x, y, z
  <2>2. (b - a >= 1 => z >= d) /\ (b - a <= 0 => z <= 0)
    BY <1>5 DEF z
  <2>3. QED
    BY <2>1, <2>2, <1>1, <1>2
<1>8. QED
  BY <1>7 DEF i, j
----------------------------------------------------------------------------
(* What the ring remembers.                                                *)

BranchOf(id) == <<id.market, orders[id].terms.branch>>
TicksOf(id) == orders[id].terms.price \div Caps(id.market).tick

Slots == [ticks : Int, side : {BUY, SELL, SIDE_NONE}]

(* A live order is older than the branch's next placement, and in the ring *)
(* while it is among the last Window ones.                                 *)
Remembered(id) ==
    LET x == BranchOf(id)
        s == orders[id].sequence
    IN  /\ s < sequence[x]
        /\ sequence[x] - s <= Window =>
             ring[x][s % Window] = [ticks |-> TicksOf(id), side |-> orders[id].terms.side]

RingInv ==
    /\ ring \in [Markets \X {0, 1} -> [0 .. Window - 1 -> Slots]]
    /\ \A id \in DOMAIN orders : orders[id].status = LIVE => Remembered(id)

CrossInv == BookInv /\ RingInv /\ NoUnseenCross

(* Prices that cross do so in ticks. *)
LEMMA CrossesInTicks ==
    ASSUME NEW side, NEW price \in Int, NEW otherSide, NEW otherPrice \in Int,
           NEW tick \in Nat \ {0}, Crosses(side, price, otherSide, otherPrice)
    PROVE  Crosses(side, price \div tick, otherSide, otherPrice \div tick)
<1>1. CASE side = BUY /\ otherSide = SELL /\ otherPrice <= price
  BY <1>1, DivMono, Divided DEF Crosses
<1>2. CASE side = SELL /\ otherSide = BUY /\ price <= otherPrice
  BY <1>2, DivMono, Divided DEF Crosses
<1>3. QED
  BY <1>1, <1>2 DEF Crosses

LEMMA OrderFacts ==
    ASSUME BookInv, NEW id \in DOMAIN orders
    PROVE  /\ id \in OrderIds /\ id.market \in Markets /\ orders[id] \in OrderImages
           /\ orders[id].terms.price \in Int /\ orders[id].terms.branch \in {0, 1}
           /\ BranchOf(id) \in Markets \X {0, 1}
           /\ orders[id].sequence \in Int /\ orders[id].planned \in Int
           /\ orders[id].status \in {LIVE, FILLED, CANCELLED}
           /\ Caps(id.market).tick \in Nat \ {0}
<1>1. id \in OrderIds /\ orders[id] \in OrderImages
  BY DEF BookInv, OrdersType, BookImages
<1>2. id.market \in Markets
  BY <1>1 DEF OrderIds
<1>3. orders[id].terms \in SignedTerms /\ orders[id].sequence \in Nat /\ orders[id].planned \in Int
      /\ orders[id].status \in {LIVE, FILLED, CANCELLED}
  BY <1>1 DEF OrderImages
<1>4. orders[id].terms.price \in Nat /\ orders[id].terms.branch \in {0, 1}
  BY <1>3 DEF SignedTerms
<1>5. Caps(id.market).tick \in Nat \ {0}
  BY <1>2, ExchangeAssumption DEF Caps
<1>6. QED
  BY <1>1, <1>2, <1>3, <1>4, <1>5 DEF BranchOf

(* What the placed order takes with it. *)
PlacedAs(actor, id, terms, plan) ==
    /\ orders'[id].terms = terms /\ orders'[id].planned = plan.next
    /\ orders'[id].sequence = sequence[<<id.market, terms.branch>>]
    /\ orders'[id].delegate = DelegateOf(actor, id)

LEMMA PlacedFields ==
    ASSUME NEW actor, NEW id, NEW terms, NEW plan, Entered(id, PlacedOrder(actor, id, terms, plan))
    PROVE  PlacedAs(actor, id, terms, plan)
BY DEF Entered, PlacedOrder, NewOrder, SameOrder, PlacedAs

(* The ring remembers the orders that were there before a placement.       *)
LEMMA OldRemembered ==
    ASSUME CrossInv, NEW actor, NEW id, NEW terms, NEW plan, NEW frames, NEW touched,
           Placing(actor, id, terms, plan, frames, touched),
           NEW y \in DOMAIN orders, orders'[y].status = LIVE
    PROVE  /\ Remembered(y)'
           /\ orders[y].status = LIVE
           /\ orders'[y].terms = orders[y].terms /\ orders'[y].sequence = orders[y].sequence
           /\ orders'[y].planned = orders[y].planned
<1> DEFINE x == <<id.market, terms.branch>>
           q == sequence[x]
           z == BranchOf(y)
           s == orders[y].sequence
<1>1. BookInv /\ RingInv
  BY DEF CrossInv
<1>2. Kept(y)
  BY DEF Placing, Entered
<1>3. /\ orders[y].status = LIVE
      /\ orders'[y].terms = orders[y].terms /\ orders'[y].sequence = orders[y].sequence
      /\ orders'[y].planned = orders[y].planned
  BY <1>2 DEF Kept, SameOrder, StaysClosed
<1>4. Remembered(y)
  BY <1>1, <1>3 DEF RingInv
<1>5. z \in Markets \X {0, 1} /\ s \in Int
  BY <1>1, OrderFacts
<1>6. x \in Markets \X {0, 1}
  BY DEF Placing, Submitted, OrderIds, SignedTerms
<1>7. sequence \in [Markets \X {0, 1} -> Nat]
  BY <1>1 DEF BookInv, OrdersType
<1>8. sequence' = [sequence EXCEPT ![x] = q + 1]
  BY DEF Placing, Recording
<1>9. \E slot : ring' = [ring EXCEPT ![x][q % Window] = slot]
  BY DEF Placing, Recording
<1>10. BranchOf(y)' = z /\ TicksOf(y)' = TicksOf(y)
  BY <1>3 DEF BranchOf, TicksOf, Caps
<1>11. Window \in Nat \ {0}
  BY ExchangeAssumption
<1>12. q \in Int /\ sequence[z] \in Int
  BY <1>5, <1>6, <1>7
<1>13. s < sequence[z]
  BY <1>4 DEF Remembered
<1>14. sequence[z] - s <= Window =>
         ring[z][s % Window] = [ticks |-> TicksOf(y), side |-> orders[y].terms.side]
  BY <1>4 DEF Remembered
<1> HIDE DEF x, q, z, s
<1>15. CASE z # x
  <2>1. sequence'[z] = sequence[z] /\ ring'[z] = ring[z]
    BY <1>5, <1>7, <1>8, <1>9, <1>15, <1>1 DEF RingInv
  <2>2. QED
    BY <1>3, <1>10, <1>13, <1>14, <2>1 DEF Remembered, s
<1>16. CASE z = x
  <2>1. sequence'[z] = sequence[z] + 1 /\ sequence[z] = q
    BY <1>5, <1>7, <1>8, <1>16 DEF q
  <2>2. s < sequence'[z]
    BY <1>5, <1>12, <1>13, <2>1
  <2>3. ASSUME sequence'[z] - s <= Window
        PROVE  ring'[z][s % Window] = [ticks |-> TicksOf(y), side |-> orders[y].terms.side]
    <3>1. s < q /\ q - s < Window /\ sequence[z] - s <= Window
      BY <1>5, <1>11, <1>12, <1>13, <2>1, <2>3
    <3>2. s % Window # q % Window
      BY <1>5, <1>11, <1>12, <3>1, SlotsDistinct
    <3>3. ring'[z][s % Window] = ring[z][s % Window]
      <4>1. s % Window \in 0 .. Window - 1
        BY <1>5, <1>11, Divided
      <4>2. ring[z] \in [0 .. Window - 1 -> Slots]
        BY <1>1, <1>5 DEF RingInv
      <4>3. PICK slot : ring' = [ring EXCEPT ![x][q % Window] = slot]
        BY <1>9
      <4>4. ring'[z] = [ring[z] EXCEPT ![q % Window] = slot]
        BY <1>1, <1>5, <1>16, <4>3 DEF RingInv
      <4>5. QED
        BY <3>2, <4>1, <4>2, <4>4
    <3>4. QED
      BY <1>14, <3>1, <3>3
  <2>4. QED
    BY <1>3, <1>10, <2>2, <2>3 DEF Remembered, s
<1>17. QED
  BY <1>3, <1>15, <1>16

----------------------------------------------------------------------------
LEMMA NewRemembered ==
    ASSUME CrossInv, NEW actor, NEW id, NEW terms, NEW plan, NEW frames, NEW touched,
           Placing(actor, id, terms, plan, frames, touched), orders'[id].status = LIVE
    PROVE  Remembered(id)'
<1> DEFINE x == <<id.market, terms.branch>>
           q == sequence[x]
           slot == [ticks |-> terms.price \div Caps(id.market).tick, side |-> terms.side]
<1>1. PlacedAs(actor, id, terms, plan)
  BY PlacedFields DEF Placing
<1>2. x \in Markets \X {0, 1}
  BY DEF Placing, Submitted, OrderIds, SignedTerms
<1>3. sequence \in [Markets \X {0, 1} -> Nat] /\ RingInv
  BY DEF CrossInv, BookInv, OrdersType
<1>4. /\ sequence' = [sequence EXCEPT ![x] = q + 1]
      /\ ring' = [ring EXCEPT ![x][q % Window] = slot]
  BY DEF Placing, Recording
<1>5. BranchOf(id)' = x /\ orders'[id].sequence = q /\ orders'[id].terms = terms
  BY <1>1 DEF PlacedAs, BranchOf
<1>6. TicksOf(id)' = terms.price \div Caps(id.market).tick
  BY <1>5 DEF TicksOf, Caps
<1>7. Window \in Nat \ {0} /\ q \in Int
  BY <1>2, <1>3, ExchangeAssumption
<1>8. q % Window \in 0 .. Window - 1
  BY <1>7, Divided
<1> HIDE DEF x, q
<1>9. sequence'[x] = q + 1
  BY <1>2, <1>3, <1>4
<1>10. ring'[x][q % Window] = slot
  <2>1. ring[x] \in [0 .. Window - 1 -> Slots]
    BY <1>2, <1>3 DEF RingInv
  <2>2. ring'[x] = [ring[x] EXCEPT ![q % Window] = slot]
    BY <1>2, <1>3, <1>4 DEF RingInv
  <2>3. QED
    BY <1>8, <2>1, <2>2
<1>11. q < sequence'[x]
  BY <1>7, <1>9
<1>12. QED
  BY <1>5, <1>6, <1>10, <1>11 DEF Remembered

LEMMA PlacedRing ==
    ASSUME CrossInv, NEW actor, NEW id, NEW terms, NEW plan, NEW frames, NEW touched,
           Placing(actor, id, terms, plan, frames, touched)
    PROVE  RingInv'
<1> DEFINE x == <<id.market, terms.branch>>
           slot == [ticks |-> terms.price \div Caps(id.market).tick,
                    side  |-> IF orders'[id].status = LIVE THEN terms.side ELSE SIDE_NONE]
<1>1. id.market \in Markets /\ terms \in SignedTerms
  BY DEF Placing, Submitted, OrderIds
<1>2. x \in Markets \X {0, 1} /\ terms.price \in Int /\ terms.side \in {BUY, SELL}
  BY <1>1 DEF SignedTerms
<1>3. Caps(id.market).tick \in Nat \ {0}
  BY <1>1, ExchangeAssumption DEF Caps
<1>4. slot \in Slots
  BY <1>2, <1>3, Divided DEF Slots
<1>5. ring' = [ring EXCEPT ![x][sequence[x] % Window] = slot]
  BY DEF Placing, Recording
<1> HIDE DEF slot
<1>6. ring' \in [Markets \X {0, 1} -> [0 .. Window - 1 -> Slots]]
  BY <1>2, <1>4, <1>5 DEF CrossInv, RingInv
<1>7. DOMAIN orders' = DOMAIN orders \cup {id}
  BY DEF Placing, Entered
<1>8. \A y \in DOMAIN orders' : orders'[y].status = LIVE => Remembered(y)'
  BY <1>7, OldRemembered, NewRemembered
<1>9. QED
  BY <1>6, <1>8 DEF RingInv, Slots

(* What a placement could not see, it does not rest across. *)
LEMMA PlacedApart ==
    ASSUME CrossInv, NEW actor, NEW id, NEW terms, NEW plan, NEW frames, NEW touched,
           Placing(actor, id, terms, plan, frames, touched), orders'[id].status = LIVE,
           NEW y \in DOMAIN orders, orders'[y].status = LIVE, y.market = id.market,
           orders[y].terms.branch = terms.branch, orders[y].sequence >= plan.next
    PROVE  ~Crosses(terms.side, terms.price, orders[y].terms.side, orders[y].terms.price)
<1> DEFINE x == <<id.market, terms.branch>>
           q == sequence[x]
           s == orders[y].sequence
           tick == Caps(id.market).tick
<1>1. PlacedAs(actor, id, terms, plan)
  BY PlacedFields DEF Placing
<1>2. RaceFree(Window, plan.next, q, terms.side, terms.price \div tick, ring[x])
  BY <1>1 DEF Placing, Recording, PlacedAs
<1>3. plan.next \in Int /\ terms \in SignedTerms /\ x \in Markets \X {0, 1}
  BY DEF Placing, Submitted, OrderIds, SignedTerms
<1>4. terms.price \in Int
  BY <1>3 DEF SignedTerms
<1>5. /\ s \in Int /\ orders[y].terms.price \in Int /\ tick \in Nat \ {0} /\ BranchOf(y) = x
  BY OrderFacts DEF CrossInv, BranchOf
<1>6. q \in Int /\ Window \in Nat
  BY <1>3, ExchangeAssumption DEF CrossInv, BookInv, OrdersType
<1>7. orders[y].status = LIVE
  BY OldRemembered
<1>8. Remembered(y)
  BY <1>7 DEF CrossInv, RingInv
<1>9. s < q /\ (q - s <= Window => ring[x][s % Window] =
                                    [ticks |-> TicksOf(y), side |-> orders[y].terms.side])
  BY <1>5, <1>8 DEF Remembered
<1>10. plan.next <= q /\ q - plan.next <= Window
  BY <1>2 DEF RaceFree
<1> HIDE DEF x, q, s, tick
<1>11. s \in plan.next .. q - 1 /\ q - s <= Window
  <2>1. s >= plan.next
    BY DEF s
  <2>2. QED
    BY <2>1, <1>3, <1>5, <1>6, <1>9, <1>10
<1>12. ~Crosses(terms.side, terms.price \div tick, ring[x][s % Window].side,
                ring[x][s % Window].ticks)
  BY <1>2, <1>11 DEF RaceFree
<1>13. ~Crosses(terms.side, terms.price \div tick, orders[y].terms.side,
                orders[y].terms.price \div tick)
  <2>1. TicksOf(y) = orders[y].terms.price \div tick
    BY DEF TicksOf, tick
  <2>2. QED
    BY <1>9, <1>11, <1>12, <2>1
<1>14. QED
  BY <1>4, <1>5, <1>13, CrossesInTicks

LEMMA PlacedUncrossed ==
    ASSUME CrossInv, NEW actor, NEW id, NEW terms, NEW plan, NEW frames, NEW touched,
           Placing(actor, id, terms, plan, frames, touched)
    PROVE  NoUnseenCross'
<1> SUFFICES ASSUME NEW older \in DOMAIN orders', NEW newer \in DOMAIN orders',
                    orders'[older].status = LIVE, orders'[newer].status = LIVE,
                    older.market = newer.market,
                    orders'[older].terms.branch = orders'[newer].terms.branch,
                    orders'[older].sequence < orders'[newer].sequence,
                    orders'[older].sequence >= orders'[newer].planned
             PROVE  ~Crosses(orders'[newer].terms.side, orders'[newer].terms.price,
                             orders'[older].terms.side, orders'[older].terms.price)
  BY DEF NoUnseenCross
<1> DEFINE x == <<id.market, terms.branch>>
           q == sequence[x]
<1>1. DOMAIN orders' = DOMAIN orders \cup {id} /\ PlacedAs(actor, id, terms, plan)
  BY PlacedFields DEF Placing, Entered
<1>2. orders'[id].sequence = q /\ orders'[id].terms = terms /\ orders'[id].planned = plan.next
  BY <1>1 DEF PlacedAs
<1>3. q \in Int
  BY DEF CrossInv, BookInv, OrdersType, Placing, Submitted, OrderIds, SignedTerms
<1>4. ASSUME NEW y \in DOMAIN orders, orders'[y].status = LIVE
      PROVE  /\ orders[y].status = LIVE
             /\ orders'[y].terms = orders[y].terms /\ orders'[y].sequence = orders[y].sequence
             /\ orders'[y].planned = orders[y].planned
  BY <1>4, OldRemembered
<1>5. CASE older \in DOMAIN orders /\ newer \in DOMAIN orders
  BY <1>4, <1>5 DEF CrossInv, NoUnseenCross
<1>6. CASE older \in DOMAIN orders /\ newer = id
  <2>1. ~Crosses(terms.side, terms.price, orders[older].terms.side, orders[older].terms.price)
    BY <1>2, <1>4, <1>6, PlacedApart
  <2>2. QED
    BY <1>2, <1>4, <1>6, <2>1
<1>7. CASE older = id /\ newer \in DOMAIN orders
  <2>1. Remembered(newer)
    BY <1>4, <1>7 DEF CrossInv, RingInv
  <2>2. BranchOf(newer) = x /\ orders[newer].sequence \in Int
    BY <1>2, <1>4, <1>7, OrderFacts DEF BranchOf, CrossInv
  <2>3. orders[newer].sequence < q
    BY <2>1, <2>2 DEF Remembered
  <2> HIDE DEF q
  <2>4. q < orders[newer].sequence
    BY <1>2, <1>4, <1>7
  <2>5. QED
    BY <1>3, <2>2, <2>3, <2>4
<1>8. CASE older = id /\ newer = id
  <2> HIDE DEF q
  <2>1. q < q
    BY <1>2, <1>8
  <2>2. QED
    BY <1>3, <2>1
<1>9. QED
  BY <1>1, <1>5, <1>6, <1>7, <1>8

LEMMA LeavingUncrossed ==
    ASSUME CrossInv, Leaving
    PROVE  RingInv' /\ NoUnseenCross'
<1>1. ASSUME NEW y \in DOMAIN orders', orders'[y].status = LIVE
      PROVE  y \in DOMAIN orders /\ orders'[y] = orders[y]
  <2>1. y \in DOMAIN orders /\ orders'[y] \in {orders[y], Closed(orders[y])}
    BY DEF Leaving
  <2>2. orders[y] \in OrderImages
    BY <2>1, OrderFacts DEF CrossInv
  <2>3. Closed(orders[y]).status = CANCELLED
    BY <2>2, ClosedEffect
  <2>4. QED
    BY <1>1, <2>1, <2>3, SidesDistinct
<1>2. sequence' = sequence /\ ring' = ring
  BY DEF Leaving
<1>3. RingInv'
  BY <1>1, <1>2 DEF CrossInv, RingInv, Remembered, BranchOf, TicksOf, Caps, Slots
<1>4. NoUnseenCross'
  BY <1>1 DEF CrossInv, NoUnseenCross
<1>5. QED
  BY <1>3, <1>4

LEMMA CrossInvStep == CrossInv /\ [ExchangeNext]_ExchangeVars => CrossInv'
<1> SUFFICES ASSUME CrossInv, [ExchangeNext]_ExchangeVars PROVE CrossInv'
  OBVIOUS
<1>1. BookInv'
  BY BookInvStep DEF CrossInv
<1>2. CASE UNCHANGED exchangeVars
  <2>1. RingInv'
    BY <1>2 DEF exchangeVars, CrossInv, RingInv, Remembered, BranchOf, TicksOf, Caps, Slots
  <2>2. NoUnseenCross'
    BY <1>2 DEF exchangeVars, CrossInv, NoUnseenCross
  <2>3. QED
    BY <1>1, <2>1, <2>2 DEF CrossInv
<1>3. CASE OrderNext
  BY <1>1, <1>3, OrderMoves, LeavingUncrossed, PlacedRing, PlacedUncrossed DEF CrossInv
<1>4. QED
  BY <1>2, <1>3 DEF ExchangeNext, ExchangeVars

LEMMA CrossInvInit == ExchangeSpecInit => CrossInv
<1> SUFFICES ASSUME ExchangeSpecInit PROVE CrossInv
  OBVIOUS
<1>1. BookInv
  BY BookInvInit
<1>2. orders = <<>> /\ DOMAIN orders = {}
  BY DEF ExchangeSpecInit, ExchangeInit
<1>3. RingInv
  BY <1>2 DEF RingInv, Slots, ExchangeSpecInit, ExchangeInit
<1>4. NoUnseenCross
  BY <1>2 DEF NoUnseenCross
<1>5. QED
  BY <1>1, <1>3, <1>4 DEF CrossInv

(* NoUnseenCross on every reachable state: whatever was placed between a   *)
(* plan and its execution, an order never comes to rest across it.  The    *)
(* ring still holds every live order among the last Window placements, and *)
(* race_free refuses a plan that is older than that.                       *)
THEOREM NeverCrossedUnseen == ExchangeSpec => []NoUnseenCross
<1>1. CrossInv => NoUnseenCross
  BY DEF CrossInv
<1>2. QED
  BY <1>1, CrossInvInit, CrossInvStep, PTL DEF ExchangeSpec

----------------------------------------------------------------------------
(* What delegates trade.                                                   *)

LEMMA SumBelow ==
    ASSUME NEW S, IsFiniteSet(S), NEW f \in [S -> Nat], NEW g \in [S -> Nat],
           \A x \in S : f[x] <= g[x]
    PROVE  Sum(f) <= Sum(g)
<1>1. Units(f) \subseteq Units(g)
  <2>1. ASSUME NEW x \in S
        PROVE  1 .. f[x] \subseteq 1 .. g[x]
    <3>1. f[x] \in Nat /\ g[x] \in Nat /\ f[x] <= g[x]
      OBVIOUS
    <3>2. QED
      BY <3>1
  <2>2. QED
    BY <2>1 DEF Units
<1>2. IsFiniteSet(Units(g))
  BY UnitsFinite
<1>3. QED
  BY <1>1, <1>2, FS_Subset DEF Sum

(* Parts that are rounded down and up make no more than the whole rounded up. *)
LEMMA RoundedParts ==
    ASSUME NEW d \in Nat \ {0}, NEW f \in Nat, NEW r \in Nat, NEW n \in Nat, f + r <= n
    PROVE  (f \div d) + (r \div d) + (IF r % d # 0 THEN 1 ELSE 0)
             <= (n \div d) + (IF n % d # 0 THEN 1 ELSE 0)
<1> DEFINE a == f \div d
           b == r \div d
           c == n \div d
           i == f % d
           j == r % d
           k == n % d
           t == (a + b) - c
<1>1. a \in Int /\ i \in 0 .. d - 1 /\ f = d * a + i
  BY Divided
<1>2. b \in Int /\ j \in 0 .. d - 1 /\ r = d * b + j
  BY Divided
<1>3. c \in Int /\ k \in 0 .. d - 1 /\ n = d * c + k
  BY Divided
<1> HIDE DEF a, b, c, i, j, k
<1>4. t \in Int /\ d * t = (d * a + d * b) - d * c
  BY <1>1, <1>2, <1>3
<1>5. /\ t >= 1 => d * t >= d
      /\ t = 0 => d * t = 0
  BY <1>4, Multiples
<1>6. d * a \in Int /\ d * b \in Int /\ d * c \in Int
  BY <1>1, <1>2, <1>3
<1> DEFINE x == d * a
           y == d * b
           z == d * c
           w == d * t
<1>7. a + b + (IF j # 0 THEN 1 ELSE 0) <= c + (IF k # 0 THEN 1 ELSE 0)
  <2>1. /\ x \in Int /\ y \in Int /\ z \in Int /\ w = (x + y) - z
        /\ f = x + i /\ r = y + j /\ n = z + k
        /\ t >= 1 => w >= d
        /\ t = 0 => w = 0
    BY <1>1, <1>2, <1>3, <1>4, <1>5, <1>6
  <2>2. t \in Int /\ a + b = c + t
    BY <1>1, <1>2, <1>3
  <2> HIDE DEF x, y, z, w, t
  <2>3. w + i + j <= k
    BY <2>1, <1>1, <1>2, <1>3
  <2>4. t <= 0
    BY <2>1, <2>2, <2>3, <1>1, <1>2, <1>3
  <2>5. CASE t = 0
    <3>1. i + j <= k
      BY <2>1, <2>3, <2>5, <1>1, <1>2, <1>3
    <3>2. j # 0 => k # 0
      BY <3>1, <1>1, <1>2, <1>3
    <3>3. QED
      BY <2>2, <2>5, <3>2, <1>1, <1>2, <1>3
  <2>6. CASE t <= -1
    BY <2>2, <2>6, <1>1, <1>2, <1>3
  <2>7. QED
    BY <2>2, <2>4, <2>5, <2>6
<1>8. QED
  BY <1>7 DEF a, b, c, j, k

LEMMA QuotedParts ==
    ASSUME NEW f \in Nat, NEW r \in Nat, NEW n \in Nat, f + r <= n, NEW price \in Nat
    PROVE  QuoteDown(f, price) + QuoteUp(r, price) <= QuoteUp(n, price)
<1> DEFINE whole == price \div Wad
           part == price % Wad
<1>1. whole \in Nat /\ part \in Nat /\ Wad \in Nat \ {0}
  BY RulesConstants
<1> HIDE DEF whole, part
<1>2. \A u \in Nat, v \in Nat : v * u \in Nat
  OBVIOUS
<1>3. ASSUME NEW u \in Nat
      PROVE  f * u + r * u <= n * u
  <2> DEFINE e == n - (f + r)
  <2>1. e \in Nat /\ n = f + r + e
    OBVIOUS
  <2> HIDE DEF e
  <2>2. n * u = f * u + r * u + e * u
    BY <2>1
  <2>3. f * u \in Nat /\ r * u \in Nat /\ e * u \in Nat
    BY <1>2, <2>1
  <2> DEFINE x == f * u
             y == r * u
             z == e * u
             s == n * u
  <2>4. s = x + y + z /\ x \in Nat /\ y \in Nat /\ z \in Nat
    BY <2>2, <2>3
  <2> HIDE DEF x, y, z, s
  <2>5. x + y <= s
    BY <2>4
  <2>6. QED
    BY <2>5 DEF x, y, s
<1> DEFINE fw == f * whole
           rw == r * whole
           nw == n * whole
           fp == f * part
           rp == r * part
           np == n * part
<1>4. /\ fw \in Nat /\ rw \in Nat /\ nw \in Nat /\ fp \in Nat /\ rp \in Nat /\ np \in Nat
      /\ fw + rw <= nw /\ fp + rp <= np
  BY <1>1, <1>2, <1>3
<1>5. /\ QuoteDown(f, price) = fw + (fp \div Wad)
      /\ QuoteUp(r, price) = rw + (rp \div Wad) + (IF rp % Wad # 0 THEN 1 ELSE 0)
      /\ QuoteUp(n, price) = nw + (np \div Wad) + (IF np % Wad # 0 THEN 1 ELSE 0)
  BY DEF QuoteDown, QuoteUp, whole, part
<1> HIDE DEF fw, rw, nw, fp, rp, np
<1>6. (fp \div Wad) + (rp \div Wad) + (IF rp % Wad # 0 THEN 1 ELSE 0)
        <= (np \div Wad) + (IF np % Wad # 0 THEN 1 ELSE 0)
  BY <1>1, <1>4, RoundedParts
<1>7. fp \div Wad \in Int /\ rp \div Wad \in Int /\ np \div Wad \in Int
  BY <1>1, <1>4, Divided
<1> DEFINE a == fp \div Wad
           b == rp \div Wad
           c == np \div Wad
           j == IF rp % Wad # 0 THEN 1 ELSE 0
           k == IF np % Wad # 0 THEN 1 ELSE 0
<1>8. a \in Int /\ b \in Int /\ c \in Int /\ j \in Int /\ k \in Int /\ a + b + j <= c + k
  BY <1>6, <1>7
<1>9. /\ QuoteDown(f, price) = fw + a /\ QuoteUp(r, price) = rw + b + j
      /\ QuoteUp(n, price) = nw + c + k
  BY <1>5
<1> HIDE DEF a, b, c, j, k
<1>10. QED
  BY <1>4, <1>8, <1>9

----------------------------------------------------------------------------
(* The orders a delegate placed for an owner, and what each was charged.   *)
PlacedBy(book, o, d) == {x \in DOMAIN book : x.owner = o /\ book[x].delegate = d}
Charge(order) == QuoteUp(order.terms.quantity, order.terms.price)
ChargedBy(book, o, d) == Sum([x \in PlacedBy(book, o, d) |-> Charge(book[x])])

Granted(grant) ==
    {"total", "remaining"} \subseteq DOMAIN grant /\ grant.total \in Nat /\ grant.remaining \in Nat

GrantsOk(g, book) ==
    /\ DOMAIN g \subseteq Owners \X Delegates
    /\ g = [x \in DOMAIN g |-> g[x]]
    /\ \A o \in Owners, d \in Delegates :
         <<o, d>> \in DOMAIN g =>
           /\ Granted(g[<<o, d>>])
           /\ ChargedBy(book, o, d) + g[<<o, d>>].remaining <= g[<<o, d>>].total
    /\ \A id \in DOMAIN book :
         book[id].delegate # NoKey => <<id.owner, book[id].delegate>> \in DOMAIN g

GrantsInv == GrantsOk(grants, orders)

LEMMA GrantsInvWritten ==
    ASSUME GrantsOk(grants', orders')
    PROVE  GrantsInv'
BY DEF GrantsInv, GrantsOk, ChargedBy, PlacedBy, Charge, Granted, Sum, Units

BudgetInv == BookInv /\ GrantsInv

LEMMA ChargeType ==
    ASSUME NEW order \in OrderImages
    PROVE  Charge(order) \in Nat
<1>1. order.terms \in SignedTerms
  BY DEF OrderImages
<1>2. order.terms.quantity \in Nat /\ order.terms.price \in Nat
  BY <1>1, U64Nat DEF SignedTerms
<1>3. order.terms.quantity \in Int /\ order.terms.quantity >= 0
  BY <1>2
<1>4. Charge(order) \in Int /\ Charge(order) >= 0
  BY <1>2, <1>3, QuoteTypes DEF Charge
<1>5. QED
  BY <1>4

LEMMA ChargedType ==
    ASSUME NEW D, IsFiniteSet(D), NEW book \in BookImages(D), NEW o, NEW d
    PROVE  /\ ChargedBy(book, o, d) \in Nat
           /\ PlacedBy(book, o, d) \subseteq D /\ IsFiniteSet(PlacedBy(book, o, d))
           /\ [x \in PlacedBy(book, o, d) |-> Charge(book[x])] \in [PlacedBy(book, o, d) -> Nat]
<1> DEFINE S == PlacedBy(book, o, d)
<1>1. S \subseteq D /\ DOMAIN book = D
  BY DEF PlacedBy, BookImages
<1>2. IsFiniteSet(S)
  BY <1>1, FS_Subset
<1>3. [x \in S |-> Charge(book[x])] \in [S -> Nat]
  BY <1>1, ChargeType DEF BookImages
<1> HIDE DEF S
<1>4. Sum([x \in S |-> Charge(book[x])]) \in Nat
  BY <1>2, <1>3, SumType
<1>5. QED
  BY <1>1, <1>2, <1>3, <1>4 DEF ChargedBy, S

(* An order never costs more than it was charged. *)
LEMMA TradedWithinCharge ==
    ASSUME NEW order \in OrderImages, OrderSound(order)
    PROVE  /\ QuoteDown(order.filled, order.terms.price) + order.notional \in Nat
           /\ QuoteDown(order.filled, order.terms.price) + order.notional <= Charge(order)
<1>1. order.terms.price \in Nat /\ order.terms.quantity \in Nat
  BY OrderTypes
<1>2. order.filled \in Nat /\ order.remaining \in Nat
      /\ order.filled + order.remaining <= order.terms.quantity
      /\ order.notional = QuoteUp(order.remaining, order.terms.price)
  BY OrderTypes DEF OrderSound
<1>3. QuoteDown(order.filled, order.terms.price) \in Nat /\ order.notional \in Nat
  <2>1. /\ order.filled \in Int /\ order.filled >= 0
        /\ order.remaining \in Int /\ order.remaining >= 0
    BY <1>2
  <2>2. /\ QuoteDown(order.filled, order.terms.price) \in Int
        /\ QuoteDown(order.filled, order.terms.price) >= 0
    BY <1>1, <2>1, QuoteTypes
  <2>3. order.notional \in Int /\ order.notional >= 0
    BY <1>1, <1>2, <2>1, QuoteTypes
  <2>4. QED
    BY <2>2, <2>3
<1>4. QuoteDown(order.filled, order.terms.price) + QuoteUp(order.remaining, order.terms.price)
        <= QuoteUp(order.terms.quantity, order.terms.price)
  BY <1>1, <1>2, QuotedParts
<1>5. QED
  BY <1>2, <1>3, <1>4 DEF Charge

LEMMA WithinBudget == BudgetInv => DelegateBudget
<1> SUFFICES ASSUME BudgetInv, NEW x \in DOMAIN grants
             PROVE  LET traded == Sum(TradedBy(x[1], x[2]))
                    IN  traded <= grants[x].total /\ traded + grants[x].remaining <= grants[x].total
  BY DEF DelegateBudget
<1>1. PICK o \in Owners, d \in Delegates : x = <<o, d>>
  BY DEF BudgetInv, GrantsInv, GrantsOk
<1> DEFINE S == PlacedBy(orders, o, d)
           f == [y \in S |-> QuoteDown(orders[y].filled, orders[y].terms.price) + orders[y].notional]
           g == [y \in S |-> Charge(orders[y])]
<1>2. IsFiniteSet(DOMAIN orders) /\ orders \in BookImages(DOMAIN orders)
  BY DEF BudgetInv, BookInv, OrdersType
<1>3. S \subseteq DOMAIN orders /\ IsFiniteSet(S) /\ g \in [S -> Nat]
  BY <1>2, ChargedType
<1>4. ASSUME NEW y \in S
      PROVE  f[y] \in Nat /\ f[y] <= g[y]
  <2>1. orders[y] \in OrderImages /\ OrderSound(orders[y])
    BY <1>2, <1>3, LedgerFields DEF BookImages, BudgetInv, BookInv, BooksKept, AllSound
  <2>2. QED
    BY <2>1, TradedWithinCharge
<1>5. f \in [S -> Nat]
  BY <1>4
<1>6. TradedBy(x[1], x[2]) = f
  BY <1>1 DEF TradedBy, PlacedBy
<1>7. ChargedBy(orders, o, d) = Sum(g)
  BY DEF ChargedBy
<1>8. /\ Granted(grants[x])
      /\ Sum(g) + grants[x].remaining <= grants[x].total
  BY <1>1, <1>7 DEF BudgetInv, GrantsInv, GrantsOk
<1> HIDE DEF f, g, S
<1>9. Sum(f) <= Sum(g) /\ Sum(f) \in Nat /\ Sum(g) \in Nat
  BY <1>3, <1>4, <1>5, SumBelow, SumType
<1>10. Sum(f) <= grants[x].total /\ Sum(f) + grants[x].remaining <= grants[x].total
  BY <1>8, <1>9 DEF Granted
<1>11. QED
  BY <1>6, <1>10

----------------------------------------------------------------------------
(* Grants change, orders do not.                                           *)
LEMMA NothingCharged ==
    ASSUME BudgetInv, NEW o \in Owners, NEW d \in Delegates, <<o, d>> \notin DOMAIN grants
    PROVE  ChargedBy(orders, o, d) = 0
<1>1. d # NoKey
  BY DelegationAssumption
<1>2. PlacedBy(orders, o, d) = {}
  BY <1>1 DEF BudgetInv, GrantsInv, GrantsOk, PlacedBy
<1>3. \A y \in DOMAIN [x \in PlacedBy(orders, o, d) |-> Charge(orders[x])] : FALSE
  BY <1>2
<1>4. QED
  BY <1>3, SumZero DEF ChargedBy

LEMMA ApproveKeeps ==
    ASSUME BudgetInv, NEW o \in Owners, NEW d \in Delegates, NEW limits \in Limits,
           Approve(o, d, limits), orders' = orders
    PROVE  GrantsInv'
<1> DEFINE k == <<o, d>>
           grant == [market |-> limits.market, epoch |-> epoch[o],
                     expiresAt |-> limits.expiresAt, maxOrder |-> limits.maxOrder,
                     total |-> limits.total, remaining |-> limits.total,
                     maxFee |-> limits.maxFee, permissions |-> limits.permissions,
                     revoked |-> FALSE]
<1>1. /\ k \notin DOMAIN grants
      /\ grants' = [x \in DOMAIN grants \cup {k} |-> IF x = k THEN grant ELSE grants[x]]
  BY DEF Approve
<1>2. limits.total \in Nat
  BY DelegationAssumption
<1>3. Granted(grant) /\ grant.remaining = limits.total /\ grant.total = limits.total
  BY <1>2 DEF Granted
<1>4. ChargedBy(orders, o, d) = 0
  BY <1>1, NothingCharged
<1> HIDE DEF grant
<1>5. DOMAIN grants' = DOMAIN grants \cup {k} /\ grants'[k] = grant
      /\ \A x \in DOMAIN grants : grants'[x] = grants[x]
  BY <1>1
<1>6. DOMAIN grants' \subseteq Owners \X Delegates /\ grants' = [x \in DOMAIN grants' |-> grants'[x]]
  BY <1>1, <1>5 DEF BudgetInv, GrantsInv, GrantsOk
<1>7. ASSUME NEW p \in Owners, NEW e \in Delegates, <<p, e>> \in DOMAIN grants'
      PROVE  /\ Granted(grants'[<<p, e>>])
             /\ ChargedBy(orders, p, e) + grants'[<<p, e>>].remaining <= grants'[<<p, e>>].total
  <2>1. CASE <<p, e>> = k
    <3>1. p = o /\ e = d
      BY <2>1
    <3>2. 0 + limits.total <= limits.total
      BY <1>2
    <3>3. QED
      BY <1>3, <1>4, <1>5, <3>1, <3>2
  <2>2. CASE <<p, e>> # k
    BY <1>5, <1>7, <2>2 DEF BudgetInv, GrantsInv, GrantsOk
  <2>3. QED
    BY <2>1, <2>2
<1>8. \A id \in DOMAIN orders :
        orders[id].delegate # NoKey => <<id.owner, orders[id].delegate>> \in DOMAIN grants'
  BY <1>5 DEF BudgetInv, GrantsInv, GrantsOk
<1>9. GrantsOk(grants', orders)
  BY <1>6, <1>7, <1>8 DEF GrantsOk
<1>10. QED
  BY <1>9, GrantsInvWritten

LEMMA RevokeKeeps ==
    ASSUME BudgetInv, NEW o \in Owners, NEW d \in Delegates, Revoke(o, d), orders' = orders
    PROVE  GrantsInv'
<1> DEFINE k == <<o, d>>
<1>1. k \in DOMAIN grants /\ grants' = [grants EXCEPT ![k] = [grants[k] EXCEPT !.revoked = TRUE]]
  BY DEF Revoke
<1>2. Granted(grants[k])
  BY <1>1 DEF BudgetInv, GrantsInv, GrantsOk
<1>3. /\ Granted([grants[k] EXCEPT !.revoked = TRUE])
      /\ [grants[k] EXCEPT !.revoked = TRUE].total = grants[k].total
      /\ [grants[k] EXCEPT !.revoked = TRUE].remaining = grants[k].remaining
  BY <1>2 DEF Granted
<1>4. /\ DOMAIN grants' = DOMAIN grants
      /\ \A x \in DOMAIN grants : x # k => grants'[x] = grants[x]
      /\ grants'[k] = [grants[k] EXCEPT !.revoked = TRUE]
      /\ grants' = [x \in DOMAIN grants' |-> grants'[x]]
  BY <1>1
<1>5. ASSUME NEW p \in Owners, NEW e \in Delegates, <<p, e>> \in DOMAIN grants'
      PROVE  /\ Granted(grants'[<<p, e>>])
             /\ ChargedBy(orders, p, e) + grants'[<<p, e>>].remaining <= grants'[<<p, e>>].total
  <2>1. /\ Granted(grants[<<p, e>>])
        /\ ChargedBy(orders, p, e) + grants[<<p, e>>].remaining <= grants[<<p, e>>].total
    BY <1>4, <1>5 DEF BudgetInv, GrantsInv, GrantsOk
  <2>2. CASE <<p, e>> = k
    <3>1. /\ grants'[<<p, e>>].total = grants[<<p, e>>].total
          /\ grants'[<<p, e>>].remaining = grants[<<p, e>>].remaining
          /\ Granted(grants'[<<p, e>>])
      BY <1>3, <1>4, <2>2
    <3>2. QED
      BY <2>1, <3>1
  <2>3. CASE <<p, e>> # k
    BY <1>4, <1>5, <2>1, <2>3
  <2>4. QED
    BY <2>2, <2>3
<1>6. GrantsOk(grants', orders)
  BY <1>4, <1>5 DEF BudgetInv, GrantsInv, GrantsOk
<1>7. QED
  BY <1>6, GrantsInvWritten

LEMMA GrantsSame ==
    ASSUME BudgetInv, UNCHANGED <<grants, orders>>
    PROVE  GrantsInv'
<1>1. GrantsOk(grants', orders')
  BY DEF BudgetInv, GrantsInv
<1>2. QED
  BY <1>1, GrantsInvWritten

----------------------------------------------------------------------------
(* Orders come and go.                                                     *)
LEMMA SameCharge ==
    ASSUME NEW before, NEW after, SameOrder(before, after)
    PROVE  Charge(after) = Charge(before) /\ after.delegate = before.delegate
BY DEF SameOrder, Charge

LEMMA ChargedShrunk ==
    ASSUME NEW D, IsFiniteSet(D), NEW book \in BookImages(D),
           NEW T \in SUBSET D, NEW after \in BookImages(T),
           \A x \in T : SameOrder(book[x], after[x]), NEW o, NEW d
    PROVE  ChargedBy(after, o, d) <= ChargedBy(book, o, d)
<1> DEFINE S == PlacedBy(book, o, d)
           P == PlacedBy(after, o, d)
           f == [x \in S |-> Charge(book[x])]
<1>1. DOMAIN after = T /\ DOMAIN book = D
  BY DEF BookImages
<1>2. \A x \in T : Charge(after[x]) = Charge(book[x]) /\ after[x].delegate = book[x].delegate
  BY SameCharge
<1>3. P \in SUBSET S
  BY <1>1, <1>2 DEF PlacedBy
<1>4. [x \in P |-> Charge(after[x])] = [x \in P |-> f[x]]
  <2>1. \A x \in P : x \in T /\ x \in S
    BY <1>1, <1>3 DEF PlacedBy
  <2>2. \A x \in P : Charge(after[x]) = f[x]
    BY <1>2, <2>1
  <2> HIDE DEF f, S, P
  <2>3. QED
    BY <2>2
<1>5. f \in [S -> Nat] /\ IsFiniteSet(S)
  BY ChargedType
<1>6. ChargedBy(after, o, d) = Sum([x \in P |-> Charge(after[x])]) /\ ChargedBy(book, o, d) = Sum(f)
  BY DEF ChargedBy
<1> HIDE DEF f, S, P
<1>7. Sum([x \in P |-> f[x]]) <= Sum(f)
  BY <1>3, <1>5, SumPart
<1>8. QED
  BY <1>4, <1>6, <1>7

LEMMA ChargedGrown ==
    ASSUME NEW D, IsFiniteSet(D), NEW book \in BookImages(D),
           NEW id, id \notin D, NEW after \in BookImages(D \cup {id}),
           \A x \in D : SameOrder(book[x], after[x]), NEW o, NEW d
    PROVE  ChargedBy(after, o, d) =
             IF id.owner = o /\ after[id].delegate = d
             THEN ChargedBy(book, o, d) + Charge(after[id]) ELSE ChargedBy(book, o, d)
<1> DEFINE S == PlacedBy(book, o, d)
           P == PlacedBy(after, o, d)
           f == [x \in P |-> Charge(after[x])]
<1>1. DOMAIN after = D \cup {id} /\ DOMAIN book = D
  BY DEF BookImages
<1>2. \A x \in D : Charge(after[x]) = Charge(book[x]) /\ after[x].delegate = book[x].delegate
  BY SameCharge
<1>3. id \notin S /\ S \subseteq D /\ IsFiniteSet(S)
  BY <1>1, FS_Subset DEF PlacedBy
<1>4. [x \in S |-> Charge(after[x])] = [x \in S |-> Charge(book[x])]
  BY <1>2, <1>3
<1>5. ChargedBy(book, o, d) = Sum([x \in S |-> Charge(after[x])])
  BY <1>4 DEF ChargedBy
<1>6. CASE id.owner = o /\ after[id].delegate = d
  <2>1. P = S \cup {id}
    BY <1>1, <1>2, <1>6 DEF PlacedBy
  <2>2. IsFiniteSet(D \cup {id})
    BY FS_AddElement
  <2>3. f \in [P -> Nat]
    BY <2>2, ChargedType
  <2>4. f \in [S \cup {id} -> Nat]
    BY <2>1, <2>3
  <2>5. /\ [x \in S |-> f[x]] = [x \in S |-> Charge(after[x])] /\ f[id] = Charge(after[id])
    BY <2>1
  <2>6. ChargedBy(after, o, d) = Sum(f)
    BY DEF ChargedBy
  <2> HIDE DEF f, S, P
  <2>7. Sum(f) = Sum([x \in S |-> f[x]]) + f[id]
    BY <1>3, <2>4, SumExtended
  <2>8. QED
    BY <1>5, <1>6, <2>5, <2>6, <2>7
<1>7. CASE ~(id.owner = o /\ after[id].delegate = d)
  <2>1. P = S
    BY <1>1, <1>2, <1>7 DEF PlacedBy
  <2>2. QED
    BY <1>5, <1>7, <2>1 DEF ChargedBy
<1>8. QED
  BY <1>6, <1>7

LEMMA LeavingKeeps ==
    ASSUME BudgetInv, BookInv', Leaving
    PROVE  GrantsInv'
<1>1. IsFiniteSet(DOMAIN orders) /\ orders \in BookImages(DOMAIN orders)
  BY DEF BudgetInv, BookInv, OrdersType
<1>2. orders' \in BookImages(DOMAIN orders')
  BY DEF BookInv, OrdersType, BookImages
<1>3. DOMAIN orders' \in SUBSET DOMAIN orders /\ grants' = grants
  BY DEF Leaving
<1>4. \A x \in DOMAIN orders' : SameOrder(orders[x], orders'[x])
  <2>1. ASSUME NEW x \in DOMAIN orders'
        PROVE  SameOrder(orders[x], orders'[x])
    <3>1. orders[x] \in OrderImages /\ orders'[x] \in {orders[x], Closed(orders[x])}
      BY <1>1, <1>3 DEF BookImages, Leaving
    <3>2. SameOrder(orders[x], Closed(orders[x]))
      BY <3>1, ClosedEffect
    <3>3. SameOrder(orders[x], orders[x])
      BY DEF SameOrder
    <3>4. QED
      BY <3>1, <3>2, <3>3
  <2>2. QED
    BY <2>1
<1>5. ASSUME NEW o \in Owners, NEW d \in Delegates, <<o, d>> \in DOMAIN grants
      PROVE  ChargedBy(orders', o, d) + grants[<<o, d>>].remaining <= grants[<<o, d>>].total
  <2>1. ChargedBy(orders', o, d) <= ChargedBy(orders, o, d)
    BY <1>1, <1>2, <1>3, <1>4, ChargedShrunk
  <2>2. ChargedBy(orders', o, d) \in Nat /\ ChargedBy(orders, o, d) \in Nat
    <3>1. IsFiniteSet(DOMAIN orders')
      BY <1>1, <1>3, FS_Subset
    <3>2. QED
      BY <1>1, <1>2, <3>1, ChargedType
  <2>3. /\ Granted(grants[<<o, d>>])
        /\ ChargedBy(orders, o, d) + grants[<<o, d>>].remaining <= grants[<<o, d>>].total
    BY <1>5 DEF BudgetInv, GrantsInv, GrantsOk
  <2>4. QED
    BY <2>1, <2>2, <2>3 DEF Granted
<1>6. \A id \in DOMAIN orders' : orders'[id].delegate = orders[id].delegate
  BY <1>4 DEF SameOrder
<1>7. GrantsOk(grants', orders')
  BY <1>3, <1>5, <1>6 DEF BudgetInv, GrantsInv, GrantsOk
<1>8. QED
  BY <1>7, GrantsInvWritten

LEMMA PlacingKeeps ==
    ASSUME BudgetInv, BookInv', NEW actor, NEW id, NEW terms, NEW plan, NEW frames, NEW touched,
           Placing(actor, id, terms, plan, frames, touched)
    PROVE  GrantsInv'
<1> DEFINE n == QuoteUp(terms.quantity, terms.price)
           k == <<id.owner, actor>>
<1>1. IsFiniteSet(DOMAIN orders) /\ orders \in BookImages(DOMAIN orders)
  BY DEF BudgetInv, BookInv, OrdersType
<1>2. /\ id \notin DOMAIN orders /\ id.owner \in Owners /\ actor \in {id.owner} \cup Delegates
      /\ DOMAIN orders' = DOMAIN orders \cup {id}
  BY DEF Placing, Entered, Submitted, OrderIds
<1>3. orders' \in BookImages(DOMAIN orders \cup {id})
  BY <1>2 DEF BookInv, OrdersType, BookImages
<1>4. \A x \in DOMAIN orders : SameOrder(orders[x], orders'[x])
  BY DEF Placing, Entered, Kept
<1>5. /\ orders'[id].terms = terms
      /\ orders'[id].delegate = IF actor = id.owner THEN NoKey ELSE actor
  <2>1. Entered(id, PlacedOrder(actor, id, terms, plan))
    BY DEF Placing
  <2>2. PlacedAs(actor, id, terms, plan)
    BY <2>1, PlacedFields
  <2>3. QED
    BY <2>2 DEF PlacedAs, DelegateOf
<1>6. Charge(orders'[id]) = n
  BY <1>5 DEF Charge
<1>7. n \in Nat
  BY <1>3, <1>6, ChargeType DEF BookImages
<1>8. \A o, d :
        ChargedBy(orders', o, d) =
          IF id.owner = o /\ orders'[id].delegate = d
          THEN ChargedBy(orders, o, d) + Charge(orders'[id]) ELSE ChargedBy(orders, o, d)
  BY <1>1, <1>2, <1>3, <1>4, ChargedGrown
<1>9. \A x \in DOMAIN orders : orders'[x].delegate = orders[x].delegate
  BY <1>4 DEF SameOrder
<1>10. \A d \in Delegates : d # NoKey
  BY DelegationAssumption
<1>11. CASE actor = id.owner
  <2>1. grants' = grants /\ orders'[id].delegate = NoKey
    BY <1>5, <1>11 DEF Placing, Recording
  <2>2. \A o \in Owners, d \in Delegates : ChargedBy(orders', o, d) = ChargedBy(orders, o, d)
    BY <1>8, <1>10, <2>1
  <2>3. \A x \in DOMAIN orders' :
          orders'[x].delegate # NoKey => <<x.owner, orders'[x].delegate>> \in DOMAIN grants
    BY <1>2, <1>9, <2>1 DEF BudgetInv, GrantsInv, GrantsOk
  <2>4. GrantsOk(grants, orders')
    BY <2>2, <2>3 DEF BudgetInv, GrantsInv, GrantsOk
  <2>5. QED
    BY <2>1, <2>4, GrantsInvWritten
<1>12. CASE actor # id.owner
  <2>1. /\ k \in DOMAIN grants /\ n <= grants[k].remaining
    BY <1>12 DEF Placing, PlaceOk, Authorized, ChargeOk
  <2>2. grants' = [grants EXCEPT ![k].remaining = @ - n] /\ orders'[id].delegate = actor
    BY <1>5, <1>12 DEF Placing, Recording
  <2>3. actor \in Delegates
    BY <1>2, <1>12
  <2>4. Granted(grants[k])
    BY <1>2, <2>1, <2>3 DEF BudgetInv, GrantsInv, GrantsOk
  <2> HIDE DEF n
  <2>5. grants[k].remaining - n \in Nat
    BY <1>7, <2>1, <2>4 DEF Granted
  <2>6. /\ DOMAIN grants' = DOMAIN grants
        /\ \A x \in DOMAIN grants : x # k => grants'[x] = grants[x]
        /\ grants'[k] = [grants[k] EXCEPT !.remaining = grants[k].remaining - n]
        /\ grants' = [x \in DOMAIN grants' |-> grants'[x]]
    BY <2>1, <2>2
  <2>7. /\ grants'[k].remaining = grants[k].remaining - n
        /\ grants'[k].total = grants[k].total /\ Granted(grants'[k])
    BY <2>4, <2>5, <2>6 DEF Granted
  <2>8. ASSUME NEW o \in Owners, NEW d \in Delegates, <<o, d>> \in DOMAIN grants'
        PROVE  /\ Granted(grants'[<<o, d>>])
               /\ ChargedBy(orders', o, d) + grants'[<<o, d>>].remaining <= grants'[<<o, d>>].total
    <3>1. /\ Granted(grants[<<o, d>>])
          /\ ChargedBy(orders, o, d) + grants[<<o, d>>].remaining <= grants[<<o, d>>].total
      BY <2>6, <2>8 DEF BudgetInv, GrantsInv, GrantsOk
    <3>2. CASE o = id.owner /\ d = actor
      <4>1. ChargedBy(orders', o, d) = ChargedBy(orders, o, d) + n
        BY <1>6, <1>8, <2>2, <3>2
      <4>2. ChargedBy(orders, o, d) \in Nat
        BY <1>1, ChargedType
      <4>3. <<o, d>> = k
        BY <3>2
      <4> HIDE DEF k
      <4>4. QED
        BY <1>7, <2>4, <2>7, <3>1, <4>1, <4>2, <4>3 DEF Granted
    <3>3. CASE ~(o = id.owner /\ d = actor)
      <4>1. ChargedBy(orders', o, d) = ChargedBy(orders, o, d)
        BY <1>8, <2>2, <3>3
      <4>2. <<o, d>> # k
        BY <3>3
      <4>3. QED
        BY <2>6, <2>8, <3>1, <4>1, <4>2
    <3>4. QED
      BY <3>2, <3>3
  <2>9. \A x \in DOMAIN orders' :
          orders'[x].delegate # NoKey => <<x.owner, orders'[x].delegate>> \in DOMAIN grants'
    BY <1>2, <1>9, <2>1, <2>2, <2>6 DEF BudgetInv, GrantsInv, GrantsOk
  <2>10. GrantsOk(grants', orders')
    BY <2>6, <2>8, <2>9 DEF BudgetInv, GrantsInv, GrantsOk
  <2>11. QED
    BY <2>10, GrantsInvWritten
<1>13. QED
  BY <1>11, <1>12

LEMMA GrantsInvStep ==
    ASSUME BudgetInv, [ExchangeNext]_ExchangeVars
    PROVE  GrantsInv'
<1>1. BookInv /\ BookInv'
  BY BookInvStep DEF BudgetInv
<1>2. CASE [Next]_vars /\ UNCHANGED <<delegationVars, exchangeVars>>
  BY <1>2, GrantsSame DEF delegationVars, exchangeVars
<1>3. CASE DelegationNext /\ UNCHANGED <<vars, exchangeVars>>
  <2>1. orders' = orders
    BY <1>3 DEF exchangeVars
  <2>2. QED
    BY <1>3, <2>1, ApproveKeeps, RevokeKeeps, GrantsSame DEF DelegationNext, RevokeAll, InvalidateNonce
<1>4. CASE OrderNext
  BY <1>1, <1>4, OrderMoves, LeavingKeeps, PlacingKeeps
<1>5. CASE UNCHANGED ExchangeVars
  BY <1>5, GrantsSame DEF ExchangeVars, delegationVars, exchangeVars
<1>6. QED
  BY <1>2, <1>3, <1>4, <1>5 DEF ExchangeNext

LEMMA BudgetInvInit == ExchangeSpecInit => BudgetInv
<1> SUFFICES ASSUME ExchangeSpecInit PROVE BudgetInv
  OBVIOUS
<1>1. BookInv
  BY BookInvInit
<1>2. DOMAIN grants = {} /\ DOMAIN orders = {} /\ grants = <<>>
  BY DEF ExchangeSpecInit, DelegationInit, ExchangeInit
<1>3. GrantsOk(grants, orders)
  BY <1>2 DEF GrantsOk
<1>4. QED
  BY <1>1, <1>3 DEF BudgetInv, GrantsInv

LEMMA BudgetInvStep == BudgetInv /\ [ExchangeNext]_ExchangeVars => BudgetInv'
BY BookInvStep, GrantsInvStep DEF BudgetInv

(* DelegateBudget on every reachable state: the quote value a delegate     *)
(* traded for its owner, at the limits of its orders, and what its grant   *)
(* has left never exceed the grant's total (charge in delegation.rs).      *)
THEOREM BudgetsHeld == ExchangeSpec => []DelegateBudget
BY BudgetInvInit, BudgetInvStep, WithinBudget, PTL DEF ExchangeSpec

----------------------------------------------------------------------------
(* Who trades in a placement wants to.                                     *)
LegTrades(m, c) == Exposable(m, c) /\ TokenMoves(MintOf(m, c))

Wanted(id, order, bps) ==
    /\ market[id.market].state = OPEN /\ ~config.paused
    /\ now < order.terms.expiry /\ now < Terms[id.market].cutoff
    /\ order.terms.nonce >= minimumNonce[id.owner]
    /\ bps <= order.terms.maxFee
    /\ order.delegate # NoKey => Active(id.owner, order.delegate)
    /\ order.terms.side = SELL => LegTrades(id.market, Delivers(order.terms))

LEMMA MakerFillable ==
    ASSUME NEW terms, NEW plan, NEW frames, NEW x \in MakerIds(terms, plan, frames)
    PROVE  \E i \in DOMAIN plan.legs :
             x = plan.legs[i].id /\ Fillable(terms, plan.legs[i], frames)
BY DEF MakerIds, Makers

(* A maker's market, order, delegate and leg are judged as they are now. *)
LEMMA MakerWanted ==
    ASSUME BookInv, NEW actor, NEW id, NEW terms, NEW plan, NEW frames, NEW touched,
           Submitted(actor, id, terms, plan, frames),
           PlaceOk(actor, id, terms, plan, frames, touched),
           NEW x \in MakerIds(terms, plan, frames)
    PROVE  x \in DOMAIN orders /\ Wanted(x, orders[x], config.makerBps)
<1>1. PICK i \in DOMAIN plan.legs : x = plan.legs[i].id /\ Fillable(terms, plan.legs[i], frames)
  BY MakerFillable
<1> DEFINE leg == plan.legs[i]
           maker == orders[x]
<1>2. Counterparty(id, terms, plan, frames, touched, leg)
  BY <1>1, LegJudged
<1>3. IsLive(x) /\ Tradable(x)
  BY <1>1 DEF Fillable
<1>4. /\ leg.id = x /\ x.market = id.market /\ x \in DOMAIN orders
      /\ WellFormed(terms, plan, leg) /\ Judged(id.market, terms, leg, touched)
  BY <1>1, <1>2 DEF Counterparty
<1>5. market[id.market].state = OPEN /\ ~config.paused /\ now < Terms[id.market].cutoff
  BY DEF PlaceOk, TradingOk
<1>6. /\ now < maker.terms.expiry /\ maker.terms.nonce >= minimumNonce[x.owner]
      /\ config.makerBps <= maker.terms.maxFee
      /\ maker.delegate # NoKey => Active(x.owner, maker.delegate)
  BY <1>3 DEF Tradable, ExpiryOk, NonceOk, Authorized
<1>7. maker.terms.side = SELL => LegTrades(x.market, Delivers(maker.terms))
  <2>1. SUFFICES ASSUME maker.terms.side = SELL
                 PROVE  LegTrades(id.market, Delivers(maker.terms))
    BY <1>4
  <2>2. terms.side \in {BUY, SELL}
    BY DEF Submitted, SignedTerms
  <2>3. terms.side = BUY
    BY <1>4, <2>1, <2>2 DEF WellFormed
  <2>4. Delivers(maker.terms) \in touched
    BY <1>4, <2>3 DEF Judged
  <2>5. \A c \in touched : LegOk(id.market, c)
    BY DEF PlaceOk
  <2>6. QED
    BY <2>4, <2>5 DEF LegOk, InspectOk, Exposable, LegTrades, TokenMoves
<1> HIDE DEF leg
<1>8. QED
  BY <1>4, <1>5, <1>6, <1>7 DEF Wanted

(* So is the order that meets it. *)
LEMMA TakerWanted ==
    ASSUME BookInv, NEW actor, NEW id, NEW terms, NEW plan, NEW frames, NEW touched,
           Submitted(actor, id, terms, plan, frames),
           PlaceOk(actor, id, terms, plan, frames, touched),
           MakerIds(terms, plan, frames) # {}, NEW order,
           order.terms = terms, order.delegate = DelegateOf(actor, id)
    PROVE  Wanted(id, order, config.takerBps)
<1>1. PICK i \in DOMAIN plan.legs : Fillable(terms, plan.legs[i], frames)
  BY MakerFillable
<1>2. config.takerBps <= terms.maxFee
  BY <1>1, LegJudged DEF Counterparty, Judged
<1>3. /\ market[id.market].state = OPEN /\ ~config.paused /\ now < Terms[id.market].cutoff
      /\ now < terms.expiry /\ terms.nonce >= minimumNonce[id.owner]
  BY DEF PlaceOk, TradingOk, ExpiryOk, NonceOk
<1>4. order.delegate # NoKey => Active(id.owner, order.delegate)
  BY DEF PlaceOk, Authorized, DelegateOf
<1>5. terms.side = SELL => LegTrades(id.market, Delivers(terms))
  <2>1. SUFFICES ASSUME terms.side = SELL
                 PROVE  LegTrades(id.market, Delivers(terms))
    OBVIOUS
  <2>2. terms.bases # {} /\ terms.bases \subseteq touched
    BY <2>1 DEF PlaceOk, TermsOk
  <2>3. Delivers(terms) \in terms.bases
    BY <2>1, <2>2 DEF Delivers, BUY, SELL
  <2>4. \A c \in touched : LegOk(id.market, c)
    BY DEF PlaceOk
  <2>5. QED
    BY <2>2, <2>3, <2>4 DEF LegOk, InspectOk, Exposable, LegTrades, TokenMoves
<1>6. QED
  BY <1>2, <1>3, <1>4, <1>5 DEF Wanted

FeeOf(id) == IF id \in DOMAIN orders THEN config.makerBps ELSE config.takerBps

LEMMA LeavingFills ==
    ASSUME BookInv, Leaving, NEW x \in DOMAIN orders'
    PROVE  FilledBy(x) = 0
<1>1. x \in DOMAIN orders /\ orders'[x] \in {orders[x], Closed(orders[x])}
  BY DEF Leaving
<1>2. orders[x] \in OrderImages
  BY <1>1, OrderFacts
<1>3. orders'[x].filled = orders[x].filled /\ orders[x].filled \in Int
  BY <1>1, <1>2, ClosedEffect, OrderTypes
<1>4. QED
  BY <1>1, <1>3 DEF FilledBy

LEMMA PlacingFills ==
    ASSUME BookInv, NEW actor, NEW id, NEW terms, NEW plan, NEW frames, NEW touched,
           Placing(actor, id, terms, plan, frames, touched),
           NEW x \in DOMAIN orders', FilledBy(x) > 0
    PROVE  Wanted(x, orders'[x], FeeOf(x))
<1>1. /\ Submitted(actor, id, terms, plan, frames)
      /\ PlaceOk(actor, id, terms, plan, frames, touched)
      /\ Traded(id, terms, plan, frames)
      /\ Entered(id, PlacedOrder(actor, id, terms, plan))
  BY DEF Placing
<1>2. x \in DOMAIN orders \cup {id} /\ id \notin DOMAIN orders
  BY <1>1 DEF Entered
<1>3. CASE x \in DOMAIN orders
  <2>1. orders[x].filled \in Int
    BY <1>3, OrderFacts, OrderTypes
  <2>2. x \in MakerIds(terms, plan, frames)
    <3>1. orders'[x] # orders[x]
      BY <1>3, <2>1 DEF FilledBy
    <3>2. QED
      BY <1>1, <1>3, <3>1 DEF Traded
  <2>3. Wanted(x, orders[x], config.makerBps)
    BY <1>1, <2>2, MakerWanted
  <2>4. SameOrder(orders[x], orders'[x])
    BY <1>1, <1>3 DEF Entered, Kept
  <2>5. QED
    BY <1>3, <2>3, <2>4 DEF Wanted, SameOrder, FeeOf
<1>4. CASE x = id
  <2>1. PlacedAs(actor, id, terms, plan)
    BY <1>1, PlacedFields
  <2>2. MakerIds(terms, plan, frames) # {}
    BY <1>1, <1>2, <1>4 DEF Traded, FilledBy
  <2>3. orders'[id].terms = terms /\ orders'[id].delegate = DelegateOf(actor, id)
    BY <2>1 DEF PlacedAs
  <2>4. Wanted(id, orders'[id], config.takerBps)
    BY <1>1, <2>2, <2>3, TakerWanted
  <2>5. QED
    BY <1>2, <1>4, <2>4 DEF FeeOf
<1>5. QED
  BY <1>2, <1>3, <1>4

LEMMA FillsWanted ==
    ASSUME BookInv, [ExchangeNext]_ExchangeVars, NEW x \in DOMAIN orders', FilledBy(x) > 0
    PROVE  Wanted(x, orders'[x], FeeOf(x))
<1>1. orders' # orders
  <2>1. SUFFICES ASSUME orders' = orders PROVE FALSE
    OBVIOUS
  <2>2. orders[x].filled \in Int
    BY <2>1, OrderFacts, OrderTypes
  <2>3. QED
    BY <2>1, <2>2 DEF FilledBy
<1>2. OrderNext
  BY <1>1 DEF ExchangeNext, ExchangeVars, exchangeVars
<1>3. CASE Leaving
  BY <1>3, LeavingFills
<1>4. QED
  BY <1>2, <1>3, OrderMoves, PlacingFills

(* OnlyWantedFills of every step: an order trades only while its market    *)
(* trades, it is neither expired nor invalidated, the fee is within its    *)
(* cap, its delegate's grant stands and its leg may take new exposure      *)
(* (place judges the makers it meets when it fills them).                  *)
THEOREM FillsStayWanted == ExchangeSpec => OnlyWantedFills
<1> DEFINE Filled1 ==
             \A id \in DOMAIN orders' :
               FilledBy(id) > 0 =>
                 LET terms == orders'[id].terms
                     d     == orders'[id].delegate
                 IN  /\ market[id.market].state = OPEN /\ ~config.paused
                     /\ now < terms.expiry /\ now < Terms[id.market].cutoff
                     /\ terms.nonce >= minimumNonce[id.owner]
                     /\ (IF id \in DOMAIN orders THEN config.makerBps ELSE config.takerBps)
                          <= terms.maxFee
                     /\ d # NoKey => Active(id.owner, d)
                     /\ terms.side = SELL => /\ Exposable(id.market, Delivers(terms))
                                             /\ TokenMoves(MintOf(id.market, Delivers(terms)))
<1>1. BookInv /\ [ExchangeNext]_ExchangeVars => [Filled1]_ExchangeVars
  <2>1. SUFFICES ASSUME BookInv, [ExchangeNext]_ExchangeVars PROVE Filled1
    OBVIOUS
  <2>2. QED
    BY <2>1, FillsWanted DEF Wanted, FeeOf, LegTrades
<1>2. QED
  BY <1>1, BookInvInit, BookInvStep, PTL DEF ExchangeSpec, OnlyWantedFills

----------------------------------------------------------------------------
(* Fees.                                                                   *)

LEMMA DividedOnce ==
    ASSUME NEW n \in Int, NEW d \in Nat \ {0}, NEW q \in Int, NEW r \in 0 .. d - 1, n = d * q + r
    PROVE  n \div d = q /\ n % d = r
OBVIOUS

LEMMA AddedMultiples ==
    ASSUME NEW d \in Int, NEW a \in Int, NEW b \in Int
    PROVE  d * (a + b) = d * a + d * b
OBVIOUS

\* The fees on two amounts in turn are the fee on their sum, and leave the same carry: the
\* carry makes up at the next fill for what rounding spared at this one (fee() of the
\* protocol's lib.rs), so no fee is saved or lost by cutting an amount into fills.
THEOREM FeesAddUp ==
    ASSUME NEW first \in Nat, NEW second \in Nat, NEW rate \in 0 .. MaxFeeBps,
           NEW carry \in 0 .. Bps - 1
    PROVE  LET one == Fee(first, rate, carry)
               two == Fee(second, rate, one.carry)
               all == Fee(first + second, rate, carry)
           IN  one.amount + two.amount = all.amount /\ two.carry = all.carry
<1> DEFINE x == first * rate
           y == second * rate
           one == Fee(first, rate, carry)
           two == Fee(second, rate, one.carry)
           all == Fee(first + second, rate, carry)
<1>1. Bps \in Nat \ {0} /\ rate \in Nat
  BY RulesAssumption
<1>2. x \in Int /\ y \in Int /\ (first + second) * rate = x + y
  <2>1. (first + second) * rate = first * rate + second * rate
    BY <1>1
  <2>2. first * rate \in Int /\ second * rate \in Int
    BY <1>1
  <2>3. QED
    BY <2>1, <2>2
<1>3. /\ one.amount = (x + carry) \div Bps /\ one.carry = (x + carry) % Bps
      /\ two.amount = (y + one.carry) \div Bps /\ two.carry = (y + one.carry) % Bps
      /\ all.amount = (x + y + carry) \div Bps /\ all.carry = (x + y + carry) % Bps
  BY <1>2 DEF Fee
<1> HIDE DEF x, y, one, two, all
<1>4. /\ one.amount \in Int /\ one.carry \in 0 .. Bps - 1 /\ x + carry = Bps * one.amount + one.carry
  <2>1. x + carry \in Int
    BY <1>1, <1>2
  <2>2. QED
    BY <1>1, <1>3, <2>1, Divided
<1>5. /\ two.amount \in Int /\ two.carry \in 0 .. Bps - 1 /\ y + one.carry = Bps * two.amount + two.carry
  <2>1. y + one.carry \in Int
    BY <1>1, <1>2, <1>4
  <2>2. QED
    BY <1>1, <1>3, <2>1, Divided
<1>6. x + y + carry = Bps * (one.amount + two.amount) + two.carry
  <2> DEFINE u == Bps * one.amount
             v == Bps * two.amount
  <2>1. u \in Int /\ v \in Int /\ Bps * (one.amount + two.amount) = u + v
    BY <1>1, <1>4, <1>5, AddedMultiples
  <2>2. x + carry = u + one.carry /\ y + one.carry = v + two.carry
    BY <1>4, <1>5
  <2>3. one.carry \in Int /\ two.carry \in Int /\ carry \in Int
    BY <1>1, <1>4, <1>5
  <2> HIDE DEF u, v
  <2>4. x + y + carry = u + v + two.carry
    BY <1>2, <2>1, <2>2, <2>3
  <2>5. QED
    BY <2>1, <2>4
<1>7. (x + y + carry) \div Bps = one.amount + two.amount /\ (x + y + carry) % Bps = two.carry
  <2>1. x + y + carry \in Int /\ one.amount + two.amount \in Int
    BY <1>1, <1>2, <1>4, <1>5
  <2>2. QED
    BY <1>1, <1>5, <1>6, <2>1, DividedOnce
<1>8. one.amount + two.amount = all.amount /\ two.carry = all.carry
  BY <1>3, <1>7
<1>9. QED
  BY <1>8 DEF one, two, all

=============================================================================
