---------------------------- MODULE CustodyProofs ---------------------------
(***************************************************************************)
(* Proofs about Custody: claims are backed and in custody whatever owners, *)
(* issuers and administrators do, and no instruction is ever refused by    *)
(* its own closing check.  And about its ledgers: every pool's liability   *)
(* is the sum of what is owed out of it, every market's credit total the   *)
(* sum of its wallets, and the backing worth exactly the claims it stands  *)
(* behind.                                                                 *)
(***************************************************************************)
EXTENDS Custody, MarketProofs, FiniteSetTheorems

----------------------------------------------------------------------------
(* The arithmetic of backing.                                              *)

PayoutPairs == Outcomes \cup {NoPayouts}

LEMMA PayoutCases ==
    ASSUME NEW payouts \in PayoutPairs
    PROVE  payouts \in {<<0, 0>>, <<1, 0>>, <<0, 1>>, <<1, 1>>}
BY DEF PayoutPairs, Outcomes, NoPayouts

(* What the claims are owed, case by case. *)
LEMMA BackingCases ==
    ASSUME NEW yes \in Int, NEW no \in Int, NEW payouts \in PayoutPairs
    PROVE  /\ payouts = <<0, 0>> =>
                ClaimBacking(yes, no, payouts) = IF yes >= no THEN yes ELSE no
           /\ payouts = <<1, 0>> => ClaimBacking(yes, no, payouts) = yes
           /\ payouts = <<0, 1>> => ClaimBacking(yes, no, payouts) = no
           /\ payouts = <<1, 1>> => ClaimBacking(yes, no, payouts) = (yes + no + 1) \div 2
<1>1. CASE payouts = <<0, 0>>
  BY <1>1 DEF ClaimBacking
<1>2. CASE payouts = <<1, 0>>
  <2>1. Weighted(yes, no, payouts) = yes /\ Payout(payouts) = 1 /\ payouts # <<0, 0>>
    BY <1>2 DEF Weighted, Payout
  <2>2. QED
    BY <1>2, <2>1 DEF ClaimBacking, CeilDiv
<1>3. CASE payouts = <<0, 1>>
  <2>1. Weighted(yes, no, payouts) = no /\ Payout(payouts) = 1 /\ payouts # <<0, 0>>
    BY <1>3 DEF Weighted, Payout
  <2>2. QED
    BY <1>3, <2>1 DEF ClaimBacking, CeilDiv
<1>4. CASE payouts = <<1, 1>>
  <2>1. Weighted(yes, no, payouts) = yes + no /\ Payout(payouts) = 2 /\ payouts # <<0, 0>>
    BY <1>4 DEF Weighted, Payout
  <2>2. QED
    BY <1>4, <2>1 DEF ClaimBacking, CeilDiv
<1>5. QED
  BY <1>1, <1>2, <1>3, <1>4, PayoutCases

LEMMA BackingType ==
    ASSUME NEW yes \in Int, NEW no \in Int, NEW payouts \in PayoutPairs
    PROVE  ClaimBacking(yes, no, payouts) \in Int
<1>1. (yes + no + 1) \div 2 \in Int
  OBVIOUS
<1>2. QED
  BY <1>1, PayoutCases, BackingCases

(* A complete set added to (or taken from) the supply changes what is owed *)
(* by its number, before and after the resolution.                         *)
LEMMA BackingOfSets ==
    ASSUME NEW yes \in Int, NEW no \in Int, NEW n \in Int, NEW payouts \in PayoutPairs
    PROVE  ClaimBacking(yes + n, no + n, payouts) = ClaimBacking(yes, no, payouts) + n
<1>1. (yes + n + (no + n) + 1) \div 2 = (yes + no + 1) \div 2 + n
  OBVIOUS
<1>2. yes + n \in Int /\ no + n \in Int
  OBVIOUS
<1>3. CASE payouts = <<0, 0>>
  BY <1>2, <1>3, BackingCases
<1>4. CASE payouts = <<1, 0>> \/ payouts = <<0, 1>>
  BY <1>2, <1>4, BackingCases
<1>5. CASE payouts = <<1, 1>>
  BY <1>1, <1>2, <1>5, BackingCases
<1>6. QED
  BY <1>3, <1>4, <1>5, PayoutCases

(* An exact redemption lowers what is owed by what it pays. *)
LEMMA BackingOfRedemption ==
    ASSUME NEW yes \in Int, NEW no \in Int, NEW a \in Nat, NEW b \in Nat,
           NEW payouts \in Outcomes, RedemptionOk(a, b, payouts)
    PROVE  /\ Redemption(a, b, payouts) \in Int
           /\ ClaimBacking(yes - a, no - b, payouts)
                = ClaimBacking(yes, no, payouts) - Redemption(a, b, payouts)
<1>1. yes - a \in Int /\ no - b \in Int /\ payouts \in PayoutPairs
  BY DEF PayoutPairs
<1>2. CASE payouts = <<1, 0>>
  <2>1. Redemption(a, b, payouts) = a
    BY <1>2 DEF Redemption, Weighted, Payout
  <2>2. QED
    BY <1>1, <1>2, <2>1, BackingCases
<1>3. CASE payouts = <<0, 1>>
  <2>1. Redemption(a, b, payouts) = b
    BY <1>3 DEF Redemption, Weighted, Payout
  <2>2. QED
    BY <1>1, <1>3, <2>1, BackingCases
<1>4. CASE payouts = <<1, 1>>
  <2>1. Redemption(a, b, payouts) = (a + b) \div 2
    BY <1>4 DEF Redemption, Weighted, Payout
  <2>2. (a + b) % 2 = 0
    BY <1>4 DEF RedemptionOk, Weighted, Payout
  <2>3. (yes - a + (no - b) + 1) \div 2 = (yes + no + 1) \div 2 - (a + b) \div 2
    BY <2>2
  <2>4. QED
    BY <1>1, <1>4, <2>1, <2>3, BackingCases
<1>5. QED
  BY <1>2, <1>3, <1>4 DEF Outcomes

(* A resolution never owes more than the complete sets set aside for it. *)
LEMMA BackingOfOutcome ==
    ASSUME NEW yes \in Int, NEW no \in Int, NEW payouts \in Outcomes
    PROVE  ClaimBacking(yes, no, payouts) <= ClaimBacking(yes, no, NoPayouts)
<1>1. (yes + no + 1) \div 2 <= IF yes >= no THEN yes ELSE no
  <2>1. CASE yes >= no
    BY <2>1
  <2>2. CASE ~(yes >= no)
    BY <2>2
  <2>3. QED
    BY <2>1, <2>2
<1> DEFINE none == NoPayouts
<1>2. payouts \in PayoutPairs /\ none \in PayoutPairs /\ none = <<0, 0>>
  BY DEF PayoutPairs, NoPayouts
<1> HIDE DEF none
<1>3. ClaimBacking(yes, no, none) = IF yes >= no THEN yes ELSE no
  BY <1>2, BackingCases
<1>4. ClaimBacking(yes, no, payouts) <= ClaimBacking(yes, no, none)
  <2>1. CASE payouts = <<1, 1>>
    BY <1>1, <1>2, <1>3, <2>1, BackingCases
  <2>2. CASE payouts = <<1, 0>> \/ payouts = <<0, 1>>
    BY <1>2, <1>3, <2>2, BackingCases
  <2>3. QED
    BY <2>1, <2>2 DEF Outcomes
<1>5. QED
  BY <1>4 DEF none

(* Fewer claims are owed less. *)
LEMMA BackingMonotone ==
    ASSUME NEW yes \in Int, NEW no \in Int, NEW y \in Int, NEW n \in Int,
           y <= yes, n <= no, NEW payouts \in PayoutPairs
    PROVE  ClaimBacking(y, n, payouts) <= ClaimBacking(yes, no, payouts)
<1>1. (y + n + 1) \div 2 <= (yes + no + 1) \div 2
  OBVIOUS
<1>2. CASE payouts = <<1, 1>>
  BY <1>1, <1>2, BackingCases
<1>3. CASE payouts = <<0, 0>>
  BY <1>3, BackingCases
<1>4. CASE payouts = <<1, 0>> \/ payouts = <<0, 1>>
  BY <1>4, BackingCases
<1>5. QED
  BY <1>2, <1>3, <1>4, PayoutCases

----------------------------------------------------------------------------
(* Claim assets.                                                           *)

LEMMA ClaimFacts ==
    ASSUME NEW c \in Collaterals
    PROVE  /\ Claim(c, 0) \in ClaimAssets /\ Claim(c, 1) \in ClaimAssets
           /\ Claim(c, 0) # Claim(c, 1)
BY MarketConstants DEF Collaterals, Claim, ClaimAssets, Assets

LEMMA ClaimsApart ==
    ASSUME NEW c \in Collaterals, NEW d \in Collaterals, c # d
    PROVE  {Claim(c, 0), Claim(c, 1)} \cap {Claim(d, 0), Claim(d, 1)} = {}
<1>1. c \in Int /\ d \in Int
  BY MarketConstants DEF Collaterals
<1>2. 3 * c + 1 # 3 * d + 1 /\ 3 * c + 2 # 3 * d + 2 /\ 3 * c + 1 # 3 * d + 2
        /\ 3 * c + 2 # 3 * d + 1
  BY <1>1
<1>3. /\ Claim(c, 0) = 3 * c + 1 /\ Claim(c, 1) = 3 * c + 2
      /\ Claim(d, 0) = 3 * d + 1 /\ Claim(d, 1) = 3 * d + 2
  BY <1>1 DEF Claim
<1>4. QED
  BY <1>2, <1>3

LEMMA CustodyValues ==
    ASSUME CustodyType, NEW m \in Markets
    PROVE  /\ \A a \in ClaimAssets :
                supply[<<m, a>>] \in U64 /\ vault[<<m, a>>] \in U64
                  /\ fees[<<m, a>>] \in U64 /\ credits[<<m, a>>] \in Nat
                  /\ escrow[<<m, a>>] \in Nat
           /\ \A c \in Collaterals :
                backing[<<m, c>>] \in U64 /\ escrow[<<m, Underlying(c)>>] \in Nat
<1>1. ClaimAssets \subseteq Assets
  BY DEF ClaimAssets
<1>2. \A c \in Collaterals : Underlying(c) \in Assets
  BY MarketConstants DEF Collaterals, Underlying, Assets
<1>3. QED
  BY <1>1, <1>2 DEF CustodyType

LEMMA U64Int == U64 \subseteq Int
BY PoolConstants DEF U64

LEMMA CustodyInts ==
    ASSUME CustodyType, NEW m \in Markets
    PROVE  /\ \A a \in ClaimAssets :
                supply[<<m, a>>] \in Int /\ vault[<<m, a>>] \in Int
                  /\ fees[<<m, a>>] \in Int /\ credits[<<m, a>>] \in Int
                  /\ escrow[<<m, a>>] \in Int /\ ClaimLiability(m, a) \in Int
           /\ \A c \in Collaterals, lent \in Int :
                backing[<<m, c>>] \in Int /\ Liability(m, c, lent) \in Int
<1>1. ASSUME NEW a \in ClaimAssets
      PROVE  supply[<<m, a>>] \in Int /\ vault[<<m, a>>] \in Int
               /\ fees[<<m, a>>] \in Int /\ credits[<<m, a>>] \in Int
               /\ escrow[<<m, a>>] \in Int /\ ClaimLiability(m, a) \in Int
  <2>1. supply[<<m, a>>] \in Int /\ vault[<<m, a>>] \in Int /\ fees[<<m, a>>] \in Int
    BY CustodyValues, U64Int
  <2>2. credits[<<m, a>>] \in Int /\ escrow[<<m, a>>] \in Int
    BY CustodyValues
  <2>3. QED
    BY <2>1, <2>2 DEF ClaimLiability
<1>2. ASSUME NEW c \in Collaterals, NEW lent \in Int
      PROVE  backing[<<m, c>>] \in Int /\ Liability(m, c, lent) \in Int
  <2>1. backing[<<m, c>>] \in Int
    BY CustodyValues, U64Int
  <2>2. escrow[<<m, Underlying(c)>>] \in Nat
    BY CustodyValues
  <2>3. QED
    BY <2>1, <2>2 DEF Liability
<1>3. QED
  BY <1>1, <1>2

----------------------------------------------------------------------------
(* The inductive invariant. *)
CustodyInv == ListingInv /\ CustodyType /\ ClaimCustody /\ ClaimsBacked /\ SelfChecksSilent

LEMMA PayoutsType ==
    ASSUME CustodyInv, NEW m \in Markets
    PROVE  market[m].payouts \in PayoutPairs
BY MarketRecord DEF CustodyInv, ListingInv, MarketState, PayoutPairs

(* A move of a position: what it does to the credit and the backing        *)
(* cancels out.                                                            *)
PositionMoves == {d \in [credit : Int, backing : Int, yes : Int, no : Int] : d.credit + d.backing = 0}

(* The closing check of a position handler follows from its opening one,   *)
(* as soon as the new backing still covers the new claims.                 *)
LEMMA MovedCollateral ==
    ASSUME CustodyInv, NEW m \in Markets, NEW c \in Collaterals, NEW lent \in Int,
           NEW d \in PositionMoves, Listed(m, c),
           CheckCollateral(m, Image(m, c, lent)),
           ClaimBacking(supply[<<m, Claim(c, 0)>>] + d.yes, supply[<<m, Claim(c, 1)>>] + d.no,
                        market[m].payouts)
             <= backing[<<m, c>>] + d.backing
    PROVE  /\ CheckCollateral(m, Moved(Image(m, c, lent), d))
           /\ Moved(Image(m, c, lent), d).owed = Image(m, c, lent).owed
<1> DEFINE y == Claim(c, 0)
           n == Claim(c, 1)
           img == Image(m, c, lent)
           after == Moved(img, d)
<1>1. y \in ClaimAssets /\ n \in ClaimAssets
  BY ClaimFacts
<1>2. /\ supply[<<m, y>>] \in Int /\ supply[<<m, n>>] \in Int
      /\ vault[<<m, y>>] \in Int /\ vault[<<m, n>>] \in Int
      /\ ClaimLiability(m, y) \in Int /\ ClaimLiability(m, n) \in Int
      /\ backing[<<m, c>>] \in Int /\ Liability(m, c, lent) \in Int
  <2>1. CustodyType
    BY DEF CustodyInv
  <2>2. QED
    BY <1>1, <2>1, CustodyInts
<1>3. d.credit \in Int /\ d.backing \in Int /\ d.yes \in Int /\ d.no \in Int
        /\ d.credit + d.backing = 0
  BY DEF PositionMoves
<1>4. reserve[MintOf(m, c)] \in Int
  BY U64Int DEF CustodyInv, ListingInv, MarketInv, MintsListed, PoolType
<1>5. /\ img.reserve = reserve[MintOf(m, c)] /\ img.owed = Liability(m, c, lent)
      /\ img.backing = backing[<<m, c>>]
      /\ img.supply = <<supply[<<m, y>>], supply[<<m, n>>]>>
      /\ img.vault = <<vault[<<m, y>>], vault[<<m, n>>]>>
      /\ img.claims = <<ClaimLiability(m, y), ClaimLiability(m, n)>>
  BY DEF Image
<1>6. /\ after.reserve = img.reserve
      /\ after.owed = img.owed + d.credit + d.backing
      /\ after.backing = img.backing + d.backing
      /\ after.supply = <<img.supply[1] + d.yes, img.supply[2] + d.no>>
      /\ after.vault = <<img.vault[1] + d.yes, img.vault[2] + d.no>>
      /\ after.claims = <<img.claims[1] + d.yes, img.claims[2] + d.no>>
  BY DEF Moved, Image
<1>7. /\ img.reserve >= img.owed
      /\ \A b \in 1 .. 2 : img.supply[b] >= img.vault[b] /\ img.vault[b] >= img.claims[b]
  BY DEF CheckCollateral
<1>8. /\ supply[<<m, y>>] >= vault[<<m, y>>] /\ vault[<<m, y>>] >= ClaimLiability(m, y)
      /\ supply[<<m, n>>] >= vault[<<m, n>>] /\ vault[<<m, n>>] >= ClaimLiability(m, n)
  <2>1. 1 \in 1 .. 2 /\ 2 \in 1 .. 2
    OBVIOUS
  <2>2. QED
    BY <1>5, <1>7, <2>1
<1> HIDE DEF img, after, y, n
<1>9. after.owed = img.owed
  BY <1>2, <1>3, <1>5, <1>6
<1>10. after.reserve >= after.owed
  BY <1>6, <1>7, <1>9
<1>11. after.backing >= ClaimBacking(after.supply[1], after.supply[2], market[m].payouts)
  <2>1. after.supply[1] = supply[<<m, y>>] + d.yes /\ after.supply[2] = supply[<<m, n>>] + d.no
    BY <1>5, <1>6
  <2>2. ClaimBacking(supply[<<m, y>>] + d.yes, supply[<<m, n>>] + d.no, market[m].payouts)
          \in Int
    BY <1>2, <1>3, PayoutsType, BackingType
  <2>3. QED
    BY <1>2, <1>3, <1>5, <1>6, <2>1, <2>2 DEF y, n
<1>12. \A b \in 1 .. 2 :
         after.supply[b] >= after.vault[b] /\ after.vault[b] >= after.claims[b]
  <2>1. after.supply[1] >= after.vault[1] /\ after.vault[1] >= after.claims[1]
    BY <1>2, <1>3, <1>5, <1>6, <1>8
  <2>2. after.supply[2] >= after.vault[2] /\ after.vault[2] >= after.claims[2]
    BY <1>2, <1>3, <1>5, <1>6, <1>8
  <2>3. QED
    BY <2>1, <2>2
<1>13. QED
  BY <1>9, <1>10, <1>11, <1>12 DEF CheckCollateral, img, after

----------------------------------------------------------------------------
(* What a position handler that was not rolled back did.                   *)
Repositioned(o, m, c, d) ==
    LET k == MintOf(m, c)
        y == Claim(c, 0)
        n == Claim(c, 1)
    IN  /\ available' = [available EXCEPT ![<<k, o>>] = @ + d.credit]
        /\ backing' = [backing EXCEPT ![<<m, c>>] = @ + d.backing]
        /\ balance' = [balance EXCEPT ![<<m, o, y>>] = @ + d.yes, ![<<m, o, n>>] = @ + d.no]
        /\ credits' = [credits EXCEPT ![<<m, y>>] = @ + d.yes, ![<<m, n>>] = @ + d.no]
        /\ supply' = [supply EXCEPT ![<<m, y>>] = @ + d.yes, ![<<m, n>>] = @ + d.no]
        /\ vault' = [vault EXCEPT ![<<m, y>>] = @ + d.yes, ![<<m, n>>] = @ + d.no]
        /\ UNCHANGED <<issuer, pools, liability, reserve, opened, seized, tripped,
                       wallets, escrow, fees, burned>>

(* A handler whose move keeps the claims backed commits it. *)
LEMMA RepositionCommits ==
    ASSUME CustodyInv, NEW o \in Owners, NEW m \in Markets, NEW c \in Collaterals,
           NEW d \in PositionMoves, Listed(m, c), Reposition(o, m, c, d),
           ClaimBacking(supply[<<m, Claim(c, 0)>>] + d.yes, supply[<<m, Claim(c, 1)>>] + d.no,
                        market[m].payouts)
             <= backing[<<m, c>>] + d.backing
    PROVE  Repositioned(o, m, c, d)
<1> DEFINE lent == available[<<MintOf(m, c), o>>]
           img == Image(m, c, lent)
<1>1. CheckCollateral(m, img)
  BY DEF Reposition, SnapshotOk
<1>2. lent \in Int
  BY U64Int DEF CustodyInv, ListingInv, MarketInv, MintsListed, PoolType
<1>3. CheckCollateral(m, Moved(img, d)) /\ Moved(img, d).owed = img.owed
  <2> HIDE DEF lent
  <2>1. QED
    BY <1>1, <1>2, MovedCollateral
<1>4. QED
  BY <1>3 DEF Reposition, Repositioned

(* The pointwise effect of a move on the claims of a market. *)
LEMMA MovedClaims ==
    ASSUME CustodyType, NEW o \in Owners, NEW m \in Markets, NEW c \in Collaterals,
           NEW d \in PositionMoves, Repositioned(o, m, c, d), NEW n \in Markets, NEW a \in ClaimAssets
    PROVE  \E by \in {0, d.yes, d.no} :
             /\ supply'[<<n, a>>] = supply[<<n, a>>] + by
             /\ vault'[<<n, a>>] = vault[<<n, a>>] + by
             /\ credits'[<<n, a>>] = credits[<<n, a>>] + by
<1> DEFINE y == Claim(c, 0)
           x == Claim(c, 1)
<1>1. y \in ClaimAssets /\ x \in ClaimAssets /\ y # x
  BY ClaimFacts
<1> HIDE DEF y, x
<1>2. /\ supply' = [supply EXCEPT ![<<m, y>>] = @ + d.yes, ![<<m, x>>] = @ + d.no]
      /\ vault' = [vault EXCEPT ![<<m, y>>] = @ + d.yes, ![<<m, x>>] = @ + d.no]
      /\ credits' = [credits EXCEPT ![<<m, y>>] = @ + d.yes, ![<<m, x>>] = @ + d.no]
  BY DEF Repositioned, y, x
<1>3. /\ supply[<<n, a>>] \in Int /\ vault[<<n, a>>] \in Int /\ credits[<<n, a>>] \in Int
  BY CustodyInts
<1>4. CASE <<n, a>> = <<m, y>>
  <2>1. /\ supply'[<<n, a>>] = supply[<<n, a>>] + d.yes
        /\ vault'[<<n, a>>] = vault[<<n, a>>] + d.yes
        /\ credits'[<<n, a>>] = credits[<<n, a>>] + d.yes
    BY <1>1, <1>2, <1>4 DEF CustodyType
  <2>2. QED
    BY <2>1
<1>5. CASE <<n, a>> = <<m, x>>
  <2>1. /\ supply'[<<n, a>>] = supply[<<n, a>>] + d.no
        /\ vault'[<<n, a>>] = vault[<<n, a>>] + d.no
        /\ credits'[<<n, a>>] = credits[<<n, a>>] + d.no
    BY <1>1, <1>2, <1>5 DEF CustodyType
  <2>2. QED
    BY <2>1
<1>6. CASE <<n, a>> # <<m, y>> /\ <<n, a>> # <<m, x>>
  <2>1. /\ supply'[<<n, a>>] = supply[<<n, a>>]
        /\ vault'[<<n, a>>] = vault[<<n, a>>]
        /\ credits'[<<n, a>>] = credits[<<n, a>>]
    BY <1>1, <1>2, <1>6 DEF CustodyType
  <2>2. QED
    BY <1>3, <2>1
<1>7. QED
  BY <1>4, <1>5, <1>6

LEMMA RepositionedType ==
    ASSUME CustodyInv, NEW o \in Owners, NEW m \in Markets, NEW c \in Collaterals,
           NEW d \in PositionMoves, Listed(m, c), Reposition(o, m, c, d), Repositioned(o, m, c, d)
    PROVE  PoolType' /\ CustodyType'
<1> DEFINE k == MintOf(m, c)
           y == Claim(c, 0)
           x == Claim(c, 1)
<1>1. k \in Mints
  BY DEF CustodyInv, ListingInv, MarketInv, MintsListed
<1>2. y \in ClaimAssets /\ x \in ClaimAssets /\ y # x
  BY ClaimFacts
<1>3. /\ available[<<k, o>>] + d.credit \in U64
      /\ backing[<<m, c>>] + d.backing \in U64
      /\ balance[<<m, o, y>>] + d.yes \in U64 /\ balance[<<m, o, x>>] + d.no \in U64
      /\ credits[<<m, y>>] + d.yes >= 0 /\ credits[<<m, x>>] + d.no >= 0
      /\ supply[<<m, y>>] + d.yes \in U64 /\ supply[<<m, x>>] + d.no \in U64
      /\ vault[<<m, y>>] + d.yes \in U64 /\ vault[<<m, x>>] + d.no \in U64
  BY DEF Reposition
<1>4. credits[<<m, y>>] + d.yes \in Nat /\ credits[<<m, x>>] + d.no \in Nat
  <2>1. credits[<<m, y>>] \in Int /\ credits[<<m, x>>] \in Int /\ d.yes \in Int /\ d.no \in Int
    BY <1>2, CustodyInts DEF CustodyInv, PositionMoves
  <2>2. QED
    BY <1>3, <2>1
<1> HIDE DEF k, y, x
<1>5. /\ available' = [available EXCEPT ![<<k, o>>] = @ + d.credit]
      /\ backing' = [backing EXCEPT ![<<m, c>>] = @ + d.backing]
      /\ balance' = [balance EXCEPT ![<<m, o, y>>] = @ + d.yes, ![<<m, o, x>>] = @ + d.no]
      /\ credits' = [credits EXCEPT ![<<m, y>>] = @ + d.yes, ![<<m, x>>] = @ + d.no]
      /\ supply' = [supply EXCEPT ![<<m, y>>] = @ + d.yes, ![<<m, x>>] = @ + d.no]
      /\ vault' = [vault EXCEPT ![<<m, y>>] = @ + d.yes, ![<<m, x>>] = @ + d.no]
      /\ UNCHANGED <<issuer, pools, liability, reserve, opened, seized, tripped,
                     wallets, escrow, fees, burned>>
  BY DEF Repositioned, k, y, x
<1>6. PoolType'
  BY <1>1, <1>3, <1>5 DEF CustodyInv, ListingInv, PoolType
<1>7. balance' \in [Markets \X Owners \X ClaimAssets -> U64]
  BY <1>2, <1>3, <1>5 DEF CustodyInv, CustodyType
<1>8. credits' \in [Markets \X ClaimAssets -> Nat]
  BY <1>2, <1>4, <1>5 DEF CustodyInv, CustodyType
<1>9. supply' \in [Markets \X ClaimAssets -> U64]
  BY <1>2, <1>3, <1>5 DEF CustodyInv, CustodyType
<1>10. vault' \in [Markets \X ClaimAssets -> U64]
  BY <1>2, <1>3, <1>5 DEF CustodyInv, CustodyType
<1>11. backing' \in [Markets \X Collaterals -> U64]
  BY <1>3, <1>5 DEF CustodyInv, CustodyType
<1>12. QED
  BY <1>5, <1>6, <1>7, <1>8, <1>9, <1>10, <1>11 DEF CustodyInv, CustodyType

LEMMA ListingInvKept ==
    ASSUME ListingInv, PoolType', UNCHANGED <<configVars, marketVars>>
    PROVE  ListingInv'
<1>1. ConfigType'
  BY DEF ListingInv, ConfigType, configVars
<1>2. MarketInv'
  BY MarketInvUnchanged DEF ListingInv
<1>3. QED
  BY <1>1, <1>2 DEF ListingInv

LEMMA RepositionInv ==
    ASSUME CustodyInv, NEW o \in Owners, NEW m \in Markets, NEW c \in Collaterals,
           NEW d \in PositionMoves, Listed(m, c), Reposition(o, m, c, d),
           ClaimBacking(supply[<<m, Claim(c, 0)>>] + d.yes, supply[<<m, Claim(c, 1)>>] + d.no,
                        market[m].payouts)
             <= backing[<<m, c>>] + d.backing,
           UNCHANGED <<configVars, marketVars>>
    PROVE  CustodyInv'
<1>1. Repositioned(o, m, c, d)
  BY RepositionCommits
<1>2. PoolType' /\ CustodyType'
  BY <1>1, RepositionedType
<1>3. ListingInv'
  BY <1>2, ListingInvKept DEF CustodyInv
<1>4. CustodyType
  BY DEF CustodyInv
<1>5. ClaimCustody'
  <2> SUFFICES ASSUME NEW n \in Markets, NEW a \in ClaimAssets
               PROVE  /\ vault'[<<n, a>>] >= (ClaimLiability(n, a))'
                      /\ supply'[<<n, a>>] >= vault'[<<n, a>>]
    BY DEF ClaimCustody
  <2>1. PICK by \in {0, d.yes, d.no} :
          /\ supply'[<<n, a>>] = supply[<<n, a>>] + by
          /\ vault'[<<n, a>>] = vault[<<n, a>>] + by
          /\ credits'[<<n, a>>] = credits[<<n, a>>] + by
    BY <1>1, <1>4, MovedClaims
  <2>2. by \in Int
    BY DEF PositionMoves
  <2>3. escrow' = escrow /\ fees' = fees
    BY <1>1 DEF Repositioned
  <2>4. vault[<<n, a>>] >= ClaimLiability(n, a) /\ supply[<<n, a>>] >= vault[<<n, a>>]
    BY DEF CustodyInv, ClaimCustody
  <2>5. /\ supply[<<n, a>>] \in Int /\ vault[<<n, a>>] \in Int /\ credits[<<n, a>>] \in Int
        /\ escrow[<<n, a>>] \in Int /\ fees[<<n, a>>] \in Int
    BY <1>4, CustodyInts
  <2>6. QED
    BY <2>1, <2>2, <2>3, <2>4, <2>5 DEF ClaimLiability
<1>6. ClaimsBacked'
  <2> SUFFICES ASSUME NEW n \in Markets, NEW e \in Collaterals
               PROVE  backing'[<<n, e>>] >= ClaimBacking(supply'[<<n, Claim(e, 0)>>],
                                                         supply'[<<n, Claim(e, 1)>>],
                                                         market'[n].payouts)
    BY DEF ClaimsBacked
  <2> DEFINE y == Claim(c, 0)
             x == Claim(c, 1)
             u == Claim(e, 0)
             v == Claim(e, 1)
  <2>1. y \in ClaimAssets /\ x \in ClaimAssets /\ y # x /\ u \in ClaimAssets /\ v \in ClaimAssets
    BY ClaimFacts
  <2>2. c # e => y # u /\ y # v /\ x # u /\ x # v
    BY ClaimsApart
  <2>3. market' = market
    BY DEF marketVars
  <2>4. backing[<<n, e>>] >= ClaimBacking(supply[<<n, u>>], supply[<<n, v>>], market[n].payouts)
    BY DEF CustodyInv, ClaimsBacked
  <2>5. /\ supply[<<m, y>>] + d.yes \in Int /\ supply[<<m, x>>] + d.no \in Int
        /\ backing[<<m, c>>] + d.backing \in Int
    BY <1>4, <2>1, CustodyInts DEF PositionMoves
  <2>6. ClaimBacking(supply[<<m, y>>] + d.yes, supply[<<m, x>>] + d.no, market[m].payouts) \in Int
    BY <2>5, PayoutsType, BackingType
  <2>7. /\ supply' = [supply EXCEPT ![<<m, y>>] = @ + d.yes, ![<<m, x>>] = @ + d.no]
        /\ backing' = [backing EXCEPT ![<<m, c>>] = @ + d.backing]
    BY <1>1 DEF Repositioned
  <2>8. ClaimBacking(supply[<<m, y>>] + d.yes, supply[<<m, x>>] + d.no, market[m].payouts)
          <= backing[<<m, c>>] + d.backing
    OBVIOUS
  <2>9. c = e => u = y /\ v = x
    OBVIOUS
  <2> HIDE DEF y, x, u, v
  <2>10. CASE n = m /\ c = e
    <3>1. /\ supply'[<<n, u>>] = supply[<<m, y>>] + d.yes
          /\ supply'[<<n, v>>] = supply[<<m, x>>] + d.no
          /\ backing'[<<n, e>>] = backing[<<m, c>>] + d.backing
      BY <1>4, <2>1, <2>7, <2>9, <2>10 DEF CustodyType
    <3>2. QED
      BY <2>3, <2>5, <2>6, <2>8, <2>10, <3>1 DEF u, v
  <2>11. CASE ~(n = m /\ c = e)
    <3>1. /\ supply'[<<n, u>>] = supply[<<n, u>>]
          /\ supply'[<<n, v>>] = supply[<<n, v>>]
          /\ backing'[<<n, e>>] = backing[<<n, e>>]
      BY <1>4, <2>1, <2>2, <2>7, <2>11 DEF CustodyType
    <3>2. QED
      BY <2>3, <2>4, <3>1 DEF u, v
  <2>12. QED
    BY <2>10, <2>11
<1>7. SelfChecksSilent'
  BY <1>1 DEF Repositioned, CustodyInv, SelfChecksSilent
<1>8. QED
  BY <1>2, <1>3, <1>5, <1>6, <1>7 DEF CustodyInv

----------------------------------------------------------------------------
(* The position handlers.                                                  *)

LEMMA ClaimValues ==
    ASSUME CustodyInv, NEW m \in Markets, NEW c \in Collaterals
    PROVE  /\ supply[<<m, Claim(c, 0)>>] \in Int /\ supply[<<m, Claim(c, 1)>>] \in Int
           /\ backing[<<m, c>>] \in Int
           /\ backing[<<m, c>>] >= ClaimBacking(supply[<<m, Claim(c, 0)>>],
                                                supply[<<m, Claim(c, 1)>>], market[m].payouts)
           /\ ClaimBacking(supply[<<m, Claim(c, 0)>>], supply[<<m, Claim(c, 1)>>],
                           market[m].payouts) \in Int
<1> DEFINE y == supply[<<m, Claim(c, 0)>>]
           n == supply[<<m, Claim(c, 1)>>]
<1>1. CustodyType
  BY DEF CustodyInv
<1>2. y \in Int /\ n \in Int
  BY <1>1, ClaimFacts, CustodyInts
<1>3. backing[<<m, c>>] \in Int
  BY <1>1, CustodyInts
<1>4. ClaimBacking(y, n, market[m].payouts) \in Int
  <2> HIDE DEF y, n
  <2>1. QED
    BY <1>2, PayoutsType, BackingType
<1>5. backing[<<m, c>>] >= ClaimBacking(y, n, market[m].payouts)
  BY DEF CustodyInv, ClaimsBacked
<1>6. QED
  BY <1>2, <1>3, <1>4, <1>5

(* Splitting and merging move a number of complete sets. *)
LEMMA SetsInv ==
    ASSUME CustodyInv, NEW o \in Owners, NEW m \in Markets, NEW c \in Collaterals,
           NEW n \in Int, Listed(m, c),
           Reposition(o, m, c, [credit |-> -n, backing |-> n, yes |-> n, no |-> n]),
           UNCHANGED <<configVars, marketVars>>
    PROVE  CustodyInv'
<1> DEFINE d == [credit |-> -n, backing |-> n, yes |-> n, no |-> n]
           y == supply[<<m, Claim(c, 0)>>]
           x == supply[<<m, Claim(c, 1)>>]
           p == market[m].payouts
<1>1. d \in PositionMoves
  BY DEF PositionMoves
<1>2. y \in Int /\ x \in Int /\ p \in PayoutPairs
  BY ClaimValues, PayoutsType
<1>3. backing[<<m, c>>] >= ClaimBacking(y, x, p) /\ backing[<<m, c>>] \in Int
        /\ ClaimBacking(y, x, p) \in Int
  BY ClaimValues
<1>4. ClaimBacking(y + n, x + n, p) <= backing[<<m, c>>] + n
  <2> HIDE DEF y, x, p
  <2>1. ClaimBacking(y + n, x + n, p) = ClaimBacking(y, x, p) + n
    BY <1>2, BackingOfSets
  <2>2. QED
    BY <1>3, <2>1
<1>5. ClaimBacking(y + d.yes, x + d.no, p) <= backing[<<m, c>>] + d.backing
  BY <1>4
<1>6. Reposition(o, m, c, d)
  OBVIOUS
<1> HIDE DEF d
<1>7. QED
  BY <1>1, <1>5, <1>6, RepositionInv

LEMMA RedeemInv ==
    ASSUME CustodyInv, NEW o \in Owners, NEW m \in Markets, NEW c \in Collaterals,
           NEW a \in Nat, NEW b \in Nat, Redeem(o, m, c, a, b),
           UNCHANGED <<configVars, marketVars>>
    PROVE  CustodyInv'
<1> DEFINE p == market[m].payouts
           paid == Redemption(a, b, p)
           d == [credit |-> paid, backing |-> -paid, yes |-> -a, no |-> -b]
           y == supply[<<m, Claim(c, 0)>>]
           x == supply[<<m, Claim(c, 1)>>]
<1>1. p \in Outcomes /\ RedemptionOk(a, b, p)
  BY DEF Redeem, RedemptionOk, PayoutOk, Outcomes
<1>2. y \in Int /\ x \in Int
  BY ClaimValues
<1>3. backing[<<m, c>>] >= ClaimBacking(y, x, p) /\ backing[<<m, c>>] \in Int
        /\ ClaimBacking(y, x, p) \in Int
  BY ClaimValues
<1>4. /\ paid \in Int
      /\ ClaimBacking(y - a, x - b, p) = ClaimBacking(y, x, p) - paid
  <2> HIDE DEF y, x, p
  <2>1. QED
    BY <1>1, <1>2, BackingOfRedemption
<1>5. Reposition(o, m, c, d) /\ Listed(m, c)
  BY DEF Redeem, Ready
<1> HIDE DEF paid, y, x, p
<1>6. d \in PositionMoves
  BY <1>4 DEF PositionMoves
<1>7. y + -a = y - a /\ x + -b = x - b
  BY <1>2
<1>8. ClaimBacking(y + d.yes, x + d.no, p) <= backing[<<m, c>>] + d.backing
  <2>1. y + d.yes = y - a /\ x + d.no = x - b /\ d.backing = -paid
    BY <1>7
  <2>2. QED
    BY <1>3, <1>4, <2>1
<1> HIDE DEF d
<1>9. QED
  BY <1>5, <1>6, <1>8, RepositionInv DEF y, x, p

LEMMA ClaimAmountsNat == ClaimAmounts \subseteq Nat
BY CustodyAssumption

LEMMA SplitMergeInv ==
    ASSUME CustodyInv, NEW o \in Owners, NEW m \in Markets, NEW c \in Collaterals,
           NEW n \in ClaimAmounts, Split(o, m, c, n) \/ Merge(o, m, c, n),
           UNCHANGED <<configVars, marketVars>>
    PROVE  CustodyInv'
<1>1. n \in Int /\ -n \in Int /\ -(-n) = n
  BY ClaimAmountsNat
<1>2. CASE Split(o, m, c, n)
  BY <1>1, <1>2, SetsInv DEF Split, Ready
<1>3. CASE Merge(o, m, c, n)
  <2> DEFINE k == -n
  <2>1. k \in Int /\ -k = n
    BY <1>1
  <2>2. Reposition(o, m, c, [credit |-> -k, backing |-> k, yes |-> k, no |-> k])
    BY <1>3, <2>1 DEF Merge
  <2>3. Listed(m, c)
    BY <1>3 DEF Merge, Ready
  <2> HIDE DEF k
  <2>4. QED
    BY <2>1, <2>2, <2>3, SetsInv
<1>4. QED
  BY <1>2, <1>3

----------------------------------------------------------------------------
(* Claim tokens and credits.                                               *)

(* An operation that leaves the pools, the backing and the supply of the   *)
(* claims alone keeps what they say.                                       *)
LEMMA ClaimsInv ==
    ASSUME CustodyInv, CustodyType', ClaimCustody',
           UNCHANGED <<configVars, marketVars, poolVars, backing, supply>>
    PROVE  CustodyInv'
<1>1. PoolType' /\ SelfChecksSilent'
  BY DEF CustodyInv, ListingInv, PoolType, poolVars, SelfChecksSilent
<1>2. ListingInv'
  BY <1>1, ListingInvKept DEF CustodyInv
<1>3. ClaimsBacked'
  BY DEF CustodyInv, ClaimsBacked, marketVars
<1>4. QED
  BY <1>1, <1>2, <1>3 DEF CustodyInv

LEMMA InitializeWalletInv ==
    ASSUME CustodyInv, NEW o \in Owners, NEW m \in Markets, InitializeWallet(o, m),
           UNCHANGED <<configVars, marketVars>>
    PROVE  CustodyInv'
<1>1. CustodyType'
  BY DEF CustodyInv, CustodyType, InitializeWallet
<1>2. ClaimCustody'
  BY DEF CustodyInv, ClaimCustody, ClaimLiability, InitializeWallet
<1>3. QED
  BY <1>1, <1>2, ClaimsInv DEF InitializeWallet

LEMMA TransferCreditInv ==
    ASSUME CustodyInv, NEW o \in Owners, NEW p \in Owners, NEW m \in Markets, NEW a \in Assets,
           NEW n \in ClaimAmounts, TransferCredit(o, p, m, a, n),
           UNCHANGED <<configVars, marketVars>>
    PROVE  CustodyInv'
<1>1. a \in ClaimAssets /\ o # p /\ n \in Nat
  BY ClaimAmountsNat DEF TransferCredit
<1>2. balance[<<m, o, a>>] \in U64 /\ balance[<<m, p, a>>] \in U64
  BY <1>1 DEF CustodyInv, CustodyType
<1>3. balance[<<m, o, a>>] - n \in U64 /\ balance[<<m, p, a>>] + n \in U64
  BY <1>1, <1>2, PoolConstants DEF TransferCredit, U64
<1>4. balance' \in [Markets \X Owners \X ClaimAssets -> U64]
  BY <1>1, <1>3 DEF CustodyInv, CustodyType, TransferCredit
<1>5. CustodyType'
  BY <1>4 DEF CustodyInv, CustodyType, TransferCredit
<1>6. ClaimCustody'
  BY DEF CustodyInv, ClaimCustody, ClaimLiability, TransferCredit
<1>7. QED
  BY <1>5, <1>6, ClaimsInv DEF TransferCredit

LEMMA ClaimFeesInv ==
    ASSUME CustodyInv, NEW actor \in Keys, NEW p \in Owners, NEW m \in Markets, NEW a \in Assets,
           NEW n \in ClaimAmounts, ClaimFees(actor, p, m, a, n),
           UNCHANGED <<configVars, marketVars>>
    PROVE  CustodyInv'
<1>1. a \in ClaimAssets /\ n \in Nat
  BY ClaimAmountsNat DEF ClaimFees
<1>2. balance[<<m, p, a>>] \in U64 /\ fees[<<m, a>>] \in U64 /\ credits[<<m, a>>] \in Nat
  BY <1>1 DEF CustodyInv, CustodyType
<1>3. /\ balance[<<m, p, a>>] + n \in U64 /\ fees[<<m, a>>] - n \in U64
      /\ credits[<<m, a>>] + n \in Nat
  BY <1>1, <1>2, PoolConstants DEF ClaimFees, U64
<1>4. /\ balance' \in [Markets \X Owners \X ClaimAssets -> U64]
      /\ fees' \in [Markets \X ClaimAssets -> U64]
      /\ credits' \in [Markets \X ClaimAssets -> Nat]
  BY <1>1, <1>3 DEF CustodyInv, CustodyType, ClaimFees
<1>5. CustodyType'
  BY <1>4 DEF CustodyInv, CustodyType, ClaimFees
<1>6. ClaimCustody'
  <2> SUFFICES ASSUME NEW q \in Markets, NEW b \in ClaimAssets
               PROVE  /\ vault'[<<q, b>>] >= (ClaimLiability(q, b))'
                      /\ supply'[<<q, b>>] >= vault'[<<q, b>>]
    BY DEF ClaimCustody
  <2>1. vault[<<q, b>>] >= ClaimLiability(q, b) /\ supply[<<q, b>>] >= vault[<<q, b>>]
    BY DEF CustodyInv, ClaimCustody
  <2>2. CustodyType
    BY DEF CustodyInv
  <2>3. /\ credits[<<q, b>>] \in Int /\ fees[<<q, b>>] \in Int /\ escrow[<<q, b>>] \in Int
    BY <2>2, CustodyInts
  <2>4. \/ credits'[<<q, b>>] = credits[<<q, b>>] /\ fees'[<<q, b>>] = fees[<<q, b>>]
        \/ credits'[<<q, b>>] = credits[<<q, b>>] + n /\ fees'[<<q, b>>] = fees[<<q, b>>] - n
    BY <1>1, <2>2 DEF CustodyType, ClaimFees
  <2>5. (ClaimLiability(q, b))' = ClaimLiability(q, b)
    BY <1>1, <2>3, <2>4 DEF ClaimLiability, ClaimFees
  <2>6. QED
    BY <2>1, <2>5 DEF ClaimFees
<1>7. QED
  BY <1>5, <1>6, ClaimsInv DEF ClaimFees

(* A deposit (amount > 0) or withdrawal (amount < 0) of claims that found  *)
(* the vault to cover the liability is never rolled back.                  *)
LEMMA ClaimTransferInv ==
    ASSUME CustodyInv, NEW o \in Owners, NEW m \in Markets, NEW a \in ClaimAssets,
           NEW n \in Int,
           balance[<<m, o, a>>] + n \in U64, credits[<<m, a>>] + n \in Nat,
           vault[<<m, a>>] + n \in U64, vault[<<m, a>>] + n <= supply[<<m, a>>],
           CloseClaimTransfer(m, a, vault[<<m, a>>] + n, ClaimLiability(m, a) + n, o, n),
           UNCHANGED <<configVars, marketVars>>
    PROVE  CustodyInv'
<1>1. CustodyType
  BY DEF CustodyInv
<1>2. vault[<<m, a>>] \in Int /\ ClaimLiability(m, a) \in Int
        /\ vault[<<m, a>>] >= ClaimLiability(m, a)
  BY <1>1, CustodyInts DEF CustodyInv, ClaimCustody
<1>3. vault[<<m, a>>] + n >= ClaimLiability(m, a) + n
  BY <1>2
<1>4. /\ vault' = [vault EXCEPT ![<<m, a>>] = vault[<<m, a>>] + n]
      /\ balance' = [balance EXCEPT ![<<m, o, a>>] = @ + n]
      /\ credits' = [credits EXCEPT ![<<m, a>>] = @ + n]
      /\ UNCHANGED <<wallets, escrow, backing, fees, supply, burned, poolVars>>
  BY <1>3 DEF CloseClaimTransfer
<1>5. /\ vault' \in [Markets \X ClaimAssets -> U64]
      /\ balance' \in [Markets \X Owners \X ClaimAssets -> U64]
      /\ credits' \in [Markets \X ClaimAssets -> Nat]
  BY <1>1, <1>4 DEF CustodyType
<1>6. CustodyType'
  BY <1>1, <1>4, <1>5 DEF CustodyType
<1>7. ClaimCustody'
  <2> SUFFICES ASSUME NEW q \in Markets, NEW b \in ClaimAssets
               PROVE  /\ vault'[<<q, b>>] >= (ClaimLiability(q, b))'
                      /\ supply'[<<q, b>>] >= vault'[<<q, b>>]
    BY DEF ClaimCustody
  <2>1. vault[<<q, b>>] >= ClaimLiability(q, b) /\ supply[<<q, b>>] >= vault[<<q, b>>]
    BY DEF CustodyInv, ClaimCustody
  <2>2. /\ credits[<<q, b>>] \in Int /\ fees[<<q, b>>] \in Int /\ escrow[<<q, b>>] \in Int
        /\ vault[<<q, b>>] \in Int /\ supply[<<q, b>>] \in Int
    BY <1>1, CustodyInts
  <2>3. CASE <<q, b>> = <<m, a>>
    <3>1. vault'[<<q, b>>] = vault[<<q, b>>] + n /\ credits'[<<q, b>>] = credits[<<q, b>>] + n
      BY <1>1, <1>4, <2>3 DEF CustodyType
    <3>2. (ClaimLiability(q, b))' = ClaimLiability(q, b) + n
      BY <1>4, <2>2, <3>1 DEF ClaimLiability
    <3>3. ClaimLiability(q, b) \in Int /\ vault[<<q, b>>] + n <= supply[<<q, b>>]
      BY <1>2, <2>3
    <3>4. QED
      BY <1>4, <2>1, <2>2, <3>1, <3>2, <3>3
  <2>4. CASE <<q, b>> # <<m, a>>
    <3>1. vault'[<<q, b>>] = vault[<<q, b>>] /\ credits'[<<q, b>>] = credits[<<q, b>>]
      BY <1>1, <1>4, <2>4 DEF CustodyType
    <3>2. (ClaimLiability(q, b))' = ClaimLiability(q, b)
      BY <1>4, <3>1 DEF ClaimLiability
    <3>3. QED
      BY <1>4, <2>1, <3>1, <3>2
  <2>5. QED
    BY <2>3, <2>4
<1>8. QED
  BY <1>4, <1>6, <1>7, ClaimsInv

LEMMA DepositClaimInv ==
    ASSUME CustodyInv, NEW o \in Owners, NEW m \in Markets, NEW a \in Assets,
           NEW n \in ClaimAmounts, DepositClaim(o, m, a, n),
           UNCHANGED <<configVars, marketVars>>
    PROVE  CustodyInv'
<1>1. a \in ClaimAssets /\ n \in Nat
  BY ClaimAmountsNat DEF DepositClaim
<1>2. /\ balance[<<m, o, a>>] \in U64 /\ vault[<<m, a>>] \in U64 /\ supply[<<m, a>>] \in U64
      /\ credits[<<m, a>>] \in Nat
  BY <1>1 DEF CustodyInv, CustodyType
<1>3. /\ balance[<<m, o, a>>] + n \in U64 /\ vault[<<m, a>>] + n <= supply[<<m, a>>]
  BY <1>1, <1>2, PoolConstants DEF DepositClaim, External, U64
<1>4. vault[<<m, a>>] + n \in U64 /\ credits[<<m, a>>] + n \in Nat
  BY <1>1, <1>2, <1>3, PoolConstants DEF U64
<1>5. CloseClaimTransfer(m, a, vault[<<m, a>>] + n, ClaimLiability(m, a) + n, o, n)
  BY DEF DepositClaim
<1>6. QED
  BY <1>1, <1>3, <1>4, <1>5, ClaimTransferInv

LEMMA WithdrawClaimInv ==
    ASSUME CustodyInv, NEW o \in Owners, NEW m \in Markets, NEW a \in Assets,
           NEW n \in ClaimAmounts, WithdrawClaim(o, m, a, n),
           UNCHANGED <<configVars, marketVars>>
    PROVE  CustodyInv'
<1> DEFINE k == -n
<1>1. a \in ClaimAssets /\ n \in Nat
  BY ClaimAmountsNat DEF WithdrawClaim
<1>2. /\ balance[<<m, o, a>>] \in U64 /\ vault[<<m, a>>] \in U64 /\ supply[<<m, a>>] \in U64
      /\ credits[<<m, a>>] \in Nat
  BY <1>1 DEF CustodyInv, CustodyType
<1>3. vault[<<m, a>>] <= supply[<<m, a>>]
  BY <1>1, <1>2, U64Int DEF CustodyInv, ClaimCustody
<1>4. /\ balance[<<m, o, a>>] + k \in U64 /\ credits[<<m, a>>] + k \in Nat
      /\ vault[<<m, a>>] + k \in U64 /\ vault[<<m, a>>] + k <= supply[<<m, a>>]
  BY <1>1, <1>2, <1>3, PoolConstants DEF WithdrawClaim, U64
<1>5. ClaimLiability(m, a) \in Int
  BY <1>1, CustodyInts DEF CustodyInv
<1>6. CloseClaimTransfer(m, a, vault[<<m, a>>] - n, ClaimLiability(m, a) - n, o, k)
  BY DEF WithdrawClaim
<1>7. vault[<<m, a>>] - n = vault[<<m, a>>] + k /\ ClaimLiability(m, a) - n = ClaimLiability(m, a) + k
  BY <1>1, <1>2, <1>5, U64Int
<1>8. k \in Int
  BY <1>1
<1> HIDE DEF k
<1>9. QED
  BY <1>1, <1>4, <1>6, <1>7, <1>8, ClaimTransferInv

LEMMA DonateClaimInv ==
    ASSUME CustodyInv, NEW m \in Markets, NEW a \in Assets, NEW n \in ClaimAmounts,
           DonateClaim(m, a, n), UNCHANGED <<configVars, marketVars>>
    PROVE  CustodyInv'
<1>1. a \in ClaimAssets /\ n \in Nat /\ CustodyType
  BY ClaimAmountsNat DEF DonateClaim, CustodyInv
<1>2. vault[<<m, a>>] \in U64 /\ supply[<<m, a>>] \in U64
  BY <1>1 DEF CustodyType
<1>3. vault[<<m, a>>] + n <= supply[<<m, a>>] /\ vault[<<m, a>>] + n \in U64
  BY <1>1, <1>2, PoolConstants DEF DonateClaim, External, U64
<1>4. CustodyType'
  BY <1>1, <1>3 DEF CustodyType, DonateClaim
<1>5. ClaimCustody'
  <2> SUFFICES ASSUME NEW q \in Markets, NEW b \in ClaimAssets
               PROVE  /\ vault'[<<q, b>>] >= (ClaimLiability(q, b))'
                      /\ supply'[<<q, b>>] >= vault'[<<q, b>>]
    BY DEF ClaimCustody
  <2>1. vault[<<q, b>>] >= ClaimLiability(q, b) /\ supply[<<q, b>>] >= vault[<<q, b>>]
    BY DEF CustodyInv, ClaimCustody
  <2>2. vault[<<q, b>>] \in Int /\ ClaimLiability(q, b) \in Int
    BY <1>1, CustodyInts
  <2>3. vault'[<<q, b>>] = IF <<q, b>> = <<m, a>> THEN vault[<<q, b>>] + n ELSE vault[<<q, b>>]
    BY <1>1 DEF CustodyType, DonateClaim
  <2>4. (ClaimLiability(q, b))' = ClaimLiability(q, b) /\ supply' = supply
    BY DEF ClaimLiability, DonateClaim
  <2>5. CASE <<q, b>> = <<m, a>>
    BY <1>1, <1>3, <2>1, <2>2, <2>3, <2>4, <2>5
  <2>6. CASE <<q, b>> # <<m, a>>
    BY <2>1, <2>3, <2>4, <2>6
  <2>7. QED
    BY <2>5, <2>6
<1>6. QED
  BY <1>4, <1>5, ClaimsInv DEF DonateClaim

(* Burning outside lowers what is owed and leaves the backing in place. *)
LEMMA BurnOutsideInv ==
    ASSUME CustodyInv, NEW m \in Markets, NEW a \in Assets, NEW n \in ClaimAmounts,
           BurnOutside(m, a, n), UNCHANGED <<configVars, marketVars>>
    PROVE  CustodyInv'
<1>1. a \in ClaimAssets /\ n \in Nat /\ CustodyType
  BY ClaimAmountsNat DEF BurnOutside, CustodyInv
<1>2. vault[<<m, a>>] \in U64 /\ supply[<<m, a>>] \in U64
  BY <1>1 DEF CustodyType
<1>3. supply[<<m, a>>] - n >= vault[<<m, a>>] /\ supply[<<m, a>>] - n \in U64
  BY <1>1, <1>2, PoolConstants DEF BurnOutside, External, U64
<1>4. CustodyType'
  BY <1>1, <1>3 DEF CustodyType, BurnOutside
<1>5. \A q \in Markets, b \in ClaimAssets :
        supply'[<<q, b>>] = IF <<q, b>> = <<m, a>> THEN supply[<<q, b>>] - n ELSE supply[<<q, b>>]
  BY <1>1 DEF CustodyType, BurnOutside
<1>6. ClaimCustody'
  <2> SUFFICES ASSUME NEW q \in Markets, NEW b \in ClaimAssets
               PROVE  /\ vault'[<<q, b>>] >= (ClaimLiability(q, b))'
                      /\ supply'[<<q, b>>] >= vault'[<<q, b>>]
    BY DEF ClaimCustody
  <2>1. vault[<<q, b>>] >= ClaimLiability(q, b) /\ supply[<<q, b>>] >= vault[<<q, b>>]
    BY DEF CustodyInv, ClaimCustody
  <2>2. (ClaimLiability(q, b))' = ClaimLiability(q, b) /\ vault' = vault
    BY DEF ClaimLiability, BurnOutside
  <2>3. CASE <<q, b>> = <<m, a>>
    BY <1>1, <1>3, <1>5, <2>1, <2>2, <2>3
  <2>4. CASE <<q, b>> # <<m, a>>
    BY <1>5, <2>1, <2>2, <2>4
  <2>5. QED
    BY <2>3, <2>4
<1>7. ClaimsBacked'
  <2> SUFFICES ASSUME NEW q \in Markets, NEW e \in Collaterals
               PROVE  backing'[<<q, e>>] >= ClaimBacking(supply'[<<q, Claim(e, 0)>>],
                                                         supply'[<<q, Claim(e, 1)>>],
                                                         market'[q].payouts)
    BY DEF ClaimsBacked
  <2> DEFINE y == supply[<<q, Claim(e, 0)>>]
             x == supply[<<q, Claim(e, 1)>>]
             v == supply'[<<q, Claim(e, 0)>>]
             u == supply'[<<q, Claim(e, 1)>>]
             p == market[q].payouts
  <2>1. Claim(e, 0) \in ClaimAssets /\ Claim(e, 1) \in ClaimAssets
    BY ClaimFacts
  <2>2. y \in Int /\ x \in Int /\ backing[<<q, e>>] >= ClaimBacking(y, x, p)
          /\ backing[<<q, e>>] \in Int /\ ClaimBacking(y, x, p) \in Int
    BY ClaimValues
  <2>3. v \in Int /\ v <= y
    BY <1>1, <1>5, <2>1, <2>2
  <2>4. u \in Int /\ u <= x
    BY <1>1, <1>5, <2>1, <2>2
  <2>5. p \in PayoutPairs
    BY PayoutsType
  <2>6. backing' = backing /\ market' = market
    BY DEF BurnOutside, marketVars
  <2>7. ClaimBacking(v, u, p) <= ClaimBacking(y, x, p) /\ ClaimBacking(v, u, p) \in Int
    <3> HIDE DEF y, x, v, u, p
    <3>1. QED
      BY <2>2, <2>3, <2>4, <2>5, BackingMonotone, BackingType
  <2>8. backing[<<q, e>>] >= ClaimBacking(v, u, p)
    <3> HIDE DEF y, x, v, u, p
    <3>1. QED
      BY <2>2, <2>7
  <2>9. QED
    BY <2>6, <2>8
<1>8. PoolType' /\ SelfChecksSilent'
  BY DEF CustodyInv, ListingInv, PoolType, poolVars, SelfChecksSilent, BurnOutside
<1>9. ListingInv'
  BY <1>8, ListingInvKept DEF CustodyInv
<1>10. QED
  BY <1>4, <1>6, <1>7, <1>8, <1>9 DEF CustodyInv

LEMMA PositionInv ==
    ASSUME CustodyInv, PositionNext, UNCHANGED <<configVars, marketVars>>
    PROVE  CustodyInv'
<1>1. ASSUME NEW o \in Owners, NEW m \in Markets, NEW c \in Collaterals,
             NEW yes \in ClaimAmounts \cup {0}, NEW no \in ClaimAmounts \cup {0},
             Redeem(o, m, c, yes, no)
      PROVE  CustodyInv'
  <2>1. yes \in Nat /\ no \in Nat
    BY ClaimAmountsNat
  <2>2. QED
    BY <1>1, <2>1, RedeemInv
<1>2. QED
  BY <1>1, SplitMergeInv, InitializeWalletInv, DepositClaimInv, WithdrawClaimInv,
     TransferCreditInv, ClaimFeesInv, BurnOutsideInv, DonateClaimInv DEF PositionNext

----------------------------------------------------------------------------
(* The steps that touch no position: among them the resolution, which      *)
(* replaces the rule for what the claims are owed.                         *)
LEMMA ListingKeepsCustody ==
    ASSUME CustodyInv, [ListingNext]_ListingVars, UNCHANGED custodyVars
    PROVE  CustodyInv'
<1>1. ListingInv'
  BY ListingInvStep DEF CustodyInv
<1>2. CustodyType' /\ ClaimCustody'
  BY DEF CustodyInv, CustodyType, ClaimCustody, ClaimLiability, custodyVars
<1>3. SelfChecksSilent'
  <2>1. CASE PoolNext
    BY <2>1, PoolSilentStep DEF CustodyInv, ListingInv, SelfChecksSilent
  <2>2. CASE UNCHANGED poolVars
    BY <2>2 DEF CustodyInv, SelfChecksSilent, poolVars
  <2>3. QED
    BY <2>1, <2>2 DEF ListingNext, ListingVars
<1>4. ClaimsBacked'
  <2> SUFFICES ASSUME NEW n \in Markets, NEW e \in Collaterals
               PROVE  backing'[<<n, e>>] >= ClaimBacking(supply'[<<n, Claim(e, 0)>>],
                                                         supply'[<<n, Claim(e, 1)>>],
                                                         market'[n].payouts)
    BY DEF ClaimsBacked
  <2> DEFINE y == supply[<<n, Claim(e, 0)>>]
             x == supply[<<n, Claim(e, 1)>>]
             q == market'[n].payouts
  <2>1. /\ y \in Int /\ x \in Int /\ backing[<<n, e>>] \in Int
        /\ backing[<<n, e>>] >= ClaimBacking(y, x, market[n].payouts)
        /\ ClaimBacking(y, x, market[n].payouts) \in Int
    BY ClaimValues
  <2>2. supply' = supply /\ backing' = backing
    BY DEF custodyVars
  <2>3. q \in PayoutPairs
    <3>1. market' \in [Markets -> MarketState]
      BY <1>1 DEF ListingInv, MarketInv, MarketType
    <3>2. QED
      BY <3>1 DEF MarketState, PayoutPairs
  <2>4. CASE q = market[n].payouts
    BY <2>1, <2>2, <2>4
  <2>5. CASE q # market[n].payouts
    <3>1. market[n].payouts = NoPayouts
      BY <2>5, ListingMoves DEF CustodyInv, Committed
    <3>2. q \in Outcomes
      BY <2>3, <2>5, <3>1 DEF PayoutPairs
    <3>3. ClaimBacking(y, x, q) <= ClaimBacking(y, x, NoPayouts) /\ ClaimBacking(y, x, q) \in Int
      <4> HIDE DEF y, x, q
      <4>1. QED
        BY <2>1, <2>3, <3>2, BackingOfOutcome, BackingType
    <3>4. backing[<<n, e>>] >= ClaimBacking(y, x, q)
      <4> HIDE DEF y, x, q
      <4>1. QED
        BY <2>1, <3>1, <3>3
    <3>5. QED
      BY <2>2, <3>4
  <2>6. QED
    BY <2>4, <2>5
<1>5. QED
  BY <1>1, <1>2, <1>3, <1>4 DEF CustodyInv

LEMMA CustodyInvInit == Init => CustodyInv
<1> SUFFICES ASSUME Init PROVE CustodyInv
  OBVIOUS
<1>1. ListingInv
  BY ListingInvInit DEF Init
<1>2. 0 \in U64 /\ 0 \in Nat
  BY PoolConstants, U64Range
<1>3. CustodyType
  BY <1>2 DEF Init, CustodyInit, CustodyType
<1>4. \A m \in Markets, a \in ClaimAssets :
        ClaimLiability(m, a) = 0 /\ vault[<<m, a>>] = 0 /\ supply[<<m, a>>] = 0
  BY DEF Init, CustodyInit, ClaimLiability, ClaimAssets
<1>5. ClaimCustody
  <2>1. \A m \in Markets, a \in ClaimAssets :
          vault[<<m, a>>] >= ClaimLiability(m, a) /\ supply[<<m, a>>] >= vault[<<m, a>>]
    BY <1>4, 0 >= 0
  <2>2. QED
    BY <2>1 DEF ClaimCustody
<1>6. ClaimsBacked
  <2> SUFFICES ASSUME NEW m \in Markets, NEW c \in Collaterals
               PROVE  backing[<<m, c>>] >= ClaimBacking(supply[<<m, Claim(c, 0)>>],
                                                        supply[<<m, Claim(c, 1)>>],
                                                        market[m].payouts)
    BY DEF ClaimsBacked
  <2>1. backing[<<m, c>>] = 0 /\ market[m].payouts = <<0, 0>>
    BY DEF Init, CustodyInit, ListingInit, MarketInit, NoPayouts
  <2>2. supply[<<m, Claim(c, 0)>>] = 0 /\ supply[<<m, Claim(c, 1)>>] = 0
    BY <1>4, ClaimFacts
  <2>3. QED
    BY <2>1, <2>2 DEF ClaimBacking
<1>7. SelfChecksSilent
  BY DEF Init, ListingInit, PoolInit, SelfChecksSilent
<1>8. QED
  BY <1>1, <1>3, <1>5, <1>6, <1>7 DEF CustodyInv

LEMMA CustodyInvStep == CustodyInv /\ [Next]_vars => CustodyInv'
<1> SUFFICES ASSUME CustodyInv, [Next]_vars PROVE CustodyInv'
  OBVIOUS
<1>1. CASE ListingNext /\ UNCHANGED custodyVars
  BY <1>1, ListingKeepsCustody
<1>2. CASE PositionNext /\ UNCHANGED <<configVars, marketVars>>
  BY <1>2, PositionInv
<1>3. CASE UNCHANGED vars
  BY <1>3, ListingKeepsCustody DEF vars, ListingVars
<1>4. QED
  BY <1>1, <1>2, <1>3 DEF Next

(* Every ledger of the claims keeps its type and its width. *)
THEOREM CustodyTypeCorrect == Spec => []CustodyType
<1>1. CustodyInv => CustodyType
  BY DEF CustodyInv
<1>2. QED
  BY <1>1, CustodyInvInit, CustodyInvStep, PTL DEF Spec

(* For any number of markets, owners and legs, every outstanding claim is  *)
(* paid for by the backing of its collateral, before and after the         *)
(* resolution and whatever was burned outside (check_collateral).          *)
THEOREM ClaimsAreBacked == Spec => []ClaimsBacked
<1>1. CustodyInv => ClaimsBacked
  BY DEF CustodyInv
<1>2. QED
  BY <1>1, CustodyInvInit, CustodyInvStep, PTL DEF Spec

(* The claim vaults hold every claim that the market owes (solvent).       *)
THEOREM ClaimsInCustody == Spec => []ClaimCustody
<1>1. CustodyInv => ClaimCustody
  BY DEF CustodyInv
<1>2. QED
  BY <1>1, CustodyInvInit, CustodyInvStep, PTL DEF Spec

(* No deposit, withdrawal or position handler is ever rolled back by its   *)
(* own closing check: what those checks catch cannot happen (verify,       *)
(* conserved, solvent).                                                    *)
THEOREM ClosingChecksSilent == Spec => []SelfChecksSilent
<1>1. CustodyInv => SelfChecksSilent
  BY DEF CustodyInv
<1>2. QED
  BY <1>1, CustodyInvInit, CustodyInvStep, PTL DEF Spec

----------------------------------------------------------------------------
(* Sums over a finite domain.                                              *)

LEMMA ColumnFinite ==
    ASSUME NEW x, NEW n \in Nat
    PROVE  IsFiniteSet({x} \X (1 .. n)) /\ Cardinality({x} \X (1 .. n)) = n
<1> DEFINE one == {x}
           units == 1 .. n
<1>1. IsFiniteSet(one) /\ Cardinality(one) = 1
  BY FS_Singleton
<1>2. IsFiniteSet(units) /\ Cardinality(units) = n
  BY FS_Interval
<1> HIDE DEF one, units
<1>3. IsFiniteSet(one \X units) /\ Cardinality(one \X units) = 1 * n
  <2>1. Cardinality(one \X units) = Cardinality(one) * Cardinality(units)
    BY <1>1, <1>2, FS_Product
  <2>2. IsFiniteSet(one \X units)
    BY <1>1, <1>2, FS_Product
  <2>3. QED
    BY <1>1, <1>2, <2>1, <2>2
<1>4. 1 * n = n
  OBVIOUS
<1>5. QED
  BY <1>3, <1>4 DEF one, units

LEMMA UnitsFinite ==
    ASSUME NEW S, IsFiniteSet(S), NEW f \in [S -> Nat]
    PROVE  IsFiniteSet(Units(f))
<1> DEFINE columns == {{x} \X (1 .. f[x]) : x \in S}
           column == [x \in S |-> {x} \X (1 .. f[x])]
<1>1. column \in Surjection(S, columns)
  BY DEF Surjection
<1>2. IsFiniteSet(columns)
  <2> HIDE DEF columns, column
  <2>1. QED
    BY <1>1, FS_Surjection
<1>3. \A T \in columns : IsFiniteSet(T)
  <2> SUFFICES ASSUME NEW x \in S PROVE IsFiniteSet({x} \X (1 .. f[x]))
    OBVIOUS
  <2>1. QED
    BY ColumnFinite
<1>4. IsFiniteSet(UNION columns)
  <2> HIDE DEF columns
  <2>1. QED
    BY <1>2, <1>3, FS_UNION
<1>5. Units(f) = UNION columns
  BY DEF Units
<1>6. QED
  BY <1>4, <1>5

LEMMA SumType ==
    ASSUME NEW S, IsFiniteSet(S), NEW f \in [S -> Nat]
    PROVE  Sum(f) \in Nat
BY UnitsFinite, FS_CardinalityType DEF Sum

LEMMA SumZero ==
    ASSUME NEW f, \A x \in DOMAIN f : f[x] = 0
    PROVE  Sum(f) = 0
<1>1. Units(f) = {}
  BY DEF Units
<1>2. QED
  BY <1>1, FS_EmptySet DEF Sum

(* The units of the rest of the domain and those at x are disjoint. *)
LEMMA SumAt ==
    ASSUME NEW S, IsFiniteSet(S), NEW f \in [S -> Nat], NEW x \in S
    PROVE  Sum(f) = Sum([y \in S \ {x} |-> f[y]]) + f[x]
<1> DEFINE rest == [y \in S \ {x} |-> f[y]]
           others == Units(rest)
           mine == {x} \X (1 .. f[x])
<1>1. rest \in [S \ {x} -> Nat] /\ IsFiniteSet(S \ {x})
  BY FS_RemoveElement
<1>2. IsFiniteSet(others)
  BY <1>1, UnitsFinite
<1>3. IsFiniteSet(mine) /\ Cardinality(mine) = f[x]
  BY ColumnFinite
<1>4. others \cap mine = {}
  BY DEF Units
<1>5. Units(f) = others \cup mine
  BY DEF Units
<1>6. Cardinality(others \cap mine) = 0
  BY <1>4, FS_EmptySet
<1>7. Cardinality(others) \in Nat
  BY <1>2, FS_CardinalityType
<1> HIDE DEF others, mine
<1>8. Cardinality(others \cup mine) = Cardinality(others) + Cardinality(mine) - 0
  BY <1>2, <1>3, <1>6, FS_Union
<1>9. QED
  BY <1>3, <1>5, <1>7, <1>8 DEF Sum, others

(* Functions that differ at one point have sums that differ as much. *)
LEMMA SumMoved ==
    ASSUME NEW S, IsFiniteSet(S), NEW f \in [S -> Nat], NEW g \in [S -> Nat], NEW x \in S,
           \A y \in S \ {x} : g[y] = f[y]
    PROVE  Sum(g) = Sum(f) - f[x] + g[x]
<1> DEFINE rest == [y \in S \ {x} |-> f[y]]
<1>1. [y \in S \ {x} |-> g[y]] = rest
  OBVIOUS
<1>2. Sum(rest) \in Nat
  <2>1. rest \in [S \ {x} -> Nat] /\ IsFiniteSet(S \ {x})
    BY FS_RemoveElement
  <2> HIDE DEF rest
  <2>2. QED
    BY <2>1, SumType
<1>3. Sum(f) = Sum(rest) + f[x]
  BY SumAt
<1>4. Sum(g) = Sum(rest) + g[x]
  <2>1. Sum(g) = Sum([y \in S \ {x} |-> g[y]]) + g[x]
    BY SumAt
  <2>2. QED
    BY <1>1, <2>1
<1>5. f[x] \in Nat /\ g[x] \in Nat
  OBVIOUS
<1> HIDE DEF rest
<1>6. QED
  BY <1>2, <1>3, <1>4, <1>5

----------------------------------------------------------------------------
(* The entries of the ledgers, and what one change of one entry does.      *)

LEMMA U64Nat == U64 \subseteq Nat
BY PoolConstants DEF U64

LEMMA CollateralsFinite == IsFiniteSet(Markets \X Collaterals)
<1>1. IsFiniteSet(Collaterals)
  BY MarketConstants, FS_Interval DEF Collaterals
<1>2. QED
  BY <1>1, MarketConstants, FS_Product

LEMMA CreditOfType ==
    ASSUME PoolType, NEW k \in Mints
    PROVE  CreditOf(k) \in [Owners -> Nat] /\ IsFiniteSet(Owners)
BY U64Nat, PoolConstants DEF PoolType, CreditOf

LEMMA HeldOfType ==
    ASSUME CustodyType, NEW k
    PROVE  HeldOf(k) \in [Markets \X Collaterals -> Nat] /\ IsFiniteSet(Markets \X Collaterals)
<1>1. \A m \in Markets, c \in Collaterals :
        escrow[<<m, Underlying(c)>>] \in Nat /\ backing[<<m, c>>] \in Nat
  BY CustodyValues, U64Nat
<1>2. \A m \in Markets, c \in Collaterals :
        escrow[<<m, Underlying(c)>>] + backing[<<m, c>>] \in Nat
  <2> TAKE m \in Markets, c \in Collaterals
  <2>1. escrow[<<m, Underlying(c)>>] \in Nat /\ backing[<<m, c>>] \in Nat
    BY <1>1
  <2>2. QED
    BY <2>1
<1>3. QED
  BY <1>2, CollateralsFinite DEF HeldOf

LEMMA BalancesOfType ==
    ASSUME CustodyType, NEW m \in Markets, NEW a \in ClaimAssets
    PROVE  BalancesOf(m, a) \in [Owners -> Nat] /\ IsFiniteSet(Owners)
BY U64Nat, PoolConstants DEF CustodyType, BalancesOf

(* When only one owner's credit of a mint changes, the sum changes as much. *)
LEMMA CreditOfMoved ==
    ASSUME PoolType, PoolType', NEW k \in Mints, NEW o \in Owners,
           \A p \in Owners \ {o} : available'[<<k, p>>] = available[<<k, p>>]
    PROVE  (Sum(CreditOf(k)))'
             = Sum(CreditOf(k)) - available[<<k, o>>] + available'[<<k, o>>]
<1> DEFINE f == CreditOf(k)
           g == CreditOf(k)'
<1>1. /\ f \in [Owners -> Nat] /\ g \in [Owners -> Nat] /\ IsFiniteSet(Owners)
      /\ f[o] = available[<<k, o>>] /\ g[o] = available'[<<k, o>>]
      /\ \A p \in Owners \ {o} : g[p] = f[p]
  BY PoolConstants, U64Nat DEF CreditOf, PoolType
<1>2. (Sum(CreditOf(k)))' = Sum(g)
  BY DEF Sum, Units
<1> HIDE DEF f, g
<1>3. Sum(g) = Sum(f) - f[o] + g[o]
  BY <1>1, SumMoved
<1>4. QED
  BY <1>1, <1>2, <1>3 DEF f

(* When only one leg's holding changes, its mint's holdings change as much, *)
(* and no other mint's.                                                     *)
LEMMA HeldOfMoved ==
    ASSUME CustodyType, CustodyType', NEW m \in Markets, NEW c \in Collaterals,
           \A x \in Markets \X Collaterals : x # <<m, c>> => backing'[x] = backing[x],
           UNCHANGED <<escrow, legs>>, NEW k
    PROVE  (Sum(HeldOf(k)))' = IF k = MintOf(m, c)
                               THEN Sum(HeldOf(k)) - backing[<<m, c>>] + backing'[<<m, c>>]
                               ELSE Sum(HeldOf(k))
<1> DEFINE f == HeldOf(k)
           g == HeldOf(k)'
           e == escrow[<<m, Underlying(c)>>]
           v == backing[<<m, c>>]
           w == backing'[<<m, c>>]
<1>1. f \in [Markets \X Collaterals -> Nat] /\ g \in [Markets \X Collaterals -> Nat]
        /\ IsFiniteSet(Markets \X Collaterals)
  <2>1. /\ \A n \in Markets, d \in Collaterals :
             escrow[<<n, Underlying(d)>>] \in Nat /\ backing'[<<n, d>>] \in Nat
      BY CustodyValues, U64Nat DEF CustodyType
  <2>2. g = [x \in Markets \X Collaterals |->
               IF MintOf(x[1], x[2]) = k
               THEN escrow[<<x[1], Underlying(x[2])>>] + backing'[<<x[1], x[2]>>] ELSE 0]
    BY DEF HeldOf, MintOf
  <2>3. g \in [Markets \X Collaterals -> Nat]
    <3>1. \A n \in Markets, d \in Collaterals :
            escrow[<<n, Underlying(d)>>] + backing'[<<n, d>>] \in Nat
      <4> TAKE n \in Markets, d \in Collaterals
      <4>1. escrow[<<n, Underlying(d)>>] \in Nat /\ backing'[<<n, d>>] \in Nat
        BY <2>1
      <4>2. QED
        BY <4>1
    <3> HIDE DEF g
    <3>2. QED
      BY <2>2, <3>1
  <2>4. QED
    BY <2>3, HeldOfType
<1>2. e \in Nat /\ v \in Nat /\ w \in Nat
  BY CustodyValues, U64Nat DEF CustodyType
<1>3. (Sum(HeldOf(k)))' = Sum(g)
  BY DEF Sum, Units
<1>4. \A x \in (Markets \X Collaterals) \ {<<m, c>>} : g[x] = f[x]
  BY DEF HeldOf, MintOf
<1>5. /\ k = MintOf(m, c) => f[<<m, c>>] = e + v /\ g[<<m, c>>] = e + w
      /\ k # MintOf(m, c) => f[<<m, c>>] = 0 /\ g[<<m, c>>] = 0
  BY DEF HeldOf, MintOf
<1>6. Sum(f) \in Nat
  BY HeldOfType, SumType
<1> HIDE DEF f, g, e, v, w
<1>7. Sum(g) = Sum(f) - f[<<m, c>>] + g[<<m, c>>]
  BY <1>1, <1>4, SumMoved
<1>8. Sum(g) = IF k = MintOf(m, c) THEN Sum(f) - v + w ELSE Sum(f)
  BY <1>2, <1>5, <1>6, <1>7
<1>9. QED
  BY <1>3, <1>8 DEF f, v, w

(* When only one owner's balance of a claim asset changes, the sum changes *)
(* as much.                                                                *)
LEMMA BalancesOfMoved ==
    ASSUME CustodyType, CustodyType', NEW m \in Markets, NEW a \in ClaimAssets, NEW o \in Owners,
           \A p \in Owners \ {o} : balance'[<<m, p, a>>] = balance[<<m, p, a>>]
    PROVE  (Sum(BalancesOf(m, a)))'
             = Sum(BalancesOf(m, a)) - balance[<<m, o, a>>] + balance'[<<m, o, a>>]
<1> DEFINE f == BalancesOf(m, a)
           g == BalancesOf(m, a)'
<1>1. /\ f \in [Owners -> Nat] /\ g \in [Owners -> Nat] /\ IsFiniteSet(Owners)
      /\ f[o] = balance[<<m, o, a>>] /\ g[o] = balance'[<<m, o, a>>]
      /\ \A p \in Owners \ {o} : g[p] = f[p]
  BY PoolConstants, U64Nat DEF BalancesOf, CustodyType
<1>2. (Sum(BalancesOf(m, a)))' = Sum(g)
  BY DEF Sum, Units
<1> HIDE DEF f, g
<1>3. Sum(g) = Sum(f) - f[o] + g[o]
  BY <1>1, SumMoved
<1>4. QED
  BY <1>1, <1>2, <1>3 DEF f

LEMMA LedgerSumsType ==
    ASSUME PoolType, CustodyType
    PROVE  /\ \A k \in Mints : Sum(CreditOf(k)) \in Nat
           /\ \A k : Sum(HeldOf(k)) \in Nat
           /\ \A m \in Markets, a \in ClaimAssets : Sum(BalancesOf(m, a)) \in Nat
BY CreditOfType, HeldOfType, BalancesOfType, SumType

----------------------------------------------------------------------------
(* What the backing of a leg is worth.                                     *)

(* yes and no claims are worth exactly back. *)
Worth(yes, no, back, payouts) ==
    IF payouts = NoPayouts
    THEN yes = back /\ no = back
    ELSE Weighted(yes, no, payouts) = Payout(payouts) * back

LEMMA WorthCases ==
    ASSUME NEW yes \in Int, NEW no \in Int, NEW back \in Int, NEW payouts \in PayoutPairs
    PROVE  /\ payouts = <<0, 0>> => (Worth(yes, no, back, payouts) <=> yes = back /\ no = back)
           /\ payouts = <<1, 0>> => (Worth(yes, no, back, payouts) <=> yes = back)
           /\ payouts = <<0, 1>> => (Worth(yes, no, back, payouts) <=> no = back)
           /\ payouts = <<1, 1>> => (Worth(yes, no, back, payouts) <=> yes + no = 2 * back)
<1>1. CASE payouts = <<0, 0>>
  BY <1>1 DEF Worth, NoPayouts
<1>2. CASE payouts = <<1, 0>>
  <2>1. Weighted(yes, no, payouts) = yes /\ Payout(payouts) * back = back /\ payouts # <<0, 0>>
    BY <1>2 DEF Weighted, Payout
  <2>2. QED
    BY <1>2, <2>1 DEF Worth, NoPayouts
<1>3. CASE payouts = <<0, 1>>
  <2>1. Weighted(yes, no, payouts) = no /\ Payout(payouts) * back = back /\ payouts # <<0, 0>>
    BY <1>3 DEF Weighted, Payout
  <2>2. QED
    BY <1>3, <2>1 DEF Worth, NoPayouts
<1>4. CASE payouts = <<1, 1>>
  <2>1. /\ Weighted(yes, no, payouts) = yes + no /\ Payout(payouts) * back = 2 * back
        /\ payouts # <<0, 0>>
    BY <1>4 DEF Weighted, Payout
  <2>2. QED
    BY <1>4, <2>1 DEF Worth, NoPayouts
<1>5. QED
  BY <1>1, <1>2, <1>3, <1>4, PayoutCases

(* Complete sets are worth their number, before and after the resolution.  *)
LEMMA WorthOfSets ==
    ASSUME NEW yes \in Int, NEW no \in Int, NEW back \in Int, NEW n \in Int,
           NEW payouts \in PayoutPairs, Worth(yes, no, back, payouts)
    PROVE  Worth(yes + n, no + n, back + n, payouts)
<1>1. yes + n \in Int /\ no + n \in Int /\ back + n \in Int
  OBVIOUS
<1>2. CASE payouts = <<0, 0>>
  BY <1>1, <1>2, WorthCases
<1>3. CASE payouts = <<1, 0>>
  BY <1>1, <1>3, WorthCases
<1>4. CASE payouts = <<0, 1>>
  BY <1>1, <1>4, WorthCases
<1>5. CASE payouts = <<1, 1>>
  BY <1>1, <1>5, WorthCases
<1>6. QED
  BY <1>2, <1>3, <1>4, <1>5, PayoutCases

(* A redemption pays exactly what the redeemed claims were worth.          *)
LEMMA WorthOfRedemption ==
    ASSUME NEW yes \in Int, NEW no \in Int, NEW back \in Int, NEW a \in Nat, NEW b \in Nat,
           NEW payouts \in Outcomes, RedemptionOk(a, b, payouts), Worth(yes, no, back, payouts)
    PROVE  Worth(yes - a, no - b, back - Redemption(a, b, payouts), payouts)
<1> DEFINE paid == Redemption(a, b, payouts)
<1>1. payouts \in PayoutPairs /\ yes - a \in Int /\ no - b \in Int
  BY DEF PayoutPairs
<1>2. paid \in Int
  BY BackingOfRedemption
<1>3. back - paid \in Int
  BY <1>2
<1>4. CASE payouts = <<1, 0>>
  <2>1. paid = a
    BY <1>4 DEF Redemption, Weighted, Payout
  <2> HIDE DEF paid
  <2>2. QED
    BY <1>1, <1>2, <1>3, <1>4, <2>1, WorthCases DEF paid
<1>5. CASE payouts = <<0, 1>>
  <2>1. paid = b
    BY <1>5 DEF Redemption, Weighted, Payout
  <2> HIDE DEF paid
  <2>2. QED
    BY <1>1, <1>2, <1>3, <1>5, <2>1, WorthCases DEF paid
<1>6. CASE payouts = <<1, 1>>
  <2>1. paid = (a + b) \div 2
    BY <1>6 DEF Redemption, Weighted, Payout
  <2>2. (a + b) % 2 = 0
    BY <1>6 DEF RedemptionOk, Weighted, Payout
  <2>3. 2 * paid = a + b
    BY <2>1, <2>2
  <2> HIDE DEF paid
  <2>4. yes + no = 2 * back
    BY <1>1, <1>6, WorthCases
  <2>5. (yes - a) + (no - b) = 2 * (back - paid)
    BY <1>2, <2>3, <2>4
  <2>6. Worth(yes - a, no - b, back - paid, payouts)
    BY <1>1, <1>3, <1>6, <2>5, WorthCases
  <2>7. QED
    BY <2>6 DEF paid
<1>7. QED
  BY <1>4, <1>5, <1>6 DEF Outcomes

(* Complete sets keep their worth whatever the outcome.                    *)
LEMMA WorthOfOutcome ==
    ASSUME NEW yes \in Int, NEW no \in Int, NEW back \in Int, NEW payouts \in Outcomes,
           Worth(yes, no, back, NoPayouts)
    PROVE  Worth(yes, no, back, payouts)
<1>1. yes = back /\ no = back
  BY DEF Worth
<1>2. payouts \in PayoutPairs
  BY DEF PayoutPairs
<1>3. CASE payouts = <<1, 1>>
  BY <1>1, <1>2, <1>3, WorthCases
<1>4. CASE payouts = <<1, 0>> \/ payouts = <<0, 1>>
  BY <1>1, <1>2, <1>4, WorthCases
<1>5. QED
  BY <1>3, <1>4 DEF Outcomes

----------------------------------------------------------------------------
(* The inductive invariant.  A credit is empty until it is opened, so      *)
(* opening it loses nothing; a leg holds nothing until it is listed, so    *)
(* listing it gives no mint a holding.                                     *)

Unopened == \A x \in Mints \X Owners : x \notin opened => available[x] = 0

UnlistedEmpty ==
    \A m \in Markets, c \in Collaterals :
      ~Listed(m, c) => escrow[<<m, Underlying(c)>>] = 0 /\ backing[<<m, c>>] = 0

LedgersInv == CustodyInv /\ LedgersExact /\ Unopened /\ UnlistedEmpty

LEMMA LedgersInvInit == Init => LedgersInv
<1> SUFFICES ASSUME Init PROVE LedgersInv
  OBVIOUS
<1>1. CustodyInv
  BY CustodyInvInit
<1>2. \A k \in Mints : Sum(CreditOf(k)) = 0 /\ Sum(HeldOf(k)) = 0
  <2> TAKE k \in Mints
  <2>1. \A o \in DOMAIN CreditOf(k) : CreditOf(k)[o] = 0
    BY DEF Init, ListingInit, PoolInit, CreditOf
  <2>2. \A m \in Markets, c \in Collaterals : MintOf(m, c) # k
    BY MarketConstants DEF Init, ListingInit, MarketInit, MintOf, EmptyLeg
  <2>3. \A x \in DOMAIN HeldOf(k) : HeldOf(k)[x] = 0
    BY <2>2 DEF HeldOf
  <2>4. QED
    BY <2>1, <2>3, SumZero
<1>3. PoolLedgerExact
  BY <1>2 DEF Init, ListingInit, PoolInit, PoolLedgerExact
<1>4. CreditLedgerExact
  <2> SUFFICES ASSUME NEW m \in Markets, NEW a \in ClaimAssets
               PROVE  credits[<<m, a>>] = Sum(BalancesOf(m, a))
    BY DEF CreditLedgerExact
  <2>1. \A o \in DOMAIN BalancesOf(m, a) : BalancesOf(m, a)[o] = 0
    BY DEF Init, CustodyInit, BalancesOf
  <2>2. QED
    BY <2>1, SumZero DEF Init, CustodyInit
<1>5. BackingExact
  BY ClaimFacts DEF Init, ListingInit, MarketInit, CustodyInit, BackingExact
<1>6. Unopened
  BY DEF Init, ListingInit, PoolInit, Unopened
<1>7. UnlistedEmpty
  <2>1. \A c \in Collaterals : Underlying(c) \in Assets
    BY MarketConstants DEF Collaterals, Underlying, Assets
  <2>2. QED
    BY <2>1 DEF Init, CustodyInit, UnlistedEmpty
<1>8. QED
  BY <1>1, <1>3, <1>4, <1>5, <1>6, <1>7 DEF LedgersInv, LedgersExact

----------------------------------------------------------------------------
(* The pools and the listings.                                             *)

(* Listing a leg gives its mint nothing, because an unlisted leg holds     *)
(* nothing; a listed leg keeps its mint.                                   *)
LEMMA HeldOfKept ==
    ASSUME LedgersInv, [ListingNext]_ListingVars, UNCHANGED custodyVars, NEW k
    PROVE  HeldOf(k)' = HeldOf(k)
<1>1. ASSUME NEW m \in Markets, NEW c \in Collaterals
      PROVE  HeldOf(k)'[<<m, c>>] = HeldOf(k)[<<m, c>>]
  <2>1. escrow' = escrow /\ backing' = backing
    BY DEF custodyVars
  <2>2. CASE Listed(m, c)
    <3>1. [legs'[<<m, c>>] EXCEPT !.active = FALSE] = [legs[<<m, c>>] EXCEPT !.active = FALSE]
      BY <2>2, ListingMoves DEF LedgersInv, CustodyInv, Forward
    <3>2. legs'[<<m, c>>] \in Leg /\ legs[<<m, c>>] \in Leg
      <4>1. MarketType /\ MarketType'
        BY ListingInvStep DEF LedgersInv, CustodyInv, ListingInv, MarketInv
      <4>2. QED
        BY <4>1 DEF MarketType
    <3>3. legs'[<<m, c>>].mint = legs[<<m, c>>].mint
      BY <3>1, <3>2 DEF Leg
    <3>4. QED
      BY <2>1, <3>3 DEF HeldOf, MintOf
  <2>3. CASE ~Listed(m, c)
    <3>1. escrow[<<m, Underlying(c)>>] = 0 /\ backing[<<m, c>>] = 0
      BY <2>3 DEF LedgersInv, UnlistedEmpty
    <3>2. QED
      BY <2>1, <3>1 DEF HeldOf
  <2>4. QED
    BY <2>2, <2>3
<1>2. QED
  BY <1>1 DEF HeldOf

(* A transfer changes the liability and one credit alike, and the vault at *)
(* least as the liability.                                                 *)
LEMMA TransferLedger ==
    ASSUME LedgersInv, PoolType', NEW o \in Owners, NEW k \in Mints, NEW n \in Int,
           available' = [available EXCEPT ![<<k, o>>] = available[<<k, o>>] + n],
           liability' = [liability EXCEPT ![k] = liability[k] + n],
           reserve' = [reserve EXCEPT ![k] = reserve[k] + n],
           seized' = seized, \A j \in Mints : HeldOf(j)' = HeldOf(j)
    PROVE  PoolLedgerExact'
<1> SUFFICES ASSUME NEW j \in Mints
             PROVE  /\ liability'[j] = (Sum(CreditOf(j)))' + (Sum(HeldOf(j)))'
                    /\ j \notin seized' => reserve'[j] >= liability'[j]
  BY DEF PoolLedgerExact
<1>1. PoolType /\ CustodyType
  BY DEF LedgersInv, CustodyInv, ListingInv
<1>2. /\ liability[j] = Sum(CreditOf(j)) + Sum(HeldOf(j))
      /\ j \notin seized => reserve[j] >= liability[j]
  BY DEF LedgersInv, LedgersExact, PoolLedgerExact
<1>3. (Sum(HeldOf(j)))' = Sum(HeldOf(j))
  BY DEF Sum, Units
<1>4. Sum(CreditOf(j)) \in Int /\ Sum(HeldOf(j)) \in Int
  BY <1>1, LedgerSumsType
<1>5. /\ available[<<j, o>>] \in Int /\ liability[j] \in Int /\ reserve[j] \in Int
  BY <1>1, U64Int DEF PoolType
<1>6. (Sum(CreditOf(j)))' = Sum(CreditOf(j)) - available[<<j, o>>] + available'[<<j, o>>]
  <2>1. \A p \in Owners \ {o} : available'[<<j, p>>] = available[<<j, p>>]
    BY <1>1 DEF PoolType
  <2>2. QED
    BY <1>1, <2>1, CreditOfMoved
<1>7. CASE j = k
  <2>1. available'[<<j, o>>] = available[<<j, o>>] + n
    BY <1>1, <1>7 DEF PoolType
  <2>2. liability'[j] = liability[j] + n /\ reserve'[j] = reserve[j] + n
    BY <1>1, <1>7 DEF PoolType
  <2>3. QED
    BY <1>2, <1>3, <1>4, <1>5, <1>6, <2>1, <2>2
<1>8. CASE j # k
  <2>1. available'[<<j, o>>] = available[<<j, o>>]
    BY <1>1, <1>8 DEF PoolType
  <2>2. liability'[j] = liability[j] /\ reserve'[j] = reserve[j]
    BY <1>1, <1>8 DEF PoolType
  <2>3. QED
    BY <1>2, <1>3, <1>4, <1>5, <1>6, <2>1, <2>2
<1>9. QED
  BY <1>7, <1>8

LEMMA DepositLedger ==
    ASSUME LedgersInv, NEW o \in Owners, NEW k \in Mints, NEW amount \in Amounts,
           NEW minimum \in Amounts, Deposit(o, k, amount, minimum), ~tripped',
           PoolType', \A j \in Mints : HeldOf(j)' = HeldOf(j)
    PROVE  PoolLedgerExact' /\ Unopened'
<1> DEFINE n == Received(k, amount)
<1>1. n \in Nat /\ n \in Int /\ PoolType
  BY PoolConstants, ReceivedBounds DEF LedgersInv, CustodyInv, ListingInv
<1>2. available[<<k, o>>] \in Nat
  BY <1>1, U64Nat DEF PoolType
<1>3. /\ reserve' = [reserve EXCEPT ![k] = reserve[k] + n]
      /\ liability' = [liability EXCEPT ![k] = liability[k] + n]
      /\ available' = [available EXCEPT ![<<k, o>>] = available[<<k, o>>] + n]
      /\ opened' = opened \cup {<<k, o>>}
      /\ seized' = seized
  BY DEF Deposit, CloseTransfer
<1>4. available[<<k, o>>] + n \in Nat
  BY <1>1, <1>2
<1> HIDE DEF n
<1>5. PoolLedgerExact'
  BY <1>1, <1>3, <1>4, TransferLedger
<1>6. Unopened'
  BY <1>1, <1>3 DEF LedgersInv, Unopened, PoolType
<1>7. QED
  BY <1>5, <1>6

LEMMA WithdrawLedger ==
    ASSUME LedgersInv, NEW o \in Owners, NEW k \in Mints, NEW amount \in Amounts,
           NEW minimum \in Amounts, Withdraw(o, k, amount, minimum), ~tripped',
           PoolType', \A j \in Mints : HeldOf(j)' = HeldOf(j)
    PROVE  PoolLedgerExact' /\ Unopened'
<1> DEFINE n == -amount
<1>1. amount \in Nat /\ n \in Int /\ PoolType
  BY PoolConstants DEF LedgersInv, CustodyInv, ListingInv
<1>2. available[<<k, o>>] \in Int /\ reserve[k] \in Int /\ liability[k] \in Int
  BY <1>1, U64Int DEF PoolType
<1>3. /\ reserve[k] - amount = reserve[k] + n /\ liability[k] - amount = liability[k] + n
      /\ available[<<k, o>>] - amount = available[<<k, o>>] + n
  BY <1>1, <1>2
<1>4. /\ reserve' = [reserve EXCEPT ![k] = reserve[k] - amount]
      /\ liability' = [liability EXCEPT ![k] = liability[k] - amount]
      /\ available' = [available EXCEPT ![<<k, o>>] = available[<<k, o>>] - amount]
      /\ opened' = opened
      /\ seized' = seized
      /\ <<k, o>> \in opened
      /\ available[<<k, o>>] >= amount
  BY DEF Withdraw, CloseTransfer
<1>5. available[<<k, o>>] + n \in Nat
  BY <1>1, <1>2, <1>4
<1> HIDE DEF n
<1>6. PoolLedgerExact'
  BY <1>1, <1>3, <1>4, <1>5, TransferLedger
<1>7. Unopened'
  BY <1>1, <1>4 DEF LedgersInv, Unopened, PoolType
<1>8. QED
  BY <1>6, <1>7

(* The steps of the pools that leave what is owed alone. *)
LEMMA LiabilityKept ==
    ASSUME LedgersInv, UNCHANGED <<available, liability>>,
           \A k \in Mints : k \notin seized' => k \notin seized /\ reserve'[k] >= reserve[k],
           \A k \in Mints : reserve'[k] \in Int,
           \A k \in Mints : HeldOf(k)' = HeldOf(k)
    PROVE  PoolLedgerExact'
<1> SUFFICES ASSUME NEW k \in Mints
             PROVE  /\ liability'[k] = (Sum(CreditOf(k)))' + (Sum(HeldOf(k)))'
                    /\ k \notin seized' => reserve'[k] >= liability'[k]
  BY DEF PoolLedgerExact
<1>1. /\ liability[k] = Sum(CreditOf(k)) + Sum(HeldOf(k))
      /\ k \notin seized => reserve[k] >= liability[k]
  BY DEF LedgersInv, LedgersExact, PoolLedgerExact
<1>2. (Sum(HeldOf(k)))' = Sum(HeldOf(k)) /\ (Sum(CreditOf(k)))' = Sum(CreditOf(k))
  BY DEF Sum, Units, CreditOf
<1>3. reserve[k] \in Int /\ liability[k] \in Int
  BY U64Int DEF LedgersInv, CustodyInv, ListingInv, PoolType
<1>4. QED
  BY <1>1, <1>2, <1>3

LEMMA PoolStepLedger ==
    ASSUME LedgersInv, PoolNext, PoolType', ~tripped', \A k \in Mints : HeldOf(k)' = HeldOf(k)
    PROVE  PoolLedgerExact' /\ Unopened'
<1>1. PoolType
  BY DEF LedgersInv, CustodyInv, ListingInv
<1>2. \A k \in Mints : reserve[k] \in Int
  BY <1>1, U64Int DEF PoolType
<1>3. CASE UNCHANGED <<available, liability, reserve, seized, opened>>
  <2>1. PoolLedgerExact'
    BY <1>2, <1>3, LiabilityKept
  <2>2. QED
    BY <1>3, <2>1 DEF LedgersInv, Unopened
<1>4. ASSUME NEW k \in Mints, NEW amount \in Amounts, Donate(k, amount)
      PROVE  PoolLedgerExact' /\ Unopened'
  <2>1. \A j \in Mints : reserve'[j] = IF j = k THEN reserve[j] + amount ELSE reserve[j]
    BY <1>1, <1>4 DEF Donate, PoolType
  <2>2. amount \in Nat
    BY PoolConstants
  <2>3. \A j \in Mints : reserve'[j] \in Int /\ reserve'[j] >= reserve[j]
    BY <1>2, <2>1, <2>2
  <2>4. UNCHANGED <<available, liability, seized, opened>>
    BY <1>4 DEF Donate
  <2>5. PoolLedgerExact'
    BY <2>3, <2>4, LiabilityKept
  <2>6. QED
    BY <2>4, <2>5 DEF LedgersInv, Unopened
<1>5. ASSUME NEW k \in Mints, NEW amount \in Amounts, Seize(k, amount)
      PROVE  PoolLedgerExact' /\ Unopened'
  <2>1. \A j \in Mints : reserve'[j] = IF j = k THEN reserve[j] - amount ELSE reserve[j]
    BY <1>1, <1>5 DEF Seize, PoolType
  <2>2. amount \in Nat
    BY PoolConstants
  <2>3. seized' = seized \cup {k} /\ UNCHANGED <<available, liability, opened>>
    BY <1>5 DEF Seize
  <2>4. \A j \in Mints :
          /\ reserve'[j] \in Int
          /\ j \notin seized' => j \notin seized /\ reserve'[j] >= reserve[j]
    <3> TAKE j \in Mints
    <3>1. reserve[j] \in Int /\ reserve[j] - amount \in Int
      BY <1>2, <2>2
    <3>2. QED
      BY <2>1, <2>3, <3>1
  <2>5. PoolLedgerExact'
    BY <2>3, <2>4, LiabilityKept
  <2>6. QED
    BY <2>3, <2>5 DEF LedgersInv, Unopened
<1>6. ASSUME NEW o \in Owners, NEW k \in Mints, InitializeCredit(o, k)
      PROVE  PoolLedgerExact' /\ Unopened'
  <2>1. UNCHANGED <<liability, reserve, seized>> /\ opened' = opened \cup {<<k, o>>}
    BY <1>6 DEF InitializeCredit
  <2>2. available' = available
    <3>1. CASE <<k, o>> \in opened
      BY <1>6, <3>1 DEF InitializeCredit
    <3>2. CASE <<k, o>> \notin opened
      <4>1. available[<<k, o>>] = 0
        BY <3>2 DEF LedgersInv, Unopened
      <4>2. available' = [available EXCEPT ![<<k, o>>] = 0]
        BY <1>6, <3>2 DEF InitializeCredit
      <4>3. QED
        BY <1>1, <4>1, <4>2 DEF PoolType
    <3>3. QED
      BY <3>1, <3>2
  <2>3. PoolLedgerExact'
    BY <1>2, <2>1, <2>2, LiabilityKept
  <2>4. QED
    BY <2>1, <2>2, <2>3 DEF LedgersInv, Unopened
<1>7. QED
  BY <1>3, <1>4, <1>5, <1>6, DepositLedger, WithdrawLedger
     DEF PoolNext, IssuerNext, IssuerFlags, Rescale, InitializePool, poolLedgers

(* What is listed stays listed.                                            *)
LEMMA ListedKept ==
    ASSUME ListingInv, [ListingNext]_ListingVars, NEW n \in Markets, NEW c \in Collaterals,
           Listed(n, c)
    PROVE  (Listed(n, c))'
<1>1. MarketInv
  BY DEF ListingInv
<1>2. market[n].bases \in Int /\ market[n].state # NONE /\ c \in 0 .. market[n].bases
  BY <1>1, MarketRecord, MarketConstants DEF Listed, Collaterals
<1>3. ASSUME NEW m \in Markets, NEW s, Advances(m, s)
      PROVE  (Listed(n, c))'
  BY <1>1, <1>2, <1>3 DEF Advances, Listed, MarketInv, MarketType
<1>4. ASSUME NEW actor, NEW m \in Markets, CreateMarket(actor, m)
      PROVE  (Listed(n, c))'
  <2>1. n # m
    BY <1>2, <1>4 DEF CreateMarket
  <2>2. QED
    BY <1>1, <1>2, <1>4, <2>1 DEF CreateMarket, Listed, MarketInv, MarketType
<1>5. ASSUME NEW actor, NEW m \in Markets, NEW k \in Mints, AddBase(actor, m, k)
      PROVE  (Listed(n, c))'
  <2>1. market'[n].state = market[n].state
    BY <1>1, <1>5, MarketRecord DEF AddBase, MarketInv, MarketType, MarketState
  <2>2. market'[n].bases = IF n = m THEN market[n].bases + 1 ELSE market[n].bases
    BY <1>1, <1>5, MarketRecord DEF AddBase, MarketInv, MarketType, MarketState
  <2>3. c \in 0 .. market'[n].bases
    BY <1>2, <2>2
  <2>4. QED
    BY <1>2, <2>1, <2>3 DEF Listed
<1>6. CASE UNCHANGED market
  BY <1>2, <1>6 DEF Listed
<1>7. CASE MarketNext
  <2>1. ASSUME NEW m \in Markets, NEW d \in Collaterals, InitializeClaims(m, d)
        PROVE  (Listed(n, c))'
    BY <1>1, <1>3, <2>1, InitializeClaimsAdvances
  <2>2. ASSUME NEW actor \in Keys, NEW m \in Markets, Open(actor, m)
        PROVE  (Listed(n, c))'
    BY <1>1, <1>3, <2>2, OpenAdvances
  <2>3. ASSUME NEW actor \in Keys, NEW m \in Markets, Freeze(actor, m)
        PROVE  (Listed(n, c))'
    BY <1>1, <1>3, <2>3, FreezeAdvances
  <2>4. ASSUME NEW m \in Markets, FreezeAtCutoff(m)
        PROVE  (Listed(n, c))'
    BY <1>1, <1>3, <2>4, FreezeAdvances
  <2>5. ASSUME NEW actor \in Keys, NEW m \in Markets, NEW commitment \in Commitments,
               CommitResolution(actor, m, commitment)
        PROVE  (Listed(n, c))'
    BY <1>1, <1>3, <2>5, CommitAdvances
  <2>6. ASSUME NEW actor \in Keys, NEW m \in Markets, NEW payouts \in Outcomes,
               Resolve(actor, m, payouts)
        PROVE  (Listed(n, c))'
    BY <1>1, <1>3, <2>6, ResolveAdvances
  <2>7. ASSUME NEW actor \in Keys, NEW m \in Markets, Archive(actor, m)
        PROVE  (Listed(n, c))'
    BY <1>1, <1>3, <2>7, ArchiveAdvances
  <2>8. QED
    BY <1>4, <1>5, <1>6, <1>7, <2>1, <2>2, <2>3, <2>4, <2>5, <2>6, <2>7 DEF MarketNext, SetBase
<1>8. QED
  BY <1>6, <1>7 DEF ListingNext, ListingVars, marketVars

LEMMA LedgersListing ==
    ASSUME LedgersInv, [ListingNext]_ListingVars, UNCHANGED custodyVars
    PROVE  LedgersInv'
<1>1. CustodyInv'
  BY ListingKeepsCustody DEF LedgersInv
<1>2. ~tripped' /\ PoolType'
  BY <1>1 DEF CustodyInv, SelfChecksSilent, ListingInv
<1>3. \A k \in Mints : HeldOf(k)' = HeldOf(k)
  BY HeldOfKept
<1>4. PoolLedgerExact' /\ Unopened'
  <2>1. CASE PoolNext
    BY <1>2, <1>3, <2>1, PoolStepLedger
  <2>2. CASE UNCHANGED poolVars
    <3>1. \A k \in Mints : reserve[k] \in Int
      BY U64Int DEF LedgersInv, CustodyInv, ListingInv, PoolType
    <3>2. PoolLedgerExact'
      BY <1>3, <2>2, <3>1, LiabilityKept DEF poolVars
    <3>3. QED
      BY <2>2, <3>2 DEF LedgersInv, Unopened, poolVars
  <2>3. QED
    BY <2>1, <2>2 DEF ListingNext, ListingVars
<1>5. CreditLedgerExact'
  <2> SUFFICES ASSUME NEW m \in Markets, NEW a \in ClaimAssets
               PROVE  credits'[<<m, a>>] = (Sum(BalancesOf(m, a)))'
    BY DEF CreditLedgerExact
  <2>1. (Sum(BalancesOf(m, a)))' = Sum(BalancesOf(m, a)) /\ credits' = credits
    BY DEF BalancesOf, Sum, Units, custodyVars
  <2>2. QED
    BY <2>1 DEF LedgersInv, LedgersExact, CreditLedgerExact
<1>6. BackingExact'
  <2> SUFFICES ASSUME NEW m \in Markets, NEW c \in Collaterals,
                      {<<m, Claim(c, 0)>>, <<m, Claim(c, 1)>>} \cap burned' = {}
               PROVE  Worth(supply'[<<m, Claim(c, 0)>>], supply'[<<m, Claim(c, 1)>>],
                            backing'[<<m, c>>], market'[m].payouts)
    BY DEF BackingExact, Worth
  <2> DEFINE y == supply[<<m, Claim(c, 0)>>]
             x == supply[<<m, Claim(c, 1)>>]
             q == market'[m].payouts
  <2>1. UNCHANGED <<supply, backing, burned>>
    BY DEF custodyVars
  <2>2. Worth(y, x, backing[<<m, c>>], market[m].payouts)
    BY <2>1 DEF LedgersInv, LedgersExact, BackingExact, Worth
  <2>3. y \in Int /\ x \in Int /\ backing[<<m, c>>] \in Int
    BY ClaimValues DEF LedgersInv
  <2>4. CASE q = market[m].payouts
    BY <2>1, <2>2, <2>4
  <2>5. CASE q # market[m].payouts
    <3>1. market[m].payouts = NoPayouts
      BY <2>5, ListingMoves DEF LedgersInv, CustodyInv, Committed
    <3>2. q \in Outcomes
      <4>1. market' \in [Markets -> MarketState]
        BY <1>1 DEF CustodyInv, ListingInv, MarketInv, MarketType
      <4>2. QED
        BY <2>5, <3>1, <4>1 DEF MarketState
    <3> HIDE DEF y, x, q
    <3>3. Worth(y, x, backing[<<m, c>>], q)
      BY <2>2, <2>3, <3>1, <3>2, WorthOfOutcome
    <3>4. QED
      BY <2>1, <3>3 DEF y, x, q
  <2>6. QED
    BY <2>4, <2>5
<1>7. UnlistedEmpty'
  <2> SUFFICES ASSUME NEW m \in Markets, NEW c \in Collaterals, ~(Listed(m, c))'
               PROVE  escrow'[<<m, Underlying(c)>>] = 0 /\ backing'[<<m, c>>] = 0
    BY DEF UnlistedEmpty
  <2>1. ~Listed(m, c)
    BY ListedKept DEF LedgersInv, CustodyInv
  <2>2. QED
    BY <2>1 DEF LedgersInv, UnlistedEmpty, custodyVars
<1>8. QED
  BY <1>1, <1>4, <1>5, <1>6, <1>7 DEF LedgersInv, LedgersExact

(* When one owner's wallets and the markets' totals change alike, the      *)
(* credit ledgers stay exact.                                              *)
LEMMA CreditMoved ==
    ASSUME LedgersInv, CustodyInv', NEW o \in Owners,
           \A m \in Markets, a \in ClaimAssets :
             credits'[<<m, a>>] - credits[<<m, a>>] = balance'[<<m, o, a>>] - balance[<<m, o, a>>],
           \A m \in Markets, a \in ClaimAssets, p \in Owners \ {o} :
             balance'[<<m, p, a>>] = balance[<<m, p, a>>]
    PROVE  CreditLedgerExact'
<1> SUFFICES ASSUME NEW m \in Markets, NEW a \in ClaimAssets
             PROVE  credits'[<<m, a>>] = (Sum(BalancesOf(m, a)))'
  BY DEF CreditLedgerExact
<1>1. PoolType /\ CustodyType /\ CustodyType'
  BY DEF LedgersInv, CustodyInv, ListingInv
<1>2. credits[<<m, a>>] = Sum(BalancesOf(m, a)) /\ Sum(BalancesOf(m, a)) \in Int
  BY <1>1, LedgerSumsType DEF LedgersInv, LedgersExact, CreditLedgerExact
<1>3. (Sum(BalancesOf(m, a)))'
        = Sum(BalancesOf(m, a)) - balance[<<m, o, a>>] + balance'[<<m, o, a>>]
  BY <1>1, BalancesOfMoved
<1>4. /\ balance[<<m, o, a>>] \in U64 /\ balance'[<<m, o, a>>] \in U64
      /\ credits'[<<m, a>>] \in Nat
  BY <1>1 DEF CustodyType
<1> DEFINE u == balance[<<m, o, a>>]
           v == balance'[<<m, o, a>>]
<1>5. u \in Int /\ v \in Int /\ credits'[<<m, a>>] \in Int
  <2> HIDE DEF u, v
  <2>1. u \in U64 /\ v \in U64
    BY <1>4 DEF u, v
  <2>2. QED
    BY <1>4, <2>1, U64Int
<1>6. credits'[<<m, a>>] - credits[<<m, a>>] = balance'[<<m, o, a>>] - balance[<<m, o, a>>]
  OBVIOUS
<1>7. QED
  BY <1>2, <1>3, <1>5, <1>6

----------------------------------------------------------------------------
(* The positions.                                                          *)

(* A move of a position whose claims and backing change by the same worth. *)
LEMMA LedgersReposition ==
    ASSUME LedgersInv, NEW o \in Owners, NEW m \in Markets, NEW c \in Collaterals,
           NEW d \in PositionMoves, Listed(m, c), Reposition(o, m, c, d),
           UNCHANGED <<configVars, marketVars>>, CustodyInv',
           Worth(supply[<<m, Claim(c, 0)>>], supply[<<m, Claim(c, 1)>>], backing[<<m, c>>],
                 market[m].payouts)
             => Worth(supply[<<m, Claim(c, 0)>>] + d.yes, supply[<<m, Claim(c, 1)>>] + d.no,
                      backing[<<m, c>>] + d.backing, market[m].payouts)
    PROVE  LedgersInv'
<1> DEFINE k == MintOf(m, c)
           y == Claim(c, 0)
           x == Claim(c, 1)
<1>1. PoolType /\ CustodyType
  BY DEF LedgersInv, CustodyInv, ListingInv
<1>2. k \in Mints
  BY DEF LedgersInv, CustodyInv, ListingInv, MarketInv, MintsListed
<1>3. y \in ClaimAssets /\ x \in ClaimAssets /\ y # x
  BY ClaimFacts
<1>4. Repositioned(o, m, c, d)
  BY DEF Reposition, Repositioned, CustodyInv, SelfChecksSilent
<1>5. /\ d.credit \in Int /\ d.backing \in Int /\ d.yes \in Int /\ d.no \in Int
      /\ d.credit + d.backing = 0
  BY DEF PositionMoves
<1>6. /\ available[<<k, o>>] + d.credit \in Nat
      /\ backing[<<m, c>>] + d.backing \in Nat
      /\ balance[<<m, o, y>>] + d.yes \in Nat /\ balance[<<m, o, x>>] + d.no \in Nat
      /\ <<k, o>> \in opened
  BY U64Nat DEF Reposition
<1>7. /\ available[<<k, o>>] \in Int /\ backing[<<m, c>>] \in Int
      /\ balance[<<m, o, y>>] \in Int /\ balance[<<m, o, x>>] \in Int
      /\ credits[<<m, y>>] \in Int /\ credits[<<m, x>>] \in Int
      /\ supply[<<m, y>>] \in Int /\ supply[<<m, x>>] \in Int
  <2> HIDE DEF k, y, x
  <2>1. available[<<k, o>>] \in Int
    BY <1>1, <1>2, U64Int DEF PoolType
  <2>2. balance[<<m, o, y>>] \in Int /\ balance[<<m, o, x>>] \in Int
    BY <1>1, <1>3, U64Int DEF CustodyType
  <2>3. QED
    BY <1>1, <1>3, <2>1, <2>2, CustodyInts
<1> HIDE DEF k, y, x
<1>8. /\ available' = [available EXCEPT ![<<k, o>>] = available[<<k, o>>] + d.credit]
      /\ backing' = [backing EXCEPT ![<<m, c>>] = backing[<<m, c>>] + d.backing]
      /\ balance' = [balance EXCEPT ![<<m, o, y>>] = balance[<<m, o, y>>] + d.yes,
                                    ![<<m, o, x>>] = balance[<<m, o, x>>] + d.no]
      /\ credits' = [credits EXCEPT ![<<m, y>>] = @ + d.yes, ![<<m, x>>] = @ + d.no]
      /\ supply' = [supply EXCEPT ![<<m, y>>] = @ + d.yes, ![<<m, x>>] = @ + d.no]
      /\ UNCHANGED <<liability, reserve, opened, seized, escrow, burned>>
  <2>1. /\ available' = [available EXCEPT ![<<k, o>>] = @ + d.credit]
        /\ backing' = [backing EXCEPT ![<<m, c>>] = @ + d.backing]
        /\ balance' = [balance EXCEPT ![<<m, o, y>>] = @ + d.yes, ![<<m, o, x>>] = @ + d.no]
        /\ credits' = [credits EXCEPT ![<<m, y>>] = @ + d.yes, ![<<m, x>>] = @ + d.no]
        /\ supply' = [supply EXCEPT ![<<m, y>>] = @ + d.yes, ![<<m, x>>] = @ + d.no]
        /\ UNCHANGED <<liability, reserve, opened, seized, escrow, burned>>
    BY <1>4 DEF Repositioned, k, y, x
  <2>2. <<m, o, x>> # <<m, o, y>>
    BY <1>3
  <2>3. QED
    BY <2>1, <2>2
<1>9. market' = market /\ legs' = legs
  BY DEF marketVars
<1>10. PoolType' /\ CustodyType'
  BY DEF CustodyInv, ListingInv
<1>11. PoolLedgerExact'
  <2> SUFFICES ASSUME NEW j \in Mints
               PROVE  /\ liability'[j] = (Sum(CreditOf(j)))' + (Sum(HeldOf(j)))'
                      /\ j \notin seized' => reserve'[j] >= liability'[j]
    BY DEF PoolLedgerExact
  <2>1. /\ liability[j] = Sum(CreditOf(j)) + Sum(HeldOf(j))
        /\ j \notin seized => reserve[j] >= liability[j]
    BY DEF LedgersInv, LedgersExact, PoolLedgerExact
  <2>2. Sum(CreditOf(j)) \in Int /\ Sum(HeldOf(j)) \in Int
    BY <1>1, LedgerSumsType
  <2>3. (Sum(CreditOf(j)))' = IF j = k THEN Sum(CreditOf(j)) + d.credit ELSE Sum(CreditOf(j))
    <3>1. \A p \in Owners \ {o} : available'[<<j, p>>] = available[<<j, p>>]
      BY <1>1, <1>8 DEF PoolType
    <3>2. (Sum(CreditOf(j)))' = Sum(CreditOf(j)) - available[<<j, o>>] + available'[<<j, o>>]
      BY <1>1, <1>10, <3>1, CreditOfMoved
    <3>3. available'[<<j, o>>] = IF j = k THEN available[<<j, o>>] + d.credit
                                          ELSE available[<<j, o>>]
      BY <1>1, <1>2, <1>8 DEF PoolType
    <3>4. available[<<j, o>>] \in Int
      BY <1>1, U64Int DEF PoolType
    <3>5. QED
      BY <1>5, <2>2, <3>2, <3>3, <3>4
  <2>4. (Sum(HeldOf(j)))' = IF j = k THEN Sum(HeldOf(j)) + d.backing ELSE Sum(HeldOf(j))
    <3>1. /\ backing'[<<m, c>>] = backing[<<m, c>>] + d.backing
          /\ \A z \in Markets \X Collaterals : z # <<m, c>> => backing'[z] = backing[z]
      BY <1>1, <1>8 DEF CustodyType
    <3>2. (Sum(HeldOf(j)))' = IF j = k
                              THEN Sum(HeldOf(j)) - backing[<<m, c>>] + backing'[<<m, c>>]
                              ELSE Sum(HeldOf(j))
      BY <1>1, <1>8, <1>9, <1>10, <3>1, HeldOfMoved DEF k
    <3>3. QED
      BY <1>5, <1>7, <2>2, <3>1, <3>2
  <2>5. (Sum(CreditOf(j)))' + (Sum(HeldOf(j)))' = Sum(CreditOf(j)) + Sum(HeldOf(j))
    BY <1>5, <2>2, <2>3, <2>4
  <2>6. QED
    BY <1>8, <2>1, <2>5
<1>12. CreditLedgerExact'
  <2>1. \A n \in Markets, e \in ClaimAssets :
          credits'[<<n, e>>] - credits[<<n, e>>] = balance'[<<n, o, e>>] - balance[<<n, o, e>>]
    <3> TAKE n \in Markets, e \in ClaimAssets
    <3>1. balance[<<n, o, e>>] \in Int /\ credits[<<n, e>>] \in Int
      BY <1>1, CustodyInts, U64Int DEF CustodyType
    <3>2. CASE <<n, e>> = <<m, y>>
      <4>1. credits'[<<m, y>>] = credits[<<m, y>>] + d.yes
        BY <1>1, <1>3, <1>8 DEF CustodyType
      <4>2. balance'[<<m, o, y>>] = balance[<<m, o, y>>] + d.yes
        BY <1>1, <1>3, <1>8 DEF CustodyType
      <4>3. n = m /\ e = y
        BY <3>2
      <4>4. QED
        BY <1>5, <3>1, <4>1, <4>2, <4>3
    <3>3. CASE <<n, e>> = <<m, x>>
      <4>1. credits'[<<m, x>>] = credits[<<m, x>>] + d.no
        BY <1>1, <1>3, <1>8 DEF CustodyType
      <4>2. balance'[<<m, o, x>>] = balance[<<m, o, x>>] + d.no
        BY <1>1, <1>3, <1>8 DEF CustodyType
      <4>3. n = m /\ e = x
        BY <3>3
      <4>4. QED
        BY <1>5, <3>1, <4>1, <4>2, <4>3
    <3>4. CASE <<n, e>> # <<m, y>> /\ <<n, e>> # <<m, x>>
      <4>1. credits'[<<n, e>>] = credits[<<n, e>>]
        BY <1>1, <1>3, <1>8, <3>4 DEF CustodyType
      <4>2. balance'[<<n, o, e>>] = balance[<<n, o, e>>]
        BY <1>1, <1>3, <1>8, <3>4 DEF CustodyType
      <4>3. QED
        BY <3>1, <4>1, <4>2
    <3>5. QED
      BY <3>2, <3>3, <3>4
  <2>2. \A n \in Markets, e \in ClaimAssets, p \in Owners \ {o} :
          balance'[<<n, p, e>>] = balance[<<n, p, e>>]
    BY <1>1, <1>3, <1>8 DEF CustodyType
  <2>3. QED
    BY <2>1, <2>2, CreditMoved
<1>13. BackingExact'
  <2> SUFFICES ASSUME NEW n \in Markets, NEW e \in Collaterals,
                      {<<n, Claim(e, 0)>>, <<n, Claim(e, 1)>>} \cap burned' = {}
               PROVE  Worth(supply'[<<n, Claim(e, 0)>>], supply'[<<n, Claim(e, 1)>>],
                            backing'[<<n, e>>], market'[n].payouts)
    BY DEF BackingExact, Worth
  <2>1. Worth(supply[<<n, Claim(e, 0)>>], supply[<<n, Claim(e, 1)>>], backing[<<n, e>>],
              market[n].payouts)
    BY <1>8 DEF LedgersInv, LedgersExact, BackingExact, Worth
  <2>2. Claim(e, 0) \in ClaimAssets /\ Claim(e, 1) \in ClaimAssets
    BY ClaimFacts
  <2>3. CASE n = m /\ e = c
    <3>1. /\ supply'[<<n, y>>] = supply[<<n, y>>] + d.yes
          /\ supply'[<<n, x>>] = supply[<<n, x>>] + d.no
          /\ backing'[<<n, e>>] = backing[<<n, e>>] + d.backing
      BY <1>1, <1>3, <1>8, <2>3 DEF CustodyType
    <3>2. Claim(e, 0) = y /\ Claim(e, 1) = x
      BY <2>3 DEF y, x
    <3>3. Worth(supply[<<n, y>>] + d.yes, supply[<<n, x>>] + d.no, backing[<<n, e>>] + d.backing,
                market[n].payouts)
      BY <2>1, <2>3 DEF y, x
    <3>4. QED
      BY <1>9, <3>1, <3>2, <3>3
  <2>4. CASE ~(n = m /\ e = c)
    <3>1. e # c => {Claim(e, 0), Claim(e, 1)} \cap {y, x} = {}
      BY ClaimsApart DEF y, x
    <3>2. /\ supply'[<<n, Claim(e, 0)>>] = supply[<<n, Claim(e, 0)>>]
          /\ supply'[<<n, Claim(e, 1)>>] = supply[<<n, Claim(e, 1)>>]
          /\ backing'[<<n, e>>] = backing[<<n, e>>]
      BY <1>1, <1>8, <2>2, <2>4, <3>1 DEF CustodyType
    <3>3. QED
      BY <1>9, <2>1, <3>2
  <2>5. QED
    BY <2>3, <2>4
<1>14. Unopened'
  BY <1>1, <1>6, <1>8 DEF LedgersInv, Unopened, PoolType
<1>15. UnlistedEmpty'
  <2> SUFFICES ASSUME NEW n \in Markets, NEW e \in Collaterals, ~(Listed(n, e))'
               PROVE  escrow'[<<n, Underlying(e)>>] = 0 /\ backing'[<<n, e>>] = 0
    BY DEF UnlistedEmpty
  <2>1. ~Listed(n, e)
    BY <1>9 DEF Listed
  <2>2. <<n, e>> # <<m, c>>
    BY <2>1
  <2>3. QED
    BY <1>1, <1>8, <2>1, <2>2 DEF LedgersInv, UnlistedEmpty, CustodyType
<1>16. QED
  BY <1>11, <1>12, <1>13, <1>14, <1>15 DEF LedgersInv, LedgersExact

LEMMA LedgersSets ==
    ASSUME LedgersInv, NEW o \in Owners, NEW m \in Markets, NEW c \in Collaterals,
           NEW n \in Int, Listed(m, c), CustodyInv', UNCHANGED <<configVars, marketVars>>,
           Reposition(o, m, c, [credit |-> -n, backing |-> n, yes |-> n, no |-> n])
    PROVE  LedgersInv'
<1> DEFINE d == [credit |-> -n, backing |-> n, yes |-> n, no |-> n]
           y == supply[<<m, Claim(c, 0)>>]
           x == supply[<<m, Claim(c, 1)>>]
           v == backing[<<m, c>>]
           p == market[m].payouts
<1>1. d \in PositionMoves
  BY DEF PositionMoves
<1>2. y \in Int /\ x \in Int /\ v \in Int /\ p \in PayoutPairs
  BY ClaimValues, PayoutsType DEF LedgersInv
<1>3. Worth(y, x, v, p) => Worth(y + n, x + n, v + n, p)
  <2> HIDE DEF y, x, v, p
  <2>1. QED
    BY <1>2, WorthOfSets
<1>4. Worth(y, x, v, p) => Worth(y + d.yes, x + d.no, v + d.backing, p)
  BY <1>3
<1>5. Reposition(o, m, c, d)
  OBVIOUS
<1> HIDE DEF d
<1>6. QED
  BY <1>1, <1>4, <1>5, LedgersReposition

LEMMA LedgersSplitMerge ==
    ASSUME LedgersInv, NEW o \in Owners, NEW m \in Markets, NEW c \in Collaterals,
           NEW n \in ClaimAmounts, Split(o, m, c, n) \/ Merge(o, m, c, n),
           CustodyInv', UNCHANGED <<configVars, marketVars>>
    PROVE  LedgersInv'
<1>1. n \in Int /\ -n \in Int /\ -(-n) = n
  BY ClaimAmountsNat
<1>2. CASE Split(o, m, c, n)
  BY <1>1, <1>2, LedgersSets DEF Split, Ready
<1>3. CASE Merge(o, m, c, n)
  <2> DEFINE k == -n
  <2>1. k \in Int /\ -k = n
    BY <1>1
  <2>2. Reposition(o, m, c, [credit |-> -k, backing |-> k, yes |-> k, no |-> k])
    BY <1>3, <2>1 DEF Merge
  <2>3. Listed(m, c)
    BY <1>3 DEF Merge, Ready
  <2> HIDE DEF k
  <2>4. QED
    BY <2>1, <2>2, <2>3, LedgersSets
<1>4. QED
  BY <1>2, <1>3

LEMMA LedgersRedeem ==
    ASSUME LedgersInv, NEW o \in Owners, NEW m \in Markets, NEW c \in Collaterals,
           NEW a \in Nat, NEW b \in Nat, Redeem(o, m, c, a, b),
           CustodyInv', UNCHANGED <<configVars, marketVars>>
    PROVE  LedgersInv'
<1> DEFINE p == market[m].payouts
           paid == Redemption(a, b, p)
           d == [credit |-> paid, backing |-> -paid, yes |-> -a, no |-> -b]
           y == supply[<<m, Claim(c, 0)>>]
           x == supply[<<m, Claim(c, 1)>>]
           v == backing[<<m, c>>]
<1>1. p \in Outcomes /\ RedemptionOk(a, b, p)
  BY DEF Redeem, RedemptionOk, PayoutOk, Outcomes
<1>2. y \in Int /\ x \in Int /\ v \in Int
  BY ClaimValues DEF LedgersInv
<1>3. paid \in Int /\ (Worth(y, x, v, p) => Worth(y - a, x - b, v - paid, p))
  <2> HIDE DEF y, x, v, p
  <2>1. QED
    BY <1>1, <1>2, BackingOfRedemption, WorthOfRedemption
<1>4. Reposition(o, m, c, d) /\ Listed(m, c)
  BY DEF Redeem, Ready
<1> HIDE DEF paid, y, x, v, p
<1>5. d \in PositionMoves
  BY <1>3 DEF PositionMoves
<1>6. y + d.yes = y - a /\ x + d.no = x - b /\ v + d.backing = v - paid
  BY <1>2, <1>3
<1>7. Worth(y, x, v, p) => Worth(y + d.yes, x + d.no, v + d.backing, p)
  BY <1>3, <1>6
<1> HIDE DEF d
<1>8. QED
  BY <1>4, <1>5, <1>7, LedgersReposition DEF y, x, v, p

(* An operation that leaves the pools, the escrow, the backing and the     *)
(* supply alone can only disturb the credit ledger.                        *)
LEMMA LedgersClaims ==
    ASSUME LedgersInv, CustodyInv', CreditLedgerExact',
           UNCHANGED <<configVars, marketVars, poolVars, escrow, backing, supply, burned>>
    PROVE  LedgersInv'
<1>1. UNCHANGED <<market, legs, liability, reserve, seized, opened, available>>
  BY DEF marketVars, poolVars
<1>2. PoolLedgerExact'
  <2>1. \A k \in Mints :
          /\ (Sum(CreditOf(k)))' = Sum(CreditOf(k))
          /\ (Sum(HeldOf(k)))' = Sum(HeldOf(k))
    BY <1>1 DEF CreditOf, HeldOf, MintOf, Sum, Units
  <2>2. QED
    BY <1>1, <2>1 DEF LedgersInv, LedgersExact, PoolLedgerExact
<1>3. BackingExact'
  BY <1>1 DEF LedgersInv, LedgersExact, BackingExact
<1>4. Unopened' /\ UnlistedEmpty'
  BY <1>1 DEF LedgersInv, Unopened, UnlistedEmpty, Listed
<1>5. QED
  BY <1>2, <1>3, <1>4 DEF LedgersInv, LedgersExact

(* Claims credited to (or debited from) one wallet and its market alike.   *)
LEMMA LedgersCredited ==
    ASSUME LedgersInv, CustodyInv', NEW o \in Owners, NEW m \in Markets, NEW a \in ClaimAssets,
           NEW n \in Int,
           balance' = [balance EXCEPT ![<<m, o, a>>] = balance[<<m, o, a>>] + n],
           credits' = [credits EXCEPT ![<<m, a>>] = credits[<<m, a>>] + n],
           UNCHANGED <<configVars, marketVars, poolVars, escrow, backing, supply, burned>>
    PROVE  LedgersInv'
<1>1. CustodyType
  BY DEF LedgersInv, CustodyInv
<1>2. \A q \in Markets, b \in ClaimAssets :
        credits'[<<q, b>>] - credits[<<q, b>>] = balance'[<<q, o, b>>] - balance[<<q, o, b>>]
  <2> TAKE q \in Markets, b \in ClaimAssets
  <2>1. balance[<<q, o, b>>] \in Int /\ credits[<<q, b>>] \in Int
    BY <1>1, CustodyInts, U64Int DEF CustodyType
  <2>2. CASE q = m /\ b = a
    <3>1. credits'[<<m, a>>] = credits[<<m, a>>] + n
      BY <1>1 DEF CustodyType
    <3>2. balance'[<<m, o, a>>] = balance[<<m, o, a>>] + n
      BY <1>1 DEF CustodyType
    <3>3. QED
      BY <2>1, <2>2, <3>1, <3>2
  <2>3. CASE ~(q = m /\ b = a)
    <3>1. credits'[<<q, b>>] = credits[<<q, b>>]
      BY <1>1, <2>3 DEF CustodyType
    <3>2. balance'[<<q, o, b>>] = balance[<<q, o, b>>]
      BY <1>1, <2>3 DEF CustodyType
    <3>3. QED
      BY <2>1, <3>1, <3>2
  <2>4. QED
    BY <2>2, <2>3
<1>3. \A q \in Markets, b \in ClaimAssets, p \in Owners \ {o} :
        balance'[<<q, p, b>>] = balance[<<q, p, b>>]
  BY <1>1 DEF CustodyType
<1>4. CreditLedgerExact'
  BY <1>2, <1>3, CreditMoved
<1>5. QED
  BY <1>4, LedgersClaims

LEMMA LedgersClaimTransfer ==
    ASSUME LedgersInv, CustodyInv', NEW o \in Owners, NEW m \in Markets, NEW a \in ClaimAssets,
           NEW n \in Int, NEW held, NEW owed, CloseClaimTransfer(m, a, held, owed, o, n),
           UNCHANGED <<configVars, marketVars>>
    PROVE  LedgersInv'
<1>1. /\ balance' = [balance EXCEPT ![<<m, o, a>>] = balance[<<m, o, a>>] + n]
      /\ credits' = [credits EXCEPT ![<<m, a>>] = credits[<<m, a>>] + n]
      /\ UNCHANGED <<poolVars, escrow, backing, supply, burned>>
  BY DEF CloseClaimTransfer, CustodyInv, SelfChecksSilent
<1>2. QED
  BY <1>1, LedgersCredited

LEMMA LedgersClaimFees ==
    ASSUME LedgersInv, CustodyInv', NEW actor, NEW p \in Owners, NEW m \in Markets,
           NEW a, NEW n \in ClaimAmounts, ClaimFees(actor, p, m, a, n),
           UNCHANGED <<configVars, marketVars>>
    PROVE  LedgersInv'
<1>1. a \in ClaimAssets /\ n \in Int
  BY ClaimAmountsNat DEF ClaimFees
<1>2. /\ balance' = [balance EXCEPT ![<<m, p, a>>] = balance[<<m, p, a>>] + n]
      /\ credits' = [credits EXCEPT ![<<m, a>>] = credits[<<m, a>>] + n]
      /\ UNCHANGED <<poolVars, escrow, backing, supply, burned>>
  BY DEF ClaimFees
<1>3. QED
  BY <1>1, <1>2, LedgersCredited

(* A transfer is two moves of one entry, through the sums between them.    *)
LEMMA LedgersTransferCredit ==
    ASSUME LedgersInv, CustodyInv', NEW o \in Owners, NEW p \in Owners, NEW m \in Markets,
           NEW a, NEW n \in ClaimAmounts, TransferCredit(o, p, m, a, n),
           UNCHANGED <<configVars, marketVars>>
    PROVE  LedgersInv'
<1>1. /\ a \in ClaimAssets /\ n \in Nat /\ o # p
      /\ balance' = [balance EXCEPT ![<<m, o, a>>] = @ - n, ![<<m, p, a>>] = @ + n]
      /\ balance[<<m, o, a>>] >= n
      /\ credits' = credits
      /\ UNCHANGED <<poolVars, escrow, backing, supply, burned>>
  BY ClaimAmountsNat DEF TransferCredit
<1>2. CustodyType /\ CustodyType' /\ PoolType
  BY DEF LedgersInv, CustodyInv, ListingInv
<1>3. ASSUME NEW q \in Markets, NEW b \in ClaimAssets
      PROVE  (Sum(BalancesOf(q, b)))' = Sum(BalancesOf(q, b))
  <2>1. CASE ~(q = m /\ b = a)
    <3>1. \A w \in Owners : balance'[<<q, w, b>>] = balance[<<q, w, b>>]
      BY <1>1, <1>2, <2>1 DEF CustodyType
    <3>2. BalancesOf(q, b)' = BalancesOf(q, b)
      BY <3>1 DEF BalancesOf
    <3>3. QED
      BY <3>2 DEF Sum, Units
  <2>2. CASE q = m /\ b = a
    <3> DEFINE f == BalancesOf(m, a)
               g == [w \in Owners |-> IF w = o THEN f[o] - n ELSE f[w]]
               h == BalancesOf(m, a)'
    <3>1. /\ f \in [Owners -> Nat] /\ h \in [Owners -> Nat] /\ IsFiniteSet(Owners)
          /\ f[o] >= n
      BY <1>1, <1>2, PoolConstants, U64Nat DEF BalancesOf, CustodyType
    <3>2. h = [w \in Owners |-> IF w = o THEN f[o] - n ELSE IF w = p THEN f[p] + n ELSE f[w]]
      BY <1>1, <1>2 DEF BalancesOf, CustodyType
    <3>3. (Sum(BalancesOf(m, a)))' = Sum(h)
      BY DEF Sum, Units
    <3> HIDE DEF f, h
    <3>4. g \in [Owners -> Nat] /\ g[o] = f[o] - n /\ g[p] = f[p]
            /\ h[o] = f[o] - n /\ h[p] = f[p] + n
      BY <1>1, <3>1, <3>2
    <3>5. /\ \A w \in Owners \ {o} : g[w] = f[w]
          /\ \A w \in Owners \ {p} : h[w] = g[w]
      BY <3>2
    <3> HIDE DEF g
    <3>6. Sum(g) = Sum(f) - f[o] + g[o]
      BY <3>1, <3>4, <3>5, SumMoved
    <3>7. Sum(h) = Sum(g) - g[p] + h[p]
      BY <3>1, <3>4, <3>5, SumMoved
    <3>8. Sum(f) \in Int /\ f[o] \in Int /\ f[p] \in Int /\ n \in Int
      BY <1>1, <3>1, SumType
    <3>9. Sum(h) = Sum(f)
      BY <3>4, <3>6, <3>7, <3>8
    <3>10. QED
      BY <2>2, <3>3, <3>9 DEF f
  <2>3. QED
    BY <2>1, <2>2
<1>4. CreditLedgerExact'
  BY <1>1, <1>3 DEF LedgersInv, LedgersExact, CreditLedgerExact
<1>5. QED
  BY <1>1, <1>4, LedgersClaims

LEMMA CreditsKept ==
    ASSUME LedgersInv, UNCHANGED <<balance, credits>>
    PROVE  CreditLedgerExact'
<1>1. \A m \in Markets, a \in ClaimAssets :
        (Sum(BalancesOf(m, a)))' = Sum(BalancesOf(m, a))
  BY DEF BalancesOf, Sum, Units
<1>2. QED
  BY <1>1 DEF LedgersInv, LedgersExact, CreditLedgerExact

(* Claims burned outside leave the backing in excess, and are remembered.  *)
LEMMA LedgersBurnOutside ==
    ASSUME LedgersInv, CustodyInv', NEW m \in Markets, NEW a, NEW n,
           BurnOutside(m, a, n), UNCHANGED <<configVars, marketVars>>
    PROVE  LedgersInv'
<1>1. /\ supply' = [supply EXCEPT ![<<m, a>>] = supply[<<m, a>>] - n]
      /\ burned' = burned \cup {<<m, a>>}
      /\ UNCHANGED <<balance, credits, escrow, backing, poolVars>>
  BY DEF BurnOutside
<1>2. UNCHANGED <<market, legs, liability, reserve, seized, opened, available>>
  BY <1>1 DEF marketVars, poolVars
<1>3. PoolLedgerExact'
  <2>1. \A k \in Mints :
          /\ (Sum(CreditOf(k)))' = Sum(CreditOf(k))
          /\ (Sum(HeldOf(k)))' = Sum(HeldOf(k))
    BY <1>1, <1>2 DEF CreditOf, HeldOf, MintOf, Sum, Units
  <2>2. QED
    BY <1>2, <2>1 DEF LedgersInv, LedgersExact, PoolLedgerExact
<1>4. CreditLedgerExact'
  BY <1>1, CreditsKept
<1>5. BackingExact'
  <2> SUFFICES ASSUME NEW q \in Markets, NEW e \in Collaterals,
                      {<<q, Claim(e, 0)>>, <<q, Claim(e, 1)>>} \cap burned' = {}
               PROVE  Worth(supply'[<<q, Claim(e, 0)>>], supply'[<<q, Claim(e, 1)>>],
                            backing'[<<q, e>>], market'[q].payouts)
    BY DEF BackingExact, Worth
  <2>1. Worth(supply[<<q, Claim(e, 0)>>], supply[<<q, Claim(e, 1)>>],
              backing[<<q, e>>], market[q].payouts)
    BY <1>1 DEF LedgersInv, LedgersExact, BackingExact, Worth
  <2>2. <<q, Claim(e, 0)>> # <<m, a>> /\ <<q, Claim(e, 1)>> # <<m, a>>
    BY <1>1
  <2>3. CustodyType /\ Claim(e, 0) \in ClaimAssets /\ Claim(e, 1) \in ClaimAssets
    BY ClaimFacts DEF LedgersInv, CustodyInv
  <2>4. /\ supply'[<<q, Claim(e, 0)>>] = supply[<<q, Claim(e, 0)>>]
        /\ supply'[<<q, Claim(e, 1)>>] = supply[<<q, Claim(e, 1)>>]
    BY <1>1, <2>2, <2>3 DEF CustodyType
  <2>5. QED
    BY <1>1, <1>2, <2>1, <2>4
<1>6. Unopened' /\ UnlistedEmpty'
  BY <1>1, <1>2 DEF LedgersInv, Unopened, UnlistedEmpty, Listed
<1>7. QED
  BY <1>3, <1>4, <1>5, <1>6 DEF LedgersInv, LedgersExact

----------------------------------------------------------------------------
LEMMA LedgersPosition ==
    ASSUME LedgersInv, PositionNext, UNCHANGED <<configVars, marketVars>>
    PROVE  LedgersInv'
<1>1. CustodyInv'
  BY PositionInv DEF LedgersInv
<1>2. ASSUME NEW o \in Owners, NEW m \in Markets, InitializeWallet(o, m)
      PROVE  LedgersInv'
  BY <1>1, <1>2, CreditsKept, LedgersClaims DEF InitializeWallet
<1>3. ASSUME NEW m \in Markets, NEW a \in Assets, NEW n \in ClaimAmounts, DonateClaim(m, a, n)
      PROVE  LedgersInv'
  BY <1>1, <1>3, CreditsKept, LedgersClaims DEF DonateClaim
<1>4. ASSUME NEW o \in Owners, NEW m \in Markets, NEW a \in Assets, NEW n \in ClaimAmounts,
             DepositClaim(o, m, a, n)
      PROVE  LedgersInv'
  <2>1. a \in ClaimAssets /\ n \in Int
    BY <1>4, ClaimAmountsNat DEF DepositClaim
  <2>2. CloseClaimTransfer(m, a, vault[<<m, a>>] + n, ClaimLiability(m, a) + n, o, n)
    BY <1>4 DEF DepositClaim
  <2>3. QED
    BY <1>1, <2>1, <2>2, LedgersClaimTransfer
<1>5. ASSUME NEW o \in Owners, NEW m \in Markets, NEW a \in Assets, NEW n \in ClaimAmounts,
             WithdrawClaim(o, m, a, n)
      PROVE  LedgersInv'
  <2>1. a \in ClaimAssets /\ -n \in Int
    BY <1>5, ClaimAmountsNat DEF WithdrawClaim
  <2>2. CloseClaimTransfer(m, a, vault[<<m, a>>] - n, ClaimLiability(m, a) - n, o, -n)
    BY <1>5 DEF WithdrawClaim
  <2>3. QED
    BY <1>1, <2>1, <2>2, LedgersClaimTransfer
<1>6. ASSUME NEW o \in Owners, NEW m \in Markets, NEW c \in Collaterals,
             NEW yes \in ClaimAmounts \cup {0}, NEW no \in ClaimAmounts \cup {0},
             Redeem(o, m, c, yes, no)
      PROVE  LedgersInv'
  <2>1. yes \in Nat /\ no \in Nat
    BY ClaimAmountsNat
  <2>2. QED
    BY <1>1, <1>6, <2>1, LedgersRedeem
<1>7. QED
  BY <1>1, <1>2, <1>3, <1>4, <1>5, <1>6, LedgersSplitMerge, LedgersTransferCredit,
     LedgersClaimFees, LedgersBurnOutside DEF PositionNext

LEMMA LedgersInvStep == LedgersInv /\ [Next]_vars => LedgersInv'
<1> SUFFICES ASSUME LedgersInv, [Next]_vars PROVE LedgersInv'
  OBVIOUS
<1>1. CASE ListingNext /\ UNCHANGED custodyVars
  BY <1>1, LedgersListing
<1>2. CASE PositionNext /\ UNCHANGED <<configVars, marketVars>>
  BY <1>2, LedgersPosition
<1>3. CASE UNCHANGED vars
  BY <1>3, LedgersListing DEF vars, ListingVars
<1>4. QED
  BY <1>1, <1>2, <1>3 DEF Next

(* For any number of mints, markets, legs and owners, what every pool owes *)
(* is what its owners' credits and the markets sharing it hold, every      *)
(* market's credit total is the sum of its wallets, and the backing of a   *)
(* leg is worth exactly its outstanding claims unless some were burned     *)
(* outside (pool::conserved, the handlers of custody.rs, redemption).      *)
THEOREM LedgersStayExact == Spec => []LedgersExact
<1>1. LedgersInv => LedgersExact
  BY DEF LedgersInv
<1>2. QED
  BY <1>1, LedgersInvInit, LedgersInvStep, PTL DEF Spec
=============================================================================
