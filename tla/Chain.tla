------------------------------- MODULE Chain -------------------------------
(***************************************************************************)
(* The stretch of chain an indexer follows, as its clients use it: blocks  *)
(* with a parent and the accounts they write, the slots that have been     *)
(* confirmed, and the last finalized slot.  Not code of this repository.   *)
(***************************************************************************)
EXTENDS Integers, Sequences, FiniteSets

CONSTANTS
    Addresses,   \* accounts the stream carries
    MaxSlot,     \* last slot of the modelled stretch of chain
    Closed,      \* what a reader sees of an absent or closed account
    None,        \* an absent entry, slot or stream
    Market,      \* a market account
    Order,       \* an order of that market: projected only when the market is
    Mint,        \* an issuer mint that the market lists
    Modes        \* what may go wrong: see Init

ASSUME MaxSlotAssumption == MaxSlot \in Nat

Slots == 1..MaxSlot

VARIABLES blocks, confirmed, root, mode

chain == <<blocks, confirmed, root, mode>>

Program == {Market, Order}

\* The content of an account at the chain that ends in slot s.
ContentAt(a, s) ==
    LET at[x \in 0..MaxSlot] ==
            IF x = 0 THEN IF a = Mint THEN 0 ELSE Closed
            ELSE IF a \in blocks[x].touched
            THEN IF a \in blocks[x].closes THEN Closed ELSE x
            ELSE at[blocks[x].parent]
    IN  at[s]

\* The slots of the chain that ends in slot s, slot 0 included.
ChainOf(s) ==
    LET of[x \in 0..MaxSlot] == IF x = 0 THEN {0} ELSE {x} \cup of[blocks[x].parent]
    IN  of[s]

\* A block has a transaction of the program that the stream carries (a relay
\* carries accounts and slots only).
HasTransaction(s) == mode # "relay" /\ blocks[s].touched \cap Program # {}

HighestConfirmed == CHOOSE s \in confirmed : \A x \in confirmed : x <= s

-----------------------------------------------------------------------------
\* "linear": one confirmed chain, while streams break and no parent is reported;
\* "relay": the same, with parents, read from the loopback relay;
\* "rollback": confirmed slots may be abandoned, on a stream that reports everything.
ChainInit ==
    /\ blocks = <<>>
    /\ confirmed = {0}
    /\ root = 0
    /\ mode \in Modes

\* Blocks appear in slot order on top of any block that can still be final.
Produce(parent, touched, closes) ==
    /\ Cardinality(DOMAIN blocks) < MaxSlot
    /\ root \in ChainOf(parent)
    /\ Order \in touched => Market \in touched \/ ContentAt(Market, parent) # Closed
    /\ Order \in closes => ContentAt(Order, parent) # Closed
    /\ blocks' = Append(blocks, [parent |-> parent, touched |-> touched, closes |-> closes])
    /\ UNCHANGED <<confirmed, root, mode>>

ConfirmBlock(s) ==
    /\ s \in DOMAIN blocks \ confirmed
    /\ blocks[s].parent \in confirmed
    /\ root \in ChainOf(s)
    /\ mode # "rollback" => blocks[s].parent = HighestConfirmed
    /\ confirmed' = confirmed \cup {s}
    /\ UNCHANGED <<blocks, root, mode>>

FinalizeBlock(s) ==
    /\ s \in confirmed
    /\ s > root
    /\ root \in ChainOf(s)
    /\ root' = s
    /\ UNCHANGED <<blocks, confirmed, mode>>

\* A block the finalized chain has left behind.
Abandoned(s) == s \in DOMAIN blocks /\ root \notin ChainOf(s) /\ s \notin ChainOf(root)
=============================================================================
