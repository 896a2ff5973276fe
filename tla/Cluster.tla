------------------------------ MODULE Cluster ------------------------------
(***************************************************************************)
(* The Solana cluster as its clients use it: a transaction is signed for a *)
(* window of blocks, lands in at most one block of that window once it has *)
(* been submitted, and can be looked up afterwards.  Not code of this      *)
(* repository.                                                             *)
(***************************************************************************)
EXTENDS Integers, Sequences

CONSTANTS
    MaxHeight,   \* bound: the last block
    Validity,    \* blocks a signed transaction stays valid for
    FinalLag,    \* blocks between confirmation and finality
    MaxTxs       \* bound: transactions signed

ASSUME ClusterAssumption == MaxHeight \in Nat /\ Validity \in Nat /\ FinalLag \in Nat /\ MaxTxs \in Nat

VARIABLES
    height,   \* the last confirmed block
    txs       \* every transaction signed, in order: see Signed

cluster == <<height, txs>>

Signed(body) ==
    [body |-> body, valid |-> height + Validity, sent |-> FALSE, slot |-> 0, ok |-> FALSE]

\* The last finalized block.
Final == IF height > FinalLag THEN height - FinalLag ELSE 0

ClusterInit == height = 1 /\ txs = <<>>

\* Room to sign one more and to see it expire.
CanSign == Len(txs) < MaxTxs /\ height + Validity + FinalLag < MaxHeight

Submitted(i) == txs' = [txs EXCEPT ![i].sent = TRUE]

Landed(i, s) == txs[i].slot \in 1..s

\* What has been executed by block s.
Executed(s) == {i \in DOMAIN txs : Landed(i, s) /\ txs[i].ok}

Block(i, ok) ==
    /\ height < MaxHeight
    /\ txs[i].sent /\ txs[i].slot = 0 /\ height < txs[i].valid
    /\ height' = height + 1
    /\ txs' = [txs EXCEPT ![i].slot = height + 1, ![i].ok = ok]

EmptyBlock ==
    /\ height < MaxHeight
    /\ height' = height + 1
    /\ UNCHANGED txs
=============================================================================
