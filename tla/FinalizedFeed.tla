--------------------------- MODULE FinalizedFeed ---------------------------
(***************************************************************************)
(* What the live index promises the readers of its finalized view: they    *)
(* see the program's accounts exactly as they are at some finalized slot,  *)
(* that slot moves forward except when the index starts over, and every    *)
(* transaction of the finalized slots passed on the way is reported once.  *)
(***************************************************************************)
EXTENDS Chain, SequencesExt

VARIABLES
    slot,        \* the finalized slot readers are at
    accounts,    \* what they see of the program's accounts
    reported     \* [slot |-> times its transaction was reported final] since the start

feed == <<slot, accounts, reported>>

SeenAt(s) == [a \in Program |-> ContentAt(a, s)]

Passed(from, to) == {s \in ChainOf(to) : s > from /\ HasTransaction(s)}

FeedInit ==
    /\ ChainInit
    /\ slot = 0
    /\ accounts = SeenAt(0)
    /\ reported = [s \in 1..MaxSlot |-> 0]

Advance(s) ==
    /\ s \in ChainOf(root)
    /\ s > slot
    /\ slot' = s
    /\ accounts' = SeenAt(s)
    /\ reported' = [x \in 1..MaxSlot |->
                        reported[x] + IF x \in Passed(slot, s) THEN 1 ELSE 0]
    /\ UNCHANGED chain

\* The index starts over from the state of a finalized slot.
StartOver(s) ==
    /\ s \in ChainOf(root)
    /\ slot' = s
    /\ accounts' = SeenAt(s)
    /\ reported' = [x \in 1..MaxSlot |-> 0]
    /\ UNCHANGED chain

\* The chain moves under the feed: blocks and confirmations are only added, and the
\* finalized slot only moves to a descendant.
ChainStep ==
    /\ IsPrefix(blocks, blocks')
    /\ confirmed \subseteq confirmed'
    /\ root \in ChainOf(root)'
    /\ mode' = mode
    /\ UNCHANGED feed

FeedNext == ChainStep \/ \E s \in 0..MaxSlot : Advance(s) \/ StartOver(s)

FeedSpec == FeedInit /\ [][FeedNext]_<<chain, feed>>
=============================================================================
