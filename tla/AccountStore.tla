---------------------------- MODULE AccountStore ----------------------------
(***************************************************************************)
(* The commitment-aware account store of the live index                    *)
(* (services/solana-indexer/src/live/accounts.ts).  A store is a value:    *)
(* each operator maps a store to the one its method leaves behind.         *)
(***************************************************************************)
EXTENDS Chain

NoUpdates == [a \in Addresses |-> None]

\* A version is newer by slot, then by write version; anything is newer than nothing.
Newer(a, b) ==
    \/ b = None
    \/ a.slot > b.slot
    \/ a.slot = b.slot /\ a.write > b.write

\* The newest of what a map holds and the versions that are offered to it in turn.
Newest(old, offered) ==
    LET better == {v \in offered : Newer(v, old)}
    IN  IF better = {} THEN old
        ELSE CHOOSE v \in better : \A w \in better : ~Newer(w, v)

\* A view after the updates of some slots have been folded into it.
Fold(view, updates, slots) ==
    [a \in Addresses |->
        Newest(view[a], {updates[s][a] : s \in slots} \ {None})]

\* What a reader of a view sees at an address.
Get(view, a) == IF view[a] = None THEN Closed ELSE view[a].content

-----------------------------------------------------------------------------
\* A fresh image at a slot; everything staged, pending or known of parents goes.
Bootstrapped(slot, image) ==
    [finalizedSlot |-> slot, confirmedSlot |-> slot,
     finalized |-> image, confirmed |-> image,
     staged |-> <<>>, pending |-> <<>>, parents |-> <<>>]

\* An update waits for its slot to be confirmed; what is already final is ignored.
Account(st, a, version) ==
    LET s     == version.slot
        held  == IF s \in DOMAIN st.staged THEN st.staged[s] ELSE NoUpdates
        slots == DOMAIN st.staged \cup {s}
    IN  IF s <= st.finalizedSlot THEN st
        ELSE [st EXCEPT !.staged =
                [x \in slots |->
                    IF x = s THEN [held EXCEPT ![a] = Newest(@, {version})]
                    ELSE st.staged[x]]]

\* The value read for an account that has just become tracked goes in both views.
Seed(st, a, version) ==
    [st EXCEPT !.finalized[a] = Newest(@, {version}),
               !.confirmed[a] = Newest(@, {version})]

Parent(st, s, p) ==
    [st EXCEPT !.parents = [x \in DOMAIN @ \cup {s} |-> IF x = s THEN p ELSE @[x]]]

\* Every staged slot up to the confirmed one moves to the confirmed view.
Confirm(st, s) ==
    LET moved == {x \in DOMAIN st.staged : x <= s}
        Held(x) == IF x \in DOMAIN st.pending THEN st.pending[x] ELSE NoUpdates
    IN  [st EXCEPT
            !.staged = [x \in DOMAIN @ \ moved |-> @[x]],
            !.pending = [x \in DOMAIN @ \cup moved |->
                            IF x \in moved THEN Fold(Held(x), st.staged, {x}) ELSE @[x]],
            !.confirmed = Fold(@, st.staged, moved),
            !.confirmedSlot = IF s > @ THEN s ELSE @]

\* The walk down the recorded parents: the slots met, and whether it got to the
\* slot that was final before.
Ancestry(st, s) ==
    LET walk[x \in Slots] ==
            IF x \notin DOMAIN st.parents THEN [chain |-> {x}, known |-> FALSE]
            ELSE IF st.parents[x] <= st.finalizedSlot
            THEN [chain |-> {x}, known |-> TRUE]
            ELSE [walk[st.parents[x]] EXCEPT !.chain = @ \cup {x}]
    IN  walk[s]

\* Only a complete walk tells which confirmed slots were abandoned.
OnChain(ancestry, s) == ~ancestry.known \/ s \in ancestry.chain

Rebuilt(st) ==
    [st EXCEPT !.confirmed = Fold(st.finalized, st.pending, DOMAIN st.pending)]

\* A slot's confirmed ancestors are folded into the finalized view, the slots of
\* forks it abandons are dropped, and the confirmed view is then rebuilt.
Finalize(st, s) ==
    LET ready    == IF st.staged = <<>> THEN st ELSE Confirm(st, s)
        ancestry == Ancestry(st, s)
        done     == {x \in DOMAIN ready.pending : x <= s}
        kept     == {x \in done : OnChain(ancestry, x)}
        folded   == [ready EXCEPT
                        !.finalized = Fold(@, ready.pending, kept),
                        !.pending = [x \in DOMAIN @ \ done |-> @[x]],
                        !.parents = [x \in {y \in DOMAIN @ : y > s} |-> @[x]],
                        !.finalizedSlot = s,
                        !.confirmedSlot = IF @ < s THEN s ELSE @]
    IN  IF s <= st.finalizedSlot THEN st
        ELSE IF kept = done THEN folded ELSE Rebuilt(folded)

\* A slot that will never be confirmed or finalized.
Dead(st, s) ==
    LET left == [st EXCEPT !.staged  = [x \in DOMAIN @ \ {s} |-> @[x]],
                           !.pending = [x \in DOMAIN @ \ {s} |-> @[x]]]
    IN  IF s \in DOMAIN st.pending THEN Rebuilt(left) ELSE left
=============================================================================
