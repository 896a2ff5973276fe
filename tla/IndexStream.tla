---------------------------- MODULE IndexStream ----------------------------
(***************************************************************************)
(* The indexer towards one browser: the confirmed and the finalized view   *)
(* it reads from, the SSE connection of stream.ts that tells what has      *)
(* changed, and the wallet image of wallet-index.ts.  One store of the     *)
(* browser is followed, and the slots that change what it shows.           *)
(***************************************************************************)
EXTENDS Integers, Sequences

CONSTANTS
    EndSlot,   \* bound: the last slot
    MaxWire,   \* frames that may be under way on the connection
    Stores,    \* of "wallet-orders", "payout-credits" and "positions"
    MaxMishaps    \* bound: outages, connections that break, reads and frames that fail

ASSUME StreamAssumption == EndSlot \in Nat /\ MaxWire \in Nat \ {0}
                            /\ Stores \subseteq {"wallet-orders", "payout-credits", "positions"}

VARIABLES
    views,    \* the live index: up, its confirmed and its finalized slot
    store,    \* the store that is followed
    touched,  \* the slots of the chain that change what it shows
    conn,     \* the server side of the connection; written: it has told of the image
    wire,     \* frames under way
    image,    \* the wallet image: the slot it is of, and that of the read in flight
    mishaps,
    \* Not of the code: what the properties excuse.
    noticed,  \* what the connection wrote last, if anything, told of an outage
    doubt     \* a slot: of changes up to it the store may not have been told in time

streamVars == <<views, store, touched, conn, wire, image, mishaps, noticed, doubt>>

Never == -1
NoUpdate == [slot |-> Never, hit |-> FALSE]
Closed == [open |-> FALSE, pending |-> NoUpdate, reset |-> TRUE, written |-> FALSE]

Mishap == mishaps < MaxMishaps /\ mishaps' = mishaps + 1

Later(slot, other) == IF slot < other THEN other ELSE slot

\* Positions come with the frames, and need not be told of.
Doubted(slot) == doubt' = IF store = "positions" THEN doubt ELSE Later(doubt, slot)

-----------------------------------------------------------------------------
\* Slip: only the latest update is kept for a slow client.
MergedLatest(pending, update) == update

\* Updates that a client has not taken yet are coalesced into one.
Merged(pending, update) ==
    [slot |-> update.slot, hit |-> pending.hit \/ update.hit]

\* onCommit() publishes a confirmed slot to every connection.
Publish(update) == conn' = IF conn.open THEN [conn EXCEPT !.pending = Merged(@, update)] ELSE conn

\* A confirmed slot; after the index started over, perhaps one that was seen before.
CommitSlot ==
    /\ views.up /\ views.head < EndSlot
    /\ views' = [views EXCEPT !.head = @ + 1]
    /\ Publish([slot |-> views.head + 1, hit |-> views.head + 1 \in touched])
    /\ UNCHANGED <<store, touched, wire, image, mishaps, noticed, doubt>>

FinalizeSlot ==
    /\ views.up /\ views.final < views.head
    /\ views' = [views EXCEPT !.final = @ + 1]
    /\ UNCHANGED <<store, touched, conn, wire, image, mishaps, noticed, doubt>>

\* The live index loses its stream, or cannot commit ...
Outage ==
    /\ views.up /\ Mishap
    /\ views' = [views EXCEPT !.up = FALSE]
    /\ UNCHANGED <<store, touched, conn, wire, image, noticed, doubt>>

\* ... and starts over on the finalized state, which may be behind what it has shown
\* or ahead of it, and publishes nothing of what lies between.  A connection that has
\* written nothing meanwhile goes on as if nothing had happened, and what was under way
\* is of before.
Recover ==
    /\ ~views.up
    /\ \E base \in views.final..EndSlot :
        /\ views' = [up |-> TRUE, head |-> base, final |-> base]
        /\ IF conn.open /\ (~noticed \/ \E i \in DOMAIN wire : wire[i].kind = "index")
           THEN Doubted(Later(views.head, base)) ELSE UNCHANGED doubt
    /\ UNCHANGED <<store, touched, conn, wire, image, mishaps, noticed>>

-----------------------------------------------------------------------------
\* read() of the wallet index, when a slot is final and every ten seconds, one at a time
\* for an owner: its image is of the finalized slot at which it began.
ReadWallet ==
    /\ store = "positions"
    /\ image.reading = Never
    /\ image' = [image EXCEPT !.reading = views.final]
    /\ UNCHANGED <<views, store, touched, conn, wire, mishaps, noticed, doubt>>

-----------------------------------------------------------------------------
\* GET /stream, of a page that shows the store.
OpenStream ==
    /\ ~conn.open /\ store \in Stores
    /\ conn' = [conn EXCEPT !.open = TRUE, !.pending = NoUpdate, !.reset = TRUE, !.written = FALSE]
    /\ wire' = <<>>
    /\ noticed' = TRUE
    /\ UNCHANGED <<views, store, touched, image, mishaps, doubt>>

\* Slip: a frame after an outage is an ordinary one.
ResetForgotten == conn.reset

\* What the frame after an outage is: a reset.
ResetAfterOutage == TRUE

\* The loop of a connection writes a frame, at once when there is an update and every
\* 15 seconds otherwise; the write waits for a slow client.
WriteFrame ==
    /\ conn.open /\ Len(wire) < MaxWire
    /\ IF views.up
       THEN LET update == IF conn.pending = NoUpdate THEN [slot |-> views.head, hit |-> FALSE]
                          ELSE conn.pending
                wallet == IF ~conn.written THEN image.slot ELSE Never
            IN  /\ wire' = Append(wire, [kind |-> IF conn.reset THEN "reset" ELSE "index",
                                         update |-> update, wallet |-> wallet])
                /\ conn' = [conn EXCEPT !.pending = NoUpdate, !.reset = FALSE,
                                        !.written = @ \/ image.slot # Never]
       ELSE /\ wire' = Append(wire, [kind |-> "unavailable", update |-> NoUpdate, wallet |-> Never])
            /\ conn' = [conn EXCEPT !.reset = ResetAfterOutage]
    /\ noticed' = ~views.up
    /\ UNCHANGED <<views, store, touched, image, mishaps, doubt>>

StreamInit ==
    /\ views = [up |-> TRUE, head |-> 0, final |-> 0]
    /\ store \in Stores
    /\ touched \in SUBSET (1..EndSlot)
    /\ conn = Closed
    /\ wire = <<>>
    /\ image = [slot |-> Never, reading |-> Never]
    /\ mishaps = 0 /\ noticed = TRUE /\ doubt = Never
=============================================================================
