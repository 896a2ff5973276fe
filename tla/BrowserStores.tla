--------------------------- MODULE BrowserStores ---------------------------
(***************************************************************************)
(* A resource store of the browser (createResourceStore, fetchResource,    *)
(* useResource) under the index stream (IndexStreamProvider): frames tell  *)
(* what to read again over HTTP, and label the rest as current.            *)
(***************************************************************************)
EXTENDS IndexStream

VARIABLES
    entry,   \* the slot its data is of, the slot it is labelled with, and whether it is in error
    read,    \* its HTTP read
    health   \* of the stream, as the browser sees it, and the slot of the last frame

storeVars == <<entry, read, health>>
browserVars == <<streamVars, storeVars>>

\* at: "none", "sent", "joined" (a read of the wallet index), "answered" or "failed";
\* void: the entry was written since.
NoRead == [at |-> "none", slot |-> Never, void |-> FALSE]
Sent == [NoRead EXCEPT !.at = "sent"]

Pending == read.at # "none"

\* The loading flag: a read is pending, and nothing was written since it was sent.
Loading == Pending /\ ~read.void

-----------------------------------------------------------------------------
\* setData(): what was observed at a slot.
Data(slot) == [slot |-> slot, label |-> slot, error |-> FALSE]

\* fetchResource(): a pending read is shared, whoever asks.
Refreshed == IF Pending THEN read ELSE Sent

\* A reset invalidates the store; so does an update of what it shows, but positions
\* come with the frame.
Invalidated(frame) ==
    \/ frame.kind = "reset"
    \/ frame.update.hit /\ store \in {"wallet-orders", "payout-credits"}

\* What a frame leaves alone is as current as the frame.
Patched(slot) ==
    IF store # "positions" /\ entry.slot # Never /\ ~entry.error /\ ~Loading
    THEN [entry EXCEPT !.label = slot] ELSE entry

\* An invalidation shares a pending read, even one that was answered before the change.
TakenFrame(frame) ==
    /\ health' = [slot |-> frame.update.slot, ok |-> TRUE]
    /\ \/ /\ frame.wallet # Never
          /\ entry' = Data(frame.wallet)
          /\ read' = [read EXCEPT !.void = Pending]
          /\ UNCHANGED doubt
       \/ /\ frame.wallet = Never /\ Invalidated(frame)
          /\ read' = Refreshed
          /\ IF read.at = "answered"
             THEN Doubted(IF frame.kind = "reset" THEN views.head ELSE frame.update.slot)
             ELSE UNCHANGED doubt
          /\ UNCHANGED entry
       \/ /\ frame.wallet = Never /\ ~Invalidated(frame)
          /\ entry' = Patched(frame.update.slot)
          /\ UNCHANGED <<read, doubt>>

Unhealthy == health' = [health EXCEPT !.ok = FALSE] /\ UNCHANGED <<entry, read>>

\* What a refused frame invalidates is read again with the fallback only.
RefusedFrame(frame) ==
    /\ Unhealthy
    /\ IF frame.update.hit THEN Doubted(frame.update.slot) ELSE UNCHANGED doubt

\* A frame arrives: it is taken, or refused as a step back.
Receive ==
    /\ wire # <<>>
    /\ wire' = Tail(wire)
    /\ LET frame == Head(wire)
           refused == \/ frame.kind = "unavailable"
                      \/ frame.update.slot < health.slot /\ frame.kind # "reset"
       IN  IF refused THEN RefusedFrame(frame) ELSE TakenFrame(frame)
    /\ UNCHANGED <<views, store, touched, conn, image, mishaps, noticed>>

\* The connection breaks, with what is under way; the browser opens another.
Break ==
    /\ conn.open /\ Mishap
    /\ conn' = Closed
    /\ wire' = <<>>
    /\ Unhealthy
    /\ UNCHANGED <<views, store, touched, image, noticed, doubt>>

\* Ten seconds without a frame.
Lapse ==
    /\ health.ok
    /\ Unhealthy
    /\ UNCHANGED streamVars

\* The fallback: without a healthy stream the watchdog and the poll read, and the
\* poll does after an error and when there is no data.
Poll ==
    /\ ~Pending
    /\ ~health.ok \/ entry.error \/ entry.slot = Never
    /\ read' = Refreshed
    /\ UNCHANGED <<streamVars, entry, health>>

-----------------------------------------------------------------------------
Answered(slot) == read' = [read EXCEPT !.at = "answered", !.slot = slot]

\* Orders are served from the confirmed view, payouts from the finalized one, positions
\* from a wallet image of the finalized one.
ViewOfStore == IF store = "wallet-orders" THEN views.head ELSE views.final
ImageNow == store = "positions" => image.slot = views.final

\* The indexer answers, at once or when it has read the wallet.  The frames tell of
\* payouts that are confirmed, and an answer lacks those that are not yet final.
Serve ==
    /\ read.at = "sent"
    /\ \/ /\ ~views.up
          /\ read' = [read EXCEPT !.at = "failed"] /\ UNCHANGED <<image, mishaps, doubt>>
       \/ /\ Mishap
          /\ read' = [read EXCEPT !.at = "failed"] /\ UNCHANGED <<image, doubt>>
       \/ /\ views.up /\ ImageNow
          /\ Answered(ViewOfStore)
          /\ IF store = "payout-credits" THEN Doubted(views.head) ELSE UNCHANGED doubt
          /\ UNCHANGED <<image, mishaps>>
       \/ /\ views.up /\ ~ImageNow
          /\ read' = [read EXCEPT !.at = "joined"]
          /\ image' = IF image.reading = Never THEN [image EXCEPT !.reading = views.final] ELSE image
          /\ UNCHANGED <<mishaps, doubt>>
    /\ UNCHANGED <<views, store, touched, conn, wire, entry, health, noticed>>

\* The wallet index has its image, as new as if none had been written, and answers those
\* who wait for it.
WalletRead ==
    /\ image.reading # Never
    /\ image' = [slot |-> image.reading, reading |-> Never]
    /\ conn' = [conn EXCEPT !.written = FALSE]
    /\ IF read.at = "joined" THEN Answered(image.reading) ELSE UNCHANGED read
    /\ UNCHANGED <<views, store, touched, wire, entry, health, mishaps, noticed, doubt>>

\* An answer counts only if the entry was not written since the request.
Stored(r) == ~r.void

ReadReturns ==
    /\ read.at \in {"answered", "failed"}
    /\ entry' = IF ~Stored(read) THEN entry
                ELSE IF read.at = "answered" THEN Data(read.slot)
                ELSE [entry EXCEPT !.error = TRUE]
    /\ read' = NoRead
    /\ UNCHANGED <<streamVars, health>>

\* The store is mounted, and its first read is on its way.
StoresInit ==
    /\ entry = [slot |-> Never, label |-> Never, error |-> FALSE]
    /\ read = Sent
    /\ health = [slot |-> Never, ok |-> FALSE]

Indexes ==
    /\ CommitSlot \/ FinalizeSlot \/ Outage \/ Recover \/ ReadWallet \/ OpenStream \/ WriteFrame
    /\ UNCHANGED storeVars

BrowserInit == StreamInit /\ StoresInit

BrowserNext ==
    \/ Indexes
    \/ Receive \/ Break \/ Lapse \/ Poll \/ Serve \/ WalletRead \/ ReadReturns

\* Both sides go on, and a frame arrives between two reads of the poll; nothing makes
\* the chain grow, or makes anything fail.
BrowserFairness ==
    /\ WF_browserVars(Recover /\ UNCHANGED storeVars)
    /\ WF_browserVars(ReadWallet /\ UNCHANGED storeVars) /\ WF_browserVars(WalletRead)
    /\ WF_browserVars(OpenStream /\ UNCHANGED storeVars)
    /\ WF_browserVars(WriteFrame /\ UNCHANGED storeVars)
    /\ SF_browserVars(Receive)
    /\ WF_browserVars(Poll) /\ WF_browserVars(Serve) /\ WF_browserVars(ReadReturns)

BrowserSpec == BrowserInit /\ [][BrowserNext]_browserVars /\ BrowserFairness

-----------------------------------------------------------------------------
\* Slots that changed what the store shows, after one slot and up to another.
Missed(from, to) == {s \in touched : from < s /\ s <= to}

\* What is shown without an error is never labelled as of a slot whose change it lacks:
\* coalesced frames, resets and late reads lose no invalidation between a commit and the
\* store.  Excused are changes up to a slot of which the store was not told in time: an
\* outage that the connection did not notice, or that found frames under way; a frame
\* that overtook the answer of the read it was to invalidate; a frame refused as a step
\* back; and payouts that were not final when they were read.
NotRelabelled ==
    entry.slot # Never /\ ~entry.error /\ ~Loading =>
        Missed(Later(entry.slot, doubt), entry.label) = {}

\* Once the chain is quiet, the store shows all that has changed, with the same excuse:
\* an outage that the connection did notice brings everything that it hid.
StoresCatchUp ==
    <>[](Missed(Later(entry.slot, doubt), ViewOfStore) = {})

\* docs/runbooks/read-reliability.md:10: "No stale price or balance becomes usable by
\* relabeling it as fresh", without an excuse.
NeverRelabelled ==
    entry.slot # Never /\ ~entry.error /\ ~Loading => Missed(entry.slot, entry.label) = {}
=============================================================================
