----------------------------- MODULE EdgeProofs -----------------------------
(***************************************************************************)
(* Proofs about the edge of the system, for any sets of tabs and accounts  *)
(* and any lengths of queues and wires: what the wallet sends is what the  *)
(* account it is of reviewed, the book of the Polymarket ingestor is one   *)
(* that the venue had, and what the stores of a browser show is not        *)
(* relabelled past a change.                                               *)
(***************************************************************************)
EXTENDS BrowserStores, PolymarketFeed, WalletController, TLAPS

-----------------------------------------------------------------------------
(* The stores of a browser.                                                *)

\* Frames that tell of a change at a slot: a reset tells of every change.
Covers(frame, t) ==
    frame.kind = "reset" \/ (frame.kind = "index" /\ frame.update.hit /\ t <= frame.update.slot)

\* T are the slots that change the store, and those up to from are known or excused.  A
\* frame that would label the data as of a later slot than one of T has behind it, or is
\* itself, one that tells of it; and so will the next to be written.
Followed(T, from, frames, c, head) ==
    /\ \A i \in DOMAIN frames : frames[i].kind = "index" =>
         \A t \in T : from < t /\ t <= frames[i].update.slot =>
           \E j \in DOMAIN frames : j <= i /\ Covers(frames[j], t)
    /\ c.open /\ ~c.reset =>
         \A t \in T : from < t /\ t <= head =>
           \/ c.pending.hit /\ t <= c.pending.slot
           \/ \E j \in DOMAIN frames : Covers(frames[j], t)

Updates == [slot : Int, hit : BOOLEAN]

Frames == [kind : {"index", "reset", "unavailable"}, update : Updates, wallet : {Never}]

Connections == [open : BOOLEAN, pending : Updates, reset : BOOLEAN, written : BOOLEAN]

\* The server side of a store that is told of changes: what has a later slot than the view
\* is of before an outage that raised the doubt, or will be a reset.
ServerInv(v, c, frames, n, d) ==
    /\ v \in [up : BOOLEAN, head : Int, final : Int]
    /\ c \in Connections
    /\ frames \in Seq(Frames)
    /\ ~c.open => frames = <<>> /\ c.pending = NoUpdate
    /\ c.open => n = c.reset
    /\ c.pending # NoUpdate /\ ~c.reset => c.pending.slot <= Later(v.head, d)
    /\ \A i \in DOMAIN frames : frames[i].kind = "index" => frames[i].update.slot <= Later(v.head, d)

Reads == [at : {"none", "sent", "answered", "failed"}, slot : Int, void : {FALSE}]
Entries == [slot : Int, label : Int, error : BOOLEAN]
Healths == [slot : Int, ok : BOOLEAN]

\* The store itself.
ClientInv(T, e, r, h, d, c, frames, head) ==
    /\ e \in Entries /\ r \in Reads /\ h \in Healths
    /\ r.at = "answered" => Followed(T, Later(r.slot, d), frames, c, head)
    /\ r.at = "none" /\ e.slot # Never /\ ~e.error =>
         /\ \A t \in T : ~(Later(e.slot, d) < t /\ t <= e.label)
         /\ Followed(T, Later(e.slot, d), frames, c, head)

(* A store that is read over HTTP and told of changes.                     *)
OrdersInv ==
    /\ store \in {"wallet-orders", "payout-credits"} /\ touched \in SUBSET Int /\ doubt \in Int
    /\ image = [slot |-> Never, reading |-> Never]
    /\ ServerInv(views, conn, wire, noticed, doubt)
    /\ ClientInv(touched, entry, read, health, doubt, conn, wire, views.head)

-----------------------------------------------------------------------------
LEMMA LaterFacts ==
    ASSUME NEW a \in Int, NEW b \in Int
    PROVE  /\ Later(a, b) \in Int /\ a <= Later(a, b) /\ b <= Later(a, b)
           /\ Later(a, b) = a \/ Later(a, b) = b
BY DEF Later

LEMMA TakenOff ==
    ASSUME NEW frames \in Seq(Frames), frames # <<>>
    PROVE  /\ Tail(frames) \in Seq(Frames) /\ 1 \in DOMAIN frames /\ Head(frames) = frames[1]
           /\ frames[1] \in Frames
           /\ \A i \in DOMAIN Tail(frames) :
                i + 1 \in DOMAIN frames /\ Tail(frames)[i] = frames[i + 1] /\ i \in Nat /\ i >= 1
           /\ \A i \in DOMAIN frames :
                i \in Nat /\ i >= 1 /\ (i # 1 => i - 1 \in DOMAIN Tail(frames) /\ Tail(frames)[i - 1] = frames[i])
OBVIOUS

LEMMA PutOn ==
    ASSUME NEW frames \in Seq(Frames), NEW f \in Frames
    PROVE  /\ Append(frames, f) \in Seq(Frames) /\ Len(frames) \in Nat
           /\ Append(frames, f)[Len(frames) + 1] = f
           /\ DOMAIN Append(frames, f) = DOMAIN frames \cup {Len(frames) + 1}
           /\ \A i \in DOMAIN frames :
                Append(frames, f)[i] = frames[i] /\ i \in Nat /\ i <= Len(frames) /\ i # Len(frames) + 1
OBVIOUS

\* More is known or excused.
LEMMA FollowedLater ==
    ASSUME NEW T \in SUBSET Int, NEW from \in Int, NEW more \in Int, from <= more,
           NEW frames, NEW c, NEW head, Followed(T, from, frames, c, head)
    PROVE  Followed(T, more, frames, c, head)
<1>1. \A t \in T : more < t => from < t
  OBVIOUS
<1>2. QED
  BY <1>1 DEF Followed

\* Nothing is under way and the next frame is a reset, or there is no connection.
LEMMA NothingUnderWay ==
    ASSUME NEW T, NEW from, NEW frames, NEW c, NEW head, ~c.open \/ c.reset,
           \A j \in DOMAIN frames : frames[j].kind # "index"
    PROVE  Followed(T, from, frames, c, head)
BY DEF Followed

\* Everything is known or excused.
LEMMA NothingLater ==
    ASSUME NEW T \in SUBSET Int, NEW from \in Int, NEW frames \in Seq(Frames), NEW c, NEW head \in Int,
           head <= from,
           \A j \in DOMAIN frames : frames[j].kind = "index" => frames[j].update.slot <= from
    PROVE  Followed(T, from, frames, c, head)
<1>1. \A t \in T : ~(from < t /\ t <= head)
  OBVIOUS
<1>2. ASSUME NEW j \in DOMAIN frames, frames[j].kind = "index", NEW t \in T, from < t, t <= frames[j].update.slot
      PROVE  FALSE
  <2>1. frames[j] \in Frames
    BY <1>2
  <2>2. frames[j].update.slot \in Int
    BY <2>1 DEF Frames, Updates
  <2>3. t \in Int
    BY <1>2
  <2>4. QED
    BY <1>2, <2>2, <2>3
<1>3. QED
  BY <1>1, <1>2 DEF Followed

\* A frame is taken that tells of nothing that is not known or excused.
LEMMA FollowedTaken ==
    ASSUME NEW T, NEW from, NEW frames \in Seq(Frames), NEW c, NEW head, frames # <<>>,
           \A t \in T : from < t => ~Covers(frames[1], t),
           Followed(T, from, frames, c, head)
    PROVE  Followed(T, from, Tail(frames), c, head)
<1> DEFINE rest == Tail(frames)
<1>1. /\ \A i \in DOMAIN rest : i + 1 \in DOMAIN frames /\ rest[i] = frames[i + 1] /\ i \in Nat
      /\ \A i \in DOMAIN frames : i \in Nat /\ (i # 1 => i - 1 \in DOMAIN rest /\ rest[i - 1] = frames[i])
  BY TakenOff
<1> HIDE DEF rest
<1>2. ASSUME NEW i \in DOMAIN rest, rest[i].kind = "index",
             NEW t \in T, from < t, t <= rest[i].update.slot
      PROVE  \E j \in DOMAIN rest : j <= i /\ Covers(rest[j], t)
  <2>1. i + 1 \in DOMAIN frames /\ rest[i] = frames[i + 1] /\ i \in Nat
    BY <1>1
  <2>2. PICK j \in DOMAIN frames : j <= i + 1 /\ Covers(frames[j], t)
    BY <1>2, <2>1 DEF Followed
  <2>3. j # 1
    BY <1>2, <2>2
  <2>4. j - 1 \in DOMAIN rest /\ rest[j - 1] = frames[j] /\ j - 1 <= i
    BY <1>1, <2>1, <2>2, <2>3
  <2>5. QED
    BY <2>2, <2>4
<1>3. ASSUME c.open, ~c.reset, NEW t \in T, from < t, t <= head
      PROVE  (c.pending.hit /\ t <= c.pending.slot) \/ \E j \in DOMAIN rest : Covers(rest[j], t)
  <2>1. (c.pending.hit /\ t <= c.pending.slot) \/ \E j \in DOMAIN frames : Covers(frames[j], t)
    BY <1>3 DEF Followed
  <2>2. ASSUME NEW j \in DOMAIN frames, Covers(frames[j], t)
        PROVE  \E k \in DOMAIN rest : Covers(rest[k], t)
    <3>1. j # 1
      BY <1>3, <2>2
    <3>2. j - 1 \in DOMAIN rest /\ rest[j - 1] = frames[j]
      BY <1>1, <3>1
    <3>3. QED
      BY <2>2, <3>2
  <2>3. QED
    BY <2>1, <2>2
<1>4. Followed(T, from, rest, c, head)
  BY <1>2, <1>3 DEF Followed
<1>5. QED
  BY <1>4 DEF rest

\* The connection writes a frame: what it says, and what comes after it.
Writes(c, f, c2, head, from) ==
    /\ f.kind = "index" => /\ c.open /\ ~c.reset
                           /\ f.update.slot <= head \/ f.update.slot <= from
                           /\ c.pending.hit => f.update = c.pending
    /\ f.kind = "unavailable" => c2.reset

LEMMA FollowedWritten ==
    ASSUME NEW T \in SUBSET Int, NEW from \in Int, NEW frames \in Seq(Frames), NEW c, NEW head \in Int,
           NEW f \in Frames, NEW c2, Writes(c, f, c2, head, from), Followed(T, from, frames, c, head)
    PROVE  Followed(T, from, Append(frames, f), c2, head)
<1> DEFINE more == Append(frames, f)
           last == Len(frames) + 1
<1>1. /\ DOMAIN more = DOMAIN frames \cup {last} /\ more[last] = f
      /\ \A i \in DOMAIN frames : more[i] = frames[i] /\ i <= last
      /\ last <= last
  BY PutOn
<1> HIDE DEF more, last
<1>2. ASSUME NEW t \in T, from < t, t <= head, f.kind = "index"
      PROVE  \E j \in DOMAIN more : j <= last /\ Covers(more[j], t)
  <2>1. c.open /\ ~c.reset /\ (c.pending.hit => f.update = c.pending)
    BY <1>2 DEF Writes
  <2>2. (c.pending.hit /\ t <= c.pending.slot) \/ \E j \in DOMAIN frames : Covers(frames[j], t)
    BY <1>2, <2>1 DEF Followed
  <2>3. CASE c.pending.hit /\ t <= c.pending.slot
    <3>1. Covers(f, t)
      BY <1>2, <2>1, <2>3 DEF Covers
    <3>2. QED
      BY <1>1, <3>1
  <2>4. CASE \E j \in DOMAIN frames : Covers(frames[j], t)
    BY <1>1, <2>4
  <2>5. QED
    BY <2>2, <2>3, <2>4
<1>3. ASSUME NEW i \in DOMAIN more, more[i].kind = "index",
             NEW t \in T, from < t, t <= more[i].update.slot
      PROVE  \E j \in DOMAIN more : j <= i /\ Covers(more[j], t)
  <2>1. CASE i \in DOMAIN frames
    <3>1. PICK j \in DOMAIN frames : j <= i /\ Covers(frames[j], t)
      BY <1>1, <1>3, <2>1 DEF Followed
    <3>2. QED
      BY <1>1, <3>1
  <2>2. CASE i = last
    <3>1. f.kind = "index" /\ t <= f.update.slot /\ f.update.slot \in Int
      BY <1>1, <1>3, <2>2 DEF Frames, Updates
    <3>2. f.update.slot <= head \/ f.update.slot <= from
      BY <3>1 DEF Writes
    <3>3. t <= head
      BY <1>3, <3>1, <3>2
    <3>4. QED
      BY <1>2, <1>3, <2>2, <3>1, <3>3
  <2>3. QED
    BY <1>1, <2>1, <2>2
<1>4. ASSUME c2.open, ~c2.reset, NEW t \in T, from < t, t <= head
      PROVE  \E j \in DOMAIN more : Covers(more[j], t)
  <2>1. f.kind # "unavailable"
    BY <1>4 DEF Writes
  <2>2. CASE f.kind = "reset"
    BY <1>1, <2>2 DEF Covers
  <2>3. CASE f.kind = "index"
    BY <1>2, <1>4, <2>3
  <2>4. QED
    BY <2>1, <2>2, <2>3 DEF Frames
<1>5. Followed(T, from, more, c2, head)
  BY <1>3, <1>4 DEF Followed
<1>6. QED
  BY <1>5 DEF more

\* A slot is confirmed and published.
LEMMA FollowedCommitted ==
    ASSUME NEW T \in SUBSET Int, NEW from, NEW frames, NEW c, NEW head \in Int, NEW c2,
           c2.open = c.open, c2.reset = c.reset,
           c2.open => (c.pending.hit \/ head + 1 \in T => c2.pending.hit) /\ c2.pending.slot = head + 1,
           Followed(T, from, frames, c, head)
    PROVE  Followed(T, from, frames, c2, head + 1)
<1>1. \A t \in T : t <= head + 1 => t <= head \/ t = head + 1
  OBVIOUS
<1> DEFINE next == head + 1
<1> HIDE DEF next
<1>2. \A t \in T : t <= next => t <= head \/ t = next
  BY <1>1 DEF next
<1>3. c2.open => (c.pending.hit \/ next \in T => c2.pending.hit) /\ c2.pending.slot = next
  BY DEF next
<1>4. Followed(T, from, frames, c2, next)
  BY <1>2, <1>3 DEF Followed
<1>5. QED
  BY <1>4 DEF next

\* The facts of OrdersInv.
LEMMA OrdersFacts ==
    ASSUME OrdersInv
    PROVE  /\ store \in {"wallet-orders", "payout-credits"} /\ touched \in SUBSET Int /\ doubt \in Int
           /\ image = [slot |-> Never, reading |-> Never]
           /\ ServerInv(views, conn, wire, noticed, doubt)
           /\ ClientInv(touched, entry, read, health, doubt, conn, wire, views.head)
BY DEF OrdersInv

LEMMA OrdersAgain ==
    ASSUME OrdersInv, UNCHANGED <<store, touched, image>>, doubt' \in Int,
           ServerInv(views', conn', wire', noticed', doubt'),
           ClientInv(touched, entry', read', health', doubt', conn', wire', views'.head)
    PROVE  OrdersInv'
BY DEF OrdersInv

LEMMA ServerFacts ==
    ASSUME NEW v, NEW c, NEW frames, NEW n, NEW d, ServerInv(v, c, frames, n, d)
    PROVE  /\ v \in [up : BOOLEAN, head : Int, final : Int] /\ v.head \in Int /\ v.final \in Int
           /\ c \in Connections /\ c.pending \in Updates
           /\ c.open \in BOOLEAN /\ c.reset \in BOOLEAN /\ c.written \in BOOLEAN
           /\ frames \in Seq(Frames) /\ \A i \in DOMAIN frames : frames[i] \in Frames /\ frames[i].update.slot \in Int
           /\ ~c.open => frames = <<>> /\ c.pending = NoUpdate
           /\ c.open => n = c.reset
<1>1. \A i \in DOMAIN frames : frames[i] \in Frames
  BY DEF ServerInv
<1>2. QED
  BY <1>1 DEF ServerInv, Frames, Updates, Connections

\* More is excused.
LEMMA ServerDoubts ==
    ASSUME NEW v, NEW c, NEW frames, NEW n, NEW d \in Int, NEW d2 \in Int, d <= d2,
           ServerInv(v, c, frames, n, d)
    PROVE  ServerInv(v, c, frames, n, d2)
<1> DEFINE u == Later(v.head, d)
           u2 == Later(v.head, d2)
<1>1. /\ v.head \in Int /\ c.pending \in Updates /\ \A i \in DOMAIN frames : frames[i].update.slot \in Int
  BY ServerFacts
<1>2. u \in Int /\ u2 \in Int /\ u <= u2
  BY <1>1 DEF Later
<1> HIDE DEF u, u2
<1>3. c.pending # NoUpdate /\ ~c.reset => c.pending.slot <= u2
  <2>1. c.pending # NoUpdate /\ ~c.reset => c.pending.slot <= u
    BY DEF ServerInv, u
  <2>2. QED
    BY <1>1, <1>2, <2>1 DEF Updates
<1>4. \A i \in DOMAIN frames : frames[i].kind = "index" => frames[i].update.slot <= u2
  <2>1. \A i \in DOMAIN frames : frames[i].kind = "index" => frames[i].update.slot <= u
    BY DEF ServerInv, u
  <2>2. QED
    BY <1>1, <1>2, <2>1
<1>5. QED
  BY <1>3, <1>4 DEF ServerInv, u2

\* The connection, what is under way and what is excused only change so that the same
\* holds of a slot at which data was read.
LEMMA ClientWatches ==
    ASSUME NEW T \in SUBSET Int, NEW e, NEW r, NEW h, NEW d \in Int, NEW c, NEW frames, NEW head,
           NEW d2 \in Int, d <= d2, NEW c2, NEW more, NEW head2,
           ClientInv(T, e, r, h, d, c, frames, head),
           \A from \in Int : d2 <= from /\ Followed(T, from, frames, c, head) =>
               Followed(T, from, more, c2, head2)
    PROVE  ClientInv(T, e, r, h, d2, c2, more, head2)
<1>1. e.slot \in Int /\ r.slot \in Int /\ e.label \in Int
  BY DEF ClientInv, Entries, Reads
<1>2. ASSUME NEW s \in Int, Followed(T, Later(s, d), frames, c, head)
      PROVE  Followed(T, Later(s, d2), more, c2, head2)
  <2> DEFINE from == Later(s, d)
             upto == Later(s, d2)
  <2>1. from \in Int /\ upto \in Int /\ from <= upto /\ d2 <= upto
    BY DEF Later
  <2>2. Followed(T, from, frames, c, head)
    BY <1>2
  <2> HIDE DEF from, upto
  <2>3. Followed(T, upto, frames, c, head)
    BY <2>1, <2>2, FollowedLater
  <2>4. Followed(T, upto, more, c2, head2)
    BY <2>1, <2>3
  <2>5. QED
    BY <2>4 DEF upto
<1>3. ASSUME \A t \in T : ~(Later(e.slot, d) < t /\ t <= e.label)
      PROVE  \A t \in T : ~(Later(e.slot, d2) < t /\ t <= e.label)
  <2> DEFINE from == Later(e.slot, d)
             upto == Later(e.slot, d2)
  <2>1. from \in Int /\ upto \in Int /\ from <= upto
    BY <1>1 DEF Later
  <2>2. \A t \in T : ~(from < t /\ t <= e.label)
    BY <1>3
  <2> HIDE DEF from, upto
  <2>3. \A t \in T : ~(upto < t /\ t <= e.label)
    BY <1>1, <2>1, <2>2
  <2>4. QED
    BY <2>3 DEF upto
<1>4. QED
  BY <1>1, <1>2, <1>3 DEF ClientInv

LEMMA DoubtRises ==
    ASSUME OrdersInv, NEW slot \in Int, Doubted(slot)
    PROVE  doubt' \in Int /\ doubt <= doubt' /\ slot <= doubt'
<1>1. doubt \in Int /\ doubt' = Later(doubt, slot)
  BY OrdersFacts DEF Doubted
<1>2. QED
  BY <1>1, LaterFacts

LEMMA CommitsOrders ==
    ASSUME OrdersInv, CommitSlot, UNCHANGED storeVars
    PROVE  OrdersInv'
<1> DEFINE next == views.head + 1
           update == [slot |-> next, hit |-> next \in touched]
<1>1. /\ views' = [views EXCEPT !.head = @ + 1]
      /\ conn' = IF conn.open THEN [conn EXCEPT !.pending = Merged(@, update)] ELSE conn
      /\ UNCHANGED <<store, touched, wire, image, entry, read, health, noticed, doubt>>
  BY DEF CommitSlot, Publish, storeVars
<1>2. ServerInv(views, conn, wire, noticed, doubt) /\ touched \in SUBSET Int /\ doubt \in Int
  BY OrdersFacts
<1>3. /\ views \in [up : BOOLEAN, head : Int, final : Int]
      /\ conn \in Connections
      /\ wire \in Seq(Frames) /\ \A i \in DOMAIN wire : wire[i].update.slot \in Int
      /\ ~conn.open => wire = <<>> /\ conn.pending = NoUpdate
      /\ conn.open => noticed = conn.reset
  BY <1>2, ServerFacts
<1>4. next \in Int /\ views.head \in Int
  BY <1>3
<1>5. views' \in [up : BOOLEAN, head : Int, final : Int] /\ views'.head = next
  BY <1>1, <1>3, <1>4
<1>6. Merged(conn.pending, update) = [slot |-> next, hit |-> conn.pending.hit \/ next \in touched]
  BY DEF Merged
<1>7. Merged(conn.pending, update) \in Updates
  <2>1. (conn.pending.hit \/ next \in touched) \in BOOLEAN
    OBVIOUS
  <2> HIDE DEF next, update
  <2>2. QED
    BY <1>4, <1>6, <2>1 DEF Updates
<1> HIDE DEF update
<1>8. /\ conn' \in Connections
      /\ conn'.open = conn.open /\ conn'.reset = conn.reset
      /\ conn.open => conn'.pending = Merged(conn.pending, update)
      /\ ~conn.open => conn' = conn
  BY <1>1, <1>3, <1>7 DEF Connections
<1>9. conn'.open => (conn.pending.hit \/ views.head + 1 \in touched => conn'.pending.hit)
                    /\ conn'.pending.slot = views.head + 1
  <2>1. ASSUME conn'.open
        PROVE  conn'.pending = [slot |-> next, hit |-> conn.pending.hit \/ next \in touched]
    BY <1>6, <1>8, <2>1
  <2>2. ASSUME conn'.open
        PROVE  conn'.pending.slot = next /\ conn'.pending.hit = (conn.pending.hit \/ next \in touched)
    BY <2>1, <2>2
  <2>3. QED
    BY <2>2
<1>10. \A from \in Int : Followed(touched, from, wire, conn, views.head) =>
         Followed(touched, from, wire, conn', views'.head)
  BY <1>2, <1>4, <1>5, <1>8, <1>9, FollowedCommitted
<1>11. doubt <= doubt
  BY <1>2
<1>12. ClientInv(touched, entry, read, health, doubt, conn', wire, views'.head)
  BY <1>2, <1>10, <1>11, OrdersFacts, ClientWatches
<1> DEFINE u == Later(views.head, doubt)
           u2 == Later(next, doubt)
<1>13. u \in Int /\ u2 \in Int /\ u <= u2 /\ next <= u2
  BY <1>2, <1>3 DEF Later
<1>14. \A i \in DOMAIN wire : wire[i].kind = "index" => wire[i].update.slot <= u
  BY <1>2 DEF ServerInv
<1>15. conn'.pending # NoUpdate => conn'.pending.slot = next
  BY <1>3, <1>8, <1>9
<1> HIDE DEF u, u2, next
<1>16. /\ \A i \in DOMAIN wire : wire[i].kind = "index" => wire[i].update.slot <= u2
       /\ conn'.pending # NoUpdate => conn'.pending.slot <= u2
  BY <1>3, <1>4, <1>13, <1>14, <1>15
<1>17. ServerInv(views', conn', wire, noticed, doubt)
  BY <1>3, <1>5, <1>8, <1>16 DEF ServerInv, u2
<1>18. QED
  BY <1>1, <1>2, <1>12, <1>17, OrdersAgain

\* The view changes, and not the head.
LEMMA HeadStays ==
    ASSUME OrdersInv, UNCHANGED <<store, touched, conn, wire, image, storeVars, noticed, doubt>>,
           views' \in [up : BOOLEAN, head : Int, final : Int], views'.head = views.head
    PROVE  OrdersInv'
<1>1. UNCHANGED <<entry, read, health>>
  BY DEF storeVars
<1>2. ServerInv(views', conn, wire, noticed, doubt)
  BY OrdersFacts DEF ServerInv
<1>3. ClientInv(touched, entry, read, health, doubt, conn, wire, views'.head) /\ doubt \in Int
  BY OrdersFacts
<1>4. QED
  BY <1>1, <1>2, <1>3, OrdersAgain

LEMMA HeadKept ==
    ASSUME OrdersInv, FinalizeSlot \/ Outage, UNCHANGED storeVars
    PROVE  OrdersInv'
<1>1. /\ views' = [views EXCEPT !.final = @ + 1] \/ views' = [views EXCEPT !.up = FALSE]
      /\ UNCHANGED <<store, touched, conn, wire, image, storeVars, noticed, doubt>>
  BY DEF FinalizeSlot, Outage
<1>2. views \in [up : BOOLEAN, head : Int, final : Int] /\ views.final + 1 \in Int
  BY OrdersFacts, ServerFacts
<1>3. views' \in [up : BOOLEAN, head : Int, final : Int] /\ views'.head = views.head
  BY <1>1, <1>2
<1>4. QED
  BY <1>1, <1>3, HeadStays

\* The index starts over, at another slot: what the connection has not noticed is excused.
LEMMA RecoveryOfOrders ==
    ASSUME OrdersInv, Recover, UNCHANGED storeVars
    PROVE  OrdersInv'
<1>1. UNCHANGED <<store, touched, conn, wire, image, entry, read, health, noticed>>
  BY DEF Recover, storeVars
<1>2. /\ ServerInv(views, conn, wire, noticed, doubt) /\ touched \in SUBSET Int /\ doubt \in Int
      /\ ClientInv(touched, entry, read, health, doubt, conn, wire, views.head)
  BY OrdersFacts
<1>3. /\ views.final \in Int /\ views.head \in Int /\ (~conn.open => wire = <<>> /\ conn.pending = NoUpdate)
      /\ wire \in Seq(Frames) /\ \A i \in DOMAIN wire : wire[i].update.slot \in Int
      /\ conn \in Connections /\ conn.pending \in Updates /\ (conn.open => noticed = conn.reset)
  BY <1>2, ServerFacts
<1> DEFINE unnoticed == conn.open /\ (~noticed \/ \E i \in DOMAIN wire : wire[i].kind = "index")
<1>4. PICK base \in views.final..EndSlot :
        /\ views' = [up |-> TRUE, head |-> base, final |-> base]
        /\ IF unnoticed THEN Doubted(Later(views.head, base)) ELSE UNCHANGED doubt
  BY DEF Recover
<1>5. base \in Int
  BY <1>3
<1>6. views' \in [up : BOOLEAN, head : Int, final : Int] /\ views'.head = base
  BY <1>4, <1>5
<1>7. CASE unnoticed
  <2> DEFINE u == Later(views.head, doubt)
             u2 == Later(base, doubt')
  <2>1. Later(views.head, base) \in Int /\ views.head <= Later(views.head, base) /\ base <= Later(views.head, base)
    BY <1>3, <1>5, LaterFacts
  <2>2. /\ doubt' \in Int /\ doubt <= doubt' /\ Later(views.head, base) <= doubt'
    BY <1>4, <1>7, <2>1, DoubtRises
  <2>3. /\ u \in Int /\ u <= doubt' /\ u2 \in Int /\ doubt' <= u2
    BY <1>2, <1>3, <1>5, <2>1, <2>2 DEF Later
  <2>4. /\ \A i \in DOMAIN wire : wire[i].kind = "index" => wire[i].update.slot <= u
        /\ conn.pending # NoUpdate /\ ~conn.reset => conn.pending.slot <= u
    BY <1>2 DEF ServerInv
  <2> HIDE DEF u, u2
  <2>5. conn.pending.slot \in Int
    BY <1>3 DEF Updates
  <2>6. /\ \A i \in DOMAIN wire : wire[i].kind = "index" => wire[i].update.slot <= u2
        /\ conn.pending # NoUpdate /\ ~conn.reset => conn.pending.slot <= u2
    BY <1>3, <2>2, <2>3, <2>4, <2>5
  <2>7. ServerInv(views', conn, wire, noticed, doubt')
    BY <1>3, <1>6, <2>6 DEF ServerInv, u2
  <2>8. ASSUME NEW from \in Int, doubt' <= from
        PROVE  Followed(touched, from, wire, conn, base)
    <3>1. base <= from
      BY <1>5, <2>1, <2>2, <2>8
    <3>2. \A j \in DOMAIN wire : wire[j].kind = "index" => wire[j].update.slot <= from
      BY <1>3, <2>2, <2>3, <2>4, <2>8
    <3>3. QED
      BY <1>2, <1>3, <1>5, <3>1, <3>2, NothingLater
  <2>9. ClientInv(touched, entry, read, health, doubt', conn, wire, base)
    BY <1>2, <2>2, <2>8, ClientWatches
  <2>10. QED
    BY <1>1, <1>6, <2>2, <2>7, <2>9, OrdersAgain
<1>8. CASE ~unnoticed
  <2>1. UNCHANGED doubt
    BY <1>4, <1>8
  <2>2. (~conn.open \/ conn.reset) /\ \A i \in DOMAIN wire : wire[i].kind # "index"
    BY <1>3, <1>8
  <2>3. conn.pending # NoUpdate => conn.reset
    BY <1>3, <2>2
  <2>4. ServerInv(views', conn, wire, noticed, doubt)
    BY <1>3, <1>6, <2>2, <2>3 DEF ServerInv
  <2>5. \A from : Followed(touched, from, wire, conn, base)
    BY <2>2, NothingUnderWay
  <2>6. ClientInv(touched, entry, read, health, doubt, conn, wire, base)
    <3>1. doubt <= doubt
      BY <1>2
    <3>2. QED
      BY <1>2, <2>5, <3>1, ClientWatches
  <2>7. QED
    BY <1>1, <1>2, <1>6, <2>1, <2>4, <2>6, OrdersAgain
<1>9. QED
  BY <1>7, <1>8

\* A connection that has just been opened, or closed.
LEMMA FreshConnection ==
    ASSUME OrdersInv, conn' \in [open : BOOLEAN, pending : {NoUpdate}, reset : {TRUE}, written : BOOLEAN],
           wire' = <<>>, conn'.open => noticed' = TRUE, UNCHANGED <<views, store, touched, image, entry, read, doubt>>,
           health' \in Healths
    PROVE  OrdersInv'
<1>1. /\ ServerInv(views, conn, wire, noticed, doubt) /\ doubt \in Int /\ touched \in SUBSET Int
      /\ ClientInv(touched, entry, read, health, doubt, conn, wire, views.head)
      /\ views \in [up : BOOLEAN, head : Int, final : Int]
  BY OrdersFacts, ServerFacts
<1>2. NoUpdate \in Updates
  BY DEF NoUpdate, Never, Updates
<1>3. /\ wire' \in Seq(Frames) /\ DOMAIN wire' = {}
      /\ conn'.reset = TRUE /\ conn'.pending = NoUpdate /\ conn' \in Connections
  <2>1. wire' \in Seq(Frames) /\ DOMAIN wire' = {}
    OBVIOUS
  <2>2. conn'.reset = TRUE /\ conn'.pending = NoUpdate /\ conn' \in Connections
    BY <1>2 DEF Connections
  <2>3. QED
    BY <2>1, <2>2
<1>4. \A from : Followed(touched, from, wire', conn', views.head)
  BY <1>3, NothingUnderWay
<1>5. ServerInv(views, conn', wire', noticed', doubt)
  BY <1>1, <1>3 DEF ServerInv
<1>6. ClientInv(touched, entry, read, health', doubt, conn', wire', views.head)
  BY <1>1, <1>4 DEF ClientInv
<1>7. QED
  BY <1>1, <1>5, <1>6, OrdersAgain

LEMMA OpensForOrders ==
    ASSUME OrdersInv, OpenStream, UNCHANGED storeVars
    PROVE  OrdersInv'
<1>1. /\ conn' = [conn EXCEPT !.open = TRUE, !.pending = NoUpdate, !.reset = TRUE, !.written = FALSE]
      /\ wire' = <<>> /\ noticed' = TRUE
      /\ UNCHANGED <<views, store, touched, image, entry, read, health, doubt>>
  BY DEF OpenStream, storeVars
<1>2. conn \in Connections /\ health \in Healths
  BY OrdersFacts, ServerFacts DEF ClientInv
<1>3. conn' \in [open : BOOLEAN, pending : {NoUpdate}, reset : {TRUE}, written : BOOLEAN]
  BY <1>1, <1>2 DEF Connections
<1>4. QED
  BY <1>1, <1>2, <1>3, FreshConnection

LEMMA BreaksForOrders ==
    ASSUME OrdersInv, Break
    PROVE  OrdersInv'
<1>1. /\ conn' = Closed /\ wire' = <<>> /\ health' = [health EXCEPT !.ok = FALSE]
      /\ UNCHANGED <<views, store, touched, image, entry, read, doubt>>
  BY DEF Break, Unhealthy
<1>2. health' \in Healths
  BY <1>1, OrdersFacts DEF ClientInv, Healths
<1>3. conn' \in [open : BOOLEAN, pending : {NoUpdate}, reset : {TRUE}, written : BOOLEAN] /\ ~conn'.open
  BY <1>1 DEF Closed
<1>4. QED
  BY <1>1, <1>2, <1>3, FreshConnection

LEMMA SentRead ==
    Sent \in Reads /\ Sent.at = "sent" /\ NoRead \in Reads /\ NoRead.at = "none"
<1>1. NoRead \in Reads /\ NoRead.at = "none"
  BY DEF NoRead, Never, Reads
<1> HIDE DEF NoRead
<1>2. QED
  BY <1>1 DEF Sent, Reads

LEMMA FrameWritten ==
    ASSUME OrdersInv, NEW f \in Frames, wire' = Append(wire, f), conn.open,
           UNCHANGED <<views, store, touched, image, storeVars, doubt>>,
           conn' \in Connections, conn'.open, noticed' = conn'.reset,
           conn'.pending # NoUpdate => conn'.reset,
           f.kind = "index" => /\ ~conn.reset /\ f.update.slot <= Later(views.head, doubt)
                               /\ conn.pending.hit => f.update = conn.pending,
           f.kind = "unavailable" => conn'.reset
    PROVE  OrdersInv'
<1> DEFINE more == Append(wire, f)
           n == Len(wire)
<1>1. /\ ServerInv(views, conn, wire, noticed, doubt) /\ touched \in SUBSET Int /\ doubt \in Int
      /\ ClientInv(touched, entry, read, health, doubt, conn, wire, views.head)
      /\ views \in [up : BOOLEAN, head : Int, final : Int] /\ views.head \in Int /\ wire \in Seq(Frames)
  BY OrdersFacts, ServerFacts
<1>2. /\ more \in Seq(Frames) /\ more[n + 1] = f /\ DOMAIN more = DOMAIN wire \cup {n + 1}
      /\ \A i \in DOMAIN wire : more[i] = wire[i]
  BY <1>1, PutOn
<1>3. ASSUME NEW from \in Int, doubt <= from, Followed(touched, from, wire, conn, views.head)
      PROVE  Followed(touched, from, more, conn', views.head)
  <2>1. f.kind = "index" => f.update.slot <= views.head \/ f.update.slot <= from
    <3>1. f.update.slot \in Int
      BY DEF Frames, Updates
    <3>2. QED
      BY <1>1, <1>3, <3>1 DEF Later
  <2>2. Writes(conn, f, conn', views.head, from)
    BY <2>1 DEF Writes
  <2>3. QED
    BY <1>1, <1>3, <2>2, FollowedWritten
<1> HIDE DEF more, n
<1>4. ClientInv(touched, entry, read, health, doubt, conn', more, views.head)
  <2>1. doubt <= doubt
    BY <1>1
  <2>2. QED
    BY <1>1, <1>3, <2>1, ClientWatches
<1>5. \A i \in DOMAIN more : more[i].kind = "index" => more[i].update.slot <= Later(views.head, doubt)
  BY <1>1, <1>2 DEF ServerInv
<1>6. ServerInv(views, conn', more, noticed', doubt)
  BY <1>1, <1>2, <1>5 DEF ServerInv
<1>7. QED
  BY <1>1, <1>4, <1>6, OrdersAgain DEF more, storeVars

LEMMA WritesForOrders ==
    ASSUME OrdersInv, WriteFrame, UNCHANGED storeVars
    PROVE  OrdersInv'
<1>1. conn.open /\ UNCHANGED <<views, store, touched, image, storeVars, doubt>> /\ noticed' = ~views.up
  BY DEF WriteFrame
<1>2. /\ views.head \in Int /\ conn.pending \in Updates /\ conn \in Connections /\ doubt \in Int
      /\ conn.reset \in BOOLEAN /\ conn.written \in BOOLEAN
      /\ views.up \in BOOLEAN /\ image.slot = Never
  BY OrdersFacts, ServerFacts
<1>3. NoUpdate \in Updates /\ NoUpdate.hit = FALSE
  BY DEF NoUpdate, Never, Updates
<1>4. views.head <= Later(views.head, doubt)
  BY <1>2, LaterFacts
<1>5. conn.pending # NoUpdate /\ ~conn.reset => conn.pending.slot <= Later(views.head, doubt)
  BY OrdersFacts DEF ServerInv
<1>6. CASE views.up
  <2> DEFINE update == IF conn.pending = NoUpdate THEN [slot |-> views.head, hit |-> FALSE] ELSE conn.pending
             wallet == IF ~conn.written THEN image.slot ELSE Never
             f == [kind |-> IF conn.reset THEN "reset" ELSE "index", update |-> update, wallet |-> wallet]
  <2>1. /\ wire' = Append(wire, f)
        /\ conn' = [conn EXCEPT !.pending = NoUpdate, !.reset = FALSE,
                                !.written = @ \/ image.slot # Never]
    BY <1>6 DEF WriteFrame
  <2>2. wallet = Never
    BY <1>2
  <2>3. /\ update \in Updates /\ (conn.pending.hit => update = conn.pending)
        /\ ~conn.reset => update.slot <= Later(views.head, doubt)
    <3>1. CASE conn.pending = NoUpdate
      BY <1>2, <1>3, <1>4, <3>1 DEF Updates
    <3>2. CASE conn.pending # NoUpdate
      BY <1>2, <1>5, <3>2
    <3>3. QED
      BY <3>1, <3>2
  <2> HIDE DEF update, wallet
  <2>4. f \in Frames
    BY <1>2, <2>2, <2>3 DEF Frames
  <2>5. /\ f.kind = IF conn.reset THEN "reset" ELSE "index"
        /\ f.update = update
    OBVIOUS
  <2> HIDE DEF f
  <2>6. (conn.written \/ image.slot # Never) \in BOOLEAN
    BY <1>2
  <2>7. conn' \in Connections /\ conn'.pending = NoUpdate /\ conn'.open /\ conn'.reset = FALSE
    BY <1>1, <1>2, <1>3, <2>1, <2>6 DEF Connections
  <2>8. f.kind = "index" => /\ ~conn.reset /\ f.update.slot <= Later(views.head, doubt)
                            /\ conn.pending.hit => f.update = conn.pending
    BY <2>3, <2>5
  <2>9. f.kind # "unavailable"
    BY <2>5
  <2>10. QED
    BY <1>1, <1>6, <2>1, <2>4, <2>7, <2>8, <2>9, FrameWritten
<1>7. CASE ~views.up
  <2> DEFINE f == [kind |-> "unavailable", update |-> NoUpdate, wallet |-> Never]
  <2>1. wire' = Append(wire, f) /\ conn' = [conn EXCEPT !.reset = TRUE]
    BY <1>7 DEF WriteFrame, ResetAfterOutage
  <2>2. f \in Frames /\ f.kind = "unavailable"
    BY <1>3 DEF Frames
  <2> HIDE DEF f
  <2>3. conn' \in Connections /\ conn'.open /\ conn'.reset = TRUE
    BY <1>1, <1>2, <2>1 DEF Connections
  <2>4. QED
    BY <1>1, <1>7, <2>1, <2>2, <2>3, FrameWritten
<1>8. QED
  BY <1>6, <1>7

\* The server side when a frame has arrived.
LEMMA ServerTaken ==
    ASSUME NEW v, NEW c, NEW frames, NEW n, NEW d, ServerInv(v, c, frames, n, d), frames # <<>>
    PROVE  ServerInv(v, c, Tail(frames), n, d)
<1> DEFINE rest == Tail(frames)
<1>1. frames \in Seq(Frames) /\ (~c.open => frames = <<>>)
  BY DEF ServerInv
<1>2. /\ rest \in Seq(Frames)
      /\ \A i \in DOMAIN rest : i + 1 \in DOMAIN frames /\ rest[i] = frames[i + 1]
  BY <1>1, TakenOff
<1> HIDE DEF rest
<1>3. \A i \in DOMAIN rest : rest[i].kind = "index" => rest[i].update.slot <= Later(v.head, d)
  BY <1>2 DEF ServerInv
<1>4. ServerInv(v, c, rest, n, d)
  BY <1>1, <1>2, <1>3 DEF ServerInv
<1>5. QED
  BY <1>4 DEF rest

\* A frame arrives that leaves the entry and the read alone, and of what it tells of the
\* doubt takes note.
LEMMA FrameMissed ==
    ASSUME OrdersInv, wire # <<>>, wire' = Tail(wire),
           UNCHANGED <<views, store, touched, conn, image, entry, read, noticed>>,
           health' \in Healths, doubt' \in Int, doubt <= doubt',
           \A t \in touched : doubt' < t => ~Covers(wire[1], t)
    PROVE  OrdersInv'
<1>1. /\ ServerInv(views, conn, wire, noticed, doubt) /\ touched \in SUBSET Int /\ doubt \in Int
      /\ ClientInv(touched, entry, read, health, doubt, conn, wire, views.head)
      /\ wire \in Seq(Frames)
  BY OrdersFacts, ServerFacts
<1>2. ServerInv(views, conn, wire', noticed, doubt')
  <2>1. ServerInv(views, conn, Tail(wire), noticed, doubt)
    BY <1>1, ServerTaken
  <2>2. QED
    BY <1>1, <2>1, ServerDoubts
<1>3. ASSUME NEW from \in Int, doubt' <= from, Followed(touched, from, wire, conn, views.head)
      PROVE  Followed(touched, from, wire', conn, views.head)
  <2>1. \A t \in touched : from < t => doubt' < t
    BY <1>1, <1>3
  <2>2. \A t \in touched : from < t => ~Covers(wire[1], t)
    BY <2>1
  <2>3. QED
    BY <1>1, <1>3, <2>2, FollowedTaken
<1>4. ClientInv(touched, entry, read, health, doubt', conn, wire', views.head)
  BY <1>1, <1>3, ClientWatches
<1>5. ClientInv(touched, entry, read, health', doubt', conn, wire', views.head)
  BY <1>4 DEF ClientInv
<1>6. QED
  BY <1>2, <1>5, OrdersAgain

LEMMA ReceivesForOrders ==
    ASSUME OrdersInv, Receive
    PROVE  OrdersInv'
<1> DEFINE frame == Head(wire)
           rest == Tail(wire)
           refused == \/ frame.kind = "unavailable"
                      \/ frame.update.slot < health.slot /\ frame.kind # "reset"
<1>1. /\ wire # <<>> /\ wire' = rest /\ UNCHANGED <<views, store, touched, conn, image, noticed>>
      /\ IF refused THEN RefusedFrame(frame) ELSE TakenFrame(frame)
  BY DEF Receive
<1>2. /\ store \in {"wallet-orders", "payout-credits"} /\ touched \in SUBSET Int /\ doubt \in Int
      /\ ServerInv(views, conn, wire, noticed, doubt)
      /\ ClientInv(touched, entry, read, health, doubt, conn, wire, views.head)
      /\ views.head \in Int /\ wire \in Seq(Frames)
  BY OrdersFacts, ServerFacts
<1>3. /\ 1 \in DOMAIN wire /\ frame = wire[1] /\ frame \in Frames /\ frame.update.slot \in Int
      /\ frame.update.hit \in BOOLEAN /\ frame.wallet = Never
      /\ frame.kind \in {"index", "reset", "unavailable"}
  <2>1. 1 \in DOMAIN wire /\ frame = wire[1] /\ frame \in Frames
    BY <1>1, <1>2, TakenOff
  <2>2. QED
    BY <2>1 DEF Frames, Updates
<1>4. ServerInv(views, conn, rest, noticed, doubt)
  BY <1>1, <1>2, ServerTaken
<1>5. entry \in Entries /\ read \in Reads /\ health \in Healths
  BY <1>2 DEF ClientInv
<1> HIDE DEF rest
<1>6. CASE refused
  <2>1. /\ health' = [health EXCEPT !.ok = FALSE] /\ UNCHANGED <<entry, read>>
        /\ IF frame.update.hit THEN Doubted(frame.update.slot) ELSE UNCHANGED doubt
    BY <1>1, <1>6 DEF RefusedFrame, Unhealthy
  <2>2. health' \in Healths
    BY <1>5, <2>1 DEF Healths
  <2>3. doubt' \in Int /\ doubt <= doubt' /\ (frame.update.hit => frame.update.slot <= doubt')
    <3>1. CASE frame.update.hit
      BY <1>3, <2>1, <3>1, DoubtRises
    <3>2. CASE ~frame.update.hit
      BY <1>2, <2>1, <3>2
    <3>3. QED
      BY <3>1, <3>2
  <2>4. \A t \in touched : doubt' < t => ~Covers(wire[1], t)
    BY <1>2, <1>3, <1>6, <2>3 DEF Covers
  <2>5. QED
    BY <1>1, <2>1, <2>2, <2>3, <2>4, FrameMissed DEF rest
<1>7. CASE ~refused
  <2>1. frame.kind # "unavailable" /\ TakenFrame(frame)
    BY <1>1, <1>7
  <2>2. /\ health' = [slot |-> frame.update.slot, ok |-> TRUE]
        /\ \/ /\ Invalidated(frame) /\ read' = Refreshed /\ UNCHANGED entry
              /\ IF read.at = "answered"
                 THEN Doubted(IF frame.kind = "reset" THEN views.head ELSE frame.update.slot)
                 ELSE UNCHANGED doubt
           \/ ~Invalidated(frame) /\ entry' = Patched(frame.update.slot) /\ UNCHANGED <<read, doubt>>
    BY <1>3, <2>1 DEF TakenFrame
  <2>3. Invalidated(frame) <=> frame.kind = "reset" \/ frame.update.hit
    BY <1>2 DEF Invalidated
  <2>4. health' \in Healths
    BY <1>3, <2>2 DEF Healths
  <2>5. CASE Invalidated(frame) /\ read.at = "answered" /\ frame.kind = "index"
    <3>1. Doubted(frame.update.slot) /\ read' = read /\ UNCHANGED entry
      BY <2>2, <2>5 DEF Refreshed, Pending
    <3>2. doubt' \in Int /\ doubt <= doubt' /\ frame.update.slot <= doubt'
      BY <1>3, <3>1, DoubtRises
    <3>3. \A t \in touched : doubt' < t => ~Covers(wire[1], t)
      <4> DEFINE slot == frame.update.slot
      <4>1. slot = wire[1].update.slot /\ slot \in Int /\ slot <= doubt' /\ wire[1].kind # "reset"
        BY <1>3, <2>5, <3>2
      <4> HIDE DEF slot
      <4>2. \A t \in touched : doubt' < t => ~(t <= slot)
        BY <1>2, <3>2, <4>1
      <4>3. QED
        BY <4>1, <4>2 DEF Covers
    <3>4. QED
      BY <1>1, <2>4, <3>1, <3>2, <3>3, FrameMissed DEF rest
  <2>6. CASE Invalidated(frame) /\ read.at = "answered" /\ frame.kind = "reset"
    <3>1. Doubted(views.head) /\ read' = read /\ UNCHANGED entry
      BY <2>2, <2>6 DEF Refreshed, Pending
    <3>2. doubt' \in Int /\ doubt <= doubt' /\ views.head <= doubt'
      BY <1>2, <3>1, DoubtRises
    <3>3. ServerInv(views, conn, rest, noticed, doubt')
      BY <1>2, <1>4, <3>2, ServerDoubts
    <3> DEFINE from == Later(read.slot, doubt')
    <3>4. from \in Int /\ doubt' <= from /\ Later(views.head, doubt') = doubt'
      <4>1. read.slot \in Int
        BY <1>5 DEF Reads
      <4>2. QED
        BY <1>2, <3>2, <4>1 DEF Later
    <3>5. \A i \in DOMAIN rest : rest[i].kind = "index" => rest[i].update.slot <= from
      <4>1. \A i \in DOMAIN rest : rest[i].kind = "index" => rest[i].update.slot <= doubt'
        BY <3>3, <3>4 DEF ServerInv
      <4>2. \A i \in DOMAIN rest : rest[i].update.slot \in Int
        BY <3>3, ServerFacts
      <4> HIDE DEF from
      <4>3. QED
        BY <3>2, <3>4, <4>1, <4>2
    <3>6. Followed(touched, from, rest, conn, views.head)
      <4>1. views.head <= from /\ rest \in Seq(Frames)
        BY <1>2, <3>2, <3>3, <3>4 DEF ServerInv
      <4> HIDE DEF from
      <4>2. QED
        BY <1>2, <3>4, <3>5, <4>1, NothingLater
    <3>7. ClientInv(touched, entry, read, health', doubt', conn, rest, views.head)
      BY <1>5, <2>4, <2>6, <3>6 DEF ClientInv
    <3>8. QED
      BY <1>1, <3>1, <3>2, <3>3, <3>7, OrdersAgain
  <2>7. CASE Invalidated(frame) /\ read.at # "answered"
    <3>1. UNCHANGED <<doubt, entry>> /\ (read' = Sent \/ (read' = read /\ read.at # "none"))
      BY <2>2, <2>7 DEF Refreshed, Pending
    <3>2. read' \in Reads /\ read'.at # "none" /\ read'.at # "answered"
      BY <1>5, <2>7, <3>1, SentRead
    <3>3. ClientInv(touched, entry, read', health', doubt, conn, rest, views.head)
      BY <1>5, <2>4, <3>2 DEF ClientInv
    <3>4. QED
      BY <1>1, <1>2, <1>4, <3>1, <3>3, OrdersAgain
  <2>8. CASE ~Invalidated(frame)
    <3>1. entry' = Patched(frame.update.slot) /\ UNCHANGED <<read, doubt>>
      BY <2>2, <2>8
    <3>2. frame.kind = "index" /\ ~frame.update.hit
      BY <1>3, <2>1, <2>3, <2>8
    <3>3. entry' \in Entries /\ entry'.slot = entry.slot /\ entry'.error = entry.error
      BY <1>3, <1>5, <3>1 DEF Patched, Entries
    <3>4. \A t : ~Covers(frame, t)
      BY <3>2 DEF Covers
    <3>5. \A from : Followed(touched, from, wire, conn, views.head) =>
            Followed(touched, from, rest, conn, views.head)
      BY <1>1, <1>2, <1>3, <3>4, FollowedTaken DEF rest
    <3>6. ASSUME read.at = "none", entry.slot # Never, ~entry.error
          PROVE  \A t \in touched : ~(Later(entry'.slot, doubt) < t /\ t <= entry'.label)
      <4>1. entry'.label = frame.update.slot
        BY <1>2, <1>5, <3>1, <3>6 DEF Patched, Loading, Pending, Entries
      <4>2. Followed(touched, Later(entry.slot, doubt), wire, conn, views.head)
        BY <1>2, <3>6 DEF ClientInv
      <4>3. \A j \in DOMAIN wire : j <= 1 => j = 1
        BY <1>2
      <4> DEFINE from == Later(entry.slot, doubt)
      <4> HIDE DEF from
      <4>4. \A t \in touched : ~(from < t /\ t <= frame.update.slot)
        BY <1>3, <3>2, <3>4, <4>2, <4>3 DEF Followed, from
      <4>5. QED
        BY <3>3, <4>1, <4>4 DEF from
    <3>7. ClientInv(touched, entry', read, health', doubt, conn, rest, views.head)
      BY <1>2, <1>5, <2>4, <3>3, <3>5, <3>6 DEF ClientInv
    <3>8. QED
      BY <1>1, <1>2, <1>4, <3>1, <3>7, OrdersAgain
  <2>9. QED
    BY <1>3, <2>1, <2>5, <2>6, <2>7, <2>8
<1>8. QED
  BY <1>6, <1>7

\* The store changes, and not the connection.
LEMMA ClientMoves ==
    ASSUME OrdersInv, UNCHANGED <<views, store, touched, conn, wire, image, noticed>>,
           doubt' \in Int, doubt <= doubt',
           ClientInv(touched, entry', read', health', doubt', conn, wire, views.head)
    PROVE  OrdersInv'
<1>1. ServerInv(views, conn, wire, noticed, doubt')
  BY OrdersFacts, ServerDoubts
<1>2. QED
  BY <1>1, OrdersAgain

LEMMA ServesOrders ==
    ASSUME OrdersInv, Serve
    PROVE  OrdersInv'
<1>1. /\ store \in {"wallet-orders", "payout-credits"} /\ touched \in SUBSET Int /\ doubt \in Int
      /\ ServerInv(views, conn, wire, noticed, doubt)
      /\ ClientInv(touched, entry, read, health, doubt, conn, wire, views.head)
      /\ views.head \in Int /\ views.final \in Int /\ wire \in Seq(Frames)
      /\ \A i \in DOMAIN wire : wire[i].update.slot \in Int
  BY OrdersFacts, ServerFacts
<1>2. entry \in Entries /\ read \in Reads /\ health \in Healths
  BY <1>1 DEF ClientInv
<1>3. /\ UNCHANGED <<views, store, touched, conn, wire, entry, health, image, noticed>>
      /\ \/ read' = [read EXCEPT !.at = "failed"] /\ UNCHANGED doubt
         \/ /\ read' = [read EXCEPT !.at = "answered", !.slot = ViewOfStore]
            /\ IF store = "payout-credits" THEN Doubted(views.head) ELSE UNCHANGED doubt
  BY <1>1 DEF Serve, Answered, ImageNow
<1>4. CASE read' = [read EXCEPT !.at = "failed"] /\ UNCHANGED doubt
  <2>1. read' \in Reads /\ read'.at = "failed"
    BY <1>2, <1>4 DEF Reads
  <2>2. ClientInv(touched, entry', read', health', doubt', conn, wire, views.head)
    BY <1>2, <1>3, <2>1 DEF ClientInv
  <2>3. doubt' \in Int /\ doubt <= doubt'
    BY <1>1, <1>4
  <2>4. QED
    BY <1>3, <2>2, <2>3, ClientMoves
<1>5. CASE /\ read' = [read EXCEPT !.at = "answered", !.slot = ViewOfStore]
           /\ IF store = "payout-credits" THEN Doubted(views.head) ELSE UNCHANGED doubt
  <2> DEFINE from == Later(ViewOfStore, doubt')
  <2>1. ViewOfStore \in Int /\ (store # "payout-credits" => ViewOfStore = views.head)
    BY <1>1 DEF ViewOfStore
  <2>2. doubt' \in Int /\ doubt <= doubt' /\ (store = "payout-credits" => views.head <= doubt')
    <3>1. CASE store = "payout-credits"
      BY <1>1, <1>5, <3>1, DoubtRises
    <3>2. CASE store # "payout-credits"
      BY <1>1, <1>5, <3>2
    <3>3. QED
      BY <3>1, <3>2
  <2>3. from \in Int /\ views.head <= from /\ Later(views.head, doubt) \in Int /\ Later(views.head, doubt) <= from
    BY <1>1, <2>1, <2>2 DEF Later
  <2>4. \A i \in DOMAIN wire : wire[i].kind = "index" => wire[i].update.slot <= Later(views.head, doubt)
    BY <1>1 DEF ServerInv
  <2>5. read' \in Reads /\ read'.at = "answered" /\ read'.slot = ViewOfStore
    BY <1>2, <1>5, <2>1 DEF Reads
  <2> DEFINE u == Later(views.head, doubt)
  <2> HIDE DEF from, u
  <2>6. \A i \in DOMAIN wire : wire[i].kind = "index" => wire[i].update.slot <= from
    BY <1>1, <2>3, <2>4 DEF u
  <2>7. Followed(touched, from, wire, conn, views.head)
    BY <1>1, <2>3, <2>6, NothingLater
  <2>8. ClientInv(touched, entry', read', health', doubt', conn, wire, views.head)
    BY <1>2, <1>3, <2>5, <2>7 DEF ClientInv, from
  <2>9. QED
    BY <1>3, <2>2, <2>8, ClientMoves
<1>6. QED
  BY <1>3, <1>4, <1>5

LEMMA ClientOfOrders ==
    ASSUME OrdersInv, Lapse \/ Poll \/ ReadReturns
    PROVE  OrdersInv'
<1>1. /\ touched \in SUBSET Int /\ doubt \in Int
      /\ ClientInv(touched, entry, read, health, doubt, conn, wire, views.head)
  BY OrdersFacts
<1>2. entry \in Entries /\ read \in Reads /\ health \in Healths
  BY <1>1 DEF ClientInv
<1>3. UNCHANGED streamVars /\ doubt' \in Int /\ doubt <= doubt'
  BY <1>1 DEF Lapse, Poll, ReadReturns, streamVars
<1>4. CASE Lapse
  <2>1. health' = [health EXCEPT !.ok = FALSE] /\ UNCHANGED <<entry, read>>
    BY <1>4 DEF Lapse, Unhealthy
  <2>2. health' \in Healths
    BY <1>2, <2>1 DEF Healths
  <2>3. ClientInv(touched, entry', read', health', doubt, conn, wire, views.head)
    BY <1>1, <2>1, <2>2 DEF ClientInv
  <2>4. QED
    BY <1>3, <2>3, ClientMoves DEF streamVars
<1>5. CASE Poll
  <2>1. read' = Sent /\ UNCHANGED <<entry, health>>
    BY <1>5 DEF Poll, Refreshed
  <2>2. ClientInv(touched, entry', read', health', doubt, conn, wire, views.head)
    BY <1>2, <2>1, SentRead DEF ClientInv
  <2>3. QED
    BY <1>3, <2>2, ClientMoves DEF streamVars
<1>6. CASE ReadReturns
  <2>1. /\ read.at \in {"answered", "failed"} /\ read' = NoRead /\ UNCHANGED health
        /\ entry' = IF read.at = "answered" THEN Data(read.slot) ELSE [entry EXCEPT !.error = TRUE]
    BY <1>2, <1>6 DEF ReadReturns, Stored, Reads
  <2>2. read' \in Reads /\ read'.at = "none" /\ read.slot \in Int
    BY <1>2, <2>1, SentRead DEF Reads
  <2>3. CASE read.at = "answered"
    <3>1. entry' \in Entries /\ entry'.slot = read.slot /\ entry'.label = read.slot
      BY <2>1, <2>2, <2>3 DEF Data, Entries
    <3>2. Followed(touched, Later(read.slot, doubt), wire, conn, views.head)
      BY <1>1, <2>3 DEF ClientInv
    <3>3. \A t \in touched : ~(Later(read.slot, doubt) < t /\ t <= read.slot)
      BY <1>1, <2>2 DEF Later
    <3>4. ClientInv(touched, entry', read', health', doubt, conn, wire, views.head)
      BY <1>2, <2>1, <2>2, <3>1, <3>2, <3>3 DEF ClientInv
    <3>5. QED
      BY <1>3, <3>4, ClientMoves DEF streamVars
  <2>4. CASE read.at = "failed"
    <3>1. entry' \in Entries /\ entry'.error
      BY <1>2, <2>1, <2>4 DEF Entries
    <3>2. ClientInv(touched, entry', read', health', doubt, conn, wire, views.head)
      BY <1>2, <2>1, <2>2, <3>1 DEF ClientInv
    <3>3. QED
      BY <1>3, <3>2, ClientMoves DEF streamVars
  <2>5. QED
    BY <2>1, <2>3, <2>4
<1>7. QED
  BY <1>4, <1>5, <1>6

\* Positions come with the frame, and are never labelled as of another slot.
Images == [kind : {"index", "reset", "unavailable"}, update : Updates, wallet : Int]

PositionsInv ==
    /\ store = "positions" /\ touched \in SUBSET Int /\ doubt \in Int
    /\ views \in [up : BOOLEAN, head : Int, final : Int]
    /\ conn \in Connections
    /\ wire \in Seq(Images)
    /\ image \in [slot : Int, reading : Int]
    /\ read \in [at : {"none", "sent", "joined", "answered", "failed"}, slot : Int, void : BOOLEAN]
    /\ entry \in [slot : Int, label : Int, error : BOOLEAN] /\ entry.label = entry.slot

(* What is shown is either told of changes or the positions.                *)
StoresInv == OrdersInv \/ PositionsInv

LEMMA StoresInitial ==
    ASSUME BrowserInit
    PROVE  StoresInv
<1>1. /\ views = [up |-> TRUE, head |-> 0, final |-> 0] /\ store \in {"wallet-orders", "payout-credits", "positions"}
      /\ noticed = TRUE /\ doubt = Never /\ touched \in SUBSET (1..EndSlot) /\ conn = Closed /\ wire = <<>>
      /\ image = [slot |-> Never, reading |-> Never]
      /\ entry = [slot |-> Never, label |-> Never, error |-> FALSE]
      /\ read = Sent /\ health = [slot |-> Never, ok |-> FALSE]
  BY StreamAssumption DEF BrowserInit, StreamInit, StoresInit
<1>2. CASE store = "positions"
  <2>1. Never \in Int /\ touched \in SUBSET Int
    BY <1>1 DEF Never
  <2>2. NoUpdate \in Updates
    BY <2>1 DEF NoUpdate, Updates
  <2>3. conn \in Connections
    BY <1>1, <2>1, <2>2 DEF Closed, Connections
  <2>4. wire \in Seq(Images) /\ views \in [up : BOOLEAN, head : Int, final : Int]
    BY <1>1
  <2>5. read \in [at : {"none", "sent", "joined", "answered", "failed"}, slot : Int, void : BOOLEAN]
    BY <1>1, SentRead DEF Reads
  <2>6. /\ entry \in [slot : Int, label : Int, error : BOOLEAN] /\ entry.label = entry.slot
        /\ image \in [slot : Int, reading : Int] /\ doubt \in Int
    BY <1>1, <2>1
  <2>7. QED
    BY <1>2, <2>1, <2>3, <2>4, <2>5, <2>6 DEF StoresInv, PositionsInv
<1>3. CASE store \in {"wallet-orders", "payout-credits"}
  <2>1. Never \in Int /\ touched \in SUBSET Int
    BY <1>1 DEF Never
  <2>2. wire \in Seq(Frames) /\ DOMAIN wire = {} /\ wire = <<>>
    BY <1>1
  <2>3. conn \in Connections /\ conn.open = FALSE /\ conn.reset = TRUE /\ conn.pending = NoUpdate
    <3>1. NoUpdate \in Updates
      BY <2>1 DEF NoUpdate, Updates
    <3>2. QED
      BY <1>1, <3>1 DEF Closed, Connections
  <2>4. views \in [up : BOOLEAN, head : Int, final : Int]
    BY <1>1
  <2>5. ServerInv(views, conn, wire, noticed, doubt)
    BY <2>2, <2>3, <2>4 DEF ServerInv
  <2>6. entry \in Entries /\ health \in Healths /\ read \in Reads /\ read.at = "sent"
    BY <1>1, <2>1, SentRead DEF Entries, Healths
  <2>7. ClientInv(touched, entry, read, health, doubt, conn, wire, views.head)
    BY <2>6 DEF ClientInv
  <2>8. QED
    BY <1>1, <1>3, <2>1, <2>5, <2>7 DEF StoresInv, OrdersInv
<1>4. QED
  BY <1>1, <1>2, <1>3

LEMMA OrdersStep ==
    ASSUME OrdersInv, [BrowserNext]_browserVars
    PROVE  OrdersInv'
<1>1. store # "positions" /\ image.reading = Never /\ doubt \in Int
      /\ ClientInv(touched, entry, read, health, doubt, conn, wire, views.head)
  BY OrdersFacts
<1>2. ~ReadWallet /\ ~WalletRead
  BY <1>1 DEF ReadWallet, WalletRead
<1>3. CASE Indexes
  <2>1. UNCHANGED storeVars
    BY <1>3 DEF Indexes
  <2>2. QED
    BY <1>2, <1>3, <2>1, CommitsOrders, HeadKept, RecoveryOfOrders,
       OpensForOrders, WritesForOrders DEF Indexes
<1>4. CASE Receive
  BY <1>4, ReceivesForOrders
<1>5. CASE Break
  BY <1>5, BreaksForOrders
<1>6. CASE Lapse \/ Poll \/ Serve \/ ReadReturns
  BY <1>6, ClientOfOrders, ServesOrders
<1>7. CASE UNCHANGED browserVars
  <2>1. UNCHANGED <<views, store, touched, conn, wire, image, entry, read, health, noticed, doubt>>
    BY <1>7 DEF browserVars, streamVars, storeVars
  <2>2. doubt <= doubt
    BY <1>1
  <2>3. QED
    BY <1>1, <2>1, <2>2, ClientMoves
<1>8. QED
  BY <1>2, <1>3, <1>4, <1>5, <1>6, <1>7 DEF BrowserNext

\* The server side of a store of positions.
LEMMA PositionsServed ==
    ASSUME PositionsInv, Indexes \/ Break
    PROVE  /\ views' \in [up : BOOLEAN, head : Int, final : Int]
           /\ conn' \in Connections
           /\ wire' \in Seq(Images) /\ image' \in [slot : Int, reading : Int]
           /\ doubt' = doubt
<1>0. doubt' = doubt
  BY DEF PositionsInv, Indexes, CommitSlot, FinalizeSlot, Outage, Recover, ReadWallet, OpenStream, WriteFrame,
         Break, Doubted
<1>1. /\ views \in [up : BOOLEAN, head : Int, final : Int] /\ views.head + 1 \in Int /\ views.final + 1 \in Int
      /\ views.head \in Int /\ views.final \in Int
      /\ conn \in Connections
      /\ wire \in Seq(Images) /\ <<>> \in Seq(Images) /\ image \in [slot : Int, reading : Int]
      /\ image.slot \in Int /\ Never \in Int /\ conn.written \in BOOLEAN /\ conn.pending \in Updates
  BY DEF PositionsInv, Never, Connections
<1>2. NoUpdate \in Updates
  BY DEF NoUpdate, Never, Updates
<1>3. CASE CommitSlot
  <2> DEFINE update == [slot |-> views.head + 1, hit |-> views.head + 1 \in touched]
  <2>1. /\ views' = [views EXCEPT !.head = @ + 1] /\ UNCHANGED <<wire, image>>
        /\ conn' = conn \/ conn' = [conn EXCEPT !.pending = Merged(@, update)]
    BY <1>3 DEF CommitSlot, Publish
  <2>2. Merged(conn.pending, update) \in Updates
    <3>1. (conn.pending.hit \/ views.head + 1 \in touched) \in BOOLEAN
      OBVIOUS
    <3>2. Merged(conn.pending, update)
            = [slot |-> views.head + 1, hit |-> conn.pending.hit \/ views.head + 1 \in touched]
      BY DEF Merged
    <3> DEFINE slot == views.head + 1
               hit == conn.pending.hit \/ views.head + 1 \in touched
    <3>3. slot \in Int /\ hit \in BOOLEAN
      BY <1>1, <3>1
    <3>4. Merged(conn.pending, update) = [slot |-> slot, hit |-> hit]
      BY <3>2
    <3> HIDE DEF slot, hit, update
    <3>5. QED
      BY <3>3, <3>4 DEF Updates
  <2> HIDE DEF update
  <2>3. conn' \in Connections
    BY <1>1, <2>1, <2>2 DEF Connections
  <2>4. QED
    BY <1>0, <1>1, <2>1, <2>3
<1>4. CASE FinalizeSlot
  BY <1>1, <1>4 DEF FinalizeSlot
<1>5. CASE Outage
  BY <1>1, <1>5 DEF Outage
<1>6. CASE Recover
  <2>1. PICK base \in views.final..EndSlot : views' = [up |-> TRUE, head |-> base, final |-> base]
    BY <1>6 DEF Recover
  <2>2. base \in Int /\ UNCHANGED <<conn, wire, image>>
    BY <1>1, <1>6, <2>1 DEF Recover
  <2>3. QED
    BY <1>0, <1>1, <2>1, <2>2
<1>7. CASE ReadWallet
  BY <1>1, <1>7 DEF ReadWallet
<1>8. CASE OpenStream
  BY <1>1, <1>2, <1>8 DEF OpenStream, Connections
<1>9. CASE Break
  <2>1. Closed \in Connections
    BY <1>1, <1>2 DEF Closed, Connections
  <2>2. QED
    BY <1>1, <1>9, <2>1 DEF Break
<1>10. CASE WriteFrame
  <2> DEFINE update == IF conn.pending = NoUpdate THEN [slot |-> views.head, hit |-> FALSE] ELSE conn.pending
             wallet == IF ~conn.written THEN image.slot ELSE Never
             f == [kind |-> IF conn.reset THEN "reset" ELSE "index", update |-> update, wallet |-> wallet]
             g == [kind |-> "unavailable", update |-> NoUpdate, wallet |-> Never]
             written == conn.written \/ image.slot # Never
  <2>1. update \in Updates /\ wallet \in Int /\ written \in BOOLEAN
    <3>1. [slot |-> views.head, hit |-> FALSE] \in Updates
      BY <1>1 DEF Updates
    <3>2. QED
      BY <1>1, <3>1
  <2>2. \/ wire' = Append(wire, f) /\ conn' = [conn EXCEPT !.pending = NoUpdate, !.reset = FALSE, !.written = written]
        \/ wire' = Append(wire, g) /\ conn' = [conn EXCEPT !.reset = TRUE]
    BY <1>10 DEF WriteFrame, ResetAfterOutage
  <2>3. UNCHANGED <<views, image>>
    BY <1>10 DEF WriteFrame
  <2> HIDE DEF update, wallet, written
  <2>4. f \in Images /\ g \in Images
    BY <1>1, <1>2, <2>1 DEF Images
  <2> HIDE DEF f, g
  <2>5. wire' \in Seq(Images)
    <3>1. Append(wire, f) \in Seq(Images) /\ Append(wire, g) \in Seq(Images)
      BY <1>1, <2>4
    <3>2. QED
      BY <2>2, <3>1
  <2>6. conn' \in Connections
    BY <1>1, <1>2, <2>1, <2>2 DEF Connections
  <2>7. QED
    BY <1>0, <1>1, <2>3, <2>5, <2>6
<1>11. QED
  BY <1>0, <1>3, <1>4, <1>5, <1>6, <1>7, <1>8, <1>9, <1>10 DEF Indexes

LEMMA PositionsStep ==
    ASSUME PositionsInv, [BrowserNext]_browserVars
    PROVE  PositionsInv'
<1>1. /\ store = "positions" /\ touched \in SUBSET Int /\ doubt \in Int
      /\ views \in [up : BOOLEAN, head : Int, final : Int]
      /\ conn \in Connections
      /\ wire \in Seq(Images) /\ image \in [slot : Int, reading : Int]
      /\ read \in [at : {"none", "sent", "joined", "answered", "failed"}, slot : Int, void : BOOLEAN]
      /\ entry \in [slot : Int, label : Int, error : BOOLEAN] /\ entry.label = entry.slot
  BY DEF PositionsInv
<1>2. UNCHANGED <<store, touched>>
  BY DEF BrowserNext, Indexes, CommitSlot, FinalizeSlot, Outage, Recover, ReadWallet, OpenStream, WriteFrame,
         Receive, Break, Lapse, Poll, Serve, WalletRead, ReadReturns, browserVars, streamVars
<1>3. /\ Sent \in [at : {"none", "sent", "joined", "answered", "failed"}, slot : Int, void : BOOLEAN]
      /\ NoRead \in [at : {"none", "sent", "joined", "answered", "failed"}, slot : Int, void : BOOLEAN]
  <2>1. NoRead \in [at : {"none", "sent", "joined", "answered", "failed"}, slot : Int, void : BOOLEAN]
    BY DEF NoRead, Never
  <2>2. Sent \in [at : {"none", "sent", "joined", "answered", "failed"}, slot : Int, void : BOOLEAN]
    BY SentRead DEF Reads
  <2>3. QED
    BY <2>1, <2>2
<1>4. \A slot \in Int : Data(slot) \in [slot : Int, label : Int, error : BOOLEAN]
                       /\ Data(slot).label = Data(slot).slot
  BY DEF Data
<1>5. ASSUME UNCHANGED <<views, conn, image, doubt>>, wire' \in Seq(Images),
             read' \in [at : {"none", "sent", "joined", "answered", "failed"}, slot : Int, void : BOOLEAN],
             entry' \in [slot : Int, label : Int, error : BOOLEAN], entry'.label = entry'.slot
      PROVE  PositionsInv'
  BY <1>1, <1>2, <1>5 DEF PositionsInv
<1>6. CASE Indexes \/ Break
  <2>1. UNCHANGED <<entry, read>>
    BY <1>6 DEF Indexes, Break, Unhealthy, storeVars
  <2>2. QED
    BY <1>1, <1>2, <1>6, <2>1, PositionsServed DEF PositionsInv
<1>7. CASE Receive
  <2>1. wire # <<>> /\ wire' = Tail(wire) /\ UNCHANGED <<views, conn, image, doubt>>
        /\ (Unhealthy \/ TakenFrame(Head(wire)))
    BY <1>1, <1>7 DEF Receive, RefusedFrame, TakenFrame, Unhealthy, Doubted
  <2>2. wire' \in Seq(Images) /\ Head(wire) \in Images
    BY <1>1, <2>1
  <2> DEFINE w == Head(wire).wallet
  <2>3. w \in Int
    BY <2>2 DEF Images
  <2>4. \/ UNCHANGED <<entry, read>>
        \/ entry' = Data(w) /\ read' = [read EXCEPT !.void = Pending]
        \/ UNCHANGED entry /\ (read' = read \/ read' = Sent)
    BY <1>1, <2>1 DEF TakenFrame, Unhealthy, Patched, Refreshed
  <2> HIDE DEF w
  <2>5. Pending \in BOOLEAN
    BY DEF Pending
  <2> HIDE DEF Data
  <2>6. read' \in [at : {"none", "sent", "joined", "answered", "failed"}, slot : Int, void : BOOLEAN]
    BY <1>1, <1>3, <2>4, <2>5
  <2>7. entry' \in [slot : Int, label : Int, error : BOOLEAN] /\ entry'.label = entry'.slot
    BY <1>1, <1>4, <2>3, <2>4
  <2>8. QED
    BY <1>5, <2>1, <2>2, <2>6, <2>7
<1>8. CASE Lapse
  BY <1>1, <1>5, <1>8 DEF Lapse, Unhealthy, streamVars
<1>9. CASE Poll
  <2>1. (read' = read \/ read' = Sent) /\ UNCHANGED <<streamVars, entry>>
    BY <1>9 DEF Poll, Refreshed
  <2>2. QED
    BY <1>1, <1>3, <1>5, <2>1 DEF streamVars
<1>10. CASE Serve
  <2>1. UNCHANGED <<views, conn, wire, entry, doubt>>
    BY <1>1, <1>10 DEF Serve
  <2>2. ViewOfStore \in Int /\ views.final \in Int
    BY <1>1 DEF ViewOfStore
  <2>3. \/ UNCHANGED image /\ read' = [read EXCEPT !.at = "failed"]
        \/ UNCHANGED image /\ read' = [read EXCEPT !.at = "answered", !.slot = ViewOfStore]
        \/ /\ read' = [read EXCEPT !.at = "joined"]
           /\ image' = image \/ image' = [image EXCEPT !.reading = views.final]
    BY <1>10 DEF Serve, Answered
  <2>4. read' \in [at : {"none", "sent", "joined", "answered", "failed"}, slot : Int, void : BOOLEAN]
        /\ image' \in [slot : Int, reading : Int]
    BY <1>1, <2>2, <2>3
  <2>5. QED
    BY <1>1, <1>2, <2>1, <2>4 DEF PositionsInv
<1>11. CASE WalletRead
  <2>1. /\ UNCHANGED <<views, wire, entry, doubt>> /\ conn' = [conn EXCEPT !.written = FALSE]
        /\ image' = [slot |-> image.reading, reading |-> Never]
        /\ read' = read \/ read' = [read EXCEPT !.at = "answered", !.slot = image.reading]
    BY <1>11 DEF WalletRead, Answered
  <2>2. image.reading \in Int /\ Never \in Int
    BY <1>1 DEF Never
  <2>3. read' \in [at : {"none", "sent", "joined", "answered", "failed"}, slot : Int, void : BOOLEAN]
        /\ image' \in [slot : Int, reading : Int] /\ conn' \in Connections
    BY <1>1, <2>1, <2>2 DEF Connections
  <2>4. QED
    BY <1>1, <1>2, <2>1, <2>3 DEF PositionsInv
<1>12. CASE ReadReturns
  <2>1. /\ read' = NoRead /\ UNCHANGED streamVars
        /\ entry' = entry \/ entry' = Data(read.slot) \/ entry' = [entry EXCEPT !.error = TRUE]
    BY <1>12 DEF ReadReturns
  <2>2. read.slot \in Int
    BY <1>1
  <2> HIDE DEF Data
  <2>3. entry' \in [slot : Int, label : Int, error : BOOLEAN] /\ entry'.label = entry'.slot
    <3>1. CASE entry' = Data(read.slot)
      BY <1>4, <2>2, <3>1
    <3>2. CASE entry' = entry \/ entry' = [entry EXCEPT !.error = TRUE]
      BY <1>1, <3>2
    <3>3. QED
      BY <2>1, <3>1, <3>2
  <2>4. QED
    BY <1>1, <1>3, <1>5, <2>1, <2>3 DEF streamVars
<1>13. CASE UNCHANGED browserVars
  BY <1>1, <1>5, <1>13 DEF browserVars, streamVars, storeVars
<1>14. QED
  BY <1>6, <1>7, <1>8, <1>9, <1>10, <1>11, <1>12, <1>13 DEF BrowserNext

\* What a store of the browser shows without an error, and while it is not being read
\* again, is never labelled as of a slot whose change it lacks, save the changes that
\* NotRelabelled excuses: coalesced frames, resets and late reads lose no invalidation
\* (stream.ts, IndexStreamProvider, fetchResource), with any number of frames under way,
\* of outages and of reads that fail.
THEOREM StoresNotRelabelled == BrowserSpec => []NotRelabelled
<1>1. BrowserInit => StoresInv
  BY StoresInitial
<1>2. StoresInv /\ [BrowserNext]_browserVars => StoresInv'
  <2>1. OrdersInv /\ [BrowserNext]_browserVars => OrdersInv'
    BY OrdersStep
  <2>2. PositionsInv /\ [BrowserNext]_browserVars => PositionsInv'
    BY PositionsStep
  <2>3. QED
    BY <2>1, <2>2 DEF StoresInv
<1>3. StoresInv => NotRelabelled
  <2>1. CASE OrdersInv
    <3>1. read \in Reads
          /\ (read.at = "none" /\ entry.slot # Never /\ ~entry.error =>
                \A t \in touched : ~(Later(entry.slot, doubt) < t /\ t <= entry.label))
      BY <2>1, OrdersFacts DEF ClientInv
    <3>2. ~Loading => read.at = "none"
      BY <3>1 DEF Loading, Pending, Reads
    <3>3. QED
      BY <3>1, <3>2 DEF NotRelabelled, Missed
  <2>2. CASE PositionsInv
    <3>1. entry.label = entry.slot /\ entry.slot \in Int /\ touched \in SUBSET Int /\ doubt \in Int
      BY <2>2 DEF PositionsInv
    <3>2. \A t \in touched : ~(Later(entry.slot, doubt) < t /\ t <= entry.slot)
      BY <3>1 DEF Later
    <3>3. QED
      BY <3>1, <3>2 DEF NotRelabelled, Missed
  <2>3. QED
    BY <2>1, <2>2 DEF StoresInv
<1>4. QED
  BY <1>1, <1>2, <1>3, PTL DEF BrowserSpec

-----------------------------------------------------------------------------
(* The Polymarket feed.                                                    *)

(* The book of a version: the level it changes, and the other as before.   *)
LEMMA LevelChanged ==
    ASSUME NEW v \in Nat \ {0}
    PROVE  LevelAt(v % 2, v) = v
<1> DEFINE changes == {w \in 1..v : w % 2 = v % 2}
<1>1. v \in changes /\ \A x \in changes : x <= v
  OBVIOUS
<1>2. \A w \in changes : (\A x \in changes : x <= w) => w = v
  BY <1>1
<1>3. (CHOOSE w \in changes : \A x \in changes : x <= w) = v
  BY <1>1, <1>2
<1>4. changes # {}
  BY <1>1
<1>5. QED
  BY <1>3, <1>4 DEF LevelAt

Latest(changes) ==
    IF changes = {} THEN 0 ELSE CHOOSE w \in changes : \A x \in changes : x <= w

LEMMA LevelKept ==
    ASSUME NEW v \in Nat \ {0}, NEW level \in Levels, level # v % 2
    PROVE  LevelAt(level, v) = LevelAt(level, v - 1)
<1>1. {w \in 1..v : w % 2 = level} = {w \in 1..(v - 1) : w % 2 = level}
  OBVIOUS
<1>2. \A u : LevelAt(level, u) = Latest({w \in 1..u : w % 2 = level})
  BY Zenon DEF LevelAt, Latest
<1>3. QED
  BY <1>1, <1>2

LEMMA BookFollows ==
    ASSUME NEW v \in Nat \ {0}, NEW at \in {v - 1, v}
    PROVE  [RealBook(at) EXCEPT ![v % 2] = v] = RealBook(v)
<1>1. v % 2 \in Levels
  BY DEF Levels
<1>2. \A level \in Levels : [RealBook(at) EXCEPT ![v % 2] = v][level] = RealBook(v)[level]
  <2>1. SUFFICES ASSUME NEW level \in Levels
                 PROVE  [RealBook(at) EXCEPT ![v % 2] = v][level] = RealBook(v)[level]
    OBVIOUS
  <2>2. RealBook(at)[level] = LevelAt(level, at) /\ RealBook(v)[level] = LevelAt(level, v)
    BY DEF RealBook
  <2>3. CASE level = v % 2
    BY <1>1, <2>2, <2>3, LevelChanged DEF RealBook
  <2>4. CASE level # v % 2
    BY <1>1, <2>2, <2>4, LevelKept DEF RealBook
  <2>5. QED
    BY <2>3, <2>4
<1>3. QED
  BY <1>2 DEF RealBook

EventSet == {e \in [kind : {"book", "change"}, v : Nat] : e.kind = "change" => e.v > 0}
ItemSet == [kind : {"event", "pass", "gap", "drop"}, event : [kind : {"book", "change", "none"}, v : Nat],
            gen : Nat, at : Nat, read : BOOLEAN]
BookSet == [levels : {RealBook(v) : v \in Nat}, at : Nat, seq : Int, connected : BOOLEAN]

(* What the queue may hold in a generation. *)
Queued(w, gen) == w.gen <= gen /\ (w.kind = "event" => w.event \in EventSet /\ ~w.read /\ w.gen # 0)

OfGen(w, gen) == w.kind = "event" /\ w.gen = gen

(* Version v is in the book, or an event of the socket that is not behind  *)
(* it waits in the queue.                                                  *)
Reaches(queue, at, gen, v) ==
    at >= v \/ \E j \in 1..Len(queue) : OfGen(queue[j], gen) /\ queue[j].event.v >= v

(* A change of the socket finds the version before it in the book: it is   *)
(* there, or an event that comes first brings it.                          *)
QueueFollows(queue, at, gen) ==
    \A i \in 1..Len(queue) :
        OfGen(queue[i], gen) /\ queue[i].event.kind = "change" =>
            \/ at >= queue[i].event.v - 1
            \/ \E j \in 1..(i - 1) : OfGen(queue[j], gen) /\ queue[j].event.v >= queue[i].event.v - 1

WireFollows(line, queue, at, gen) ==
    \A i \in 1..Len(line) :
        line[i].kind = "change" =>
            \/ Reaches(queue, at, gen, line[i].v - 1)
            \/ \E j \in 1..(i - 1) : line[j].v >= line[i].v - 1

(* What an open socket has yet to send begins after what it has sent.      *)
OpenFollows(line, queue, at, gen, v) ==
    Reaches(queue, at, gen, v) \/ \E j \in 1..Len(line) : line[j].v >= v

(* Together: version by version, nothing is left out between the book, the *)
(* queue, the wire and the venue.                                          *)
Follows(queue, line, at, gen, open, v) ==
    /\ QueueFollows(queue, at, gen)
    /\ WireFollows(line, queue, at, gen)
    /\ open => OpenFollows(line, queue, at, gen, v)

(* A book is that of its version.                                          *)
BookOK(b) ==
    /\ b \in BookSet /\ b.levels = RealBook(b.at)
    /\ b.seq = IF Sequenced /\ b.seq # NoSequence THEN b.at ELSE NoSequence

QueueOK(queue, gen) == queue \in Seq(ItemSet) /\ \A i \in 1..Len(queue) : Queued(queue[i], gen)

(* The queue and the wire hold nothing of a socket that is not open.       *)
FeedInv ==
    /\ version \in Nat
    /\ socket \in [gen : Nat \ {0}, state : {"none", "opening", "open"}, wire : Seq(EventSet)]
    /\ BookOK(book) /\ QueueOK(work, socket.gen)
    /\ socket.state # "open" => /\ socket.wire = <<>>
                                /\ \A i \in 1..Len(work) : ~OfGen(work[i], socket.gen)
    /\ Follows(work, socket.wire, book.at, socket.gen, socket.state = "open", version)

-----------------------------------------------------------------------------
LEMMA ItemFields ==
    ASSUME NEW queue \in Seq(ItemSet), NEW i \in 1..Len(queue)
    PROVE  queue[i] \in ItemSet /\ queue[i].event.v \in Nat /\ queue[i].gen \in Nat
<1>1. queue[i] \in ItemSet
  OBVIOUS
<1>2. QED
  BY <1>1 DEF ItemSet

LEMMA Popped ==
    ASSUME NEW S, NEW queue \in Seq(S), queue # <<>>
    PROVE  /\ Tail(queue) \in Seq(S) /\ Len(Tail(queue)) = Len(queue) - 1
           /\ Head(queue) = queue[1] /\ Len(queue) \in Nat \ {0}
           /\ \A i \in 1..Len(Tail(queue)) : Tail(queue)[i] = queue[i + 1]
OBVIOUS

LEMMA Pushed ==
    ASSUME NEW S, NEW queue \in Seq(S), NEW w \in S
    PROVE  /\ Append(queue, w) \in Seq(S) /\ Len(Append(queue, w)) = Len(queue) + 1
           /\ Len(queue) \in Nat
           /\ Append(queue, w)[Len(queue) + 1] = w
           /\ \A i \in 1..Len(queue) : Append(queue, w)[i] = queue[i]
OBVIOUS

LEMMA Put ==
    ASSUME NEW S, NEW queue \in Seq(S), queue # <<>>, NEW w \in S
    PROVE  LET new == <<w>> \o Tail(queue)
           IN  /\ new \in Seq(S) /\ Len(new) = Len(queue) /\ new[1] = w /\ Len(queue) \in Nat \ {0}
               /\ \A i \in 2..Len(queue) : new[i] = queue[i]
<1>1. Tail(queue) \in Seq(S) /\ Len(Tail(queue)) = Len(queue) - 1 /\ <<w>> \in Seq(S) /\ Len(<<w>>) = 1
  OBVIOUS
<1>2. \A i \in 1..Len(Tail(queue)) : Tail(queue)[i] = queue[i + 1]
  OBVIOUS
<1>3. QED
  BY <1>1, <1>2

(* The head is done with: what it brought is in the book. *)
LEMMA ReachesAfterHead ==
    ASSUME NEW queue \in Seq(ItemSet), queue # <<>>, NEW at \in Nat, NEW now \in Nat, now >= at,
           NEW gen \in Nat, OfGen(queue[1], gen) => now >= queue[1].event.v,
           NEW new \in Seq(ItemSet),
           \A i \in 2..Len(queue) : \E k \in 1..Len(new) : new[k] = queue[i],
           NEW v \in Int, Reaches(queue, at, gen, v)
    PROVE  Reaches(new, now, gen, v)
<1>1. CASE at >= v
  BY <1>1 DEF Reaches
<1>2. CASE \E j \in 1..Len(queue) : OfGen(queue[j], gen) /\ queue[j].event.v >= v
  <2>1. PICK j \in 1..Len(queue) : OfGen(queue[j], gen) /\ queue[j].event.v >= v
    BY <1>2
  <2>2. queue[j].event.v \in Nat
    BY ItemFields
  <2>3. CASE j = 1
    BY <2>1, <2>2, <2>3 DEF Reaches
  <2>4. CASE j # 1
    <3>1. PICK k \in 1..Len(new) : new[k] = queue[j]
      BY <2>4
    <3>2. QED
      BY <2>1, <3>1 DEF Reaches
  <2>5. QED
    BY <2>3, <2>4
<1>3. QED
  BY <1>1, <1>2 DEF Reaches

LEMMA WireFollowsMore ==
    ASSUME NEW queue, NEW new, NEW at, NEW now, NEW gen, NEW line \in Seq(EventSet),
           \A v \in Int : Reaches(queue, at, gen, v) => Reaches(new, now, gen, v),
           NEW v \in Nat, NEW open \in BOOLEAN,
           WireFollows(line, queue, at, gen), open => OpenFollows(line, queue, at, gen, v)
    PROVE  WireFollows(line, new, now, gen) /\ (open => OpenFollows(line, new, now, gen, v))
<1>1. \A i \in 1..Len(line) : line[i].v - 1 \in Int
  BY DEF EventSet
<1>2. WireFollows(line, new, now, gen)
  BY <1>1 DEF WireFollows
<1>3. QED
  BY <1>2 DEF OpenFollows

LEMMA FollowsPopped ==
    ASSUME NEW queue \in Seq(ItemSet), queue # <<>>, NEW at \in Nat, NEW now \in Nat, now >= at,
           NEW gen \in Nat, OfGen(queue[1], gen) => now >= queue[1].event.v,
           NEW line \in Seq(EventSet), NEW open \in BOOLEAN, NEW v \in Nat,
           Follows(queue, line, at, gen, open, v)
    PROVE  Follows(Tail(queue), line, now, gen, open, v)
<1> DEFINE new == Tail(queue)
<1>1. /\ new \in Seq(ItemSet) /\ Len(new) = Len(queue) - 1 /\ Len(queue) \in Nat \ {0}
      /\ \A i \in 1..Len(new) : new[i] = queue[i + 1]
  BY Popped
<1> HIDE DEF new
<1>2. \A i \in 2..Len(queue) : \E k \in 1..Len(new) : new[k] = queue[i]
  <2>1. SUFFICES ASSUME NEW i \in 2..Len(queue) PROVE \E k \in 1..Len(new) : new[k] = queue[i]
    OBVIOUS
  <2>2. i - 1 \in 1..Len(new) /\ (i - 1) + 1 = i
    BY <1>1
  <2>3. QED
    BY <1>1, <2>2
<1>3. \A u \in Int : Reaches(queue, at, gen, u) => Reaches(new, now, gen, u)
  BY <1>1, <1>2, ReachesAfterHead
<1>4. WireFollows(line, new, now, gen) /\ (open => OpenFollows(line, new, now, gen, v))
  BY <1>3, WireFollowsMore DEF Follows
<1>5. QueueFollows(new, now, gen)
  <2>1. SUFFICES ASSUME NEW i \in 1..Len(new), OfGen(new[i], gen), new[i].event.kind = "change"
                 PROVE  \/ now >= new[i].event.v - 1
                        \/ \E j \in 1..(i - 1) : OfGen(new[j], gen) /\ new[j].event.v >= new[i].event.v - 1
    BY DEF QueueFollows
  <2>2. i + 1 \in 1..Len(queue) /\ new[i] = queue[i + 1] /\ (i + 1) - 1 = i
    BY <1>1
  <2>3. \/ at >= new[i].event.v - 1
        \/ \E j \in 1..i : OfGen(queue[j], gen) /\ queue[j].event.v >= new[i].event.v - 1
    BY <2>1, <2>2 DEF Follows, QueueFollows
  <2>4. new[i].event.v \in Nat
    BY <1>1, ItemFields
  <2>5. CASE at >= new[i].event.v - 1
    BY <2>4, <2>5
  <2>6. ASSUME NEW j \in 1..i, OfGen(queue[j], gen), queue[j].event.v >= new[i].event.v - 1
        PROVE  \/ now >= new[i].event.v - 1
               \/ \E k \in 1..(i - 1) : OfGen(new[k], gen) /\ new[k].event.v >= new[i].event.v - 1
    <3>1. CASE j = 1
      <4>1. queue[1].event.v \in Nat
        <5>1. 1 \in 1..Len(queue)
          BY <1>1
        <5>2. QED
          BY <5>1, ItemFields
      <4>2. OfGen(queue[1], gen) /\ queue[1].event.v >= new[i].event.v - 1
        BY <2>6, <3>1
      <4>3. now >= queue[1].event.v
        BY <4>2
      <4>4. new[i].event.v - 1 \in Int
        BY <2>4
      <4>5. \A a, b \in Int : now >= a /\ a >= b => now >= b
        OBVIOUS
      <4>6. QED
        BY <4>1, <4>2, <4>3, <4>4, <4>5
    <3>2. CASE j # 1
      <4>1. j - 1 \in 1..(i - 1) /\ j - 1 \in 1..Len(new) /\ (j - 1) + 1 = j
        BY <1>1, <3>2
      <4>2. new[j - 1] = queue[j]
        BY <1>1, <4>1
      <4>3. QED
        BY <2>6, <4>1, <4>2
    <3>3. QED
      BY <3>1, <3>2
  <2>7. QED
    BY <2>3, <2>5, <2>6
<1>6. QED
  BY <1>4, <1>5 DEF Follows, new

(* The same when something that is no event takes the place of the head.   *)
Replaced(queue, new) ==
    /\ new \in Seq(ItemSet) /\ Len(new) = Len(queue)
    /\ \A i \in 2..Len(queue) : new[i] = queue[i]
    /\ new[1].kind # "event"

LEMMA FollowsReplaced ==
    ASSUME NEW queue \in Seq(ItemSet), queue # <<>>, NEW at \in Nat, NEW now \in Nat, now >= at,
           NEW gen \in Nat, OfGen(queue[1], gen) => now >= queue[1].event.v,
           NEW new, Replaced(queue, new),
           NEW line \in Seq(EventSet), NEW open \in BOOLEAN, NEW v \in Nat,
           Follows(queue, line, at, gen, open, v)
    PROVE  Follows(new, line, now, gen, open, v)
<1>1. /\ Len(queue) \in Nat \ {0} /\ new \in Seq(ItemSet) /\ Len(new) = Len(queue)
      /\ \A i \in 2..Len(queue) : new[i] = queue[i]
      /\ new[1].kind # "event"
  BY DEF Replaced
<1>2. \A i \in 2..Len(queue) : \E k \in 1..Len(new) : new[k] = queue[i]
  BY <1>1
<1>3. \A u \in Int : Reaches(queue, at, gen, u) => Reaches(new, now, gen, u)
  BY <1>1, <1>2, ReachesAfterHead
<1>4. WireFollows(line, new, now, gen) /\ (open => OpenFollows(line, new, now, gen, v))
  BY <1>3, WireFollowsMore DEF Follows
<1>5. QueueFollows(new, now, gen)
  <2>1. SUFFICES ASSUME NEW i \in 1..Len(new), OfGen(new[i], gen), new[i].event.kind = "change"
                 PROVE  \/ now >= new[i].event.v - 1
                        \/ \E j \in 1..(i - 1) : OfGen(new[j], gen) /\ new[j].event.v >= new[i].event.v - 1
    BY DEF QueueFollows
  <2>2. i # 1
    BY <1>1, <2>1 DEF OfGen
  <2>3. i \in 2..Len(queue) /\ new[i] = queue[i]
    BY <1>1, <2>2
  <2>4. new[i].event.v \in Nat
    BY <1>1, ItemFields
  <2>5. \/ at >= new[i].event.v - 1
        \/ \E j \in 1..(i - 1) : OfGen(queue[j], gen) /\ queue[j].event.v >= new[i].event.v - 1
    BY <1>1, <2>1, <2>3 DEF Follows, QueueFollows
  <2>6. CASE at >= new[i].event.v - 1
    BY <2>4, <2>6
  <2>7. ASSUME NEW j \in 1..(i - 1), OfGen(queue[j], gen), queue[j].event.v >= new[i].event.v - 1
        PROVE  \/ now >= new[i].event.v - 1
               \/ \E k \in 1..(i - 1) : OfGen(new[k], gen) /\ new[k].event.v >= new[i].event.v - 1
    <3>1. CASE j = 1
      <4>1. queue[1].event.v \in Nat
        BY <1>1, ItemFields
      <4>2. OfGen(queue[1], gen) /\ queue[1].event.v >= new[i].event.v - 1
        BY <2>7, <3>1
      <4>3. now >= queue[1].event.v
        BY <4>2
      <4>4. new[i].event.v - 1 \in Int
        BY <2>4
      <4>5. \A a, b \in Int : now >= a /\ a >= b => now >= b
        OBVIOUS
      <4>6. QED
        BY <4>1, <4>2, <4>3, <4>4, <4>5
    <3>2. CASE j # 1
      <4>1. new[j] = queue[j]
        BY <1>1, <2>3, <3>2
      <4>2. QED
        BY <2>7, <4>1
    <3>3. QED
      BY <3>1, <3>2
  <2>8. QED
    BY <2>5, <2>6, <2>7
<1>6. QED
  BY <1>4, <1>5 DEF Follows

(* Something that is no event joins the queue. *)
LEMMA FollowsQueued ==
    ASSUME NEW queue \in Seq(ItemSet), NEW w \in ItemSet, w.kind # "event",
           NEW at \in Nat, NEW gen \in Nat, NEW line \in Seq(EventSet), NEW open \in BOOLEAN,
           NEW v \in Nat, Follows(queue, line, at, gen, open, v)
    PROVE  Follows(Append(queue, w), line, at, gen, open, v)
<1> DEFINE new == Append(queue, w)
<1>1. /\ new \in Seq(ItemSet) /\ Len(new) = Len(queue) + 1 /\ Len(queue) \in Nat
      /\ new[Len(queue) + 1] = w /\ \A i \in 1..Len(queue) : new[i] = queue[i]
  BY Pushed
<1> HIDE DEF new
<1>2. \A u \in Int : Reaches(queue, at, gen, u) => Reaches(new, at, gen, u)
  BY <1>1 DEF Reaches
<1>3. WireFollows(line, new, at, gen) /\ (open => OpenFollows(line, new, at, gen, v))
  BY <1>2, WireFollowsMore DEF Follows
<1>4. QueueFollows(new, at, gen)
  <2>1. SUFFICES ASSUME NEW i \in 1..Len(new), OfGen(new[i], gen), new[i].event.kind = "change"
                 PROVE  \/ at >= new[i].event.v - 1
                        \/ \E j \in 1..(i - 1) : OfGen(new[j], gen) /\ new[j].event.v >= new[i].event.v - 1
    BY DEF QueueFollows
  <2>2. i \in 1..Len(queue) /\ new[i] = queue[i]
    BY <1>1, <2>1 DEF OfGen
  <2>3. \A j \in 1..(i - 1) : j \in 1..Len(queue)
    BY <1>1, <2>2
  <2>4. \A j \in 1..(i - 1) : new[j] = queue[j]
    BY <1>1, <2>3
  <2>5. \/ at >= queue[i].event.v - 1
        \/ \E j \in 1..(i - 1) : OfGen(queue[j], gen) /\ queue[j].event.v >= queue[i].event.v - 1
    BY <2>1, <2>2 DEF Follows, QueueFollows
  <2>6. QED
    BY <2>2, <2>4, <2>5
<1>5. QED
  BY <1>3, <1>4 DEF Follows, new

(* The head of the wire joins the queue. *)
LEMMA FollowsDelivered ==
    ASSUME NEW queue \in Seq(ItemSet), NEW line \in Seq(EventSet), line # <<>>, NEW w \in ItemSet,
           NEW at \in Nat, NEW gen \in Nat, OfGen(w, gen), w.event = Head(line),
           NEW open \in BOOLEAN, NEW v \in Nat, Follows(queue, line, at, gen, open, v)
    PROVE  Follows(Append(queue, w), Tail(line), at, gen, open, v)
<1> DEFINE new == Append(queue, w)
           rest == Tail(line)
<1>1. /\ new \in Seq(ItemSet) /\ Len(new) = Len(queue) + 1 /\ Len(queue) \in Nat
      /\ new[Len(queue) + 1] = w /\ \A i \in 1..Len(queue) : new[i] = queue[i]
  BY Pushed
<1>2. /\ rest \in Seq(EventSet) /\ Len(rest) = Len(line) - 1 /\ w.event = line[1]
      /\ Len(line) \in Nat \ {0} /\ \A i \in 1..Len(rest) : rest[i] = line[i + 1]
  BY Popped
<1> HIDE DEF new, rest
<1>3. \A u \in Int : Reaches(queue, at, gen, u) => Reaches(new, at, gen, u)
  BY <1>1 DEF Reaches
<1>4. \A u \in Int : line[1].v >= u => Reaches(new, at, gen, u)
  <2>1. Len(queue) + 1 \in 1..Len(new)
    BY <1>1
  <2>2. QED
    BY <1>1, <1>2, <2>1 DEF Reaches
<1>5. \A j \in 1..Len(line) : j = 1 \/ (j - 1 \in 1..Len(rest) /\ rest[j - 1] = line[j])
  BY <1>2
<1>6. \A j \in 1..Len(line) : line[j] \in EventSet
  OBVIOUS
<1>7. WireFollows(rest, new, at, gen)
  <2>1. SUFFICES ASSUME NEW i \in 1..Len(rest), rest[i].kind = "change"
                 PROVE  \/ Reaches(new, at, gen, rest[i].v - 1)
                        \/ \E j \in 1..(i - 1) : rest[j].v >= rest[i].v - 1
    BY DEF WireFollows
  <2>2. i + 1 \in 1..Len(line) /\ rest[i] = line[i + 1] /\ (i + 1) - 1 = i
    BY <1>2
  <2>3. rest[i].v - 1 \in Int
    BY <1>6, <2>2 DEF EventSet
  <2>4. \/ Reaches(queue, at, gen, rest[i].v - 1)
        \/ \E j \in 1..i : line[j].v >= rest[i].v - 1
    BY <2>1, <2>2 DEF Follows, WireFollows
  <2>5. ASSUME NEW j \in 1..i, line[j].v >= rest[i].v - 1
        PROVE  \/ Reaches(new, at, gen, rest[i].v - 1)
               \/ \E k \in 1..(i - 1) : rest[k].v >= rest[i].v - 1
    <3>1. CASE j = 1
      BY <1>4, <2>3, <2>5, <3>1
    <3>2. CASE j # 1
      <4>1. j - 1 \in 1..(i - 1) /\ rest[j - 1] = line[j]
        BY <1>2, <1>5, <2>2, <3>2
      <4>2. QED
        BY <2>5, <4>1
    <3>3. QED
      BY <3>1, <3>2
  <2>6. QED
    BY <1>3, <2>3, <2>4, <2>5
<1>8. open => OpenFollows(rest, new, at, gen, v)
  <2>1. SUFFICES ASSUME open PROVE OpenFollows(rest, new, at, gen, v)
    OBVIOUS
  <2>2. v \in Int
    OBVIOUS
  <2>3. CASE Reaches(queue, at, gen, v)
    BY <1>3, <2>2, <2>3 DEF OpenFollows
  <2>4. ASSUME NEW j \in 1..Len(line), line[j].v >= v
        PROVE  OpenFollows(rest, new, at, gen, v)
    <3>1. CASE j = 1
      BY <1>4, <2>2, <2>4, <3>1 DEF OpenFollows
    <3>2. CASE j # 1
      BY <1>5, <2>4, <3>2 DEF OpenFollows
    <3>3. QED
      BY <3>1, <3>2
  <2>5. QED
    BY <2>1, <2>3, <2>4 DEF Follows, OpenFollows
<1>9. QueueFollows(new, at, gen)
  <2>1. SUFFICES ASSUME NEW i \in 1..Len(new), OfGen(new[i], gen), new[i].event.kind = "change"
                 PROVE  \/ at >= new[i].event.v - 1
                        \/ \E j \in 1..(i - 1) : OfGen(new[j], gen) /\ new[j].event.v >= new[i].event.v - 1
    BY DEF QueueFollows
  <2>2. \A j \in 1..(i - 1) : j \in 1..Len(queue)
    BY <1>1
  <2>3. \A j \in 1..(i - 1) : new[j] = queue[j]
    BY <1>1, <2>2
  <2>4. CASE i \in 1..Len(queue)
    <3>1. new[i] = queue[i]
      BY <1>1, <2>4
    <3>2. \/ at >= queue[i].event.v - 1
          \/ \E j \in 1..(i - 1) : OfGen(queue[j], gen) /\ queue[j].event.v >= queue[i].event.v - 1
      BY <2>1, <2>4, <3>1 DEF Follows, QueueFollows
    <3>3. QED
      BY <2>3, <3>1, <3>2
  <2>5. CASE i = Len(queue) + 1
    <3>1. new[i].event = line[1] /\ 1 \in 1..Len(line)
      BY <1>1, <1>2, <2>5
    <3>2. \/ Reaches(queue, at, gen, line[1].v - 1)
          \/ \E j \in 1..(1 - 1) : line[j].v >= line[1].v - 1
      BY <2>1, <3>1 DEF Follows, WireFollows
    <3>3. Reaches(queue, at, gen, line[1].v - 1)
      BY <3>2
    <3>4. i - 1 = Len(queue)
      BY <1>1, <2>5
    <3>5. QED
      BY <2>3, <3>1, <3>3, <3>4 DEF Reaches
  <2>6. QED
    BY <1>1, <2>4, <2>5
<1>10. QED
  BY <1>7, <1>8, <1>9 DEF Follows, new, rest

(* A new generation: nothing in the queue is of it. *)
LEMMA FollowsFenced ==
    ASSUME NEW queue \in Seq(ItemSet), NEW at, NEW gen, NEW v,
           \A i \in 1..Len(queue) : ~OfGen(queue[i], gen)
    PROVE  Follows(queue, <<>>, at, gen, FALSE, v)
BY DEF Follows, QueueFollows, WireFollows

(* The source changes, and an open socket has the change to send.          *)
LEMMA FollowsChange ==
    ASSUME NEW queue \in Seq(ItemSet), NEW at \in Nat, NEW gen \in Nat, NEW line \in Seq(EventSet),
           NEW v \in Nat, NEW e \in EventSet, e.kind = "change", e.v = v + 1,
           Follows(queue, line, at, gen, TRUE, v)
    PROVE  Follows(queue, Append(line, e), at, gen, TRUE, v + 1)
<1> DEFINE new == Append(line, e)
<1>1. /\ new \in Seq(EventSet) /\ Len(new) = Len(line) + 1 /\ Len(line) \in Nat
      /\ new[Len(line) + 1] = e /\ \A i \in 1..Len(line) : new[i] = line[i]
  BY Pushed
<1> HIDE DEF new
<1>2. WireFollows(new, queue, at, gen)
  <2>1. SUFFICES ASSUME NEW i \in 1..Len(new), new[i].kind = "change"
                 PROVE  \/ Reaches(queue, at, gen, new[i].v - 1)
                        \/ \E j \in 1..(i - 1) : new[j].v >= new[i].v - 1
    BY DEF WireFollows
  <2>2. \A j \in 1..(i - 1) : j \in 1..Len(line)
    BY <1>1
  <2>3. \A j \in 1..(i - 1) : new[j] = line[j]
    BY <1>1, <2>2
  <2>4. CASE i \in 1..Len(line)
    <3>1. new[i] = line[i]
      BY <1>1, <2>4
    <3>2. \/ Reaches(queue, at, gen, line[i].v - 1)
          \/ \E j \in 1..(i - 1) : line[j].v >= line[i].v - 1
      BY <2>1, <2>4, <3>1 DEF Follows, WireFollows
    <3>3. QED
      BY <2>3, <3>1, <3>2
  <2>5. CASE i = Len(line) + 1
    <3>1. new[i].v - 1 = v
      <4>1. new[i] = e
        BY <1>1, <2>5
      <4>2. QED
        BY <4>1
    <3>2. i - 1 = Len(line)
      BY <1>1, <2>5
    <3>3. QED
      BY <2>3, <3>1, <3>2 DEF Follows, OpenFollows
  <2>6. QED
    BY <1>1, <2>4, <2>5
<1>3. OpenFollows(new, queue, at, gen, v + 1)
  <2>1. Len(line) + 1 \in 1..Len(new) /\ new[Len(line) + 1].v >= v + 1
    BY <1>1
  <2>2. QED
    BY <2>1 DEF OpenFollows
<1>4. QED
  BY <1>2, <1>3 DEF Follows, new

LEMMA FeedPartsNext ==
    FeedInv' <=> /\ version' \in Nat
                 /\ socket' \in [gen : Nat \ {0}, state : {"none", "opening", "open"}, wire : Seq(EventSet)]
                 /\ BookOK(book') /\ QueueOK(work', socket'.gen)
                 /\ socket'.state # "open" => /\ socket'.wire = <<>>
                                              /\ \A i \in 1..Len(work') : ~OfGen(work'[i], socket'.gen)
                 /\ Follows(work', socket'.wire, book'.at, socket'.gen, socket'.state = "open", version')
BY DEF FeedInv, BookOK, QueueOK

(* What is put in the queue. *)
LEMMA RestItem ==
    ASSUME NEW for \in {"pass", "gap", "drop"}, NEW gen \in Nat
    PROVE  /\ Rest(for, gen) \in ItemSet /\ Rest(for, gen).kind # "event"
           /\ \A g \in Nat : gen <= g => Queued(Rest(for, gen), g)
BY DEF Rest, ItemSet, Queued

LEMMA EventItem ==
    ASSUME NEW e \in EventSet, NEW gen \in Nat \ {0}
    PROVE  /\ Event(e, gen) \in ItemSet /\ OfGen(Event(e, gen), gen) /\ Event(e, gen).event = e
           /\ Queued(Event(e, gen), gen)
<1>1. e \in [kind : {"book", "change", "none"}, v : Nat]
  BY DEF EventSet
<1>2. gen <= gen
  OBVIOUS
<1>3. QED
  BY <1>1, <1>2 DEF Event, ItemSet, OfGen, Queued

LEMMA QueuePushed ==
    ASSUME NEW gen \in Nat, NEW queue, QueueOK(queue, gen), NEW w \in ItemSet, Queued(w, gen)
    PROVE  QueueOK(Append(queue, w), gen)
<1>1. /\ Append(queue, w) \in Seq(ItemSet) /\ Len(Append(queue, w)) = Len(queue) + 1 /\ Len(queue) \in Nat
      /\ Append(queue, w)[Len(queue) + 1] = w /\ \A i \in 1..Len(queue) : Append(queue, w)[i] = queue[i]
  BY Pushed DEF QueueOK
<1>2. QED
  BY <1>1 DEF QueueOK

LEMMA QueuePopped ==
    ASSUME NEW gen \in Nat, NEW queue, QueueOK(queue, gen), queue # <<>>
    PROVE  QueueOK(Tail(queue), gen) /\ queue[1] = Head(queue) /\ queue[1] \in ItemSet /\ Queued(queue[1], gen)
<1>1. /\ Tail(queue) \in Seq(ItemSet) /\ Len(Tail(queue)) = Len(queue) - 1
      /\ Head(queue) = queue[1] /\ Len(queue) \in Nat \ {0}
      /\ \A i \in 1..Len(Tail(queue)) : Tail(queue)[i] = queue[i + 1]
  BY Popped DEF QueueOK
<1>2. 1 \in 1..Len(queue) /\ \A i \in 1..Len(Tail(queue)) : i + 1 \in 1..Len(queue)
  BY <1>1
<1>3. queue[1] \in ItemSet
  BY <1>2, ItemFields DEF QueueOK
<1>4. QED
  BY <1>1, <1>2, <1>3 DEF QueueOK

LEMMA QueueRaised ==
    ASSUME NEW gen \in Nat, NEW queue, QueueOK(queue, gen)
    PROVE  QueueOK(queue, gen + 1) /\ \A i \in 1..Len(queue) : ~OfGen(queue[i], gen + 1)
<1>1. ASSUME NEW i \in 1..Len(queue)
      PROVE  Queued(queue[i], gen + 1) /\ ~OfGen(queue[i], gen + 1)
  <2>1. queue[i].gen \in Nat /\ Queued(queue[i], gen)
    BY ItemFields DEF QueueOK
  <2>2. QED
    BY <2>1 DEF Queued, OfGen
<1>2. QED
  BY <1>1 DEF QueueOK

LEMMA BookLeft ==
    ASSUME NEW b, BookOK(b)
    PROVE  /\ BookOK(Disconnected(b)) /\ Disconnected(b).at = b.at
           /\ b.at \in Nat
BY DEF BookOK, BookSet, Disconnected

(* #disconnectSocket(): a new generation, and a drop in the queue. *)
LEMMA Fencing ==
    ASSUME FeedInv, NEW b, BookOK(b), NEW queue, QueueOK(queue, socket.gen), Fenced(b, queue),
           version' = version
    PROVE  FeedInv'
<1>1. version \in Nat /\ socket.gen \in Nat
  BY DEF FeedInv
<1>2. socket.gen + 1 \in Nat \ {0} /\ 0 \in Nat /\ 0 <= socket.gen + 1
  BY <1>1
<1> DEFINE gen == socket.gen + 1
           w == Rest("drop", AnyGeneration)
<1>3. socket' = [gen |-> gen, state |-> "none", wire |-> <<>>] /\ book' = Disconnected(b)
      /\ work' = Append(queue, w)
  BY DEF Fenced
<1>4. QueueOK(queue, gen) /\ \A i \in 1..Len(queue) : ~OfGen(queue[i], gen)
  BY <1>1, QueueRaised
<1>5. w \in ItemSet /\ w.kind # "event" /\ Queued(w, gen)
  BY <1>2, RestItem DEF AnyGeneration
<1>6. /\ work' \in Seq(ItemSet) /\ Len(work') = Len(queue) + 1 /\ Len(queue) \in Nat
      /\ work'[Len(queue) + 1] = w /\ \A i \in 1..Len(queue) : work'[i] = queue[i]
  BY <1>3, <1>4, <1>5, Pushed DEF QueueOK
<1> HIDE DEF w, gen
<1>7. gen \in Nat \ {0}
  BY <1>2 DEF gen
<1>8. QueueOK(work', gen)
  BY <1>3, <1>4, <1>5, <1>7, QueuePushed
<1>9. \A i \in 1..Len(work') : ~OfGen(work'[i], gen)
  BY <1>4, <1>5, <1>6 DEF OfGen
<1>10. BookOK(book')
  BY <1>3, BookLeft
<1>11. Follows(work', <<>>, book'.at, gen, FALSE, version)
  BY <1>6, <1>9, FollowsFenced
<1>12. /\ socket' \in [gen : Nat \ {0}, state : {"none", "opening", "open"}, wire : Seq(EventSet)]
       /\ socket'.gen = gen /\ socket'.state = "none" /\ socket'.wire = <<>>
  BY <1>3, <1>7
<1>13. (socket'.state = "open") = FALSE
  BY <1>12
<1>14. QED
  BY <1>1, <1>8, <1>9, <1>10, <1>11, <1>12, <1>13, FeedPartsNext

(* A pass reconnects: the next generation, with a socket or without. *)
LEMMA Reopening ==
    ASSUME FeedInv, BookOK(book'), QueueOK(work', socket.gen), version' = version,
           NEW state \in {"none", "opening"},
           socket' = [gen |-> socket.gen + 1, state |-> state, wire |-> <<>>]
    PROVE  FeedInv'
<1>1. version \in Nat /\ socket.gen \in Nat
  BY DEF FeedInv
<1> DEFINE gen == socket.gen + 1
<1>2. QueueOK(work', gen) /\ \A i \in 1..Len(work') : ~OfGen(work'[i], gen)
  BY <1>1, QueueRaised
<1>3. gen \in Nat \ {0}
  BY <1>1
<1>4. socket' = [gen |-> gen, state |-> state, wire |-> <<>>]
  OBVIOUS
<1> HIDE DEF gen
<1>5. Follows(work', <<>>, book'.at, gen, FALSE, version)
  BY <1>2, FollowsFenced DEF QueueOK
<1>6. /\ socket' \in [gen : Nat \ {0}, state : {"none", "opening", "open"}, wire : Seq(EventSet)]
      /\ socket'.gen = gen /\ socket'.state = state /\ socket'.wire = <<>>
  BY <1>3, <1>4
<1>7. (socket'.state = "open") = FALSE
  BY <1>6
<1>8. QED
  BY <1>1, <1>2, <1>5, <1>6, <1>7, FeedPartsNext

(* The head is done with, and the socket is the same. *)
LEMMA HeadDone ==
    ASSUME FeedInv, work # <<>>, BookOK(book'), book'.at >= book.at,
           OfGen(work[1], socket.gen) => book'.at >= work[1].event.v,
           work' = Tail(work), UNCHANGED <<socket, version>>
    PROVE  FeedInv'
<1>1. /\ version \in Nat
      /\ socket \in [gen : Nat \ {0}, state : {"none", "opening", "open"}, wire : Seq(EventSet)]
      /\ BookOK(book) /\ QueueOK(work, socket.gen)
      /\ socket.state # "open" => /\ socket.wire = <<>>
                                  /\ \A i \in 1..Len(work) : ~OfGen(work[i], socket.gen)
      /\ Follows(work, socket.wire, book.at, socket.gen, socket.state = "open", version)
  BY DEF FeedInv
<1>2. QueueOK(work', socket.gen)
  BY <1>1, QueuePopped
<1>3. book.at \in Nat /\ book'.at \in Nat
  BY <1>1, BookLeft
<1>4. socket.wire \in Seq(EventSet) /\ socket.gen \in Nat
  BY <1>1
<1>5. Follows(work', socket.wire, book'.at, socket.gen, socket.state = "open", version)
  BY <1>1, <1>3, <1>4, FollowsPopped DEF QueueOK
<1>6. socket.state # "open" => \A i \in 1..Len(work') : ~OfGen(work'[i], socket.gen)
  <2>1. Len(Tail(work)) = Len(work) - 1 /\ \A i \in 1..Len(Tail(work)) : Tail(work)[i] = work[i + 1]
    BY <1>1, Popped DEF QueueOK
  <2>2. Len(work) \in Nat
    BY <1>1 DEF QueueOK
  <2>3. \A i \in 1..Len(Tail(work)) : i + 1 \in 1..Len(work)
    BY <2>1, <2>2
  <2>4. QED
    BY <1>1, <2>1, <2>3
<1>7. QED
  BY <1>1, <1>2, <1>5, <1>6, FeedPartsNext

(* Something that is no event takes the place of the head. *)
LEMMA HeadReplaced ==
    ASSUME FeedInv, work # <<>>, NEW w \in ItemSet, w.kind # "event", Queued(w, socket.gen),
           NEW now \in Nat, now >= book.at, BookOK(book'), book'.at = now,
           OfGen(work[1], socket.gen) => now >= work[1].event.v,
           work' \in Seq(ItemSet), Len(work') = Len(work), work'[1] = w,
           \A i \in 2..Len(work) : work'[i] = work[i],
           UNCHANGED <<socket, version>>
    PROVE  FeedInv'
<1>1. /\ version \in Nat /\ socket.gen \in Nat /\ socket.wire \in Seq(EventSet)
      /\ work \in Seq(ItemSet) /\ book.at \in Nat
      /\ Follows(work, socket.wire, book.at, socket.gen, socket.state = "open", version)
  BY BookLeft DEF FeedInv, QueueOK
<1> DEFINE open == socket.state = "open"
<1>7. Follows(work, socket.wire, book.at, socket.gen, open, version) /\ open \in BOOLEAN
  BY <1>1
<1> HIDE DEF open
<1> DEFINE gen == socket.gen
           line == socket.wire
           new == work'
           at == book.at
<1>9. /\ gen \in Nat /\ line \in Seq(EventSet) /\ Follows(work, line, at, gen, open, version)
      /\ OfGen(work[1], gen) => now >= work[1].event.v
      /\ Replaced(work, new)
      /\ at \in Nat /\ now >= at
  BY <1>1, <1>7 DEF Replaced
<1> HIDE DEF gen, line, new, at
<1>10. Follows(new, line, now, gen, open, version)
  BY <1>1, <1>7, <1>9, FollowsReplaced
<1>8. Follows(work', socket.wire, now, socket.gen, open, version)
  BY <1>10 DEF gen, line, new
<1>2. Follows(work', socket.wire, now, socket.gen, socket.state = "open", version)
  BY <1>8 DEF open
<1>3. \A i \in 1..Len(work) : i = 1 \/ i \in 2..Len(work)
  BY <1>1
<1>4. QueueOK(work', socket.gen)
  BY <1>1, <1>3 DEF FeedInv, QueueOK
<1>5. socket.state # "open" => \A i \in 1..Len(work') : ~OfGen(work'[i], socket.gen)
  BY <1>1, <1>3 DEF FeedInv, OfGen
<1>6. QED
  BY <1>2, <1>4, <1>5, FeedPartsNext DEF FeedInv

(* A read joins the queue. *)
LEMMA RestQueued ==
    ASSUME FeedInv, work' = Append(work, Rest("pass", AnyGeneration)), UNCHANGED <<version, book, socket>>
    PROVE  FeedInv'
<1>1. /\ version \in Nat /\ socket.gen \in Nat /\ socket.wire \in Seq(EventSet)
      /\ work \in Seq(ItemSet) /\ book.at \in Nat
      /\ Follows(work, socket.wire, book.at, socket.gen, socket.state = "open", version)
  BY BookLeft DEF FeedInv, QueueOK
<1> DEFINE w == Rest("pass", AnyGeneration)
<1>2. w \in ItemSet /\ w.kind # "event" /\ Queued(w, socket.gen)
  BY <1>1, RestItem DEF AnyGeneration
<1> HIDE DEF w
<1>3. work' = Append(work, w)
  BY DEF w
<1> DEFINE open == socket.state = "open"
<1>9. Follows(work, socket.wire, book.at, socket.gen, open, version) /\ open \in BOOLEAN
  BY <1>1
<1> HIDE DEF open
<1>10. Follows(work', socket.wire, book.at, socket.gen, open, version)
  BY <1>1, <1>2, <1>3, <1>9, FollowsQueued
<1>4. Follows(work', socket.wire, book.at, socket.gen, socket.state = "open", version)
  BY <1>10 DEF open
<1>5. QueueOK(work', socket.gen)
  BY <1>1, <1>2, <1>3, QueuePushed DEF FeedInv
<1>6. /\ Len(work') = Len(work) + 1 /\ Len(work) \in Nat
      /\ work'[Len(work) + 1] = w /\ \A i \in 1..Len(work) : work'[i] = work[i]
  BY <1>1, <1>2, <1>3, Pushed
<1>7. socket.state # "open" => \A i \in 1..Len(work') : ~OfGen(work'[i], socket.gen)
  BY <1>2, <1>6 DEF FeedInv, OfGen
<1>8. QED
  BY <1>1, <1>4, <1>5, <1>7, FeedPartsNext DEF FeedInv

LEMMA SnapshotOK ==
    ASSUME NEW v \in Nat
    PROVE  BookOK(Snapshot(v)) /\ Snapshot(v).at = v
<1>1. (IF Sequenced THEN v ELSE NoSequence) \in Int
  BY DEF NoSequence
<1>2. QED
  BY <1>1 DEF Snapshot, BookOK, BookSet, NoSequence

LEMMA ChangedOK ==
    ASSUME BookOK(book), NEW v \in Nat \ {0}, book.at \in {v - 1, v}
    PROVE  BookOK(Changed(v)) /\ Changed(v).at = v
<1>1. book \in BookSet /\ book.levels = RealBook(book.at)
  BY DEF BookOK
<1>2. [book.levels EXCEPT ![v % 2] = v] = RealBook(v)
  BY <1>1, BookFollows
<1> DEFINE seq == IF Sequenced THEN v ELSE book.seq
<1>3. seq \in Int
  BY <1>1 DEF BookSet
<1> DEFINE levels == [book.levels EXCEPT ![v % 2] = v]
<1>7. Changed(v) = [book EXCEPT !.levels = levels, !.at = v, !.seq = seq, !.connected = TRUE]
  BY <1>1 DEF Changed, BookSet
<1>8. levels = RealBook(v)
  BY <1>2
<1> HIDE DEF levels
<1>4. Changed(v) = [levels |-> RealBook(v), at |-> v, seq |-> seq, connected |-> TRUE]
  BY <1>1, <1>7, <1>8 DEF BookSet
<1>5. seq = IF Sequenced /\ seq # NoSequence THEN v ELSE NoSequence
  BY DEF BookOK, NoSequence
<1> HIDE DEF seq
<1>6. QED
  BY <1>3, <1>4, <1>5 DEF BookOK, BookSet

(* An event of the socket whose turn it is: applied, it is a version of    *)
(* the source; refused, the book is not behind it.                         *)
LEMMA EventApplies ==
    ASSUME FeedInv, work # <<>>, OfGen(work[1], socket.gen)
    PROVE  LET e == work[1].event
           IN  /\ e.v \in Nat
               /\ Refused(e) => book.at >= e.v
               /\ ~Refused(e) => /\ BookOK(Applied(e)) /\ Applied(e).at = e.v /\ e.v >= book.at
<1> DEFINE e == work[1].event
<1>1. /\ work \in Seq(ItemSet) /\ book.at \in Nat /\ BookOK(book) /\ Queued(work[1], socket.gen)
      /\ QueueFollows(work, book.at, socket.gen)
  BY BookLeft, QueuePopped DEF FeedInv, QueueOK, Follows
<1>2. e \in EventSet
  BY <1>1 DEF Queued, OfGen
<1>3. e.v \in Nat /\ (e.kind = "change" => e.v \in Nat \ {0}) /\ e.kind \in {"book", "change"}
  BY <1>2 DEF EventSet
<1>4. CASE e.kind = "book"
  BY <1>1, <1>3, <1>4, SnapshotOK DEF Refused, Applied, Older
<1>5. CASE e.kind = "change"
  <2>1. 1 \in 1..Len(work)
    BY <1>1
  <2>2. \/ book.at >= e.v - 1
        \/ \E j \in 1..(1 - 1) : OfGen(work[j], socket.gen) /\ work[j].event.v >= e.v - 1
    BY <1>1, <1>5, <2>1 DEF QueueFollows
  <2>3. book.at >= e.v - 1
    BY <2>2
  <2>4. e.kind # "book"
    BY <1>5
  <2>5. ASSUME Refused(e) PROVE book.at >= e.v
    <3>1. Gap(e.v)
      BY <2>4, <2>5 DEF Refused
    <3>2. CASE Sequenced /\ book.seq # NoSequence /\ e.v # book.seq + 1
      <4>1. book.seq = book.at
        BY <1>1, <3>2 DEF BookOK
      <4>2. QED
        BY <1>1, <1>3, <2>3, <3>2, <4>1
    <3>3. CASE e.v < book.at
      BY <1>1, <1>3, <3>3
    <3>4. QED
      BY <3>1, <3>2, <3>3 DEF Gap
  <2>6. ASSUME ~Refused(e)
        PROVE  BookOK(Applied(e)) /\ Applied(e).at = e.v /\ e.v >= book.at
    <3>1. ~Gap(e.v) /\ Applied(e) = Changed(e.v)
      BY <2>4, <2>6 DEF Refused, Applied
    <3>2. e.v >= book.at
      BY <1>1, <1>3, <3>1 DEF Gap
    <3>3. book.at \in {e.v - 1, e.v}
      BY <1>1, <1>3, <2>3, <3>2
    <3>4. QED
      BY <1>1, <1>3, <1>5, <3>1, <3>2, <3>3, ChangedOK
  <2>7. QED
    BY <1>3, <2>5, <2>6
<1>6. QED
  BY <1>3, <1>4, <1>5

LEMMA FeedFacts ==
    ASSUME FeedInv
    PROVE  /\ version \in Nat /\ socket.gen \in Nat \ {0} /\ socket.wire \in Seq(EventSet)
           /\ socket \in [gen : Nat \ {0}, state : {"none", "opening", "open"}, wire : Seq(EventSet)]
           /\ work \in Seq(ItemSet) /\ QueueOK(work, socket.gen)
           /\ BookOK(book) /\ book.at \in Nat
BY BookLeft DEF FeedInv, QueueOK

LEMMA FeedHead ==
    ASSUME FeedInv, work # <<>>
    PROVE  /\ QueueOK(Tail(work), socket.gen) /\ work[1] = Head(work)
           /\ work[1] \in ItemSet /\ Queued(work[1], socket.gen)
BY QueuePopped DEF FeedInv

LEMMA ChangeNotified ==
    ASSUME FeedInv, SourceChanges
    PROVE  FeedInv'
<1>1. /\ version \in Nat /\ socket.gen \in Nat \ {0} /\ socket.wire \in Seq(EventSet)
      /\ socket \in [gen : Nat \ {0}, state : {"none", "opening", "open"}, wire : Seq(EventSet)]
      /\ work \in Seq(ItemSet) /\ book.at \in Nat
  BY FeedFacts
<1> DEFINE v == version + 1
           e == [kind |-> "change", v |-> v]
<1>2. version' = v /\ v \in Nat /\ v > 0 /\ UNCHANGED <<book, work>>
  BY <1>1 DEF SourceChanges
<1>3. socket' = IF socket.state = "open" THEN [socket EXCEPT !.wire = Append(@, e)] ELSE socket
  BY DEF SourceChanges
<1>10. v = version + 1
  OBVIOUS
<1> HIDE DEF v
<1>4. e \in EventSet /\ e.kind = "change" /\ e.v = v
  BY <1>2 DEF EventSet
<1> HIDE DEF e
<1>5. CASE socket.state = "open"
  <2> DEFINE line == Append(socket.wire, e)
  <2>1. line \in Seq(EventSet)
    BY <1>1, <1>4
  <2>2. socket' = [socket EXCEPT !.wire = line]
    BY <1>3, <1>5
  <2>3. Follows(work, socket.wire, book.at, socket.gen, TRUE, version)
    <3>1. (socket.state = "open") = TRUE
      BY <1>5
    <3>2. QED
      BY <3>1 DEF FeedInv
  <2>4. e.v = version + 1
    BY <1>4, <1>10
  <2>5. Follows(work, line, book.at, socket.gen, TRUE, v)
    <3>1. Follows(work, line, book.at, socket.gen, TRUE, version + 1)
      BY <1>1, <1>4, <2>3, <2>4, FollowsChange
    <3>2. QED
      BY <1>10, <3>1
  <2> HIDE DEF line
  <2>6. /\ socket' \in [gen : Nat \ {0}, state : {"none", "opening", "open"}, wire : Seq(EventSet)]
        /\ socket'.gen = socket.gen /\ socket'.state = "open" /\ socket'.wire = line
    BY <1>1, <1>5, <2>1, <2>2
  <2>7. (socket'.state = "open") = TRUE
    BY <2>6
  <2>8. QED
    BY <1>2, <2>5, <2>6, <2>7, FeedPartsNext DEF FeedInv
<1>6. CASE socket.state # "open"
  <2>1. socket' = socket
    BY <1>3, <1>6
  <2>2. (socket.state = "open") = FALSE
    BY <1>6
  <2>3. Follows(work, socket.wire, book.at, socket.gen, FALSE, version)
    BY <2>2 DEF FeedInv
  <2>4. Follows(work, socket.wire, book.at, socket.gen, FALSE, v)
    BY <2>3 DEF Follows
  <2>5. QED
    BY <1>2, <2>1, <2>2, <2>4, FeedPartsNext DEF FeedInv
<1>7. QED
  BY <1>5, <1>6

LEMMA OpeningKeeps ==
    ASSUME FeedInv, SocketOpens
    PROVE  FeedInv'
<1>1. /\ version \in Nat /\ socket.gen \in Nat \ {0} /\ UNCHANGED <<version, book, work>>
      /\ socket \in [gen : Nat \ {0}, state : {"none", "opening", "open"}, wire : Seq(EventSet)]
      /\ work \in Seq(ItemSet) /\ book.at \in Nat
      /\ \A i \in 1..Len(work) : ~OfGen(work[i], socket.gen)
  BY FeedFacts DEF SocketOpens, FeedInv
<1> DEFINE e == [kind |-> "book", v |-> version]
           line == <<e>>
<1>2. e \in EventSet /\ e.kind = "book" /\ e.v = version
  BY <1>1 DEF EventSet
<1>3. socket' = [socket EXCEPT !.state = "open", !.wire = line]
  BY DEF SocketOpens
<1> HIDE DEF e
<1>4. line \in Seq(EventSet) /\ Len(line) = 1 /\ line[1] = e
  BY <1>2
<1> HIDE DEF line
<1>5. /\ socket' \in [gen : Nat \ {0}, state : {"none", "opening", "open"}, wire : Seq(EventSet)]
      /\ socket'.gen = socket.gen /\ socket'.state = "open" /\ socket'.wire = line
  BY <1>1, <1>3, <1>4
<1>6. WireFollows(line, work, book.at, socket.gen)
  BY <1>2, <1>4 DEF WireFollows
<1>7. OpenFollows(line, work, book.at, socket.gen, version)
  BY <1>1, <1>2, <1>4 DEF OpenFollows
<1>8. QueueFollows(work, book.at, socket.gen)
  BY <1>1 DEF QueueFollows
<1>9. Follows(work, line, book.at, socket.gen, TRUE, version)
  BY <1>6, <1>7, <1>8 DEF Follows
<1>10. (socket'.state = "open") = TRUE
  BY <1>5
<1>11. QED
  BY <1>1, <1>5, <1>9, <1>10, FeedPartsNext DEF FeedInv

LEMMA DeliverKeeps ==
    ASSUME FeedInv, Deliver
    PROVE  FeedInv'
<1>1. /\ version \in Nat /\ socket.gen \in Nat \ {0} /\ socket.wire \in Seq(EventSet)
      /\ socket \in [gen : Nat \ {0}, state : {"none", "opening", "open"}, wire : Seq(EventSet)]
      /\ work \in Seq(ItemSet) /\ book.at \in Nat /\ QueueOK(work, socket.gen) /\ BookOK(book)
      /\ socket.wire # <<>> /\ version' = version
  BY FeedFacts DEF Deliver
<1>2. CASE Backpressure
  BY <1>1, <1>2, Fencing DEF Backpressure
<1>3. CASE /\ work' = Append(work, Event(Head(socket.wire), socket.gen))
           /\ socket' = [socket EXCEPT !.wire = Tail(@)]
           /\ UNCHANGED book
  <2> DEFINE e == Head(socket.wire)
             w == Event(e, socket.gen)
             rest == Tail(socket.wire)
  <2>1. e \in EventSet /\ rest \in Seq(EventSet)
    BY <1>1
  <2>2. w \in ItemSet /\ OfGen(w, socket.gen) /\ w.event = e /\ Queued(w, socket.gen)
    BY <1>1, <2>1, EventItem
  <2>3. socket.state = "open"
    BY <1>1 DEF FeedInv
  <2>4. Follows(work, socket.wire, book.at, socket.gen, TRUE, version)
    <3>1. (socket.state = "open") = TRUE
      BY <2>3
    <3>2. QED
      BY <3>1 DEF FeedInv
  <2>5. work' = Append(work, w) /\ socket' = [socket EXCEPT !.wire = rest]
    BY <1>3
  <2> HIDE DEF w
  <2>6. Follows(work', rest, book.at, socket.gen, TRUE, version)
    BY <1>1, <2>2, <2>4, <2>5, FollowsDelivered
  <2> HIDE DEF rest
  <2>7. /\ socket' \in [gen : Nat \ {0}, state : {"none", "opening", "open"}, wire : Seq(EventSet)]
        /\ socket'.gen = socket.gen /\ socket'.state = "open" /\ socket'.wire = rest
    BY <1>1, <2>1, <2>3, <2>5
  <2>8. QueueOK(work', socket.gen)
    BY <1>1, <2>2, <2>5, QueuePushed
  <2>9. (socket'.state = "open") = TRUE
    BY <2>7
  <2>10. QED
    BY <1>1, <1>3, <2>6, <2>7, <2>8, <2>9, FeedPartsNext
<1>4. QED
  BY <1>2, <1>3 DEF Deliver

LEMMA ApplyKeeps ==
    ASSUME FeedInv, ApplyEvent
    PROVE  FeedInv'
<1>1. /\ version \in Nat /\ socket.gen \in Nat \ {0} /\ version' = version
      /\ work \in Seq(ItemSet) /\ book.at \in Nat /\ BookOK(book)
      /\ work # <<>> /\ work[1] = Head(work) /\ work[1].kind = "event"
      /\ QueueOK(Tail(work), socket.gen) /\ work[1] \in ItemSet /\ Queued(work[1], socket.gen)
  BY FeedFacts, FeedHead DEF ApplyEvent
<1> DEFINE e == work[1].event
           gen == work[1].gen
<1>2. e.v \in Nat /\ gen \in Nat /\ gen <= socket.gen
  BY <1>1 DEF ItemSet, Queued
<1>3. CASE ~Current(gen) /\ work' = Tail(work) /\ UNCHANGED <<book, socket>>
  <2>1. ~OfGen(work[1], socket.gen)
    BY <1>3 DEF Current, OfGen
  <2>2. QED
    BY <1>1, <1>3, <2>1, HeadDone
<1>4. ASSUME Current(gen)
      PROVE  /\ Refused(e) => book.at >= e.v
             /\ ~Refused(e) => /\ BookOK(Applied(e)) /\ Applied(e).at = e.v /\ e.v >= book.at
             /\ OfGen(work[1], socket.gen)
  <2>1. OfGen(work[1], socket.gen)
    BY <1>1, <1>4 DEF Current, AnyGeneration, OfGen, Queued
  <2>2. QED
    BY <1>1, <2>1, EventApplies
<1>5. CASE /\ Current(gen) /\ Refused(e) /\ UNCHANGED <<book, socket>>
           /\ work' = <<Rest("gap", gen)>> \o Tail(work)
  <2> DEFINE w == Rest("gap", gen)
  <2>1. w \in ItemSet /\ w.kind # "event" /\ Queued(w, socket.gen)
    BY <1>1, <1>2, RestItem
  <2> HIDE DEF w
  <2>2. work' = <<w>> \o Tail(work)
    BY <1>5 DEF w
  <2>3. /\ work' \in Seq(ItemSet) /\ Len(work') = Len(work) /\ work'[1] = w
        /\ \A i \in 2..Len(work) : work'[i] = work[i]
    BY <1>1, <2>1, <2>2, Put
  <2>4. book.at >= book.at /\ (OfGen(work[1], socket.gen) => book.at >= e.v)
    BY <1>1, <1>4, <1>5
  <2>5. QED
    BY <1>1, <1>5, <2>1, <2>3, <2>4, HeadReplaced
<1>6. CASE /\ Current(gen) /\ ~Refused(e) /\ socket' = socket /\ work' = Tail(work) /\ book' = Applied(e)
  <2>1. BookOK(book') /\ book'.at = e.v /\ e.v >= book.at
    BY <1>4, <1>6
  <2>2. book'.at >= book.at /\ book'.at >= e.v
    BY <1>1, <1>2, <2>1
  <2>3. QED
    BY <1>1, <1>6, <2>1, <2>2, HeadDone
<1>7. ASSUME Current(gen), NEW b \in {book} \cup (IF Refused(e) THEN {} ELSE {Applied(e)}), Fenced(b, Tail(work))
      PROVE  FeedInv'
  <2>1. BookOK(b)
    BY <1>1, <1>4, <1>7
  <2>2. QED
    BY <1>1, <1>7, <2>1, Fencing
<1>8. QED
  BY <1>1, <1>3, <1>5, <1>6, <1>7 DEF ApplyEvent

(* The source answers: the head knows a version. *)
LEMMA AnswerKeeps ==
    ASSUME FeedInv, NEW v \in Nat, Answer(v)
    PROVE  FeedInv'
<1>1. /\ version \in Nat /\ socket.gen \in Nat \ {0} /\ UNCHANGED <<version, socket, book>>
      /\ work \in Seq(ItemSet) /\ book.at \in Nat /\ BookOK(book)
      /\ work # <<>> /\ work[1] = Head(work) /\ work[1].kind # "event"
      /\ work[1] \in ItemSet /\ Queued(work[1], socket.gen)
  BY FeedFacts, FeedHead DEF Answer
<1> DEFINE w == [work[1] EXCEPT !.read = TRUE, !.at = v]
<1>2. w \in ItemSet /\ w.kind # "event" /\ Queued(w, socket.gen)
  BY <1>1 DEF ItemSet, Queued
<1>3. 1 \in 1..Len(work) /\ Len(work) \in Nat
  BY <1>1
<1>4. work' = [work EXCEPT ![1] = w]
  BY <1>1, <1>3 DEF Answer
<1> HIDE DEF w
<1>5. /\ work' \in Seq(ItemSet) /\ Len(work') = Len(work) /\ work'[1] = w
      /\ \A i \in 2..Len(work) : work'[i] = work[i]
  BY <1>1, <1>2, <1>3, <1>4
<1>6. book.at >= book.at /\ ~OfGen(work[1], socket.gen)
  BY <1>1 DEF OfGen
<1>7. QED
  BY <1>1, <1>2, <1>5, <1>6, HeadReplaced

LEMMA ReturnKeeps ==
    ASSUME FeedInv, RestReturns
    PROVE  FeedInv'
<1>1. /\ version \in Nat /\ socket.gen \in Nat \ {0} /\ version' = version
      /\ work \in Seq(ItemSet) /\ book.at \in Nat /\ BookOK(book)
      /\ work # <<>> /\ work[1] = Head(work) /\ work[1].read
      /\ QueueOK(Tail(work), socket.gen)
      /\ work[1] \in ItemSet /\ Queued(work[1], socket.gen)
  BY FeedFacts, FeedHead DEF RestReturns
<1>2. work[1].at \in Nat /\ ~OfGen(work[1], socket.gen)
  BY <1>1 DEF ItemSet, OfGen, Queued
<1>3. BookOK(book') /\ book'.at >= book.at
  <2>1. CASE book' = book
    BY <1>1, <2>1
  <2>2. CASE ~Older(work[1].at) /\ book' = Snapshot(work[1].at)
    BY <1>1, <1>2, <2>2, SnapshotOK DEF Older
  <2>3. QED
    BY <1>1, <2>1, <2>2 DEF RestReturns
<1>4. work' = Tail(work)
  BY DEF RestReturns, PassEnds
<1>5. CASE socket' = socket
  BY <1>1, <1>2, <1>3, <1>4, <1>5, HeadDone
<1>6. ASSUME NEW state \in {"none", "opening"}, socket' = [gen |-> socket.gen + 1, state |-> state, wire |-> <<>>]
      PROVE  FeedInv'
  BY <1>1, <1>3, <1>4, <1>6, Reopening
<1>7. QED
  BY <1>5, <1>6 DEF RestReturns, PassEnds

(* The book is marked; the head was no event. *)
LEMMA MarkedAndDone ==
    ASSUME FeedInv, work # <<>>, work[1].kind # "event", work' = Tail(work), version' = version,
           book' = Disconnected(book) \/ book' = book,
           \/ socket' = socket
           \/ socket' = [gen |-> socket.gen + 1, state |-> "opening", wire |-> <<>>]
    PROVE  FeedInv'
<1>1. /\ version \in Nat /\ socket.gen \in Nat \ {0} /\ work \in Seq(ItemSet) /\ book.at \in Nat /\ BookOK(book)
      /\ QueueOK(Tail(work), socket.gen)
  BY FeedFacts, FeedHead
<1>2. BookOK(book') /\ book'.at = book.at
  BY <1>1, BookLeft
<1>3. book'.at >= book.at /\ ~OfGen(work[1], socket.gen)
  BY <1>1, <1>2 DEF OfGen
<1>4. CASE socket' = socket
  BY <1>2, <1>3, <1>4, HeadDone
<1>5. CASE socket' = [gen |-> socket.gen + 1, state |-> "opening", wire |-> <<>>]
  BY <1>1, <1>2, <1>5, Reopening
<1>6. QED
  BY <1>4, <1>5

LEMMA FailKeeps ==
    ASSUME FeedInv, RestFails \/ HandleDisconnect
    PROVE  FeedInv'
<1>1. /\ work # <<>> /\ work[1] = Head(work) /\ version' = version /\ work[1].kind # "event"
      /\ BookOK(book) /\ QueueOK(Tail(work), socket.gen)
  BY FeedFacts, FeedHead DEF RestFails, HandleDisconnect
<1>2. CASE Fenced(book, Tail(work))
  BY <1>1, <1>2, Fencing
<1>3. CASE /\ work' = Tail(work) /\ (book' = Disconnected(book) \/ book' = book)
           /\ \/ socket' = socket
              \/ socket' = [gen |-> socket.gen + 1, state |-> "opening", wire |-> <<>>]
  BY <1>1, <1>3, MarkedAndDone
<1>4. QED
  BY <1>2, <1>3 DEF RestFails, HandleDisconnect

LEMMA FeedStart == FeedInit => FeedInv
<1> SUFFICES ASSUME FeedInit PROVE FeedInv
  OBVIOUS
<1> DEFINE w == Rest("pass", AnyGeneration)
<1>1. w \in ItemSet /\ w.kind # "event" /\ Queued(w, 1)
  BY RestItem DEF AnyGeneration
<1>2. work = <<w>> /\ socket = [gen |-> 1, state |-> "none", wire |-> <<>>] /\ version = 0
  BY DEF FeedInit
<1> HIDE DEF w
<1>3. BookOK(book)
  BY DEF FeedInit, BookOK, BookSet, NoSequence
<1>4. work \in Seq(ItemSet) /\ Len(work) = 1 /\ work[1] = w
  BY <1>1, <1>2
<1>5. \A i \in 1..Len(work) : ~OfGen(work[i], 1) /\ Queued(work[i], 1)
  BY <1>1, <1>4 DEF OfGen
<1>6. Follows(work, <<>>, book.at, 1, FALSE, 0)
  BY <1>4, <1>5, FollowsFenced
<1>7. (socket.state = "open") = FALSE
  BY <1>2
<1>8. /\ socket \in [gen : Nat \ {0}, state : {"none", "opening", "open"}, wire : Seq(EventSet)]
      /\ socket.gen = 1 /\ socket.wire = <<>>
  BY <1>2
<1>9. Follows(work, socket.wire, book.at, socket.gen, socket.state = "open", version)
  BY <1>2, <1>6, <1>7, <1>8
<1>10. QueueOK(work, socket.gen)
  BY <1>4, <1>5, <1>8 DEF QueueOK
<1>11. QED
  BY <1>2, <1>3, <1>5, <1>8, <1>9, <1>10 DEF FeedInv

LEMMA FeedStep == FeedInv /\ [FeedNext]_feedVars => FeedInv'
<1> SUFFICES ASSUME FeedInv, [FeedNext]_feedVars PROVE FeedInv'
  OBVIOUS
<1>1. CASE UNCHANGED <<version, book, socket, work>>
  BY <1>1 DEF FeedInv
<1>2. CASE SocketBreaks
  BY <1>2, FeedFacts, Fencing DEF SocketBreaks
<1>3. CASE RestAnswers
  <2>1. version \in Nat /\ (version > 0 => version - 1 \in Nat)
    BY FeedFacts
  <2>2. QED
    BY <1>3, <2>1, AnswerKeeps DEF RestAnswers
<1>4. CASE ReconnectTimer \/ ReconcileTimer
  BY <1>1, <1>4, RestQueued DEF ReconnectTimer, ReconcileTimer
<1>5. QED
  BY <1>1, <1>2, <1>3, <1>4, ChangeNotified, OpeningKeeps, DeliverKeeps, ApplyKeeps, ReturnKeeps,
     FailKeeps DEF FeedNext, feedVars

(* A book that is shown as connected is one that the venue had at its      *)
(* timestamp, for any number of changes, sockets and messages under way:   *)
(* what comes of a socket that was replaced is dropped, and a snapshot     *)
(* starts the book anew (service.ts and order-book.ts of the ingestor).    *)
THEOREM FeedBookIsReal == FeedSpec => []BookIsReal
<1>1. FeedInv => BookIsReal
  BY DEF FeedInv, BookOK, BookIsReal
<1>2. QED
  BY <1>1, FeedStart, FeedStep, PTL DEF FeedSpec

-----------------------------------------------------------------------------
(* The wallet.                                                             *)

AccountSet == Accounts \cup {Nothing}
Sessions == {Nothing} \cup [owner : AccountSet, token : Nat]
TabSet == [account : AccountSet, session : Sessions, selected : BOOLEAN, connecting : BOOLEAN,
           restoring : BOOLEAN]
Sending == {"tables", "transaction", "signed"}
Places == Sending \cup {"wallet", "network", "challenge", "signature", "token"}
RequestSet == [kind : {"connect", "sign in", "send"}, at : Places, current : BOOLEAN,
               holds : BOOLEAN, owner : AccountSet, session : Sessions]
StorageSet == [wallet : AccountSet, session : Sessions]

WalletType ==
    /\ tabs \in [Tabs -> TabSet]
    /\ requests \in [Tabs -> SUBSET RequestSet]
    /\ keys \in [Tabs -> [key : AccountSet, told : BOOLEAN]]
    /\ storage \in StorageSet
    /\ notices \in [Tabs -> SUBSET {"wallet", "session"}]
    /\ issued \in Nat
    /\ disturbed \in [Tabs -> BOOLEAN]

(* A call that may go on is the pending one, and one is pending at most.   *)
OnePending(calls) ==
    /\ \A r \in calls : r.current => r.holds
    /\ \A r, q \in calls : r.holds /\ q.holds => r = q

(* What a send that may go on knows: the identity is the one it was asked  *)
(* for and was never another, or it found no session and there is one now. *)
Undisturbed(tab, r, upset) ==
    /\ tab.account = r.owner
    /\ \/ tab.session = r.session /\ ~upset
       \/ r.session = Nothing /\ tab.session # Nothing

(* So it is for every send that may go on.                                 *)
Reviewed(tab, calls, upset) ==
    \A r \in calls : r.current /\ r.at \in Sending => Undisturbed(tab, r, upset)

(* Each tab by itself.                                                     *)
TabInv(t) == OnePending(requests[t]) /\ Reviewed(tabs[t], requests[t], disturbed[t])

(* What was sent is as reviewed because what is about to be sent is.       *)
WalletInv == WalletType /\ (\A t \in Tabs : TabInv(t)) /\ SentAsReviewed

(* Records keep their shape when a field is given another value. *)
LEMMA RequestFields ==
    ASSUME NEW r \in RequestSet
    PROVE  /\ \A at \in Places : /\ [r EXCEPT !.at = at] \in RequestSet
                                 /\ [r EXCEPT !.at = at].at = at
                                 /\ [r EXCEPT !.at = at].current = r.current
                                 /\ [r EXCEPT !.at = at].holds = r.holds
                                 /\ [r EXCEPT !.at = at].owner = r.owner
                                 /\ [r EXCEPT !.at = at].session = r.session
           /\ \A a \in Accounts : /\ [r EXCEPT !.at = "network", !.owner = a] \in RequestSet
                                  /\ [r EXCEPT !.at = "network", !.owner = a].at = "network"
                                  /\ [r EXCEPT !.at = "network", !.owner = a].holds = r.holds
           /\ [r EXCEPT !.current = FALSE] \in RequestSet
           /\ ~[r EXCEPT !.current = FALSE].current
           /\ [r EXCEPT !.current = FALSE].holds = r.holds
           /\ [r EXCEPT !.current = FALSE, !.holds = FALSE] \in RequestSet
           /\ ~[r EXCEPT !.current = FALSE, !.holds = FALSE].current
           /\ ~[r EXCEPT !.current = FALSE, !.holds = FALSE].holds
<1>1. ASSUME NEW at \in Places
      PROVE  /\ [r EXCEPT !.at = at] \in RequestSet
             /\ [r EXCEPT !.at = at].at = at
             /\ [r EXCEPT !.at = at].current = r.current
             /\ [r EXCEPT !.at = at].holds = r.holds
             /\ [r EXCEPT !.at = at].owner = r.owner
             /\ [r EXCEPT !.at = at].session = r.session
  BY DEF RequestSet
<1>2. ASSUME NEW a \in Accounts
      PROVE  /\ [r EXCEPT !.at = "network", !.owner = a] \in RequestSet
             /\ [r EXCEPT !.at = "network", !.owner = a].at = "network"
             /\ [r EXCEPT !.at = "network", !.owner = a].holds = r.holds
  BY DEF RequestSet, AccountSet, Places
<1>3. /\ [r EXCEPT !.current = FALSE] \in RequestSet
      /\ ~[r EXCEPT !.current = FALSE].current
      /\ [r EXCEPT !.current = FALSE].holds = r.holds
  BY DEF RequestSet
<1>4. /\ [r EXCEPT !.current = FALSE, !.holds = FALSE] \in RequestSet
      /\ ~[r EXCEPT !.current = FALSE, !.holds = FALSE].current
      /\ ~[r EXCEPT !.current = FALSE, !.holds = FALSE].holds
  BY DEF RequestSet
<1>5. QED
  BY <1>1, <1>2, <1>3, <1>4

LEMMA RequestAt ==
    ASSUME NEW r \in RequestSet, NEW at \in Places
    PROVE  /\ [r EXCEPT !.at = at] \in RequestSet
           /\ [r EXCEPT !.at = at].at = at
           /\ [r EXCEPT !.at = at].current = r.current
           /\ [r EXCEPT !.at = at].holds = r.holds
BY DEF RequestSet

LEMMA RequestTo ==
    ASSUME NEW r \in RequestSet, NEW a \in Accounts
    PROVE  /\ [r EXCEPT !.at = "network", !.owner = a] \in RequestSet
           /\ [r EXCEPT !.at = "network", !.owner = a].at = "network"
           /\ [r EXCEPT !.at = "network", !.owner = a].holds = r.holds
BY DEF RequestSet, AccountSet, Places

(* After generation++ no call may go on, and still one is pending at most. *)
LEMMA Superseded ==
    ASSUME NEW calls, calls \subseteq RequestSet, OnePending(calls)
    PROVE  /\ NextGeneration(calls) \subseteq RequestSet
           /\ OnePending(NextGeneration(calls))
           /\ \A r \in NextGeneration(calls) : ~r.current
<1>1. \A r \in NextGeneration(calls) : \E q \in calls : r = [q EXCEPT !.current = FALSE]
  BY DEF NextGeneration
<1>2. NextGeneration(calls) \subseteq RequestSet
  BY <1>1, RequestFields
<1>3. ASSUME NEW r \in NextGeneration(calls)
      PROVE  ~r.current
  <2>1. PICK q \in calls : r = [q EXCEPT !.current = FALSE]
    BY <1>1
  <2>2. q \in RequestSet
    OBVIOUS
  <2>3. QED
    BY <2>1, <2>2 DEF RequestSet
<1>4. ASSUME NEW r \in NextGeneration(calls), NEW q \in NextGeneration(calls), r.holds, q.holds
      PROVE  r = q
  <2>1. PICK x \in calls : r = [x EXCEPT !.current = FALSE]
    BY <1>1
  <2>2. PICK y \in calls : q = [y EXCEPT !.current = FALSE]
    BY <1>1
  <2>3. x.holds /\ y.holds
    BY <1>4, <2>1, <2>2, RequestFields
  <2>4. QED
    BY <2>1, <2>2, <2>3 DEF OnePending
<1>5. QED
  BY <1>2, <1>3, <1>4 DEF OnePending

(* The ways a step can go for the tab that acts. *)
Quiet(t) == OnePending(requests'[t]) /\ \A r \in requests'[t] : r.current => r.at \notin Sending
Same(t) == requests'[t] \subseteq requests[t] /\ SameIdentity(t)
Advanced(t) ==
    \E r \in requests[t] :
        /\ r.current /\ r.at \in Sending /\ SameIdentity(t)
        /\ \E at \in Sending : requests'[t] = (requests[t] \ {r}) \cup {[r EXCEPT !.at = at]}
Rejoined(t) ==
    /\ requests'[t] = requests[t] /\ tabs'[t].account = tabs[t].account
    /\ tabs[t].session # Nothing => tabs'[t].session = tabs[t].session
Asked(t) ==
    /\ \A r \in requests[t] : ~r.holds
    /\ SameIdentity(t)
    /\ requests'[t] = requests[t] \cup {Request("send", "tables", t)}

Goes(t) == Quiet(t) \/ Same(t) \/ Advanced(t) \/ Rejoined(t) \/ Asked(t)
Apart(t) == \A u \in Tabs \ {t} : tabs'[u] = tabs[u] /\ requests'[u] = requests[u]

Upset == disturbed' = [t \in Tabs |-> ~Begins(t) /\ (disturbed[t] \/ ~SameIdentity(t))]
ModelType ==
    /\ tabs \in [Tabs -> TabSet]
    /\ requests \in [Tabs -> SUBSET RequestSet]
    /\ keys \in [Tabs -> [key : AccountSet, told : BOOLEAN]]
    /\ storage \in StorageSet
    /\ notices \in [Tabs -> SUBSET {"wallet", "session"}]
    /\ issued \in Nat

LEMMA RequestTyped ==
    ASSUME ModelType, NEW t \in Tabs, NEW kind \in {"connect", "sign in", "send"}, NEW at \in Places
    PROVE  LET r == Request(kind, at, t)
           IN  /\ r \in RequestSet /\ r.at = at /\ r.current /\ r.holds
               /\ r.owner = tabs[t].account /\ r.session = tabs[t].session
<1>1. tabs[t] \in TabSet
  BY DEF ModelType
<1>2. tabs[t].account \in AccountSet /\ tabs[t].session \in Sessions
  BY <1>1 DEF TabSet
<1>3. QED
  BY <1>2 DEF Request, RequestSet

(* Whatever way it goes, what a send that may go on knows stays true. *)
LEMMA GoesKeeps ==
    ASSUME ModelType, ModelType', NEW t \in Tabs, disturbed \in [Tabs -> BOOLEAN], TabInv(t), Upset, Goes(t)
    PROVE  TabInv(t)'
<1>0. disturbed'[t] = (~Begins(t) /\ (disturbed[t] \/ ~SameIdentity(t)))
  BY DEF Upset
<1>1. CASE Quiet(t)
  BY <1>1 DEF Quiet, TabInv, Reviewed
<1>2. CASE Same(t)
  BY <1>0, <1>2 DEF Same, TabInv, Reviewed, OnePending, Undisturbed, SameIdentity
<1>3. CASE Advanced(t)
  <2>1. PICK r \in requests[t], at \in Sending :
          /\ r.current /\ r.at \in Sending /\ SameIdentity(t)
          /\ requests'[t] = (requests[t] \ {r}) \cup {[r EXCEPT !.at = at]}
    BY <1>3 DEF Advanced
  <2> DEFINE q == [r EXCEPT !.at = at]
  <2>2. /\ q.current = r.current /\ q.holds = r.holds /\ q.owner = r.owner
        /\ q.session = r.session
    <3>1. r \in RequestSet /\ at \in Places
      BY <2>1 DEF ModelType, Places
    <3>2. QED
      BY <3>1, RequestFields
  <2> HIDE DEF q
  <2>3. requests'[t] = (requests[t] \ {r}) \cup {q}
    BY <2>1 DEF q
  <2>4. OnePending(requests'[t])
    BY <2>1, <2>2, <2>3 DEF TabInv, OnePending
  <2>5. Undisturbed(tabs[t], r, disturbed[t])
    BY <2>1 DEF TabInv, Reviewed
  <2>6. Undisturbed(tabs'[t], q, disturbed'[t])
    BY <1>0, <2>1, <2>2, <2>5 DEF Undisturbed, SameIdentity
  <2>7. ASSUME NEW o \in requests[t], o.current, o.at \in Sending
        PROVE  Undisturbed(tabs'[t], o, disturbed'[t])
    BY <1>0, <2>1, <2>7 DEF Undisturbed, SameIdentity, TabInv, Reviewed
  <2>8. QED
    BY <2>3, <2>4, <2>6, <2>7 DEF TabInv, Reviewed
<1>4. CASE Rejoined(t)
  <2>1. ASSUME NEW o \in requests[t], o.current, o.at \in Sending
        PROVE  Undisturbed(tabs'[t], o, disturbed'[t])
    <3>1. Undisturbed(tabs[t], o, disturbed[t])
      BY <2>1 DEF TabInv, Reviewed
    <3>2. tabs'[t].session = tabs[t].session \/ tabs[t].session = Nothing
      BY <1>4 DEF Rejoined
    <3>3. QED
      BY <1>0, <1>4, <3>1, <3>2 DEF Undisturbed, SameIdentity, Rejoined
  <2>2. QED
    BY <1>4, <2>1 DEF TabInv, Reviewed, Rejoined
<1>5. CASE Asked(t)
  <2> DEFINE r == Request("send", "tables", t)
  <2>1. /\ r.at = "tables" /\ r.current /\ r.holds
        /\ r.owner = tabs[t].account /\ r.session = tabs[t].session
    BY RequestTyped DEF Places, Sending
  <2> HIDE DEF r
  <2>2. requests'[t] = requests[t] \cup {r} /\ \A o \in requests[t] : ~o.holds
    BY <1>5 DEF r, Asked
  <2>3. OnePending(requests'[t])
    BY <2>1, <2>2 DEF TabInv, OnePending
  <2>4. \A o \in requests[t] : ~o.current
    BY <2>2 DEF TabInv, OnePending
  <2>5. Begins(t)
    <3>1. r \notin requests[t]
      BY <2>1, <2>2
    <3>2. QED
      BY <2>1, <2>2, <3>1 DEF Begins
  <2>6. Undisturbed(tabs'[t], r, disturbed'[t])
    BY <1>0, <1>5, <2>1, <2>5 DEF Undisturbed, SameIdentity, Asked
  <2>7. QED
    BY <2>2, <2>3, <2>4, <2>6 DEF TabInv, Reviewed
<1>6. QED
  BY <1>1, <1>2, <1>3, <1>4, <1>5 DEF Goes

(* What a write to the storage leaves, and what a dropped or invalidated   *)
(* connection does to its tab.                                             *)
StoreType == storage \in StorageSet /\ notices \in [Tabs -> SUBSET {"wallet", "session"}]

LEMMA WriteType ==
    ASSUME StoreType, NEW t \in Tabs, NEW value \in StorageSet, Write(t, value)
    PROVE  StoreType'
<1>1. \A u \in Tabs : (IF u = t THEN notices[u] ELSE notices[u] \cup
                         {k \in {"wallet", "session"} : value[k] # storage[k]}) \in SUBSET {"wallet", "session"}
  BY DEF StoreType
<1>2. QED
  BY <1>1 DEF Write, StoreType

TabsType == tabs \in [Tabs -> TabSet] /\ requests \in [Tabs -> SUBSET RequestSet]

(* A step that changes only what tab t holds. *)
LEMMA TabSteps ==
    ASSUME TabsType, NEW t \in Tabs, NEW tab \in TabSet, NEW calls \in SUBSET RequestSet,
           tabs' = [tabs EXCEPT ![t] = tab], requests' = [requests EXCEPT ![t] = calls]
    PROVE  /\ TabsType' /\ Apart(t)
           /\ tabs'[t] = tab /\ requests'[t] = calls
BY DEF TabsType, Apart

LEMMA Dropping ==
    ASSUME TabsType, NEW t \in Tabs, TabInv(t), Drop(t)
    PROVE  TabsType' /\ Goes(t) /\ Apart(t)
<1> DEFINE tab == [tabs[t] EXCEPT !.account = Nothing, !.session = Nothing, !.selected = FALSE]
           calls == NextGeneration(requests[t])
<1>1. tabs' = [tabs EXCEPT ![t] = tab] /\ requests' = [requests EXCEPT ![t] = calls]
  BY DEF Drop, TabsType
<1>2. tab \in TabSet
  BY DEF TabsType, TabSet, AccountSet, Sessions
<1>3. calls \subseteq RequestSet /\ OnePending(calls) /\ \A r \in calls : ~r.current
  BY Superseded DEF TabsType, TabInv
<1> HIDE DEF tab, calls
<1>4. TabsType' /\ Apart(t) /\ requests'[t] = calls
  BY <1>1, <1>2, <1>3, TabSteps
<1>5. QED
  BY <1>3, <1>4 DEF Goes, Quiet

(* Another account, or none, and no session, after generation++.           *)
LEMMA Moving ==
    ASSUME TabsType, NEW t \in Tabs, TabInv(t), NEW key \in AccountSet,
           requests' = [requests EXCEPT ![t] = NextGeneration(@)],
           \/ tabs' = [tabs EXCEPT ![t].account = key, ![t].session = Nothing]
           \/ tabs' = [tabs EXCEPT ![t].session = Nothing]
    PROVE  TabsType' /\ Goes(t) /\ Apart(t)
<1> DEFINE calls == NextGeneration(requests[t])
           one == [tabs[t] EXCEPT !.account = key, !.session = Nothing]
           two == [tabs[t] EXCEPT !.session = Nothing]
<1>1. requests' = [requests EXCEPT ![t] = calls]
  BY DEF TabsType
<1>2. tabs' = [tabs EXCEPT ![t] = one] \/ tabs' = [tabs EXCEPT ![t] = two]
  BY DEF TabsType
<1>3. one \in TabSet /\ two \in TabSet
  BY DEF TabsType, TabSet, Sessions
<1>4. calls \subseteq RequestSet /\ OnePending(calls) /\ \A r \in calls : ~r.current
  BY Superseded DEF TabsType, TabInv
<1> HIDE DEF one, two, calls
<1>5. TabsType' /\ Apart(t) /\ requests'[t] = calls
  <2>1. CASE tabs' = [tabs EXCEPT ![t] = one]
    BY <1>1, <1>3, <1>4, <2>1, TabSteps
  <2>2. CASE tabs' = [tabs EXCEPT ![t] = two]
    BY <1>1, <1>3, <1>4, <2>2, TabSteps
  <2>3. QED
    BY <1>2, <2>1, <2>2
<1>6. QED
  BY <1>4, <1>5 DEF Goes, Quiet

(* finish(): a call less, and the same identity. *)
LEMMA Finishing ==
    ASSUME TabsType, NEW t \in Tabs, NEW r \in requests[t], Finish(t, r)
    PROVE  TabsType' /\ Goes(t) /\ Apart(t)
<1> DEFINE tab == [tabs[t] EXCEPT !.connecting = @ /\ ~r.holds]
           calls == requests[t] \ {r}
<1>1. requests' = [requests EXCEPT ![t] = calls] /\ tabs' = [tabs EXCEPT ![t] = tab]
  BY DEF Finish, TabsType
<1>2. tab \in TabSet /\ tab.account = tabs[t].account /\ tab.session = tabs[t].session
  BY DEF TabsType, TabSet
<1>3. calls \in SUBSET RequestSet /\ calls \subseteq requests[t]
  BY DEF TabsType
<1> HIDE DEF tab, calls
<1>4. TabsType' /\ Apart(t) /\ tabs'[t] = tab /\ requests'[t] = calls
  BY <1>1, <1>2, <1>3, TabSteps
<1>5. QED
  BY <1>2, <1>3, <1>4 DEF Goes, Same, SameIdentity

(* A step that leaves the tabs alone. *)
LEMMA Standing ==
    ASSUME TabsType, NEW t \in Tabs, tabs' = tabs, requests' = requests
    PROVE  TabsType' /\ Goes(t) /\ Apart(t)
BY DEF TabsType, Goes, Same, SameIdentity, Apart

LEMMA Beginning ==
    ASSUME TabsType, NEW t \in Tabs, TabInv(t), MayBegin(t), Begin(t)
    PROVE  TabsType' /\ Goes(t) /\ Apart(t)
<1> DEFINE r == Request("connect", "wallet", t)
           tab == [tabs[t] EXCEPT !.connecting = TRUE, !.selected = TRUE, !.restoring = FALSE]
           calls == requests[t] \cup {r}
<1>1. r \in RequestSet /\ r.at = "wallet" /\ r.current /\ r.holds
  BY DEF TabsType, TabSet, Request, RequestSet, Places
<1>2. tab \in TabSet
  BY DEF TabsType, TabSet
<1>3. requests' = [requests EXCEPT ![t] = calls] /\ tabs' = [tabs EXCEPT ![t] = tab]
  BY DEF Begin, TabsType
<1> HIDE DEF r, tab
<1>4. calls \in SUBSET RequestSet
  BY <1>1 DEF TabsType
<1>5. TabsType' /\ Apart(t) /\ requests'[t] = requests[t] \cup {r}
  BY <1>2, <1>3, <1>4, TabSteps
<1>6. Quiet(t)
  BY <1>1, <1>5 DEF Quiet, TabInv, OnePending, MayBegin, Sending
<1>7. QED
  BY <1>5, <1>6 DEF Goes

(* What any step of a tab leaves: types, a way it goes, the other tabs.    *)
Moved(t) == ModelType' /\ Goes(t) /\ Apart(t)

LEMMA Parts ==
    ModelType <=> /\ TabsType /\ StoreType /\ issued \in Nat
                  /\ keys \in [Tabs -> [key : AccountSet, told : BOOLEAN]]
BY DEF ModelType, TabsType, StoreType

LEMMA PartsNext ==
    ModelType' <=> /\ TabsType' /\ StoreType' /\ issued' \in Nat
                   /\ keys' \in [Tabs -> [key : AccountSet, told : BOOLEAN]]
BY DEF ModelType, TabsType, StoreType

LEMMA NoStoreChange ==
    ASSUME StoreType, UNCHANGED <<storage, notices>>
    PROVE  StoreType'
BY DEF StoreType

LEMMA NothingInSets == Nothing \in AccountSet /\ Nothing \in Sessions
BY DEF AccountSet, Sessions

LEMMA StorageFields ==
    ASSUME StoreType
    PROVE  /\ storage.wallet \in AccountSet /\ storage.session \in Sessions
           /\ \A v \in Sessions : [storage EXCEPT !.session = v] \in StorageSet
           /\ \A a \in AccountSet, v \in Sessions : [wallet |-> a, session |-> v] \in StorageSet
BY DEF StoreType, StorageSet

(* restoreSession(): the session there was, or one that is saved.          *)
LEMMA RestoredSession ==
    ASSUME TabsType, StoreType, NEW t \in Tabs, NEW key
    PROVE  /\ Restored(tabs[t], key) \in Sessions
           /\ tabs[t].session # Nothing => Restored(tabs[t], key) = tabs[t].session
BY StorageFields DEF Restored, TabsType, TabSet

(* Nobody else may go on beside a call that may. *)
LEMMA OnlyOne ==
    ASSUME NEW calls, OnePending(calls), NEW r \in calls, r.current
    PROVE  r.holds /\ \A q \in calls \ {r} : ~q.current /\ ~q.holds
BY DEF OnePending

LEMMA ConnectMoves ==
    ASSUME ModelType, NEW t \in Tabs, TabInv(t), Connect(t) \/ Restore(t)
    PROVE  Moved(t)
<1>1. TabsType /\ StoreType
  BY Parts
<1>2. CASE Connect(t)
  BY <1>1, <1>2, Beginning, NoStoreChange, Parts, PartsNext DEF Connect, Moved
<1>3. CASE Restore(t)
  <2>1. UNCHANGED <<keys, storage, notices, issued>>
    BY <1>3 DEF Restore
  <2>2. CASE storage.wallet # Nothing /\ MayBegin(t)
    BY <1>1, <1>3, <2>1, <2>2, Beginning, NoStoreChange, Parts, PartsNext DEF Restore, Moved
  <2>3. CASE ~(storage.wallet # Nothing /\ MayBegin(t))
    <3> DEFINE tab == [tabs[t] EXCEPT !.restoring = FALSE]
    <3>1. tabs' = [tabs EXCEPT ![t] = tab] /\ requests' = [requests EXCEPT ![t] = requests[t]]
      BY <1>1, <1>3, <2>3 DEF Restore, TabsType
    <3>2. tab \in TabSet /\ tab.account = tabs[t].account /\ tab.session = tabs[t].session
      BY <1>1 DEF TabsType, TabSet
    <3>3. requests[t] \in SUBSET RequestSet
      BY <1>1 DEF TabsType
    <3> HIDE DEF tab
    <3>4. TabsType' /\ Apart(t) /\ tabs'[t] = tab /\ requests'[t] = requests[t]
      BY <1>1, <3>1, <3>2, <3>3, TabSteps
    <3>5. Goes(t)
      BY <3>2, <3>4 DEF Goes, Same, SameIdentity
    <3>6. QED
      BY <1>1, <2>1, <3>4, <3>5, NoStoreChange, Parts, PartsNext DEF Moved
  <2>4. QED
    BY <2>2, <2>3
<1>4. QED
  BY <1>2, <1>3

LEMMA WalletAnswersMoves ==
    ASSUME ModelType, NEW t \in Tabs, TabInv(t), WalletAnswers(t)
    PROVE  Moved(t)
<1>1. TabsType /\ StoreType
  BY Parts
<1>2. PICK r \in requests[t], a \in Accounts :
        /\ r.current
        /\ keys' = [keys EXCEPT ![t].key = a]
        /\ tabs' = [tabs EXCEPT ![t].account = a, ![t].session = Nothing]
        /\ requests' = [requests EXCEPT ![t] =
             NextGeneration(@ \ {r}) \cup {[r EXCEPT !.at = "network", !.owner = a]}]
        /\ Write(t, [wallet |-> a, session |-> IF storage.wallet \in {Nothing, a} THEN storage.session
                                               ELSE Nothing])
  BY DEF WalletAnswers
<1> DEFINE rest == requests[t] \ {r}
           q == [r EXCEPT !.at = "network", !.owner = a]
           calls == NextGeneration(rest) \cup {q}
           tab == [tabs[t] EXCEPT !.account = a, !.session = Nothing]
<1>3. requests' = [requests EXCEPT ![t] = calls] /\ tabs' = [tabs EXCEPT ![t] = tab]
  BY <1>1, <1>2 DEF TabsType
<1>4. tab \in TabSet
  BY <1>1 DEF TabsType, TabSet, AccountSet, Sessions
<1>5. /\ NextGeneration(rest) \subseteq RequestSet /\ OnePending(NextGeneration(rest))
      /\ \A o \in NextGeneration(rest) : ~o.current
  <2>1. rest \subseteq RequestSet /\ OnePending(rest)
    BY <1>1 DEF TabsType, TabInv, OnePending
  <2>2. QED
    BY <2>1, Superseded
<1>6. \A o \in NextGeneration(rest) : ~o.holds
  <2>1. SUFFICES ASSUME NEW o \in NextGeneration(rest) PROVE ~o.holds
    OBVIOUS
  <2>2. PICK p \in rest : o = [p EXCEPT !.current = FALSE]
    BY DEF NextGeneration
  <2>3. p \in RequestSet /\ ~p.holds
    BY <1>1, <1>2, OnlyOne DEF TabsType, TabInv
  <2>4. QED
    BY <2>2, <2>3 DEF RequestSet
<1>7. q \in RequestSet /\ q.at = "network" /\ q.holds
  <2>1. r \in RequestSet /\ r.holds
    BY <1>1, <1>2, OnlyOne DEF TabsType, TabInv
  <2>2. QED
    BY <2>1, RequestTo
<1> HIDE DEF rest, q, tab
<1>8. calls \in SUBSET RequestSet
  BY <1>5, <1>7
<1>9. TabsType' /\ Apart(t) /\ requests'[t] = NextGeneration(rest) \cup {q}
  BY <1>1, <1>3, <1>4, <1>8, TabSteps
<1>10. Quiet(t)
  BY <1>5, <1>6, <1>7, <1>9 DEF Quiet, OnePending, Sending
<1>11. StoreType'
  <2>1. [wallet |-> a, session |-> IF storage.wallet \in {Nothing, a} THEN storage.session
                                   ELSE Nothing] \in StorageSet
    BY <1>1, StorageFields, NothingInSets DEF AccountSet
  <2>2. QED
    BY <1>1, <1>2, <2>1, WriteType
<1>12. keys' \in [Tabs -> [key : AccountSet, told : BOOLEAN]] /\ issued' \in Nat
  BY <1>2 DEF WalletAnswers, ModelType, AccountSet
<1>13. QED
  BY <1>9, <1>10, <1>11, <1>12, PartsNext DEF Moved, Goes

LEMMA NetworkMoves ==
    ASSUME ModelType, NEW t \in Tabs, TabInv(t), NetworkVerified(t) \/ EnsureNetwork(t)
    PROVE  Moved(t)
<1>1. TabsType /\ StoreType /\ UNCHANGED <<keys, storage, notices, issued>>
  BY Parts DEF NetworkVerified, EnsureNetwork
<1> DEFINE session == Restored(tabs[t], keys[t].key)
<1>2. session \in Sessions /\ (tabs[t].session # Nothing => session = tabs[t].session)
  BY <1>1, RestoredSession
<1>3. CASE NetworkVerified(t)
  <2>1. PICK r \in requests[t] :
          /\ r.current
          /\ requests' = [requests EXCEPT ![t] = @ \ {r}]
          /\ tabs' = [tabs EXCEPT ![t].session = session, ![t].connecting = @ /\ ~r.holds]
    BY <1>3 DEF NetworkVerified
  <2> DEFINE tab == [tabs[t] EXCEPT !.session = session, !.connecting = @ /\ ~r.holds]
             calls == requests[t] \ {r}
  <2> HIDE DEF session
  <2>2. requests' = [requests EXCEPT ![t] = calls] /\ tabs' = [tabs EXCEPT ![t] = tab]
    BY <1>1, <2>1 DEF TabsType
  <2>3. tab \in TabSet
    BY <1>1, <1>2 DEF TabsType, TabSet
  <2>4. calls \in SUBSET RequestSet /\ OnePending(calls) /\ \A o \in calls : ~o.current
    BY <1>1, <2>1, OnlyOne DEF TabsType, TabInv, OnePending
  <2> HIDE DEF tab, calls
  <2>5. TabsType' /\ Apart(t) /\ requests'[t] = calls
    BY <1>1, <2>2, <2>3, <2>4, TabSteps
  <2>6. Goes(t)
    BY <2>4, <2>5 DEF Goes, Quiet
  <2>7. QED
    BY <1>1, <2>5, <2>6, NoStoreChange, Parts, PartsNext DEF Moved
<1>4. CASE EnsureNetwork(t)
  <2> DEFINE tab == [tabs[t] EXCEPT !.session = session]
  <2>1. tabs' = [tabs EXCEPT ![t].session = session] /\ requests' = requests
    BY <1>4 DEF EnsureNetwork
  <2> HIDE DEF session
  <2>2. requests' = [requests EXCEPT ![t] = requests[t]] /\ tabs' = [tabs EXCEPT ![t] = tab]
    BY <1>1, <2>1 DEF TabsType
  <2>3. tab \in TabSet /\ tab.account = tabs[t].account /\ tab.session = session
    BY <1>1, <1>2 DEF TabsType, TabSet
  <2>4. requests[t] \in SUBSET RequestSet
    BY <1>1 DEF TabsType
  <2> HIDE DEF tab
  <2>5. TabsType' /\ Apart(t) /\ tabs'[t] = tab /\ requests'[t] = requests[t]
    BY <1>1, <2>2, <2>3, <2>4, TabSteps
  <2>6. Goes(t)
    BY <1>2, <2>3, <2>5 DEF Goes, Rejoined
  <2>7. QED
    BY <1>1, <2>5, <2>6, NoStoreChange, Parts, PartsNext DEF Moved
<1>5. QED
  BY <1>3, <1>4

LEMMA DropAndForgetParts ==
    ASSUME TabsType, StoreType, NEW t \in Tabs, TabInv(t), DropAndForget(t)
    PROVE  TabsType' /\ Goes(t) /\ Apart(t) /\ StoreType'
<1>1. [wallet |-> Nothing, session |-> Nothing] \in StorageSet
  BY NothingInSets DEF StorageSet
<1>2. StoreType'
  BY <1>1, WriteType DEF DropAndForget
<1>3. QED
  BY <1>2, Dropping DEF DropAndForget

LEMMA KeyTyped ==
    ASSUME ModelType, NEW t \in Tabs
    PROVE  /\ keys[t].key \in AccountSet
           /\ \A a \in AccountSet : [keys EXCEPT ![t].key = a] \in [Tabs -> [key : AccountSet, told : BOOLEAN]]
           /\ [keys EXCEPT ![t].told = TRUE] \in [Tabs -> [key : AccountSet, told : BOOLEAN]]
           /\ \A a \in AccountSet, b \in BOOLEAN :
                [keys EXCEPT ![t] = [key |-> a, told |-> b]] \in [Tabs -> [key : AccountSet, told : BOOLEAN]]
BY DEF ModelType

LEMMA DisconnectMoves ==
    ASSUME ModelType, NEW t \in Tabs, TabInv(t), Disconnect(t) \/ ProviderDisconnects(t)
    PROVE  Moved(t)
<1>1. TabsType /\ StoreType /\ issued' = issued
  BY Parts DEF Disconnect, ProviderDisconnects
<1>2. keys' \in [Tabs -> [key : AccountSet, told : BOOLEAN]]
  <2>1. PICK key \in AccountSet : keys' = [keys EXCEPT ![t].key = key]
    BY KeyTyped, NothingInSets DEF Disconnect, ProviderDisconnects
  <2>2. QED
    BY <2>1, KeyTyped
<1>3. CASE DropAndForget(t)
  BY <1>1, <1>2, <1>3, DropAndForgetParts, Parts, PartsNext DEF Moved
<1>4. CASE UNCHANGED <<tabs, requests>> /\ Keep
  BY <1>1, <1>2, <1>4, Standing, NoStoreChange, Parts, PartsNext DEF Moved, Keep
<1>5. QED
  BY <1>3, <1>4 DEF Disconnect, ProviderDisconnects

LEMMA AskMoves ==
    ASSUME ModelType, NEW t \in Tabs, TabInv(t), Authenticate(t) \/ SendTransaction(t)
    PROVE  Moved(t)
<1>1. TabsType /\ StoreType /\ UNCHANGED <<tabs, keys, storage, notices, issued>> /\ MayBegin(t)
  BY Parts DEF Authenticate, SendTransaction
<1>2. PICK kind \in {"sign in", "send"}, at \in {"network", "tables"} :
        /\ requests' = [requests EXCEPT ![t] = @ \cup {Request(kind, at, t)}]
        /\ at = "tables" => kind = "send"
  BY DEF Authenticate, SendTransaction
<1> DEFINE r == Request(kind, at, t)
           calls == requests[t] \cup {r}
<1>3. r \in RequestSet /\ r.at = at /\ r.current /\ r.holds
  <2>1. kind \in {"connect", "sign in", "send"} /\ at \in Places
    BY DEF Places, Sending
  <2>2. QED
    BY <2>1, RequestTyped
<1>4. requests' = [requests EXCEPT ![t] = calls] /\ tabs' = [tabs EXCEPT ![t] = tabs[t]]
  BY <1>1, <1>2 DEF TabsType
<1>5. tabs[t] \in TabSet
  BY <1>1 DEF TabsType
<1>6. at = "tables" => r = Request("send", "tables", t)
  BY <1>2
<1> HIDE DEF r
<1>7. calls \in SUBSET RequestSet
  BY <1>1, <1>3 DEF TabsType
<1>8. TabsType' /\ Apart(t) /\ tabs'[t] = tabs[t] /\ requests'[t] = requests[t] \cup {r}
  BY <1>1, <1>4, <1>5, <1>7, TabSteps
<1>9. \A o \in requests[t] : ~o.holds
  BY <1>1 DEF MayBegin
<1>10. Goes(t)
  <2>1. CASE at = "tables"
    BY <1>6, <1>8, <1>9, <2>1 DEF Goes, Asked, SameIdentity
  <2>2. CASE at = "network"
    BY <1>3, <1>8, <1>9, <2>2 DEF Goes, Quiet, OnePending, TabInv, Sending
  <2>3. QED
    BY <2>1, <2>2
<1>11. QED
  BY <1>1, <1>8, <1>10, NoStoreChange, Parts, PartsNext DEF Moved

LEMMA AdvanceMoves ==
    ASSUME ModelType, NEW t \in Tabs, TabInv(t), NEW r \in requests[t], r.current,
           r.at \in DOMAIN Steps, Advance(t, r, Steps[r.at])
    PROVE  TabsType' /\ Goes(t) /\ Apart(t)
<1>1. TabsType
  BY Parts
<1> DEFINE at == Steps[r.at]
<1>2. at \in Places /\ (r.at \in Sending <=> at \in Sending)
  BY DEF Steps, Places, Sending
<1> HIDE DEF at
<1> DEFINE q == [r EXCEPT !.at = at]
           calls == (requests[t] \ {r}) \cup {q}
<1>3. requests' = [requests EXCEPT ![t] = calls] /\ tabs' = [tabs EXCEPT ![t] = tabs[t]]
  BY <1>1 DEF Advance, TabsType, at
<1>4. q \in RequestSet /\ q.at = at /\ q.current = r.current /\ q.holds = r.holds
  <2>1. r \in RequestSet
    BY <1>1 DEF TabsType
  <2>2. QED
    BY <1>2, <2>1, RequestAt
<1>5. tabs[t] \in TabSet
  BY <1>1 DEF TabsType
<1>6. calls \in SUBSET RequestSet
  BY <1>1, <1>4 DEF TabsType
<1>11. calls = (requests[t] \ {r}) \cup {q}
  OBVIOUS
<1> HIDE DEF q, calls
<1>7. /\ TabsType' /\ Apart(t) /\ tabs'[t] = tabs[t]
      /\ requests'[t] = (requests[t] \ {r}) \cup {q}
  <2>1. TabsType' /\ Apart(t) /\ tabs'[t] = tabs[t] /\ requests'[t] = calls
    BY <1>1, <1>3, <1>5, <1>6, TabSteps
  <2>2. QED
    BY <1>11, <2>1
<1>8. CASE r.at \in Sending
  BY <1>2, <1>7, <1>8 DEF Goes, Advanced, SameIdentity, q
<1>9. CASE r.at \notin Sending
  <2>1. \A o \in requests[t] \ {r} : ~o.current /\ ~o.holds
    BY OnlyOne DEF TabInv
  <2>2. Quiet(t)
    BY <1>2, <1>4, <1>7, <1>9, <2>1, OnlyOne DEF Quiet, OnePending, TabInv
  <2>3. QED
    BY <1>7, <2>2 DEF Goes
<1>10. QED
  BY <1>7, <1>8, <1>9

LEMMA CallMoves ==
    ASSUME ModelType, NEW t \in Tabs, TabInv(t), Continue(t) \/ Sends(t) \/ Fails(t)
    PROVE  Moved(t)
<1>1. TabsType /\ StoreType /\ UNCHANGED <<keys, storage, notices, issued>>
  BY Parts DEF Continue, Sends, Fails
<1>2. TabsType' /\ Goes(t) /\ Apart(t)
  <2>1. PICK r \in requests[t] :
          \/ Finish(t, r)
          \/ r.current /\ r.at \in DOMAIN Steps /\ Advance(t, r, Steps[r.at])
    BY DEF Continue, Sends, Fails, Check
  <2>2. CASE Finish(t, r)
    BY <1>1, <2>2, Finishing
  <2>3. CASE r.current /\ r.at \in DOMAIN Steps /\ Advance(t, r, Steps[r.at])
    BY <2>3, AdvanceMoves
  <2>4. QED
    BY <2>1, <2>2, <2>3
<1>3. QED
  BY <1>1, <1>2, NoStoreChange, Parts, PartsNext DEF Moved

LEMMA SignedInMoves ==
    ASSUME ModelType, NEW t \in Tabs, TabInv(t), SignedIn(t)
    PROVE  Moved(t)
<1>1. TabsType /\ StoreType /\ keys' = keys /\ issued \in Nat
  BY Parts DEF SignedIn
<1>2. PICK r \in requests[t] :
        /\ r.current /\ issued' = issued + 1
        /\ requests' = [requests EXCEPT ![t] = @ \ {r}]
        /\ tabs' = [tabs EXCEPT ![t].session = [owner |-> r.owner, token |-> issued + 1],
                                ![t].connecting = @ /\ ~r.holds]
        /\ Write(t, [storage EXCEPT !.session = [owner |-> r.owner, token |-> issued + 1]])
  BY DEF SignedIn, Check
<1>3. issued + 1 \in Nat
  BY <1>1
<1> DEFINE token == issued + 1
<1> HIDE DEF token
<1> DEFINE session == [owner |-> r.owner, token |-> token]
           tab == [tabs[t] EXCEPT !.session = session, !.connecting = @ /\ ~r.holds]
           calls == requests[t] \ {r}
<1>4. session \in Sessions
  <2>1. r.owner \in AccountSet
    <3>1. r \in RequestSet
      BY <1>1 DEF TabsType
    <3>2. QED
      BY <3>1 DEF RequestSet
  <2>2. QED
    BY <1>3, <2>1 DEF Sessions, token
<1>5. requests' = [requests EXCEPT ![t] = calls] /\ tabs' = [tabs EXCEPT ![t] = tab]
  BY <1>1, <1>2 DEF TabsType, token
<1>6. Write(t, [storage EXCEPT !.session = session])
  BY <1>2 DEF token
<1> HIDE DEF session
<1>7. tab \in TabSet
  BY <1>1, <1>4 DEF TabsType, TabSet
<1>8. calls \in SUBSET RequestSet /\ OnePending(calls) /\ \A o \in calls : ~o.current
  BY <1>1, <1>2, OnlyOne DEF TabsType, TabInv, OnePending
<1> HIDE DEF tab, calls
<1>9. TabsType' /\ Apart(t) /\ requests'[t] = calls
  BY <1>1, <1>5, <1>7, <1>8, TabSteps
<1>10. StoreType'
  BY <1>1, <1>4, <1>6, StorageFields, WriteType
<1>11. Goes(t)
  BY <1>8, <1>9 DEF Goes, Quiet
<1>12. QED
  BY <1>1, <1>2, <1>3, <1>9, <1>10, <1>11, Parts, PartsNext DEF Moved

LEMMA KeyMoves ==
    ASSUME ModelType, NEW t \in Tabs, TabInv(t), KeyChanges(t) \/ KeyEvent(t)
    PROVE  Moved(t)
<1>1. TabsType /\ StoreType /\ issued' = issued
  BY Parts DEF KeyChanges, KeyEvent
<1>2. keys' \in [Tabs -> [key : AccountSet, told : BOOLEAN]]
  <2>1. CASE KeyChanges(t)
    <3>1. PICK a \in AccountSet : keys' = [keys EXCEPT ![t] = [key |-> a, told |-> FALSE]]
      BY <2>1 DEF KeyChanges, AccountSet
    <3>2. QED
      BY <3>1, KeyTyped
  <2>2. CASE KeyEvent(t)
    BY <2>2, KeyTyped DEF KeyEvent
  <2>3. QED
    BY <2>1, <2>2
<1>3. CASE UNCHANGED <<tabs, requests, storage, notices>>
  BY <1>1, <1>2, <1>3, Standing, NoStoreChange, Parts, PartsNext DEF Moved
<1>4. CASE DropAndForget(t)
  BY <1>1, <1>2, <1>4, DropAndForgetParts, Parts, PartsNext DEF Moved
<1>5. CASE ChangedTo(t, keys[t].key)
  <2>1. keys[t].key \in AccountSet
    BY KeyTyped
  <2>2. TabsType' /\ Goes(t) /\ Apart(t)
    BY <1>1, <1>5, <2>1, Moving DEF ChangedTo
  <2>3. StoreType'
    BY <1>1, <1>5, <2>1, NothingInSets, StorageFields, WriteType DEF ChangedTo
  <2>4. QED
    BY <1>1, <1>2, <2>2, <2>3, Parts, PartsNext DEF Moved
<1>6. QED
  BY <1>3, <1>4, <1>5 DEF KeyChanges, KeyEvent, Keep

LEMMA SessionMoves ==
    ASSUME ModelType, NEW t \in Tabs, TabInv(t), SessionEnds(t)
    PROVE  Moved(t)
<1>1. TabsType /\ StoreType /\ UNCHANGED <<keys, issued>> /\ Invalidate(t)
  BY Parts DEF SessionEnds
<1>2. TabsType' /\ Goes(t) /\ Apart(t)
  BY <1>1, NothingInSets, Moving DEF Invalidate
<1>3. StoreType'
  BY <1>1, NothingInSets, StorageFields, WriteType DEF Invalidate
<1>4. QED
  BY <1>1, <1>2, <1>3, Parts, PartsNext DEF Moved

LEMMA StorageEventMoves ==
    ASSUME ModelType, NEW t \in Tabs, TabInv(t), StorageEvent(t)
    PROVE  Moved(t)
<1>1. TabsType /\ StoreType /\ UNCHANGED <<keys, storage, issued>>
  BY Parts DEF StorageEvent
<1>2. StoreType'
  <2>1. PICK k \in notices[t] : notices' = [notices EXCEPT ![t] = @ \ {k}]
    BY DEF StorageEvent
  <2>2. QED
    BY <1>1, <2>1 DEF StoreType
<1>3. CASE Drop(t)
  BY <1>1, <1>2, <1>3, Dropping, Parts, PartsNext DEF Moved
<1>4. CASE /\ tabs' = [tabs EXCEPT ![t].session = Nothing]
           /\ requests' = [requests EXCEPT ![t] = NextGeneration(@)]
  <2>1. TabsType' /\ Goes(t) /\ Apart(t)
    BY <1>1, <1>4, NothingInSets, Moving
  <2>2. QED
    BY <1>1, <1>2, <2>1, Parts, PartsNext DEF Moved
<1>5. CASE UNCHANGED <<tabs, requests>>
  BY <1>1, <1>2, <1>5, Standing, Parts, PartsNext DEF Moved
<1>6. QED
  BY <1>3, <1>4, <1>5 DEF StorageEvent

LEMMA MountMoves ==
    ASSUME ModelType, NEW t \in Tabs, TabInv(t), Remount(t) \/ Reload(t)
    PROVE  Moved(t)
<1>1. TabsType /\ StoreType /\ issued' = issued
  BY Parts DEF Remount, Reload
<1>2. Away \in TabSet
  BY NothingInSets DEF Away, TabSet
<1>3. PICK calls \in SUBSET RequestSet :
        /\ requests' = [requests EXCEPT ![t] = calls] /\ tabs' = [tabs EXCEPT ![t] = Away]
        /\ \A r \in calls : ~r.current /\ ~r.holds
  <2>1. CASE Remount(t)
    <3> DEFINE calls == {[r EXCEPT !.current = FALSE, !.holds = FALSE] : r \in requests[t]}
    <3>1. \A r \in calls : r \in RequestSet /\ ~r.current /\ ~r.holds
      <4>1. SUFFICES ASSUME NEW r \in calls PROVE r \in RequestSet /\ ~r.current /\ ~r.holds
        OBVIOUS
      <4>2. PICK q \in requests[t] : r = [q EXCEPT !.current = FALSE, !.holds = FALSE]
        OBVIOUS
      <4>3. q \in RequestSet
        BY <1>1 DEF TabsType
      <4>4. QED
        BY <4>2, <4>3 DEF RequestSet
    <3>2. requests' = [requests EXCEPT ![t] = calls] /\ tabs' = [tabs EXCEPT ![t] = Away]
      BY <1>1, <2>1 DEF Remount, TabsType
    <3>3. QED
      BY <3>1, <3>2
  <2>2. CASE Reload(t)
    <3>1. {} \in SUBSET RequestSet /\ \A r \in {} : ~r.current /\ ~r.holds
      OBVIOUS
    <3>2. requests' = [requests EXCEPT ![t] = {}] /\ tabs' = [tabs EXCEPT ![t] = Away]
      BY <2>2 DEF Reload
    <3>3. QED
      BY <3>1, <3>2
  <2>3. QED
    BY <2>1, <2>2
<1>4. TabsType' /\ Apart(t) /\ requests'[t] = calls
  BY <1>1, <1>2, <1>3, TabSteps
<1>5. Goes(t)
  BY <1>3, <1>4 DEF Goes, Quiet, OnePending
<1>6. StoreType' /\ keys' \in [Tabs -> [key : AccountSet, told : BOOLEAN]]
  <2>1. CASE Remount(t)
    BY <1>1, <2>1, NoStoreChange DEF Remount, ModelType
  <2>2. CASE Reload(t)
    <3>1. StoreType'
      BY <1>1, <2>2 DEF Reload, StoreType
    <3>2. QED
      BY <2>2, <3>1, KeyTyped, NothingInSets DEF Reload
  <2>3. QED
    BY <2>1, <2>2
<1>7. QED
  BY <1>1, <1>4, <1>5, <1>6, Parts, PartsNext DEF Moved

LEMMA TabMoves ==
    ASSUME ModelType, NEW t \in Tabs, TabInv(t), TabActs(t)
    PROVE  Moved(t)
BY ConnectMoves, WalletAnswersMoves, NetworkMoves, DisconnectMoves, AskMoves, CallMoves,
   SignedInMoves, KeyMoves, SessionMoves, StorageEventMoves, MountMoves DEF TabActs

(* A step of another tab. *)
LEMMA OthersKeep ==
    ASSUME NEW t \in Tabs, NEW u \in Tabs, t # u, Apart(t), Upset, disturbed \in [Tabs -> BOOLEAN],
           TabInv(u)
    PROVE  TabInv(u)'
<1>1. tabs'[u] = tabs[u] /\ requests'[u] = requests[u]
  BY DEF Apart
<1>2. disturbed'[u] = disturbed[u]
  BY <1>1 DEF Upset, Begins, SameIdentity
<1>3. QED
  BY <1>1, <1>2 DEF TabInv

(* Only a send that may go on adds to what was sent. *)
LEMMA SentStep ==
    ASSUME NEW t \in Tabs, TabInv(t), TabActs(t), SentAsReviewed
    PROVE  SentAsReviewed'
<1>1. CASE sent' = sent
  BY <1>1 DEF SentAsReviewed
<1>2. CASE Sends(t)
  <2>1. PICK r \in requests[t] :
          /\ r.at = "signed" /\ Check(t, r)
          /\ sent' = sent \cup {[owner |-> r.owner, shown |-> tabs[t].account, signer |-> keys[t].key,
                                 reviewed |-> r.holds /\ ~disturbed[t]]}
    BY <1>2 DEF Sends
  <2>2. r.holds /\ ~disturbed[t]
    BY <2>1 DEF TabInv, OnePending, Reviewed, Undisturbed, Sending, Check
  <2>3. /\ r.owner = tabs[t].account /\ r.owner = keys[t].key
    BY <2>1 DEF Check
  <2> DEFINE s == [owner |-> r.owner, shown |-> tabs[t].account, signer |-> keys[t].key,
                   reviewed |-> r.holds /\ ~disturbed[t]]
  <2>4. s.owner = s.shown /\ s.owner = s.signer /\ s.reviewed
    BY <2>2, <2>3
  <2>5. sent' = sent \cup {s}
    BY <2>1
  <2> HIDE DEF s
  <2>6. QED
    BY <2>4, <2>5 DEF SentAsReviewed
<1>3. QED
  BY <1>1, <1>2 DEF TabActs, Connect, Restore, WalletAnswers, NetworkVerified, EnsureNetwork,
     Disconnect, Authenticate, SendTransaction, Continue, SignedIn, Fails, KeyChanges, KeyEvent,
     ProviderDisconnects, SessionEnds, StorageEvent, Remount, Reload

LEMMA WalletStart == WalletInit => WalletInv
BY NothingInSets DEF WalletInit, WalletInv, WalletType, TabInv, OnePending, Reviewed, SentAsReviewed,
   Away, TabSet, StorageSet

LEMMA WalletStep == WalletInv /\ [WalletNext]_walletVars => WalletInv'
<1> SUFFICES ASSUME WalletInv, [WalletNext]_walletVars PROVE WalletInv'
  OBVIOUS
<1>1. CASE UNCHANGED walletVars
  BY <1>1 DEF walletVars, controllerVars, WalletInv, WalletType, TabInv, Reviewed, OnePending, SentAsReviewed
<1>2. CASE WalletNext
  <2>1. PICK t \in Tabs : TabActs(t)
    BY <1>2 DEF WalletNext
  <2>2. Upset
    BY <1>2 DEF WalletNext, Upset
  <2>3. ModelType /\ disturbed \in [Tabs -> BOOLEAN] /\ TabInv(t) /\ SentAsReviewed
    BY DEF WalletInv, WalletType, ModelType
  <2>4. Moved(t)
    BY <2>1, <2>3, TabMoves
  <2>5. TabInv(t)'
    BY <2>2, <2>3, <2>4, GoesKeeps DEF Moved
  <2>6. \A u \in Tabs : TabInv(u)'
    BY <2>2, <2>3, <2>4, <2>5, OthersKeep DEF Moved, WalletInv
  <2>7. disturbed' \in [Tabs -> BOOLEAN]
    BY <2>2, <2>3 DEF Upset, Begins, SameIdentity
  <2>8. SentAsReviewed'
    BY <2>1, <2>3, SentStep
  <2>9. QED
    BY <2>4, <2>6, <2>7, <2>8 DEF Moved, WalletInv, WalletType, ModelType
<1>3. QED
  BY <1>1, <1>2

(* What a tab signs and sends is of the account that it shows and whose    *)
(* session reviewed it, through account changes, sessions that end in      *)
(* another tab and calls that are superseded (controller.ts): every step   *)
(* after an await checks again that the call is current and the identity   *)
(* the same.                                                               *)
THEOREM WalletSendsAsReviewed == WalletSpec => []SentAsReviewed
<1>1. WalletInv => SentAsReviewed
  BY DEF WalletInv
<1>2. QED
  BY <1>1, WalletStart, WalletStep, PTL DEF WalletSpec
=============================================================================
