-------------------------- MODULE DelegatedOrders --------------------------
(***************************************************************************)
(* The API's submission of delegated orders (apps/api/src/solana/trading/  *)
(* delegated-orders.ts): requests for one owner run one after another      *)
(* under a database lock, each in one database transaction.                *)
(***************************************************************************)
EXTENDS Cluster, FiniteSets

CONSTANTS
    Requests,    \* HTTP requests; several may ask for the same order
    OrderOf(_),  \* the order a request asks for
    MaxReplans,  \* MAX_STALE_REPLANS
    IndexLag,    \* blocks the live index may be behind
    MaxChanges,  \* bound: blocks in which other traders change the book
    MaxCrashes,  \* bound: the API process dies
    MaxLost      \* bound: answers of the RPC node that are lost

VARIABLES
    requests,    \* [request |-> where it is and what it has read]
    lock,        \* the request that holds the owner's lock
    journal,     \* committed rows: [order |-> transaction]
    changes,     \* blocks in which the book of the market changed
    mishaps      \* crashes and lost answers so far

apiVars == <<requests, lock, journal, changes, mishaps>>
submitVars == <<cluster, apiVars>>

Nobody == "nobody"
Unwritten == 0

Orders == {OrderOf(r) : r \in Requests}

\* at: "asked", "plan", "simulate", "replan", "status", "send", "confirm", and the
\* answers "placed", "failed" and "expired"; row: the journal as its transaction sees it.
Ended == {"placed", "failed", "expired"}

-----------------------------------------------------------------------------
Moves(r, at) == requests' = [requests EXCEPT ![r].at = at]

\* The work is done: its row is committed. COMMIT, then the lock is released.
Commit(r, answer) ==
    /\ requests' = [requests EXCEPT ![r].at = answer]
    /\ journal' = [journal EXCEPT ![OrderOf(r)] = requests[r].row]
    /\ lock' = Nobody

\* Slip: the lock belongs to the session and not to the transaction.
RollbackKeepsLock(r, answer) ==
    /\ requests' = [requests EXCEPT ![r].at = answer]
    /\ UNCHANGED <<lock, journal>>

\* An exception, whatever it is: ROLLBACK.
Rollback(r, answer) ==
    /\ requests' = [requests EXCEPT ![r].at = answer]
    /\ lock' = Nobody
    /\ UNCHANGED journal

Lost == mishaps.lost < MaxLost /\ mishaps' = [mishaps EXCEPT !.lost = @ + 1]
Answered == UNCHANGED mishaps

Still == UNCHANGED <<lock, journal>>

\* BEGIN, the lock, and the row of an earlier request.
Lock(r) ==
    /\ requests[r].at = "asked" /\ lock = Nobody
    /\ lock' = r
    /\ LET row == journal[OrderOf(r)]
       IN  requests' = [requests EXCEPT ![r].row = row,
                                        ![r].at = IF row = Unwritten THEN "plan" ELSE "status"]
    /\ UNCHANGED <<cluster, journal, changes, mishaps>>

Lagging(s) == {x \in s..height : x >= height - IndexLag}

\* A snapshot of the index; the plan is made on it.
PlanOrder(r) ==
    /\ requests[r].at = "plan"
    /\ \E s \in Lagging(0) :
        requests' = [requests EXCEPT ![r].seen = s, ![r].at = "simulate"]
    /\ Still /\ UNCHANGED <<cluster, changes, mishaps>>

Placed(order, s) == \E i \in Executed(s) : txs[i].body.order = order

Between(a, b) == IF a < b THEN (a + 1)..b ELSE (b + 1)..a

\* A plan is stale when the book has changed between two blocks.
Stale(a, b) == changes \cap Between(a, b) # {}

\* A stale plan is made again on a snapshot that has got to the simulated block.
ReplanFloor(slot) == slot

\* The simulation, at a block of its own. A plan that is not stale is signed and
\* recorded; a stale one is made again a few times.
Simulate(r) ==
    LET q == requests[r]
    IN  /\ q.at = "simulate"
        /\ \E s \in Final..height :
            \/ /\ Placed(OrderOf(r), s) \/ ~CanSign   \* beyond the bound the node fails
               /\ Rollback(r, "failed") /\ UNCHANGED <<txs, height>>
            \/ /\ ~Placed(OrderOf(r), s) /\ Stale(q.seen, s)
               /\ IF q.replans = MaxReplans THEN Rollback(r, "failed")
                  ELSE /\ requests' = [requests EXCEPT ![r].at = "replan", ![r].replans = @ + 1,
                                                       ![r].seen = ReplanFloor(s)]
                       /\ Still
               /\ UNCHANGED <<txs, height>>
            \/ /\ ~Placed(OrderOf(r), s) /\ ~Stale(q.seen, s)
               /\ CanSign
               /\ txs' = Append(txs, Signed([order |-> OrderOf(r), seen |-> q.seen]))
               /\ requests' = [requests EXCEPT ![r].row = Len(txs) + 1, ![r].at = "status"]
               /\ Still /\ UNCHANGED height
        /\ UNCHANGED <<changes, mishaps>>

\* waitForIndexedSlot(): the index gets there, or the wait times out.
WaitForIndexedSlot(r) ==
    /\ requests[r].at = "replan"
    /\ \/ \E s \in Lagging(requests[r].seen) :
            requests' = [requests EXCEPT ![r].seen = s, ![r].at = "simulate"]
          /\ Still
       \/ Rollback(r, "failed")
    /\ UNCHANGED <<cluster, changes, mishaps>>

-----------------------------------------------------------------------------
\* The signature's status, from a node at block s, and then the block height.
Status(r) ==
    LET i == requests[r].row
    IN  /\ requests[r].at = "status"
        /\ \E s \in Final..height :
            \/ /\ Landed(i, s)
               /\ IF txs[i].ok THEN Commit(r, "placed") ELSE Rollback(r, "failed")
            \/ /\ ~Landed(i, s) /\ height > txs[i].valid /\ Rollback(r, "expired")
            \/ /\ ~Landed(i, s) /\ height <= txs[i].valid /\ Moves(r, "send") /\ Still
        /\ UNCHANGED <<cluster, changes, mishaps>>

\* Preflight refuses what cannot execute; the answer may be lost on the way.
SendOrder(r) ==
    LET i == requests[r].row
    IN  /\ requests[r].at = "send"
        /\ \/ /\ Placed(OrderOf(r), height) /\ Rollback(r, "failed")
              /\ UNCHANGED txs /\ Answered
           \/ /\ ~Placed(OrderOf(r), height)
              /\ Submitted(i)
              /\ \/ Moves(r, "confirm") /\ Still /\ Answered
                 \/ Lost /\ Rollback(r, "failed")
        /\ UNCHANGED <<height, changes>>

\* Slip: a transaction that is confirmed is taken to have succeeded.
ConfirmWhatever(r) ==
    LET i == requests[r].row
    IN  /\ requests[r].at = "confirm"
        /\ Landed(i, height) /\ Commit(r, "placed") /\ Answered
        /\ UNCHANGED <<cluster, changes>>

\* confirmTransaction(): its outcome, its expiry, or no answer at all.
ConfirmOrder(r) ==
    LET i == requests[r].row
    IN  /\ requests[r].at = "confirm"
        /\ \/ Landed(i, height) /\ txs[i].ok /\ Commit(r, "placed") /\ Answered
           \/ Landed(i, height) /\ ~txs[i].ok /\ Rollback(r, "failed") /\ Answered
           \/ ~Landed(i, height) /\ height > txs[i].valid /\ Rollback(r, "failed") /\ Answered
           \/ Lost /\ Rollback(r, "failed")
        /\ UNCHANGED <<cluster, changes>>

\* The process dies: the connection closes, and every request with it.
ApiCrash ==
    /\ mishaps.crashes < MaxCrashes
    /\ lock # Nobody
    /\ mishaps' = [mishaps EXCEPT !.crashes = @ + 1]
    /\ Rollback(lock, "failed")
    /\ UNCHANGED <<cluster, changes>>

-----------------------------------------------------------------------------
\* The program places an order once, and only by a plan that is not stale.
OrderBlock ==
    \E i \in DOMAIN txs :
        LET ok == /\ ~Placed(txs[i].body.order, height)
                  /\ ~Stale(txs[i].body.seen, height)
        IN  /\ Block(i, ok)
            /\ changes' = IF ok THEN changes \cup {height + 1} ELSE changes
            /\ UNCHANGED <<requests, lock, journal, mishaps>>

\* Other traders change the book, or not.
OtherBlock ==
    /\ EmptyBlock
    /\ \/ UNCHANGED changes
       \/ /\ Cardinality(changes) < MaxChanges
          /\ changes' = changes \cup {height + 1}
    /\ UNCHANGED <<requests, lock, journal, mishaps>>

SubmitInit ==
    /\ ClusterInit
    /\ requests = [r \in Requests |-> [at |-> "asked", row |-> Unwritten, seen |-> 0, replans |-> 0]]
    /\ lock = Nobody
    /\ journal = [o \in Orders |-> Unwritten]
    /\ changes = {}
    /\ mishaps = [crashes |-> 0, lost |-> 0]

Handles(r) ==
    \/ PlanOrder(r) \/ Simulate(r) \/ WaitForIndexedSlot(r)
    \/ Status(r) \/ SendOrder(r) \/ ConfirmOrder(r)

SubmitNext ==
    \/ \E r \in Requests : Lock(r) \/ Handles(r)
    \/ ApiCrash \/ OrderBlock \/ OtherBlock

SubmitFairness ==
    /\ \A r \in Requests : WF_submitVars(Lock(r)) /\ WF_submitVars(Handles(r))
    /\ WF_submitVars(OtherBlock)

SubmitSpec == SubmitInit /\ [][SubmitNext]_submitVars /\ SubmitFairness

-----------------------------------------------------------------------------
\* A request answers that its order is placed only when it is.
PlacedIsPlaced == \A r \in Requests : requests[r].at = "placed" => Placed(OrderOf(r), height)

\* Whatever fails, lags or dies, every request is answered: the lock is never kept.
RequestsEnd == \A r \in Requests : <>(requests[r].at \in Ended)
=============================================================================
