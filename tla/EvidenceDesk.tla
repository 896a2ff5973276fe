---------------------------- MODULE EvidenceDesk ----------------------------
(***************************************************************************)
(* The evidence of the operators: packets that create or resolve a market, *)
(* prepared and reviewed once at the API, and the transactions that        *)
(* approved packets allow, which an operator's console signs.  A packet is *)
(* its position in `packets'; its hash binds all of its content.  One key  *)
(* has the roles of the market and the resolution administrator.           *)
(***************************************************************************)
EXTENDS Integers, Sequences, FiniteSets

CONSTANTS
    Consoles,    \* open consoles of operators
    Ids,         \* markets, by the hash of the configuration that creates them
    Payouts,     \* the payout vectors a resolution may declare
    MaxPackets,  \* bound: packets
    MaxAsked     \* bound: requests to prepare a packet that the API has not answered

ASSUME DeskAssumption == MaxPackets \in Nat /\ MaxAsked \in Nat

VARIABLES
    packets,   \* what was prepared, in order, each with its review and previews
    asked,     \* requests to prepare that wait for the API
    accounts,  \* the market accounts of the chain
    signing,   \* ExecuteEvidence of each console
    flying,      \* transactions that were signed and may land
    done,      \* transactions that succeeded
    tracked    \* markets whose source the ingestor was asked to follow

deskVars == <<packets, asked, accounts, signing, flying, done, tracked>>

None == 0
Actions == {"create-market", "begin-resolution", "resolve-market"}
Absent == [state |-> "none", commitment |-> None, evidence |-> None]
Nowhere == [phase |-> "idle", packet |-> None, action |-> "create-market"]

Creation(m) == [kind |-> "creation", id |-> m, payout |-> None]
Resolution(m, payout) == [kind |-> "resolution", id |-> m, payout |-> payout]
Packet(content) == [content |-> content, status |-> "prepared", previews |-> {}, observed |-> {}]

(* Packets of content c that were not rejected. *)
Live(c) == {p \in DOMAIN packets : packets[p].content = c /\ packets[p].status # "rejected"}

\* Slip: only approved packets are compared.
ConflictsApproved(c) ==
    /\ c.kind = "resolution"
    /\ \E other \in Payouts \ {c.payout} :
         \E p \in Live(Resolution(c.id, other)) : packets[p].status = "approved"

(* An active packet of the same market declares another payout.  Creation  *)
(* packets are not compared.                                               *)
Conflicts(c) ==
    /\ c.kind = "resolution"
    /\ \E other \in Payouts \ {c.payout} : Live(Resolution(c.id, other)) # {}

(* What a request to resolve found before it waits for the lock: the       *)
(* market was frozen or awaiting.                                          *)
AskResolution(m, payout) ==
    /\ accounts[m].state \in {"frozen", "awaiting"}
    /\ Cardinality(asked) < MaxAsked
    /\ asked' = asked \cup {[content |-> Resolution(m, payout), by |-> None]}
    /\ UNCHANGED <<packets, accounts, signing, flying, done, tracked>>

(* Under the lock of all evidence: the packet is stored, or refused.       *)
StorePacket(content) ==
    IF Conflicts(content) THEN UNCHANGED packets
    ELSE /\ Len(packets) < MaxPackets
         /\ packets' = Append(packets, Packet(content))

(* The API comes to a request; its client may be gone by then.             *)
PrepareResolution(request) ==
    /\ request \in asked /\ request.content.kind = "resolution"
    /\ StorePacket(request.content)
    /\ asked' = asked \ {request}
    /\ UNCHANGED <<accounts, signing, flying, done, tracked>>

(* A request is lost on its way. *)
LoseRequest(request) ==
    /\ request \in asked
    /\ asked' = asked \ {request}
    /\ UNCHANGED <<packets, accounts, signing, flying, done, tracked>>

(* Under the lock; the status is the decision of the last review. *)
Review(p, decision) ==
    /\ p \in DOMAIN packets
    /\ packets[p].status = "prepared"
    /\ packets' = [packets EXCEPT ![p].status = decision]
    /\ UNCHANGED <<asked, accounts, signing, flying, done, tracked>>

(* The action that the packet calls for, by the state of its market: the   *)
(* resolution of a market that is neither frozen nor awaiting is refused.  *)
ActionOf(p) ==
    LET content == packets[p].content
        state == accounts[content.id].state
    IN  IF content.kind = "creation" THEN {"create-market"}
        ELSE IF state = "frozen" THEN {"begin-resolution"}
        ELSE IF state = "awaiting" THEN {"resolve-market"}
        ELSE {}

(* Whether the program executes the transaction of p.  A market's address  *)
(* is derived from its configuration, so it is created once; a commitment  *)
(* is to a packet.                                                         *)
Executes(p, action) ==
    LET account == accounts[packets[p].content.id]
    IN  CASE action = "create-market" -> account.state = "none"
          [] action = "begin-resolution" -> account.state = "frozen"
          [] action = "resolve-market" ->
               account.state = "awaiting" /\ account.commitment = p

Effect(p, action, account) ==
    CASE action = "create-market" -> [account EXCEPT !.state = "scheduled"]
      [] action = "begin-resolution" ->
           [account EXCEPT !.state = "awaiting", !.commitment = p]
      [] action = "resolve-market" ->
           [account EXCEPT !.state = "redeemable", !.commitment = None, !.evidence = p]

(* The transaction route: an approval that stands, the action of the       *)
(* market's state, a simulation that succeeds, and the preview is stored.  *)
(* What is approved stays so and the simulation fails when the market has  *)
(* moved on since it was read, so the route takes effect at its simulation.*)
Previewed(p, action) ==
    /\ packets[p].status = "approved"
    /\ action \in ActionOf(p)
    /\ Executes(p, action)
    /\ packets' = [packets EXCEPT ![p].previews = @ \cup {action}]

Preview(k, p, action) ==
    /\ signing[k].phase = "idle"
    /\ p \in DOMAIN packets
    /\ Previewed(p, action)
    /\ signing' = [signing EXCEPT ![k] = [phase |-> "shown", packet |-> p, action |-> action]]
    /\ UNCHANGED <<asked, accounts, flying, done, tracked>>

(* execute: the route is asked again and must answer the same action; any  *)
(* failure leaves the preview on the screen.                               *)
Recheck(k) ==
    /\ signing[k].phase = "shown"
    /\ Previewed(signing[k].packet, signing[k].action)
    /\ signing' = [signing EXCEPT ![k].phase = "signing"]
    /\ UNCHANGED <<asked, accounts, flying, done, tracked>>

(* sendTransaction: one more preflight, the signature, and the send; or it *)
(* fails before.                                                           *)
SignAndSend(k) ==
    /\ signing[k].phase = "signing"
    /\ \/ /\ Executes(signing[k].packet, signing[k].action)
          /\ flying' = flying \cup {[packet |-> signing[k].packet, action |-> signing[k].action]}
          /\ signing' = [signing EXCEPT ![k].phase = "sent"]
       \/ /\ signing' = [signing EXCEPT ![k].phase = "shown"]
          /\ UNCHANGED flying
    /\ UNCHANGED <<packets, asked, accounts, done, tracked>>

(* Confirmed; or the confirmation is not learned, and the operator may     *)
(* sign again.                                                             *)
LearnReceipt(k) ==
    /\ signing[k].phase = "sent"
    /\ \/ /\ [packet |-> signing[k].packet, action |-> signing[k].action] \in done
          /\ signing' = [signing EXCEPT ![k] = Nowhere]
       \/ signing' = [signing EXCEPT ![k].phase = "shown"]
    /\ UNCHANGED <<packets, asked, accounts, flying, done, tracked>>

(* The console shows another packet, or is reloaded. *)
Leave(k) ==
    /\ signing[k].phase # "idle"
    /\ signing' = [signing EXCEPT ![k] = Nowhere]
    /\ UNCHANGED <<packets, asked, accounts, flying, done, tracked>>

(* A transaction lands and succeeds or fails, or it expires. *)
Land(tx) ==
    /\ tx \in flying
    /\ flying' = flying \ {tx}
    /\ IF Executes(tx.packet, tx.action)
       THEN /\ accounts' = [accounts EXCEPT ![packets[tx.packet].content.id] =
                               Effect(tx.packet, tx.action, @)]
            /\ done' = done \cup {tx}
       ELSE UNCHANGED <<accounts, done>>
    /\ UNCHANGED <<packets, asked, signing, tracked>>

Expire(tx) ==
    /\ tx \in flying
    /\ flying' = flying \ {tx}
    /\ UNCHANGED <<packets, asked, accounts, signing, done, tracked>>

(* The reconcile route: a preview of the action of a packet that is still  *)
(* approved, and a finalized transaction with exactly its instructions,    *)
(* which for a creation those of another packet of the market are.  The    *)
(* observation is stored before the ingestor is asked to follow the source *)
(* of a new market, which may fail.                                        *)
SameInstructions(p, q, action) ==
    p = q \/ (action = "create-market" /\ packets[p].content = packets[q].content)

Reconcile(p, action) ==
    /\ p \in DOMAIN packets
    /\ packets[p].status = "approved" /\ action \in packets[p].previews
    /\ \E tx \in done : tx.action = action /\ SameInstructions(p, tx.packet, action)
    /\ packets' = [packets EXCEPT ![p].observed = @ \cup {action}]
    /\ tracked' \in IF action = "create-market"
                    THEN {tracked, tracked \cup {packets[p].content.id}} ELSE {tracked}
    /\ UNCHANGED <<asked, accounts, signing, flying, done>>

(* Trading opens and ends, by other handlers of the program. *)
FreezeMarket(m) ==
    /\ accounts[m].state \in {"scheduled", "open"}
    /\ accounts' = [accounts EXCEPT ![m].state = "frozen"]
    /\ UNCHANGED <<packets, asked, signing, flying, done, tracked>>

DeskInit ==
    /\ packets = <<>> /\ asked = {} /\ flying = {} /\ done = {} /\ tracked = {}
    /\ accounts = [m \in Ids |-> Absent]
    /\ signing = [k \in Consoles |-> Nowhere]

DeskNext ==
    \/ \E m \in Ids, payout \in Payouts : AskResolution(m, payout)
    \/ \E request \in asked : PrepareResolution(request) \/ LoseRequest(request)
    \/ \E p \in DOMAIN packets :
         \/ \E decision \in {"approved", "rejected"} : Review(p, decision)
         \/ \E action \in Actions :
              Reconcile(p, action) \/ \E k \in Consoles : Preview(k, p, action)
    \/ \E k \in Consoles : Recheck(k) \/ SignAndSend(k) \/ LearnReceipt(k) \/ Leave(k)
    \/ \E tx \in flying : Land(tx) \/ Expire(tx)
    \/ \E m \in Ids : FreezeMarket(m)

DeskSpec == DeskInit /\ [][DeskNext]_deskVars

(***************************************************************************)
(* A market awaits resolution, or was resolved, by evidence that stands:   *)
(* the packet it committed to is of that market and approved, and no other *)
(* packet that anyone can still approve or execute declares another        *)
(* payout.  Otherwise a market is stuck with a commitment that the console *)
(* will not execute, or its published evidence cannot be read.             *)
(***************************************************************************)
EvidenceStands ==
    \A m \in Ids :
        accounts[m].state \in {"awaiting", "redeemable"} =>
            LET p == IF accounts[m].state = "awaiting"
                     THEN accounts[m].commitment ELSE accounts[m].evidence
            IN  /\ packets[p].status = "approved"
                /\ \E payout \in Payouts :
                     /\ packets[p].content = Resolution(m, payout)
                     /\ \A other \in Payouts \ {payout} : Live(Resolution(m, other)) = {}
=============================================================================
