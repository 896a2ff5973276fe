--------------------------- MODULE ConsoleProofs ----------------------------
(***************************************************************************)
(* Proofs about the operators' console, for any numbers of packets, forms  *)
(* and consoles at work at the same time: the evidence that a market was   *)
(* resolved on stands, rows of a batch are prepared once, and the legs of  *)
(* a market are listed as they were reviewed.                              *)
(***************************************************************************)
EXTENDS Console, FiniteSetTheorems, TLAPS

-----------------------------------------------------------------------------
(* Evidence.                                                               *)

Statuses == {"prepared", "approved", "rejected"}
States == {"none", "scheduled", "open", "frozen", "awaiting", "redeemable"}
Contents == {Creation(m) : m \in Ids} \cup {Resolution(m, payout) : m \in Ids, payout \in Payouts}
PacketSet == [content : Contents, status : Statuses, previews : SUBSET Actions, observed : SUBSET Actions]
AccountSet == [state : States, commitment : Nat, evidence : Nat]
SignatureSet == [phase : {"idle", "shown", "signing", "sent"}, packet : Nat, action : Actions]
TransactionSet == [packet : Nat, action : Actions]

DeskType ==
    /\ packets \in Seq(PacketSet)
    /\ \A request \in asked : request.content \in Contents
    /\ accounts \in [Ids -> AccountSet]
    /\ signing \in [Consoles -> SignatureSet]
    /\ flying \subseteq TransactionSet

(* Packet p of the list s is approved, and calls for actions of this kind. *)
Allowed(s, p, action) ==
    /\ p \in DOMAIN s /\ s[p].status = "approved"
    /\ (action = "create-market") = (s[p].content.kind = "creation")

(* Packet p of the list s is approved and resolves market m. *)
Stands(s, m, p) ==
    /\ p \in DOMAIN s /\ s[p].status = "approved"
    /\ s[p].content.kind = "resolution" /\ s[p].content.id = m

(* The resolutions of a market that were not rejected agree. *)
Agreed(s) ==
    \A p, q \in DOMAIN s :
        /\ s[p].status # "rejected" /\ s[p].content.kind = "resolution"
        /\ s[q].status # "rejected" /\ s[q].content.kind = "resolution"
        /\ s[p].content.id = s[q].content.id
        => s[p].content.payout = s[q].content.payout

EvidenceOf(account) == IF account.state = "awaiting" THEN account.commitment ELSE account.evidence

(* Markets are resolved by packets that stand.                             *)
Settled(s, book) ==
    \A m \in Ids : book[m].state \in {"awaiting", "redeemable"} => Stands(s, m, EvidenceOf(book[m]))

(* What is signed and in flight is of approved packets; approved and       *)
(* pending resolutions of a market agree; and a market that is resolved or *)
(* awaits it is so by one of them.                                         *)
EvidenceInv ==
    /\ DeskType
    /\ Agreed(packets)
    /\ \A k \in Consoles : signing[k].phase # "idle" => Allowed(packets, signing[k].packet, signing[k].action)
    /\ \A tx \in flying : Allowed(packets, tx.packet, tx.action)
    /\ Settled(packets, accounts)

(* What is approved or rejected stays so, and what a packet says stays. *)
Grown(s, t) ==
    \A p \in DOMAIN s :
        /\ p \in DOMAIN t /\ t[p].content = s[p].content
        /\ s[p].status \in {"approved", "rejected"} => t[p].status = s[p].status

LEMMA ContentFields ==
    /\ \A m : Creation(m).kind = "creation" /\ Creation(m).id = m
    /\ \A m, payout : /\ Resolution(m, payout).kind = "resolution" /\ Resolution(m, payout).id = m
                      /\ Resolution(m, payout).payout = payout
BY DEF Creation, Resolution

LEMMA ContentKinds ==
    ASSUME NEW c \in Contents
    PROVE  /\ c.kind \in {"creation", "resolution"} /\ c.id \in Ids
           /\ c.kind = "creation" => c = Creation(c.id)
           /\ c.kind = "resolution" => c.payout \in Payouts /\ c = Resolution(c.id, c.payout)
<1>1. CASE \E m \in Ids : c = Creation(m)
  BY <1>1 DEF Creation
<1>2. CASE \E m \in Ids, payout \in Payouts : c = Resolution(m, payout)
  BY <1>2 DEF Resolution
<1>3. QED
  BY <1>1, <1>2 DEF Contents

LEMMA PacketFields ==
    ASSUME NEW s \in Seq(PacketSet), NEW p \in DOMAIN s
    PROVE  /\ s[p] \in PacketSet /\ s[p].content \in Contents /\ s[p].status \in Statuses
           /\ p \in Nat
<1>1. s[p] \in PacketSet /\ p \in Nat
  OBVIOUS
<1>2. QED
  BY <1>1 DEF PacketSet

(* The console's evidence stands, if the inductive invariant holds. *)
LEMMA EvidenceFollows == EvidenceInv => EvidenceStands
<1> SUFFICES ASSUME EvidenceInv, NEW m \in Ids, accounts[m].state \in {"awaiting", "redeemable"}
             PROVE  LET p == IF accounts[m].state = "awaiting"
                             THEN accounts[m].commitment ELSE accounts[m].evidence
                    IN  /\ packets[p].status = "approved"
                        /\ \E payout \in Payouts :
                             /\ packets[p].content = Resolution(m, payout)
                             /\ \A other \in Payouts \ {payout} : Live(Resolution(m, other)) = {}
  BY DEF EvidenceStands
<1> DEFINE p == EvidenceOf(accounts[m])
<1>1. Stands(packets, m, p)
  BY DEF EvidenceInv, Settled
<1>2. packets \in Seq(PacketSet)
  BY DEF EvidenceInv, DeskType
<1> HIDE DEF p
<1> DEFINE payout == packets[p].content.payout
<1>3. packets[p].content \in Contents
  BY <1>1, <1>2, PacketFields DEF Stands
<1>4. payout \in Payouts /\ packets[p].content = Resolution(m, payout)
  BY <1>1, <1>3, ContentKinds DEF Stands
<1>5. \A other \in Payouts \ {payout} : Live(Resolution(m, other)) = {}
  <2>1. SUFFICES ASSUME NEW other \in Payouts \ {payout}, NEW q \in Live(Resolution(m, other))
                 PROVE  FALSE
    OBVIOUS
  <2>2. /\ q \in DOMAIN packets /\ packets[q].content = Resolution(m, other)
        /\ packets[q].status # "rejected"
    BY DEF Live
  <2>3. /\ packets[q].content.kind = "resolution" /\ packets[q].content.id = m
        /\ packets[q].content.payout = other
    BY <2>2, ContentFields
  <2>4. QED
    BY <1>1, <2>1, <2>2, <2>3 DEF EvidenceInv, Agreed, Stands
<1>6. QED
  BY <1>1, <1>4, <1>5 DEF Stands, EvidenceOf, p

(* Lists that grow keep what was signed and what was settled. *)
LEMMA GrownKeeps ==
    ASSUME NEW s, NEW t, Grown(s, t)
    PROVE  /\ \A p, action : Allowed(s, p, action) => Allowed(t, p, action)
           /\ \A m, p : Stands(s, m, p) => Stands(t, m, p)
BY DEF Grown, Allowed, Stands

LEMMA GrownSame ==
    ASSUME NEW s \in Seq(PacketSet)
    PROVE  Grown(s, s)
BY DEF Grown

(* One packet is changed: its content stays, and so does a review. *)
LEMMA PacketChanged ==
    ASSUME NEW s \in Seq(PacketSet), NEW p \in DOMAIN s, NEW x \in PacketSet, x.content = s[p].content,
           x.status = s[p].status \/ s[p].status = "prepared", Agreed(s)
    PROVE  LET t == [s EXCEPT ![p] = x]
           IN  t \in Seq(PacketSet) /\ Grown(s, t) /\ Agreed(t)
               /\ DOMAIN t = DOMAIN s /\ t[p] = x /\ \A q \in DOMAIN s : q # p => t[q] = s[q]
<1> DEFINE t == [s EXCEPT ![p] = x]
<1>1. t \in Seq(PacketSet) /\ DOMAIN t = DOMAIN s /\ t[p] = x /\ \A q \in DOMAIN s : q # p => t[q] = s[q]
  OBVIOUS
<1> HIDE DEF t
<1>2. Grown(s, t)
  BY <1>1 DEF Grown
<1>3. \A q \in DOMAIN t : /\ t[q].content = s[q].content
                          /\ t[q].status # "rejected" => s[q].status # "rejected"
  <2>1. x.status # "rejected" => s[p].status # "rejected"
    OBVIOUS
  <2>2. QED
    BY <1>1, <2>1
<1>4. Agreed(t)
  BY <1>1, <1>3 DEF Agreed
<1>5. QED
  BY <1>1, <1>2, <1>4 DEF t

(* A packet is added that conflicts with none. *)
LEMMA PacketStored ==
    ASSUME packets \in Seq(PacketSet), Agreed(packets), NEW c \in Contents, StorePacket(c)
    PROVE  packets' \in Seq(PacketSet) /\ Grown(packets, packets') /\ Agreed(packets')
<1>1. CASE packets' = packets
  BY <1>1, GrownSame
<1>2. CASE ~Conflicts(c) /\ packets' = Append(packets, Packet(c))
  <2> DEFINE x == Packet(c)
             n == Len(packets) + 1
  <2>1. x \in PacketSet /\ x.content = c
    BY DEF Packet, PacketSet, Statuses
  <2> HIDE DEF x
  <2>2. /\ packets' \in Seq(PacketSet) /\ packets'[n] = x /\ Len(packets') = n
        /\ DOMAIN packets' = DOMAIN packets \cup {n}
        /\ \A p \in DOMAIN packets : packets'[p] = packets[p] /\ p # n
    BY <1>2, <2>1 DEF x
  <2> HIDE DEF n
  <2>3. Grown(packets, packets')
    BY <2>2 DEF Grown
  <2>4. ASSUME NEW p \in DOMAIN packets, packets[p].status # "rejected",
               packets[p].content.kind = "resolution", c.kind = "resolution", packets[p].content.id = c.id
        PROVE  packets[p].content.payout = c.payout
    <3>1. packets[p].content \in Contents
      BY PacketFields
    <3> DEFINE other == packets[p].content.payout
    <3>2. other \in Payouts /\ packets[p].content = Resolution(c.id, other)
      BY <2>4, <3>1, ContentKinds
    <3>3. p \in Live(Resolution(c.id, other))
      BY <2>4, <3>2 DEF Live
    <3>4. QED
      BY <1>2, <2>4, <3>2, <3>3 DEF Conflicts
  <2>5. Agreed(packets')
    BY <2>1, <2>2, <2>4 DEF Agreed
  <2>6. QED
    BY <2>2, <2>3, <2>5
<1>3. QED
  BY <1>1, <1>2 DEF StorePacket

(* What a step may do to the packets and the requests. *)
PacketsStep ==
    /\ packets' \in Seq(PacketSet) /\ Grown(packets, packets') /\ Agreed(packets')
    /\ \A request \in asked' : request.content \in Contents

(* A step of the packets keeps what was signed and what was settled.       *)
LEMMA PacketsKeep ==
    ASSUME EvidenceInv, PacketsStep, UNCHANGED accounts,
           signing' \in [Consoles -> SignatureSet], flying' \subseteq TransactionSet,
           \A k \in Consoles : \/ signing'[k] = signing[k] \/ signing'[k].phase = "idle"
                              \/ Allowed(packets', signing'[k].packet, signing'[k].action),
           \A tx \in flying' : tx \in flying \/ Allowed(packets', tx.packet, tx.action)
    PROVE  EvidenceInv'
<1>1. /\ \A p, action : Allowed(packets, p, action) => Allowed(packets', p, action)
      /\ \A m, p : Stands(packets, m, p) => Stands(packets', m, p)
  BY GrownKeeps DEF PacketsStep
<1>2. DeskType'
  BY DEF DeskType, EvidenceInv, PacketsStep
<1>3. Settled(packets', accounts')
  BY <1>1 DEF EvidenceInv, Settled
<1>4. \A k \in Consoles : signing'[k].phase # "idle" => Allowed(packets', signing'[k].packet, signing'[k].action)
  BY <1>1 DEF EvidenceInv
<1>5. \A tx \in flying' : Allowed(packets', tx.packet, tx.action)
  BY <1>1 DEF EvidenceInv
<1>6. Agreed(packets')
  BY DEF PacketsStep
<1>7. QED
  BY <1>2, <1>3, <1>4, <1>5, <1>6 DEF EvidenceInv

LEMMA OnlyPackets ==
    ASSUME EvidenceInv, PacketsStep, UNCHANGED <<accounts, signing, flying>>
    PROVE  EvidenceInv'
BY PacketsKeep DEF EvidenceInv, DeskType

LEMMA PacketsStand ==
    ASSUME EvidenceInv, packets' = packets, \A request \in asked' : request.content \in Contents
    PROVE  PacketsStep
BY GrownSame DEF EvidenceInv, DeskType, PacketsStep

LEMMA RequestKept ==
    ASSUME EvidenceInv, NEW request \in asked, asked' = asked \ {request}
    PROVE  request.content \in Contents /\ \A r \in asked' : r.content \in Contents
BY DEF EvidenceInv, DeskType

LEMMA StoreKeeps ==
    ASSUME EvidenceInv, NEW request \in asked, StorePacket(request.content), asked' = asked \ {request},
           UNCHANGED <<accounts, signing, flying>>
    PROVE  EvidenceInv'
<1>1. request.content \in Contents /\ \A r \in asked' : r.content \in Contents
  BY RequestKept
<1>2. PacketsStep
  BY <1>1, PacketStored DEF EvidenceInv, DeskType, PacketsStep
<1>3. QED
  BY <1>2, OnlyPackets

(* One packet is reviewed, previewed or observed. *)
LEMMA OnePacketStep ==
    ASSUME EvidenceInv, NEW p \in DOMAIN packets, NEW x \in PacketSet, x.content = packets[p].content,
           x.status = packets[p].status \/ packets[p].status = "prepared",
           packets' = [packets EXCEPT ![p] = x], asked' = asked
    PROVE  PacketsStep /\ packets'[p] = x /\ DOMAIN packets' = DOMAIN packets
BY PacketChanged DEF EvidenceInv, DeskType, PacketsStep

LEMMA ReviewKeeps ==
    ASSUME EvidenceInv, NEW p \in DOMAIN packets, NEW decision \in {"approved", "rejected"}, Review(p, decision)
    PROVE  EvidenceInv'
<1>1. packets \in Seq(PacketSet) /\ packets[p] \in PacketSet
  BY PacketFields DEF EvidenceInv, DeskType
<1> DEFINE x == [packets[p] EXCEPT !.status = decision]
<1>2. packets' = [packets EXCEPT ![p] = x]
  BY <1>1 DEF Review
<1>3. x \in PacketSet /\ x.content = packets[p].content
  BY <1>1 DEF PacketSet, Statuses
<1> HIDE DEF x
<1>4. PacketsStep
  BY <1>2, <1>3, OnePacketStep DEF Review
<1>5. QED
  BY <1>4, OnlyPackets DEF Review

LEMMA ReconcileKeeps ==
    ASSUME EvidenceInv, NEW p \in DOMAIN packets, NEW action \in Actions, Reconcile(p, action)
    PROVE  EvidenceInv'
<1>1. packets \in Seq(PacketSet) /\ packets[p] \in PacketSet
  BY PacketFields DEF EvidenceInv, DeskType
<1> DEFINE x == [packets[p] EXCEPT !.observed = @ \cup {action}]
<1>2. packets' = [packets EXCEPT ![p] = x]
  BY <1>1 DEF Reconcile
<1>3. x \in PacketSet /\ x.content = packets[p].content /\ x.status = packets[p].status
  BY <1>1 DEF PacketSet
<1> HIDE DEF x
<1>4. PacketsStep
  BY <1>2, <1>3, OnePacketStep DEF Reconcile
<1>5. QED
  BY <1>4, OnlyPackets DEF Reconcile

(* The action that the route answers with is one of the kind of the packet.*)
LEMMA PreviewAllows ==
    ASSUME EvidenceInv, NEW p \in DOMAIN packets, NEW action \in Actions, Previewed(p, action), asked' = asked
    PROVE  PacketsStep /\ Allowed(packets', p, action)
<1>1. packets \in Seq(PacketSet) /\ packets[p] \in PacketSet
  BY PacketFields DEF EvidenceInv, DeskType
<1> DEFINE x == [packets[p] EXCEPT !.previews = @ \cup {action}]
<1>2. packets' = [packets EXCEPT ![p] = x]
  BY <1>1 DEF Previewed
<1>3. x \in PacketSet /\ x.content = packets[p].content /\ x.status = packets[p].status
  BY <1>1 DEF PacketSet
<1> HIDE DEF x
<1>4. PacketsStep /\ packets'[p] = x /\ DOMAIN packets' = DOMAIN packets
  BY <1>2, <1>3, OnePacketStep
<1>5. (action = "create-market") = (packets[p].content.kind = "creation")
  BY DEF Previewed, ActionOf
<1>6. packets[p].status = "approved"
  BY DEF Previewed
<1>7. QED
  BY <1>3, <1>4, <1>5, <1>6 DEF Allowed

LEMMA PreviewKeeps ==
    ASSUME EvidenceInv, NEW k \in Consoles, NEW p \in DOMAIN packets, NEW action \in Actions, Preview(k, p, action)
    PROVE  EvidenceInv'
<1>1. PacketsStep /\ Allowed(packets', p, action)
  BY PreviewAllows DEF Preview
<1>2. p \in Nat
  BY PacketFields DEF EvidenceInv, DeskType
<1> DEFINE x == [phase |-> "shown", packet |-> p, action |-> action]
<1>3. signing' = [signing EXCEPT ![k] = x]
  BY DEF Preview
<1>4. x \in SignatureSet /\ x.packet = p /\ x.action = action
  BY <1>2 DEF SignatureSet
<1> HIDE DEF x
<1>5. signing' \in [Consoles -> SignatureSet]
  BY <1>3, <1>4 DEF EvidenceInv, DeskType
<1>6. \A c \in Consoles : signing'[c] = signing[c] \/ signing'[c] = x
  BY <1>3 DEF EvidenceInv, DeskType
<1>7. UNCHANGED <<accounts, flying>> /\ flying \subseteq TransactionSet
  BY DEF Preview, EvidenceInv, DeskType
<1>8. \A c \in Consoles : signing'[c] = signing[c]
                          \/ Allowed(packets', signing'[c].packet, signing'[c].action)
  BY <1>1, <1>4, <1>6
<1>9. QED
  BY <1>1, <1>5, <1>7, <1>8, PacketsKeep

(* The console's own steps: the packet and the action stay, or go.         *)
LEMMA PhaseKeeps ==
    ASSUME EvidenceInv, PacketsStep, NEW k \in Consoles, NEW phase \in {"idle", "shown", "signing", "sent"},
           signing[k].phase # "idle",
           \/ signing' = [signing EXCEPT ![k].phase = phase]
           \/ signing' = [signing EXCEPT ![k] = Nowhere],
           UNCHANGED accounts, flying' \subseteq TransactionSet,
           \A tx \in flying' : tx \in flying \/ Allowed(packets', tx.packet, tx.action)
    PROVE  EvidenceInv'
<1>1. signing \in [Consoles -> SignatureSet] /\ Allowed(packets, signing[k].packet, signing[k].action)
  BY DEF EvidenceInv, DeskType
<1>2. Allowed(packets', signing[k].packet, signing[k].action)
  BY <1>1, GrownKeeps DEF PacketsStep
<1> DEFINE x == [signing[k] EXCEPT !.phase = phase]
<1>3. signing' = [signing EXCEPT ![k] = x] \/ signing' = [signing EXCEPT ![k] = Nowhere]
  BY <1>1
<1>4. x \in SignatureSet /\ x.packet = signing[k].packet /\ x.action = signing[k].action
  BY <1>1 DEF SignatureSet
<1>5. Nowhere \in SignatureSet /\ Nowhere.phase = "idle"
  BY DEF Nowhere, SignatureSet, Actions, None
<1> HIDE DEF x
<1>6. signing' \in [Consoles -> SignatureSet]
  <2>1. CASE signing' = [signing EXCEPT ![k] = x]
    BY <1>1, <1>4, <2>1
  <2>2. CASE signing' = [signing EXCEPT ![k] = Nowhere]
    BY <1>1, <1>5, <2>2
  <2>3. QED
    BY <1>3, <2>1, <2>2
<1>7. \A c \in Consoles : signing'[c] = signing[c] \/ signing'[c] = x \/ signing'[c] = Nowhere
  BY <1>1, <1>3
<1>8. \A c \in Consoles : \/ signing'[c] = signing[c] \/ signing'[c].phase = "idle"
                          \/ Allowed(packets', signing'[c].packet, signing'[c].action)
  BY <1>2, <1>4, <1>5, <1>7
<1>9. QED
  BY <1>6, <1>8, PacketsKeep

LEMMA ConsoleKeeps ==
    ASSUME EvidenceInv, NEW k \in Consoles, Recheck(k) \/ SignAndSend(k) \/ LearnReceipt(k) \/ Leave(k)
    PROVE  EvidenceInv'
<1>1. /\ signing[k].phase # "idle" /\ UNCHANGED <<accounts, asked>>
      /\ signing[k] \in SignatureSet /\ flying \subseteq TransactionSet
      /\ Allowed(packets, signing[k].packet, signing[k].action)
  BY DEF Recheck, SignAndSend, LearnReceipt, Leave, EvidenceInv, DeskType
<1>2. signing[k].packet \in Nat /\ signing[k].action \in Actions
  BY <1>1 DEF SignatureSet
<1>3. packets' = packets => PacketsStep
  BY <1>1, PacketsStand DEF EvidenceInv, DeskType
<1>4. CASE Recheck(k)
  <2>1. PacketsStep
    BY <1>1, <1>2, <1>4, PreviewAllows DEF Recheck, Allowed
  <2>2. QED
    BY <1>1, <1>4, <2>1, PhaseKeeps DEF Recheck
<1>5. CASE SignAndSend(k)
  <2> DEFINE tx == [packet |-> signing[k].packet, action |-> signing[k].action]
  <2>1. tx \in TransactionSet /\ tx.packet = signing[k].packet /\ tx.action = signing[k].action
    BY <1>2 DEF TransactionSet
  <2>2. packets' = packets /\ (flying' = flying \/ flying' = flying \cup {tx})
    BY <1>5 DEF SignAndSend
  <2> HIDE DEF tx
  <2>3. flying' \subseteq TransactionSet
    BY <1>1, <2>1, <2>2
  <2>4. \A t \in flying' : t \in flying \/ Allowed(packets', t.packet, t.action)
    BY <1>1, <2>1, <2>2
  <2>5. \E phase \in {"idle", "shown", "signing", "sent"} : signing' = [signing EXCEPT ![k].phase = phase]
    BY <1>5 DEF SignAndSend
  <2>6. QED
    BY <1>1, <1>3, <2>2, <2>3, <2>4, <2>5, PhaseKeeps
<1>6. CASE LearnReceipt(k)
  <2>1. packets' = packets /\ flying' = flying
    BY <1>6 DEF LearnReceipt
  <2>2. \/ signing' = [signing EXCEPT ![k] = Nowhere]
        \/ signing' = [signing EXCEPT ![k].phase = "shown"]
    BY <1>6 DEF LearnReceipt
  <2>3. QED
    BY <1>1, <1>3, <2>1, <2>2, PhaseKeeps
<1>7. CASE Leave(k)
  <2>1. packets' = packets /\ flying' = flying /\ signing' = [signing EXCEPT ![k] = Nowhere]
    BY <1>7 DEF Leave
  <2>2. QED
    BY <1>1, <1>3, <2>1, PhaseKeeps
<1>8. QED
  BY <1>4, <1>5, <1>6, <1>7

(* A step of the chain keeps what the packets are, and settles a market    *)
(* only by evidence that stands.                                           *)
LEMMA ChainKeeps ==
    ASSUME EvidenceInv, UNCHANGED <<packets, asked, signing>>, flying' \subseteq flying,
           NEW m \in Ids, NEW x \in AccountSet, accounts' = [accounts EXCEPT ![m] = x],
           x.state \in {"awaiting", "redeemable"} => Stands(packets, m, EvidenceOf(x))
    PROVE  EvidenceInv'
<1>1. /\ accounts \in [Ids -> AccountSet] /\ flying \subseteq TransactionSet
      /\ Settled(packets, accounts)
  BY DEF EvidenceInv, DeskType
<1>2. accounts' \in [Ids -> AccountSet] /\ \A a \in Ids : accounts'[a] = IF a = m THEN x ELSE accounts[a]
  BY <1>1
<1>3. DeskType'
  BY <1>1, <1>2 DEF EvidenceInv, DeskType
<1>4. Settled(packets', accounts')
  BY <1>1, <1>2 DEF Settled
<1>5. QED
  BY <1>3, <1>4 DEF EvidenceInv

LEMMA AccountFields ==
    ASSUME EvidenceInv, NEW m \in Ids
    PROVE  /\ accounts[m] \in AccountSet /\ accounts[m].state \in States
           /\ accounts[m].commitment \in Nat /\ accounts[m].evidence \in Nat
<1>1. accounts[m] \in AccountSet
  BY DEF EvidenceInv, DeskType
<1>2. QED
  BY <1>1 DEF AccountSet

(* The program freezes or opens a market that was not settled.             *)
LEMMA StateKeeps ==
    ASSUME EvidenceInv, UNCHANGED <<packets, asked, signing, flying>>, NEW m \in Ids,
           NEW state \in {"frozen", "open"}, accounts' = [accounts EXCEPT ![m].state = state]
    PROVE  EvidenceInv'
<1> DEFINE x == [accounts[m] EXCEPT !.state = state]
<1>1. accounts[m] \in AccountSet
  BY AccountFields
<1>2. x \in AccountSet /\ x.state = state
  BY <1>1 DEF AccountSet, States
<1>3. accounts' = [accounts EXCEPT ![m] = x]
  OBVIOUS
<1> HIDE DEF x
<1>4. QED
  BY <1>2, <1>3, ChainKeeps

LEMMA LandKeeps ==
    ASSUME EvidenceInv, NEW tx \in flying, Land(tx)
    PROVE  EvidenceInv'
<1> DEFINE p == tx.packet
           action == tx.action
           m == packets[p].content.id
           x == Effect(p, action, accounts[m])
<1>1. Allowed(packets, p, action) /\ p \in Nat /\ action \in Actions
  BY DEF EvidenceInv, DeskType, TransactionSet
<1>2. packets \in Seq(PacketSet)
  BY DEF EvidenceInv, DeskType
<1>3. m \in Ids /\ packets[p].content.kind \in {"creation", "resolution"}
  BY <1>1, <1>2, PacketFields, ContentKinds DEF Allowed
<1>4. accounts[m] \in AccountSet /\ accounts[m].state \in States
      /\ accounts[m].commitment \in Nat /\ accounts[m].evidence \in Nat
  BY <1>3, AccountFields
<1>5. UNCHANGED <<packets, asked, signing>> /\ flying' \subseteq flying
  BY DEF Land
<1>6. CASE Executes(p, action)
  <2>1. accounts' = [accounts EXCEPT ![m] = x]
    BY <1>6 DEF Land
  <2>2. CASE action = "create-market"
    <3>1. x = [accounts[m] EXCEPT !.state = "scheduled"]
      BY <2>2 DEF Effect
    <3>2. x \in AccountSet /\ x.state = "scheduled"
      BY <1>4, <3>1 DEF AccountSet, States
    <3> HIDE DEF x, m, p, action
    <3>3. QED
      BY <1>3, <1>5, <2>1, <3>2, ChainKeeps
  <2>3. CASE action = "begin-resolution"
    <3>1. x = [accounts[m] EXCEPT !.state = "awaiting", !.commitment = p]
      BY <2>3 DEF Effect
    <3>2. x \in AccountSet /\ x.state = "awaiting" /\ x.commitment = p
      BY <1>1, <1>4, <3>1 DEF AccountSet, States
    <3>3. Stands(packets, m, p)
      BY <1>1, <1>3, <2>3 DEF Allowed, Stands
    <3> HIDE DEF x, m, p, action
    <3>4. QED
      BY <1>3, <1>5, <2>1, <3>2, <3>3, ChainKeeps DEF EvidenceOf
  <2>4. CASE action = "resolve-market"
    <3>1. x = [accounts[m] EXCEPT !.state = "redeemable", !.commitment = None, !.evidence = p]
      BY <2>4 DEF Effect
    <3>2. /\ x.state = "redeemable" /\ x.commitment = 0 /\ x.evidence = p
          /\ x = [state |-> x.state, commitment |-> x.commitment, evidence |-> x.evidence]
      BY <1>4, <3>1 DEF AccountSet, None
    <3>5. x \in AccountSet
      <4> HIDE DEF x, m, p, action
      <4>1. QED
        BY <1>1, <3>2 DEF AccountSet, States
    <3>3. Stands(packets, m, p)
      BY <1>1, <1>3, <2>4 DEF Allowed, Stands
    <3> HIDE DEF x, m, p, action
    <3>4. QED
      BY <1>3, <1>5, <2>1, <3>2, <3>3, <3>5, ChainKeeps DEF EvidenceOf
  <2>5. QED
    BY <1>1, <2>2, <2>3, <2>4 DEF Actions
<1>7. CASE ~Executes(p, action)
  <2>1. accounts' = [accounts EXCEPT ![m] = accounts[m]]
    BY <1>2, <1>7 DEF Land, EvidenceInv, DeskType
  <2>2. accounts[m].state \in {"awaiting", "redeemable"} => Stands(packets, m, EvidenceOf(accounts[m]))
    BY <1>3 DEF EvidenceInv, Settled
  <2> HIDE DEF m, p, action
  <2>3. QED
    BY <1>3, <1>4, <1>5, <2>1, <2>2, ChainKeeps
<1>8. QED
  BY <1>6, <1>7

LEMMA DeskKeeps ==
    ASSUME EvidenceInv, DeskNext
    PROVE  EvidenceInv'
<1>1. CASE \E m \in Ids, payout \in Payouts : AskResolution(m, payout)
  <2>1. PICK m \in Ids, payout \in Payouts : AskResolution(m, payout)
    BY <1>1
  <2>2. \A request \in asked' : request.content \in Contents
    BY <2>1 DEF AskResolution, EvidenceInv, DeskType, Contents
  <2>3. QED
    BY <2>1, <2>2, PacketsStand, OnlyPackets DEF AskResolution
<1>2. CASE \E request \in asked : PrepareResolution(request)
  BY <1>2, StoreKeeps DEF PrepareResolution
<1>3. CASE \E request \in asked : LoseRequest(request)
  BY <1>3, RequestKept, PacketsStand, OnlyPackets DEF LoseRequest
<1>4. CASE \E p \in DOMAIN packets, decision \in {"approved", "rejected"} : Review(p, decision)
  BY <1>4, ReviewKeeps
<1>5. CASE \E p \in DOMAIN packets, action \in Actions : Reconcile(p, action)
  BY <1>5, ReconcileKeeps
<1>6. CASE \E p \in DOMAIN packets, action \in Actions, k \in Consoles : Preview(k, p, action)
  BY <1>6, PreviewKeeps
<1>7. CASE \E k \in Consoles : Recheck(k) \/ SignAndSend(k) \/ LearnReceipt(k) \/ Leave(k)
  BY <1>7, ConsoleKeeps
<1>8. CASE \E tx \in flying : Land(tx)
  BY <1>8, LandKeeps
<1>9. CASE \E tx \in flying : Expire(tx)
  BY <1>9 DEF Expire, EvidenceInv, DeskType
<1>10. CASE \E m \in Ids : FreezeMarket(m)
  BY <1>10, StateKeeps DEF FreezeMarket
<1>11. QED
  BY <1>1, <1>2, <1>3, <1>4, <1>5, <1>6, <1>7, <1>8, <1>9, <1>10 DEF DeskNext

LEMMA FormsKeep ==
    ASSUME EvidenceInv, FormNext
    PROVE  EvidenceInv'
<1>1. CASE UNCHANGED deskVars
  BY <1>1 DEF deskVars, EvidenceInv, DeskType
<1>2. CASE \E k \in Consoles, m \in Ids : AskCreation(k, m)
  <2>1. PICK k \in Consoles, m \in Ids : AskCreation(k, m)
    BY <1>2
  <2>2. \A request \in asked' : request.content \in Contents
    BY <2>1 DEF AskCreation, EvidenceInv, DeskType, Contents
  <2>3. QED
    BY <2>1, <2>2, PacketsStand, OnlyPackets DEF AskCreation
<1>3. CASE \E request \in asked, heard \in BOOLEAN : PrepareCreation(request, heard)
  BY <1>3, StoreKeeps DEF PrepareCreation
<1>4. QED
  BY <1>1, <1>2, <1>3
     DEF FormNext, Start, ListAgain, ReadList, TakeList, ListFails, EndRun, GiveUp, ReloadForm

LEMMA SetupKeeps ==
    ASSUME EvidenceInv, SetupNext
    PROVE  EvidenceInv'
<1>1. CASE UNCHANGED deskVars
  BY <1>1 DEF deskVars, EvidenceInv, DeskType
<1>2. CASE \E tx \in pipe, told \in BOOLEAN : LandStep(tx, told)
  <2>1. PICK tx \in pipe, told \in BOOLEAN : LandStep(tx, told)
    BY <1>2
  <2>2. Subject \in Ids
    BY SetupAssumption
  <2>3. UNCHANGED <<packets, asked, signing, flying>>
    BY <2>1 DEF LandStep
  <2>4. accounts' = accounts \/ accounts' = [accounts EXCEPT ![Subject].state = "open"]
    BY <2>1 DEF LandStep
  <2>5. CASE accounts' = accounts
    BY <2>3, <2>5 DEF EvidenceInv, DeskType
  <2>6. QED
    BY <2>2, <2>3, <2>4, <2>5, StateKeeps
<1>3. QED
  BY <1>1, <1>2
     DEF SetupNext, LoadSetup, LoadOpening, LoadIssuer, Load, SendStep, StopSequence, CloseTask, ExpireStep

LEMMA EvidenceStarts == DeskInit => EvidenceInv
<1> SUFFICES ASSUME DeskInit PROVE EvidenceInv
  OBVIOUS
<1>1. Absent \in AccountSet /\ Absent.state = "none"
  BY DEF Absent, AccountSet, States, None
<1>2. Nowhere \in SignatureSet /\ Nowhere.phase = "idle"
  BY DEF Nowhere, SignatureSet, Actions, None
<1>3. packets \in Seq(PacketSet) /\ DOMAIN packets = {}
  BY DEF DeskInit
<1>4. DeskType
  BY <1>1, <1>2, <1>3 DEF DeskInit, DeskType
<1>5. Agreed(packets)
  BY <1>3 DEF Agreed
<1>6. Settled(packets, accounts)
  BY <1>1 DEF DeskInit, Settled
<1>7. QED
  BY <1>2, <1>4, <1>5, <1>6 DEF DeskInit, EvidenceInv

(* A market awaits resolution, or was resolved, by an approved packet of   *)
(* its own that no other live packet contradicts, whatever any number of   *)
(* consoles prepare, review, sign and send at the same time: the service   *)
(* checks for a conflict and stores the packet under one lock, and reviews *)
(* it once (market evidence service).                                      *)
THEOREM EvidenceAlwaysStands == OperatorsSpec => []EvidenceStands
<1>1. OperatorsInit => EvidenceInv
  BY EvidenceStarts DEF OperatorsInit, BatchInit
<1>2. EvidenceInv /\ [OperatorsNext]_operatorVars => EvidenceInv'
  <2> SUFFICES ASSUME EvidenceInv, [OperatorsNext]_operatorVars PROVE EvidenceInv'
    OBVIOUS
  <2>1. CASE DeskNext
    BY <2>1, DeskKeeps
  <2>2. CASE FormNext
    BY <2>2, FormsKeep
  <2>3. CASE SetupNext
    BY <2>3, SetupKeeps
  <2>4. CASE UNCHANGED operatorVars
    BY <2>4 DEF operatorVars, batchVars, deskVars, EvidenceInv, DeskType
  <2>5. QED
    BY <2>1, <2>2, <2>3, <2>4 DEF OperatorsNext, BatchNext
<1>3. QED
  BY <1>1, <1>2, EvidenceFollows, PTL DEF OperatorsSpec

-----------------------------------------------------------------------------
(* The rows of a batch.                                                    *)

Stages == {"blank", "listing", "listed", "preparing", "waiting", "idle"}
Listings == [Ids -> {S \in SUBSET Nat : IsFiniteSet(S)}]
FormSet == [serial : Nat, stage : Stages, submits : BOOLEAN, listing : {{}} \cup Listings,
            results : [Ids -> Phases]]

(* The requests for a creation packet that the API has not come to. *)
Creations == {request \in asked : request.content.kind = "creation"}

(* A form that was started, with a serial number up to n, or a blank one.  *)
Fits(form, n) ==
    /\ form \in FormSet
    /\ form.serial <= n /\ (form.stage = "blank") = (form.serial = 0)
    /\ form.stage \in {"preparing", "waiting"} => form.submits
    /\ form.stage = "listed" => form.listing \in Listings

(* A form remembers that it asked for the row of its requests. *)
Knows(form, requests) ==
    \A request \in requests :
        request.by = form.serial => form.results[request.content.id] # "pending"

(* What a form that asks has found out of a row it did not attempt, when   *)
(* `live' are the packets of each row that were not rejected.              *)
Found(form, m, live) ==
    IF form.stage = "listed" THEN live[m] \subseteq form.listing[m] ELSE live[m] = {}

(* Of a row that a form may still ask for, it has found all there is; and  *)
(* requests are its own.                                                   *)
Awaits(form, requests, live) ==
    Asking(form) =>
        /\ \A request \in requests : request.by = form.serial
        /\ \A m \in Ids : form.results[m] = "pending" => Found(form, m, live)

(* Forms have serial numbers of their own, and remember what they asked    *)
(* for.                                                                    *)
FormsFit ==
    /\ started \in Nat /\ overlap \in BOOLEAN /\ forms \in [Consoles -> FormSet]
    /\ \A k \in Consoles : Fits(forms[k], started) /\ Knows(forms[k], Creations)
    /\ \A k, l \in Consoles :
          forms[k].serial = forms[l].serial /\ forms[k].serial # 0 => k = l
    /\ \A request \in Creations : request.by \in 1 .. started

(* While no two forms overlapped, one form at most is asking.              *)
Alone ==
    /\ \A k \in Consoles : Awaits(forms[k], Creations, Listing)
    /\ \A k, l \in Consoles : Asking(forms[k]) /\ Asking(forms[l]) => k = l

(* Of each row there is at most one request or packet. *)
OnceEach(requests, live) ==
    /\ \A r \in requests : live[r.content.id] = {}
    /\ \A r, s \in requests : r.content.id = s.content.id => r = s
    /\ \A m \in Ids : \A p, q \in live[m] : p = q

(* Until two forms overlap, a row that has a request or a packet is one    *)
(* that no form will ask for again.                                        *)
RowsInv == FormsFit /\ (overlap \/ (Alone /\ OnceEach(Creations, Listing)))

LEMMA AtMostOne ==
    ASSUME NEW S, \A p, q \in S : p = q
    PROVE  Cardinality(S) <= 1
<1>1. CASE S = {}
  BY <1>1, FS_EmptySet
<1>2. CASE \E p \in S : TRUE
  <2>1. PICK p \in S : TRUE
    BY <1>2
  <2>2. S = {p}
    BY <2>1
  <2>3. Cardinality({p}) = 1
    BY FS_Singleton
  <2>4. QED
    BY <2>2, <2>3
<1>3. QED
  BY <1>1, <1>2

LEMMA RowsFollow == RowsInv => RowsOnce
<1> SUFFICES ASSUME RowsInv, ~overlap, NEW m \in Ids PROVE Cardinality(Live(Creation(m))) <= 1
  BY DEF RowsOnce
<1>1. \A p, q \in Live(Creation(m)) : p = q
  BY DEF RowsInv, OnceEach, Listing
<1>2. QED
  BY <1>1, AtMostOne

LEMMA SameEvidence ==
    ASSUME UNCHANGED <<packets, asked>>
    PROVE  Creations' = Creations /\ Listing' = Listing
BY DEF Creations, Listing, Live

(* One form moves, and the packets and the requests stay.                  *)
LEMMA FormMoves ==
    ASSUME RowsInv, Creations' = Creations, Listing' = Listing, NEW k \in Consoles, NEW form,
           forms' = [forms EXCEPT ![k] = form], started' \in Nat, started <= started',
           Fits(form, started'), Knows(form, Creations),
           form.serial = forms[k].serial \/ form.serial = 0 \/ form.serial > started,
           overlap' \in BOOLEAN, overlap => overlap',
           overlap' \/ (/\ Awaits(form, Creations, Listing)
                        /\ Asking(form) => \A l \in Consoles : l = k \/ ~Asking(forms[l]))
    PROVE  RowsInv'
<1>1. /\ forms' \in [Consoles -> FormSet] /\ forms'[k] = form
      /\ \A l \in Consoles : l = k \/ forms'[l] = forms[l]
  BY DEF RowsInv, FormsFit, Fits
<1>2. \A l \in Consoles : /\ forms[l].serial \in Nat /\ forms[l].serial <= started
                          /\ Fits(forms[l], started) /\ Knows(forms[l], Creations)
  BY DEF RowsInv, FormsFit, Fits, FormSet
<1>3. started \in Nat /\ form.serial \in Nat
  BY DEF RowsInv, FormsFit, Fits, FormSet
<1>4. ASSUME NEW l \in Consoles PROVE Fits(forms'[l], started') /\ Knows(forms'[l], Creations')
  <2>1. Fits(forms[l], started')
    BY <1>2, <1>3 DEF Fits
  <2>2. QED
    BY <1>1, <1>2, <2>1
<1>5. \A a, b \in Consoles : forms'[a].serial = forms'[b].serial /\ forms'[a].serial # 0 => a = b
  <2>1. \A l \in Consoles : form.serial = forms[l].serial /\ form.serial # 0 => l = k
    BY <1>2, <1>3 DEF RowsInv, FormsFit
  <2>2. QED
    BY <1>1, <2>1 DEF RowsInv, FormsFit
<1>6. \A request \in Creations' : request.by \in 1 .. started'
  BY <1>3 DEF RowsInv, FormsFit
<1>7. FormsFit'
  BY <1>1, <1>4, <1>5, <1>6 DEF FormsFit
<1>8. CASE ~overlap'
  <2>1. Alone /\ OnceEach(Creations, Listing)
    BY <1>8 DEF RowsInv
  <2>2. OnceEach(Creations', Listing')
    BY <2>1
  <2>3. \A l \in Consoles : Awaits(forms'[l], Creations', Listing')
    BY <1>1, <1>8, <2>1 DEF Alone
  <2>4. \A a, b \in Consoles : Asking(forms'[a]) /\ Asking(forms'[b]) => a = b
    BY <1>1, <1>8, <2>1 DEF Alone
  <2>5. QED
    BY <1>7, <2>2, <2>3, <2>4 DEF RowsInv, Alone
<1>9. QED
  BY <1>7, <1>8 DEF RowsInv

LEMMA RowFields ==
    ASSUME NEW m \in Ids
    PROVE  Listing[m] = Live(Creation(m)) /\ Listing'[m] = Live(Creation(m))'
BY DEF Listing

LEMMA CreationFields ==
    ASSUME EvidenceInv, NEW request \in Creations
    PROVE  /\ request \in asked /\ request.content \in Contents /\ request.content.id \in Ids
           /\ request.content = Creation(request.content.id)
<1>1. request \in asked /\ request.content \in Contents /\ request.content.kind = "creation"
  BY DEF Creations, EvidenceInv, DeskType
<1>2. QED
  BY <1>1, ContentKinds

(* The rows show finitely many packets. *)
LEMMA ListingFinite == packets \in Seq(PacketSet) => Listing \in Listings
<1> SUFFICES ASSUME packets \in Seq(PacketSet), NEW m \in Ids
             PROVE  Live(Creation(m)) \subseteq Nat /\ IsFiniteSet(Live(Creation(m)))
  BY DEF Listing, Listings
<1>1. DOMAIN packets = 1 .. Len(packets) /\ Len(packets) \in Nat
  OBVIOUS
<1>2. IsFiniteSet(1 .. Len(packets))
  BY <1>1, FS_Interval
<1>3. Live(Creation(m)) \subseteq 1 .. Len(packets)
  BY <1>1 DEF Live
<1>4. QED
  BY <1>1, <1>2, <1>3, FS_Subset

(* Nothing is asked or stored: the rows keep what they show, or less.      *)
LEMMA RowsShrink ==
    ASSUME EvidenceInv, RowsInv, UNCHANGED formVars, Creations' \subseteq Creations,
           \A m \in Ids : Listing'[m] \subseteq Listing[m]
    PROVE  RowsInv'
<1>1. FormsFit'
  BY DEF RowsInv, FormsFit, formVars, Knows
<1>2. CASE ~overlap
  <2>1. Alone /\ OnceEach(Creations, Listing)
    BY <1>2 DEF RowsInv
  <2>2. OnceEach(Creations', Listing')
    <3>1. \A request \in Creations : request.content.id \in Ids
      BY CreationFields
    <3>2. QED
      BY <2>1, <3>1 DEF OnceEach
  <2>3. ASSUME NEW form, Awaits(form, Creations, Listing) PROVE Awaits(form, Creations', Listing')
    <3>1. \A m \in Ids : Found(form, m, Listing) => Found(form, m, Listing')
      BY DEF Found
    <3>2. QED
      BY <2>3, <3>1 DEF Awaits
  <2>4. Alone'
    BY <2>1, <2>3 DEF Alone, formVars
  <2>5. QED
    BY <1>1, <2>2, <2>4 DEF RowsInv
<1>3. QED
  BY <1>1, <1>2 DEF RowsInv, formVars

(* A review, a preview or an observation leaves the rows, or empties them. *)
LEMMA PacketsHeld ==
    ASSUME NEW p \in DOMAIN packets, packets' = [packets EXCEPT ![p] = packets'[p]],
           packets'[p].content = packets[p].content,
           packets[p].status = "rejected" => packets'[p].status = "rejected"
    PROVE  \A m \in Ids : Listing'[m] \subseteq Listing[m]
<1>1. DOMAIN packets' = DOMAIN packets
      /\ \A q \in DOMAIN packets : q # p => packets'[q] = packets[q]
  OBVIOUS
<1>2. \A q \in DOMAIN packets : /\ packets'[q].content = packets[q].content
                               /\ packets[q].status = "rejected" => packets'[q].status = "rejected"
  BY <1>1
<1>3. \A c : Live(c)' \subseteq Live(c)
  BY <1>1, <1>2 DEF Live
<1>4. QED
  BY <1>3, RowFields

LEMMA PacketHeld ==
    ASSUME EvidenceInv, NEW p \in DOMAIN packets, NEW x, packets' = [packets EXCEPT ![p] = x],
           x.content = packets[p].content, packets[p].status = "rejected" => x.status = "rejected"
    PROVE  \A m \in Ids : Listing'[m] \subseteq Listing[m]
BY PacketsHeld

LEMMA HoldKeeps ==
    ASSUME EvidenceInv, RowsInv, UNCHANGED formVars, asked' = asked,
           NEW p \in DOMAIN packets, NEW x, packets' = [packets EXCEPT ![p] = x],
           x.content = packets[p].content, packets[p].status = "rejected" => x.status = "rejected"
    PROVE  RowsInv'
<1>1. Creations' = Creations
  BY DEF Creations
<1>2. QED
  BY <1>1, PacketHeld, RowsShrink

LEMMA Appended ==
    ASSUME packets \in Seq(PacketSet), NEW c \in Contents, packets' = Append(packets, Packet(c)),
           NEW m \in Ids
    PROVE  Listing'[m] = IF c = Creation(m) THEN Listing[m] \cup {Len(packets) + 1} ELSE Listing[m]
<1> DEFINE x == Packet(c)
           n == Len(packets) + 1
<1>1. x \in PacketSet /\ x.content = c /\ x.status # "rejected"
  BY DEF Packet, PacketSet, Statuses
<1> HIDE DEF x
<1>2. /\ packets'[n] = x /\ DOMAIN packets' = DOMAIN packets \cup {n}
      /\ \A q \in DOMAIN packets : packets'[q] = packets[q] /\ q # n
  BY <1>1 DEF x
<1> HIDE DEF n
<1>3. Live(Creation(m))' = IF c = Creation(m) THEN Live(Creation(m)) \cup {n} ELSE Live(Creation(m))
  BY <1>1, <1>2 DEF Live
<1>4. QED
  BY <1>3, RowFields DEF n

(* A packet of a resolution is stored, or refused. *)
LEMMA ResolutionStored ==
    ASSUME EvidenceInv, RowsInv, UNCHANGED formVars, NEW request \in asked,
           request.content.kind = "resolution", StorePacket(request.content), asked' = asked \ {request}
    PROVE  RowsInv'
<1>1. request.content \in Contents /\ packets \in Seq(PacketSet)
  BY DEF EvidenceInv, DeskType
<1>2. Creations' \subseteq Creations
  BY DEF Creations
<1>3. \A m \in Ids : request.content # Creation(m)
  BY ContentFields
<1>4. \A m \in Ids : Listing'[m] \subseteq Listing[m]
  <2>1. CASE packets' = packets
    BY <2>1 DEF Listing, Live
  <2>2. CASE packets' = Append(packets, Packet(request.content))
    BY <1>1, <1>3, <2>2, Appended
  <2>3. QED
    BY <2>1, <2>2 DEF StorePacket
<1>5. QED
  BY <1>2, <1>4, RowsShrink

LEMMA DeskKeepsRows ==
    ASSUME EvidenceInv, RowsInv, DeskNext, UNCHANGED formVars
    PROVE  RowsInv'
<1>1. CASE UNCHANGED packets /\ Creations' \subseteq Creations
  <2>1. Listing' = Listing
    BY <1>1 DEF Listing, Live
  <2>2. QED
    BY <1>1, <2>1, RowsShrink
<1>2. packets \in Seq(PacketSet)
  BY DEF EvidenceInv, DeskType
<1>3. CASE \E m \in Ids, payout \in Payouts : AskResolution(m, payout)
  <2>1. Creations' \subseteq Creations /\ UNCHANGED packets
    BY <1>3, ContentFields DEF AskResolution, Creations
  <2>2. QED
    BY <1>1, <2>1
<1>4. CASE \E request \in asked : PrepareResolution(request)
  BY <1>4, ResolutionStored DEF PrepareResolution
<1>5. CASE \E request \in asked : LoseRequest(request)
  BY <1>1, <1>5 DEF LoseRequest, Creations
<1>6. CASE \E p \in DOMAIN packets, decision \in {"approved", "rejected"} : Review(p, decision)
  <2>1. PICK p \in DOMAIN packets, decision \in {"approved", "rejected"} : Review(p, decision)
    BY <1>6
  <2>2. packets[p] \in PacketSet
    BY <1>2, PacketFields
  <2> DEFINE x == [packets[p] EXCEPT !.status = decision]
  <2>3. packets' = [packets EXCEPT ![p] = x] /\ packets[p].status = "prepared" /\ asked' = asked
    BY <2>1 DEF Review
  <2>4. x.content = packets[p].content
    BY <2>2 DEF PacketSet
  <2> HIDE DEF x
  <2>5. QED
    BY <2>3, <2>4, HoldKeeps
<1>7. CASE \E p \in DOMAIN packets, action \in Actions : Reconcile(p, action)
  <2>1. PICK p \in DOMAIN packets, action \in Actions : Reconcile(p, action)
    BY <1>7
  <2>2. packets[p] \in PacketSet
    BY <1>2, PacketFields
  <2> DEFINE x == [packets[p] EXCEPT !.observed = @ \cup {action}]
  <2>3. packets' = [packets EXCEPT ![p] = x] /\ asked' = asked
    BY <2>1 DEF Reconcile
  <2>4. x.content = packets[p].content /\ x.status = packets[p].status
    BY <2>2 DEF PacketSet
  <2> HIDE DEF x
  <2>5. QED
    BY <2>3, <2>4, HoldKeeps
<1>8. ASSUME NEW p \in DOMAIN packets, NEW action \in Actions, Previewed(p, action), asked' = asked
      PROVE  RowsInv'
  <2>1. packets[p] \in PacketSet
    BY <1>2, PacketFields
  <2> DEFINE x == [packets[p] EXCEPT !.previews = @ \cup {action}]
  <2>2. packets' = [packets EXCEPT ![p] = x]
    BY <1>8 DEF Previewed
  <2>3. x.content = packets[p].content /\ x.status = packets[p].status
    BY <2>1 DEF PacketSet
  <2> HIDE DEF x
  <2>4. QED
    BY <1>8, <2>2, <2>3, HoldKeeps
<1>9. CASE \E p \in DOMAIN packets, action \in Actions, k \in Consoles : Preview(k, p, action)
  BY <1>8, <1>9 DEF Preview
<1>10. CASE \E k \in Consoles : Recheck(k)
  <2>1. PICK k \in Consoles : Recheck(k)
    BY <1>10
  <2>2. Allowed(packets, signing[k].packet, signing[k].action) /\ signing[k].action \in Actions
    BY <2>1 DEF Recheck, EvidenceInv, DeskType, SignatureSet
  <2>3. QED
    BY <1>8, <2>1, <2>2 DEF Recheck, Allowed
<1>11. CASE UNCHANGED <<packets, asked>>
  BY <1>1, <1>11 DEF Creations
<1>12. QED
  BY <1>3, <1>4, <1>5, <1>6, <1>7, <1>9, <1>10, <1>11
     DEF DeskNext, SignAndSend, LearnReceipt, Leave, Land, Expire, FreezeMarket

LEMMA FormFields ==
    ASSUME RowsInv, NEW k \in Consoles
    PROVE  /\ forms[k] \in FormSet /\ forms[k].serial \in Nat /\ forms[k].stage \in Stages
           /\ forms[k].submits \in BOOLEAN /\ forms[k].results \in [Ids -> Phases]
           /\ forms[k].listing \in {{}} \cup Listings
           /\ forms[k].serial <= started /\ started \in Nat /\ overlap \in BOOLEAN
           /\ Fits(forms[k], started) /\ Knows(forms[k], Creations)
           /\ forms \in [Consoles -> FormSet]
<1>1. forms[k] \in FormSet /\ forms[k].serial <= started
  BY DEF RowsInv, FormsFit, Fits
<1>2. QED
  BY <1>1 DEF FormSet, RowsInv, FormsFit

LEMMA BlankFields ==
    Blank \in FormSet /\ Blank.serial = 0 /\ Blank.stage = "blank" /\ \A m \in Ids : Blank.results[m] = "pending"
BY DEF Blank, FormSet, Stages, Phases

(* A form that does not ask afterwards. *)
LEMMA FormRests ==
    ASSUME EvidenceInv, RowsInv, UNCHANGED <<deskVars, started, overlap>>, NEW k \in Consoles, NEW form \in FormSet,
           forms' = [forms EXCEPT ![k] = form], form.serial = forms[k].serial,
           form.stage \in {"listing", "idle"}, forms[k].stage # "blank",
           \A m \in Ids : form.results[m] = "pending" => forms[k].results[m] = "pending"
    PROVE  RowsInv'
<1>1. /\ forms[k].serial \in Nat /\ forms[k].serial <= started /\ started \in Nat
      /\ overlap \in BOOLEAN /\ Fits(forms[k], started) /\ Knows(forms[k], Creations)
  BY FormFields
<1>2. Fits(form, started') /\ ~Asking(form)
  BY <1>1 DEF Fits, Asking
<1>3. Knows(form, Creations)
  <2>1. SUFFICES ASSUME NEW request \in Creations, request.by = form.serial,
                        form.results[request.content.id] = "pending", request.content.id \in Ids
                 PROVE  FALSE
    BY CreationFields DEF Knows
  <2>2. QED
    BY <1>1, <2>1 DEF Knows
<1>4. Creations' = Creations /\ Listing' = Listing
  BY SameEvidence DEF deskVars
<1>5. Awaits(form, Creations, Listing)
  BY <1>2 DEF Awaits
<1>6. started' \in Nat /\ started <= started' /\ overlap' \in BOOLEAN /\ (overlap => overlap')
  BY <1>1
<1>7. QED
  BY <1>2, <1>3, <1>4, <1>5, <1>6, FormMoves

LEMMA Started ==
    ASSUME NEW form \in FormSet, NEW n \in Nat
    PROVE  LET new == [form EXCEPT !.serial = n, !.stage = "listing", !.submits = TRUE]
           IN  new \in FormSet /\ new.serial = n /\ new.stage = "listing"
BY DEF FormSet, Stages

LEMMA StartKeeps ==
    ASSUME EvidenceInv, RowsInv, NEW k \in Consoles, Start(k)
    PROVE  RowsInv'
<1>1. forms[k].stage = "blank" /\ started \in Nat /\ overlap \in BOOLEAN
  BY FormFields DEF Start
<1> DEFINE form == [Blank EXCEPT !.serial = started + 1, !.stage = "listing", !.submits = TRUE]
<1>2. /\ forms' = [forms EXCEPT ![k] = form]
      /\ started' = started + 1 /\ overlap' = overlap /\ UNCHANGED <<packets, asked>>
  BY DEF Start, deskVars
<1>3. /\ form \in FormSet /\ form.serial = started + 1 /\ form.stage = "listing"
  <2>1. Blank \in FormSet /\ started + 1 \in Nat
    BY <1>1, BlankFields
  <2>2. QED
    BY <2>1, Started
<1> HIDE DEF form
<1>4. Fits(form, started') /\ ~Asking(form)
  BY <1>1, <1>2, <1>3 DEF Fits, Asking
<1>5. Knows(form, Creations)
  BY <1>1, <1>3 DEF Knows, RowsInv, FormsFit
<1>6. Awaits(form, Creations, Listing)
  BY <1>4 DEF Awaits
<1>7. Creations' = Creations /\ Listing' = Listing
  BY <1>2, SameEvidence
<1>8. started' \in Nat /\ started <= started' /\ form.serial > started
  BY <1>1, <1>2, <1>3
<1>9. QED
  BY <1>1, <1>2, <1>4, <1>5, <1>6, <1>7, <1>8, FormMoves

LEMMA ReloadKeeps ==
    ASSUME EvidenceInv, RowsInv, NEW k \in Consoles, ReloadForm(k)
    PROVE  RowsInv'
<1>1. started \in Nat /\ overlap \in BOOLEAN
  BY FormFields
<1>2. /\ forms' = [forms EXCEPT ![k] = Blank] /\ started' = started /\ overlap' = overlap
      /\ UNCHANGED <<packets, asked>>
  BY DEF ReloadForm, deskVars
<1>3. Fits(Blank, started') /\ ~Asking(Blank)
  BY <1>1, <1>2, BlankFields DEF Fits, Asking
<1>4. Knows(Blank, Creations)
  BY <1>1, BlankFields DEF Knows, RowsInv, FormsFit
<1>5. Awaits(Blank, Creations, Listing)
  BY <1>3 DEF Awaits
<1>6. Creations' = Creations /\ Listing' = Listing
  BY <1>2, SameEvidence
<1>7. started' \in Nat /\ started <= started'
  BY <1>1, <1>2
<1>8. QED
  BY <1>1, <1>2, <1>3, <1>4, <1>5, <1>6, <1>7, BlankFields, FormMoves

LEMMA RestsKeep ==
    ASSUME EvidenceInv, RowsInv, NEW k \in Consoles,
           ListAgain(k) \/ ListFails(k) \/ EndRun(k) \/ GiveUp(k)
    PROVE  RowsInv'
<1>1. /\ forms[k] \in FormSet /\ forms[k].results \in [Ids -> Phases]
      /\ forms \in [Consoles -> FormSet]
  BY FormFields
<1>2. UNCHANGED <<deskVars, started, overlap>> /\ forms[k].stage # "blank"
  BY DEF ListAgain, ListFails, EndRun, GiveUp
<1>3. CASE ListAgain(k)
  <2>1. PICK submits \in BOOLEAN :
             forms' = [forms EXCEPT ![k].stage = "listing", ![k].submits = submits]
    BY <1>3 DEF ListAgain
  <2> DEFINE form == [forms[k] EXCEPT !.stage = "listing", !.submits = submits]
  <2>2. forms' = [forms EXCEPT ![k] = form]
    BY <1>1, <2>1
  <2>3. /\ form \in FormSet /\ form.serial = forms[k].serial /\ form.stage = "listing"
        /\ form.results = forms[k].results
    BY <1>1 DEF FormSet, Stages
  <2> HIDE DEF form
  <2>4. QED
    BY <1>2, <2>2, <2>3, FormRests
<1>4. CASE ListFails(k)
  <2> DEFINE form == [forms[k] EXCEPT !.stage = "idle", !.listing = {}]
  <2>1. forms' = [forms EXCEPT ![k] = form]
    BY <1>1, <1>4 DEF ListFails
  <2>2. /\ form \in FormSet /\ form.serial = forms[k].serial /\ form.stage = "idle"
        /\ form.results = forms[k].results
    BY <1>1 DEF FormSet, Stages
  <2> HIDE DEF form
  <2>3. QED
    BY <1>2, <2>1, <2>2, FormRests
<1>5. CASE EndRun(k)
  <2> DEFINE form == [forms[k] EXCEPT !.stage = "idle"]
  <2>1. forms' = [forms EXCEPT ![k] = form]
    BY <1>1, <1>5 DEF EndRun
  <2>2. /\ form \in FormSet /\ form.serial = forms[k].serial /\ form.stage = "idle"
        /\ form.results = forms[k].results
    BY <1>1 DEF FormSet, Stages
  <2> HIDE DEF form
  <2>3. QED
    BY <1>2, <2>1, <2>2, FormRests
<1>6. CASE GiveUp(k)
  <2> DEFINE results == [m \in Ids |-> IF forms[k].results[m] = "preparing" THEN "uncertain"
                                       ELSE forms[k].results[m]]
             form == [forms[k] EXCEPT !.stage = "idle", !.results = results]
  <2>1. forms' = [forms EXCEPT ![k] = form]
    BY <1>1, <1>6 DEF GiveUp
  <2>2. results \in [Ids -> Phases] /\ \A m \in Ids : results[m] = "pending" => forms[k].results[m] = "pending"
    BY <1>1 DEF Phases
  <2> HIDE DEF results
  <2>3. /\ form \in FormSet /\ form.serial = forms[k].serial /\ form.stage = "idle"
        /\ form.results = results
    BY <1>1, <2>2 DEF FormSet, Stages
  <2> HIDE DEF form
  <2>4. QED
    BY <1>2, <2>1, <2>2, <2>3, FormRests
<1>7. QED
  BY <1>3, <1>4, <1>5, <1>6

(* A listing is read: a form that means to ask is alone, or it is noted.   *)
LEMMA ReadKeeps ==
    ASSUME EvidenceInv, RowsInv, NEW k \in Consoles, ReadList(k)
    PROVE  RowsInv'
<1>1. /\ forms[k] \in FormSet /\ forms[k].serial \in Nat /\ forms[k].serial <= started
      /\ forms[k].submits \in BOOLEAN /\ started \in Nat /\ overlap \in BOOLEAN
      /\ Fits(forms[k], started) /\ Knows(forms[k], Creations)
      /\ forms \in [Consoles -> FormSet]
  BY FormFields
<1>2. /\ forms[k].stage = "listing" /\ started' = started /\ UNCHANGED <<packets, asked>>
  BY DEF ReadList, deskVars
<1> DEFINE form == [forms[k] EXCEPT !.stage = "listed", !.listing = Listing]
<1>3. forms' = [forms EXCEPT ![k] = form]
  BY <1>1 DEF ReadList
<1>4. Listing \in Listings
  BY ListingFinite DEF EvidenceInv, DeskType
<1>5. /\ form \in FormSet /\ form.serial = forms[k].serial /\ form.stage = "listed"
      /\ form.results = forms[k].results /\ form.listing = Listing /\ form.submits = forms[k].submits
  <2>1. Listing \in {{}} \cup Listings
    BY <1>4
  <2> HIDE DEF Listing
  <2>2. QED
    BY <1>1, <2>1 DEF FormSet, Stages
<1> HIDE DEF form
<1>6. Fits(form, started')
  BY <1>1, <1>2, <1>4, <1>5 DEF Fits
<1>7. Knows(form, Creations)
  BY <1>1, <1>5 DEF Knows
<1> DEFINE other == \E l \in Consoles \ {k} : Asking(forms[l])
           foreign == \E request \in Creations : request.by # forms[k].serial
<1>8. overlap' = (overlap \/ (forms[k].submits /\ (other \/ foreign)))
  BY DEF ReadList, Creations
<1>9. overlap' \in BOOLEAN /\ (overlap => overlap')
  BY <1>1, <1>8
<1>10. ASSUME ~overlap', Asking(form)
       PROVE  Awaits(form, Creations, Listing) /\ \A l \in Consoles : l = k \/ ~Asking(forms[l])
  <2>1. ~other /\ ~foreign
    BY <1>5, <1>8, <1>10 DEF Asking
  <2>2. \A m \in Ids : Found(form, m, Listing)
    BY <1>5 DEF Found
  <2>3. QED
    BY <1>5, <2>1, <2>2 DEF Awaits
<1>11. Creations' = Creations /\ Listing' = Listing
  BY <1>2, SameEvidence
<1>12. started' \in Nat /\ started <= started'
  BY <1>1, <1>2
<1>13. overlap' \/ (/\ Awaits(form, Creations, Listing)
                    /\ Asking(form) => \A l \in Consoles : l = k \/ ~Asking(forms[l]))
  BY <1>10 DEF Awaits
<1>14. QED
  BY <1>3, <1>5, <1>6, <1>7, <1>9, <1>11, <1>12, <1>13, FormMoves

(* A form takes the listing it asked for: a row without packets stays      *)
(* pending, and none has appeared since.                                   *)
LEMMA TakeKeeps ==
    ASSUME EvidenceInv, RowsInv, NEW k \in Consoles, TakeList(k)
    PROVE  RowsInv'
<1>1. /\ forms[k] \in FormSet /\ forms[k].serial \in Nat /\ forms[k].serial <= started
      /\ forms[k].submits \in BOOLEAN /\ started \in Nat /\ overlap \in BOOLEAN
      /\ Fits(forms[k], started) /\ Knows(forms[k], Creations)
      /\ forms[k].results \in [Ids -> Phases] /\ forms \in [Consoles -> FormSet]
  BY FormFields
<1>2. forms[k].stage = "listed" /\ UNCHANGED <<packets, asked, started, overlap>>
  BY DEF TakeList, deskVars
<1>3. forms[k].listing \in Listings
  BY <1>1, <1>2 DEF Fits
<1> DEFINE stage == IF forms[k].submits THEN "preparing" ELSE "idle"
           results == Recovered(forms[k].results, forms[k].listing)
           form == [forms[k] EXCEPT !.stage = stage, !.results = results, !.listing = {}]
<1>4. forms' = [forms EXCEPT ![k] = form]
  BY <1>1 DEF TakeList
<1>5. results \in [Ids -> Phases]
  BY <1>1 DEF Recovered, Phases
<1>6. ASSUME NEW m \in Ids, results[m] = "pending"
      PROVE  forms[k].results[m] = "pending" /\ forms[k].listing[m] = {}
  <2> DEFINE S == forms[k].listing[m]
  <2>1. IsFiniteSet(S)
    BY <1>3 DEF Listings
  <2>2. /\ forms[k].results[m] # "prepared"
        /\ "pending" = CASE Cardinality(S) > 1 -> "uncertain" [] Cardinality(S) = 1 -> "prepared"
                         [] OTHER -> forms[k].results[m]
    BY <1>6 DEF Recovered
  <2> HIDE DEF S
  <2>3. ~(Cardinality(S) > 1) /\ Cardinality(S) # 1 /\ forms[k].results[m] = "pending"
    BY <2>2
  <2>4. Cardinality(S) = 0
    BY <2>1, <2>3, FS_CardinalityType
  <2>5. S = {}
    BY <2>1, <2>4, FS_EmptySet
  <2>6. QED
    BY <2>3, <2>5 DEF S
<1> HIDE DEF results
<1>7. stage \in {"preparing", "idle"} /\ (stage = "preparing" => forms[k].submits)
  OBVIOUS
<1> HIDE DEF stage
<1>8. /\ form \in FormSet /\ form.serial = forms[k].serial /\ form.stage = stage
      /\ form.results = results /\ form.submits = forms[k].submits
  BY <1>1, <1>5, <1>7 DEF FormSet, Stages
<1> HIDE DEF form
<1>9. Fits(form, started')
  BY <1>1, <1>2, <1>7, <1>8 DEF Fits
<1>10. Knows(form, Creations)
  <2>1. SUFFICES ASSUME NEW request \in Creations, request.by = form.serial,
                        results[request.content.id] = "pending", request.content.id \in Ids
                 PROVE  FALSE
    BY <1>8, CreationFields DEF Knows
  <2>2. QED
    BY <1>1, <1>6, <1>8, <2>1 DEF Knows
<1>11. ASSUME ~overlap, Asking(form)
       PROVE  Awaits(form, Creations, Listing) /\ \A l \in Consoles : l = k \/ ~Asking(forms[l])
  <2>1. Asking(forms[k]) /\ form.stage = "preparing"
    BY <1>2, <1>7, <1>8, <1>11 DEF Asking
  <2>2. /\ Awaits(forms[k], Creations, Listing)
        /\ \A l \in Consoles : l = k \/ ~Asking(forms[l])
    BY <1>11, <2>1 DEF RowsInv, Alone
  <2>3. ASSUME NEW m \in Ids, form.results[m] = "pending" PROVE Found(form, m, Listing)
    <3>1. Found(forms[k], m, Listing) /\ forms[k].listing[m] = {}
      BY <1>6, <1>8, <2>1, <2>2, <2>3 DEF Awaits
    <3>2. Listing[m] = {}
      BY <1>2, <3>1 DEF Found
    <3>3. QED
      BY <2>1, <3>2 DEF Found
  <2>4. \A request \in Creations : request.by = form.serial
    BY <1>8, <2>1, <2>2 DEF Awaits
  <2>5. QED
    BY <2>2, <2>3, <2>4 DEF Awaits
<1>12. Creations' = Creations /\ Listing' = Listing
  BY <1>2, SameEvidence
<1>13. started' \in Nat /\ started <= started' /\ overlap' \in BOOLEAN /\ (overlap => overlap')
  BY <1>1, <1>2
<1>14. overlap' \/ (/\ Awaits(form, Creations, Listing)
                    /\ Asking(form) => \A l \in Consoles : l = k \/ ~Asking(forms[l]))
  BY <1>2, <1>11 DEF Awaits
<1>15. QED
  BY <1>4, <1>8, <1>9, <1>10, <1>12, <1>13, <1>14, FormMoves

(* The one form that asks: the others neither ask nor wait for the rows.   *)
LEMMA Others ==
    ASSUME RowsInv, ~overlap, NEW k \in Consoles, Asking(forms[k]), NEW l \in Consoles, l # k
    PROVE  ~Asking(forms[l])
BY DEF RowsInv, Alone

(* A pending row is asked for: it has no packet and no request.            *)
LEMMA AskKeeps ==
    ASSUME EvidenceInv, RowsInv, NEW k \in Consoles, NEW m \in Ids, AskCreation(k, m)
    PROVE  RowsInv'
<1>1. /\ forms[k] \in FormSet /\ forms[k].serial \in Nat /\ forms[k].serial <= started
      /\ forms[k].submits \in BOOLEAN /\ started \in Nat /\ overlap \in BOOLEAN
      /\ Fits(forms[k], started) /\ Knows(forms[k], Creations)
      /\ forms[k].results \in [Ids -> Phases] /\ forms \in [Consoles -> FormSet]
  BY FormFields
<1> DEFINE request == [content |-> Creation(m), by |-> forms[k].serial]
           results == [forms[k].results EXCEPT ![m] = "preparing"]
           form == [forms[k] EXCEPT !.stage = "waiting", !.results = results]
<1>2. /\ forms[k].stage = "preparing" /\ forms[k].results[m] = "pending"
      /\ UNCHANGED <<packets, started, overlap>> /\ asked' = asked \cup {request}
  BY DEF AskCreation
<1>3. forms' = [forms EXCEPT ![k] = form]
  BY <1>1 DEF AskCreation
<1>4. request.content = Creation(m) /\ request.by = forms[k].serial
      /\ request.content.kind = "creation" /\ request.content.id = m
  BY ContentFields
<1> HIDE DEF request
<1>5. Creations' = Creations \cup {request} /\ Listing' = Listing
  BY <1>2, <1>4 DEF Creations, Listing, Live
<1>6. results \in [Ids -> Phases] /\ results[m] = "preparing"
      /\ \A r \in Ids : results[r] = "pending" => forms[k].results[r] = "pending"
  BY <1>1 DEF Phases
<1> HIDE DEF results
<1>7. /\ form \in FormSet /\ form.serial = forms[k].serial /\ form.stage = "waiting"
      /\ form.results = results /\ form.submits = forms[k].submits
  BY <1>1, <1>6 DEF FormSet, Stages
<1> HIDE DEF form
<1>8. forms[k].serial \in 1 .. started /\ forms[k].submits
  BY <1>1, <1>2 DEF Fits
<1>9. /\ forms' \in [Consoles -> FormSet] /\ forms'[k] = form
      /\ \A l \in Consoles : l = k \/ forms'[l] = forms[l]
  BY <1>1, <1>3, <1>7
<1>10. Fits(form, started) /\ \A l \in Consoles : Fits(forms[l], started)
  BY <1>1, <1>7, <1>8 DEF Fits, RowsInv, FormsFit
<1>11. \A r \in Creations : r.content.id \in Ids
  BY CreationFields
<1>12. ASSUME NEW l \in Consoles PROVE Knows(forms'[l], Creations')
  <2>1. CASE l = k
    <3>1. ASSUME NEW r \in Creations', r.by = form.serial PROVE results[r.content.id] # "pending"
      <4>1. CASE r = request
        BY <1>4, <1>6, <4>1
      <4>2. CASE r \in Creations
        BY <1>1, <1>6, <1>7, <1>11, <3>1, <4>2 DEF Knows
      <4>3. QED
        BY <1>5, <4>1, <4>2
    <3>2. QED
      BY <1>7, <1>9, <2>1, <3>1 DEF Knows
  <2>2. CASE l # k
    <3>1. forms[l].serial # forms[k].serial
      BY <1>8, <2>2 DEF RowsInv, FormsFit
    <3>2. Knows(forms[l], Creations)
      BY DEF RowsInv, FormsFit
    <3>3. QED
      BY <1>4, <1>5, <1>9, <2>2, <3>1, <3>2 DEF Knows
  <2>3. QED
    BY <2>1, <2>2
<1>13. \A r \in Creations' : r.by \in 1 .. started
  BY <1>4, <1>5, <1>8 DEF RowsInv, FormsFit
<1>14. \A a, b \in Consoles : forms'[a].serial = forms'[b].serial /\ forms'[a].serial # 0 => a = b
  <2>1. \A l \in Consoles : forms'[l].serial = forms[l].serial
    BY <1>7, <1>9
  <2>2. QED
    BY <2>1 DEF RowsInv, FormsFit
<1>15. FormsFit'
  BY <1>1, <1>2, <1>9, <1>10, <1>12, <1>13, <1>14 DEF FormsFit
<1>16. ASSUME ~overlap PROVE Alone' /\ OnceEach(Creations', Listing')
  <2>1. Asking(forms[k]) /\ Awaits(forms[k], Creations, Listing) /\ OnceEach(Creations, Listing)
    BY <1>2, <1>8, <1>16 DEF Asking, RowsInv, Alone
  <2>2. /\ \A r \in Creations : r.by = forms[k].serial
        /\ \A r \in Ids : forms[k].results[r] = "pending" => Listing[r] = {}
    BY <1>2, <2>1 DEF Awaits, Found
  <2>3. \A r \in Creations : r.content.id # m
    BY <1>1, <1>2, <2>2 DEF Knows
  <2>4. OnceEach(Creations', Listing')
    <3>1. Listing[m] = {}
      BY <1>2, <2>2
    <3>2. QED
      BY <1>4, <1>5, <2>1, <2>3, <3>1 DEF OnceEach
  <2>5. \A l \in Consoles : l = k \/ ~Asking(forms[l])
    BY <1>16, <2>1, Others
  <2>6. Awaits(form, Creations', Listing')
    <3>1. \A r \in Creations' : r.by = form.serial
      BY <1>4, <1>5, <1>7, <2>2
    <3>2. \A r \in Ids : form.results[r] = "pending" => Found(form, r, Listing')
      BY <1>5, <1>6, <1>7, <2>2 DEF Found
    <3>3. QED
      BY <3>1, <3>2 DEF Awaits
  <2>7. \A l \in Consoles : Awaits(forms'[l], Creations', Listing')
    BY <1>9, <2>5, <2>6 DEF Awaits
  <2>8. \A a, b \in Consoles : Asking(forms'[a]) /\ Asking(forms'[b]) => a = b
    BY <1>9, <2>5
  <2>9. QED
    BY <2>4, <2>7, <2>8 DEF Alone
<1>17. QED
  BY <1>2, <1>15, <1>16 DEF RowsInv

(* Of a row that a request asks for, the form knows; so when the packet is *)
(* stored no form takes the row for one that nobody attempted.             *)
LEMMA CreationStored ==
    ASSUME EvidenceInv, RowsInv, NEW request \in asked, NEW heard \in BOOLEAN,
           PrepareCreation(request, heard)
    PROVE  RowsInv'
<1> DEFINE m == request.content.id
           n == Len(packets) + 1
<1>1. request \in Creations /\ m \in Ids /\ request.content = Creation(m)
      /\ packets \in Seq(PacketSet) /\ request.content \in Contents
  BY CreationFields DEF PrepareCreation, Creations, EvidenceInv, DeskType
<1>2. Creations' = Creations \ {request} /\ UNCHANGED <<started, overlap>>
  BY DEF PrepareCreation, Creations
<1>3. packets' = Append(packets, Packet(request.content))
  BY <1>1, ContentFields DEF PrepareCreation, StorePacket, Conflicts
<1>4. \A r \in Ids : Listing'[r] = IF r = m THEN Listing[r] \cup {n} ELSE Listing[r]
  <2>1. \A r \in Ids : (request.content = Creation(r)) = (r = m)
    BY <1>1, ContentFields
  <2>2. QED
    BY <1>1, <1>3, <2>1, Appended
<1>5. \A r \in Creations : r.content.id \in Ids
  BY CreationFields
<1> HIDE DEF m, n
(* The form that heard the answer, if one did, goes on with the next row. *)
<1>6. PICK k : \/ forms' = forms
               \/ /\ k \in Consoles /\ forms[k].serial = request.by /\ forms[k].stage = "waiting"
                  /\ forms[k].results[m] = "preparing"
                  /\ forms' = [forms EXCEPT ![k].stage = "preparing", ![k].results[m] = "prepared"]
  BY DEF PrepareCreation, m
<1>7. ASSUME NEW l \in Consoles
      PROVE  /\ forms'[l] \in FormSet /\ forms'[l].serial = forms[l].serial
             /\ Fits(forms'[l], started) /\ Knows(forms'[l], Creations')
             /\ Asking(forms'[l]) => Asking(forms[l])
             /\ \A r \in Ids : forms'[l].results[r] = "pending" =>
                  /\ forms[l].results[r] = "pending"
                  /\ forms'[l].stage = "listed" => forms[l].stage = "listed"
                                                   /\ forms'[l].listing = forms[l].listing
                  /\ forms[l].stage = "listed" => forms'[l].stage = "listed"
  <2>1. /\ forms[l] \in FormSet /\ forms[l].submits \in BOOLEAN
        /\ forms[l].results \in [Ids -> Phases] /\ forms \in [Consoles -> FormSet]
        /\ Fits(forms[l], started) /\ Knows(forms[l], Creations)
    BY FormFields
  <2>2. CASE forms'[l] = forms[l]
    BY <1>2, <2>1, <2>2 DEF Knows
  <2>3. CASE /\ l = k /\ forms[k].serial = request.by /\ forms[k].stage = "waiting"
             /\ forms' = [forms EXCEPT ![k].stage = "preparing", ![k].results[m] = "prepared"]
    <3> DEFINE results == [forms[l].results EXCEPT ![m] = "prepared"]
               form == [forms[l] EXCEPT !.stage = "preparing", !.results = results]
    <3>1. forms'[l] = form
      BY <2>1, <2>3
    <3>2. results \in [Ids -> Phases] /\ \A r \in Ids : results[r] = "pending" => forms[l].results[r] = "pending"
      BY <2>1 DEF Phases
    <3> HIDE DEF results
    <3>3. /\ form \in FormSet /\ form.serial = forms[l].serial /\ form.stage = "preparing"
          /\ form.results = results /\ form.submits = forms[l].submits
      BY <2>1, <3>2 DEF FormSet, Stages
    <3> HIDE DEF form
    <3>4. Fits(form, started)
      BY <2>1, <2>3, <3>3 DEF Fits
    <3>5. Knows(form, Creations')
      BY <1>2, <1>5, <2>1, <3>2, <3>3 DEF Knows
    <3>6. Asking(form) => Asking(forms[l])
      BY <2>3, <3>3 DEF Asking
    <3>7. QED
      BY <2>3, <3>1, <3>2, <3>3, <3>4, <3>5, <3>6
  <2>4. QED
    BY <1>6, <2>1, <2>2, <2>3
<1>8. FormsFit'
  <2>1. forms' \in [Consoles -> FormSet]
    <3>1. DOMAIN forms' = Consoles /\ forms' = [l \in Consoles |-> forms'[l]]
      BY <1>6 DEF RowsInv, FormsFit
    <3>2. QED
      BY <1>7, <3>1
  <2>2. \A r \in Creations' : r.by \in 1 .. started
    BY <1>2 DEF RowsInv, FormsFit
  <2>3. \A a, b \in Consoles : forms'[a].serial = forms'[b].serial /\ forms'[a].serial # 0 => a = b
    BY <1>7 DEF RowsInv, FormsFit
  <2>4. started \in Nat /\ overlap \in BOOLEAN
    BY DEF RowsInv, FormsFit
  <2>5. QED
    BY <1>2, <1>7, <2>1, <2>2, <2>3, <2>4 DEF FormsFit
<1>9. ASSUME ~overlap PROVE Alone' /\ OnceEach(Creations', Listing')
  <2>1. Alone /\ OnceEach(Creations, Listing)
    BY <1>9 DEF RowsInv
  <2>2. OnceEach(Creations', Listing')
    <3>1. Listing[m] = {} /\ \A r \in Creations' : r.content.id # m
      BY <1>1, <1>2, <2>1 DEF OnceEach, m
    <3>2. QED
      BY <1>1, <1>2, <1>4, <1>5, <2>1, <3>1 DEF OnceEach
  <2>3. ASSUME NEW l \in Consoles, Asking(forms'[l])
        PROVE  Awaits(forms'[l], Creations', Listing')
    <3>1. /\ \A r \in Creations : r.by = forms[l].serial
          /\ \A r \in Ids : forms[l].results[r] = "pending" => Found(forms[l], r, Listing)
      BY <1>7, <2>1, <2>3 DEF Alone, Awaits
    <3>2. forms[l].results[m] # "pending"
      BY <1>1, <3>1, FormFields DEF Knows, m
    <3>3. ASSUME NEW r \in Ids, forms'[l].results[r] = "pending"
          PROVE  Found(forms'[l], r, Listing')
      <4>1. /\ forms[l].results[r] = "pending" /\ r # m
            /\ forms'[l].stage = "listed" => forms[l].stage = "listed"
                                             /\ forms'[l].listing = forms[l].listing
            /\ forms[l].stage = "listed" => forms'[l].stage = "listed"
        BY <1>7, <3>2, <3>3
      <4>2. Listing'[r] = Listing[r]
        BY <1>4, <4>1
      <4>3. QED
        BY <3>1, <4>1, <4>2 DEF Found
    <3>4. \A r \in Creations' : r.by = forms'[l].serial
      BY <1>2, <1>7, <3>1
    <3>5. QED
      BY <3>3, <3>4 DEF Awaits
  <2>4. \A l \in Consoles : Awaits(forms'[l], Creations', Listing')
    BY <2>3 DEF Awaits
  <2>5. \A a, b \in Consoles : Asking(forms'[a]) /\ Asking(forms'[b]) => a = b
    BY <1>7, <2>1 DEF Alone
  <2>6. QED
    BY <2>2, <2>4, <2>5 DEF Alone
<1>10. QED
  BY <1>2, <1>8, <1>9 DEF RowsInv

LEMMA FormsKeepRows ==
    ASSUME EvidenceInv, RowsInv, FormNext
    PROVE  RowsInv'
BY StartKeeps, ReloadKeeps, RestsKeep, ReadKeeps, TakeKeeps, AskKeeps, CreationStored DEF FormNext

LEMMA SetupKeepsRows ==
    ASSUME EvidenceInv, RowsInv, SetupNext, UNCHANGED formVars
    PROVE  RowsInv'
<1>1. UNCHANGED <<packets, asked>>
  BY DEF SetupNext, LoadSetup, LoadOpening, LoadIssuer, Load, SendStep, StopSequence, CloseTask,
         ExpireStep, LandStep, deskVars
<1>2. Creations' = Creations /\ Listing' = Listing
  BY <1>1, SameEvidence
<1>3. QED
  BY <1>2, RowsShrink

LEMMA RowsStart == OperatorsInit => RowsInv
<1> SUFFICES ASSUME OperatorsInit PROVE RowsInv
  OBVIOUS
<1>1. /\ packets = <<>> /\ asked = {} /\ started = 0 /\ overlap = FALSE
      /\ forms = [k \in Consoles |-> Blank]
  BY DEF OperatorsInit, BatchInit, DeskInit
<1>2. Creations = {} /\ \A c : Live(c) = {}
  BY <1>1 DEF Creations, Live
<1>3. Fits(Blank, 0) /\ ~Asking(Blank)
  BY BlankFields DEF Fits, Asking
<1>4. FormsFit
  BY <1>1, <1>2, <1>3, BlankFields DEF FormsFit, Knows
<1>5. Alone
  BY <1>1, <1>3 DEF Alone, Awaits
<1>6. OnceEach(Creations, Listing)
  BY <1>2 DEF OnceEach, Listing
<1>7. QED
  BY <1>4, <1>5, <1>6 DEF RowsInv

(* No row of a batch has two packets that were not rejected, through       *)
(* reloads, answers that are lost and listings that are old, unless two    *)
(* forms were asking at the same time (market-batch.ts).                   *)
THEOREM RowsPreparedOnce == OperatorsSpec => []RowsOnce
<1>1. OperatorsInit => EvidenceInv /\ RowsInv
  BY EvidenceStarts, RowsStart DEF OperatorsInit, BatchInit
<1>2. EvidenceInv /\ RowsInv /\ [OperatorsNext]_operatorVars => EvidenceInv' /\ RowsInv'
  <2> SUFFICES ASSUME EvidenceInv, RowsInv, [OperatorsNext]_operatorVars PROVE EvidenceInv' /\ RowsInv'
    OBVIOUS
  <2>1. CASE DeskNext /\ UNCHANGED formVars
    BY <2>1, DeskKeeps, DeskKeepsRows
  <2>2. CASE FormNext
    BY <2>2, FormsKeep, FormsKeepRows
  <2>3. CASE SetupNext /\ UNCHANGED formVars
    BY <2>3, SetupKeeps, SetupKeepsRows
  <2>4. CASE UNCHANGED operatorVars
    <3>1. UNCHANGED <<packets, asked>> /\ UNCHANGED formVars
      BY <2>4 DEF operatorVars, batchVars, deskVars, formVars
    <3>2. RowsInv'
      BY <3>1, SameEvidence, RowsShrink
    <3>3. EvidenceInv'
      BY <2>4 DEF operatorVars, batchVars, deskVars, EvidenceInv, DeskType
    <3>4. QED
      BY <3>2, <3>3
  <2>5. QED
    BY <2>1, <2>2, <2>3, <2>4 DEF OperatorsNext, BatchNext
<1>3. QED
  BY <1>1, <1>2, RowsFollow, PTL DEF OperatorsSpec

-----------------------------------------------------------------------------
(* The legs of a market.                                                   *)

Tokens == ToSet(BaseTokens) \cup {Extra}

(* The steps of a task are a sequence, and name tokens that may be listed. *)
Shape(task) ==
    /\ \E n \in Nat : DOMAIN task.steps = 1 .. n
    /\ \A i \in DOMAIN task.steps :
          task.steps[i].op = "list" => task.steps[i].arg \in Tokens

(* A task of the set-up lists the tokens of the evidence in their order,   *)
(* from some position on, and before anything else; when it comes to one,  *)
(* the market lists those before it.  The market lists n tokens.           *)
Planned(task, n) ==
    task.kind # "issuer" =>
        \E from \in Nat : \A i \in DOMAIN task.steps :
            task.steps[i].op = "list" =>
                /\ from + i <= Len(BaseTokens) /\ task.steps[i].arg = BaseTokens[from + i]
                /\ \A j \in 1 .. i : task.steps[j].op = "list"
                /\ i <= task.next => from + i <= n + 1

(* A transaction of the set-up lists a token when those before it are.     *)
Listable(tx, n) ==
    tx.step.op = "list" =>
        /\ tx.step.arg \in Tokens
        /\ tx.kind # "issuer" =>
             \E j \in 1 .. Len(BaseTokens) : tx.step.arg = BaseTokens[j] /\ j <= n + 1

IsTask(task) ==
    /\ task = [phase |-> task.phase, steps |-> task.steps, next |-> task.next, kind |-> task.kind]
    /\ task.next \in Nat \ {0}

(* What a console is at, when the market lists n tokens.                   *)
Doing(task, n) == IsTask(task) /\ Shape(task) /\ Planned(task, n)

(* Tasks and transactions list what comes next in the evidence, whatever   *)
(* other consoles have listed since.                                       *)
LegsInv ==
    /\ listed \in Seq(Tokens) /\ strayed \in BOOLEAN /\ DOMAIN tasks = Consoles
    /\ \A k \in Consoles : Doing(tasks[k], Len(listed))
    /\ \A tx \in pipe : Listable(tx, Len(listed))
    /\ LegsAsReviewed

LEMMA TokensFit ==
    /\ BaseTokens \in Seq(Tokens) /\ Len(BaseTokens) \in Nat
    /\ \A i \in 1 .. Len(BaseTokens) : BaseTokens[i] \in Tokens
BY SetupAssumption DEF ToSet, Tokens

LEMMA PrefixFields ==
    ASSUME NEW T, NEW s \in Seq(T), NEW t \in Seq(T)
    PROVE  IsPrefix(s, t) <=> (Len(s) <= Len(t) /\ \A i \in 1 .. Len(s) : s[i] = t[i])
<1>1. CASE Len(s) <= Len(t)
  <2>1. /\ SubSeq(s, 1, Len(s)) = [i \in 1 .. Len(s) |-> s[i]]
        /\ SubSeq(t, 1, Len(s)) = [i \in 1 .. Len(s) |-> t[i]]
    BY <1>1
  <2>2. QED
    BY <1>1, <2>1 DEF IsPrefix
<1>2. QED
  BY <1>1 DEF IsPrefix

(* What the market lists only grows. *)
LEMMA DoingLater ==
    ASSUME NEW task, NEW n \in Nat, NEW more \in Nat, n <= more, Doing(task, n)
    PROVE  Doing(task, more)
<1>1. CASE task.kind # "issuer"
  <2>1. PICK from \in Nat : \A i \in DOMAIN task.steps :
            task.steps[i].op = "list" =>
                /\ from + i <= Len(BaseTokens) /\ task.steps[i].arg = BaseTokens[from + i]
                /\ \A j \in 1 .. i : task.steps[j].op = "list"
                /\ i <= task.next => from + i <= n + 1
    BY <1>1 DEF Doing, Planned
  <2>2. \A i \in DOMAIN task.steps : i \in Nat
    BY DEF Doing, Shape
  <2>3. \A i \in DOMAIN task.steps : from + i <= n + 1 => from + i <= more + 1
    BY <2>2
  <2>4. Planned(task, more)
    BY <2>1, <2>3 DEF Planned
  <2>5. QED
    BY <2>4 DEF Doing
<1>2. QED
  BY <1>1 DEF Doing, Planned

LEMMA ListableLater ==
    ASSUME NEW tx, NEW n \in Nat, NEW more \in Nat, n <= more, Listable(tx, n)
    PROVE  Listable(tx, more)
<1>1. \A j \in 1 .. Len(BaseTokens) : j <= n + 1 => j <= more + 1
  BY TokensFit
<1>2. QED
  BY <1>1 DEF Listable

(* A console changes its task, and the market what it lists.               *)
LEMMA TaskMoves ==
    ASSUME LegsInv, NEW k \in Consoles, NEW task, tasks' = [tasks EXCEPT ![k] = task],
           Doing(task, Len(listed)), UNCHANGED <<listed, strayed>>,
           \A tx \in pipe' : tx \in pipe \/ Listable(tx, Len(listed))
    PROVE  LegsInv'
<1>1. DOMAIN tasks' = Consoles /\ \A c \in Consoles : tasks'[c] = task \/ tasks'[c] = tasks[c]
  BY DEF LegsInv
<1>2. \A c \in Consoles : Doing(tasks'[c], Len(listed'))
  BY <1>1 DEF LegsInv
<1>3. \A tx \in pipe' : Listable(tx, Len(listed'))
  BY DEF LegsInv
<1>4. QED
  BY <1>1, <1>2, <1>3 DEF LegsInv, LegsAsReviewed

(* Any sequence of steps, put together of two. *)
LEMMA Joined ==
    ASSUME NEW n \in Nat, NEW m \in Nat, NEW s, NEW t,
           s = [i \in 1 .. n |-> s[i]], t = [i \in 1 .. m |-> t[i]]
    PROVE  /\ DOMAIN (s \o t) = 1 .. n + m
           /\ \A i \in 1 .. n + m : (s \o t)[i] = IF i <= n THEN s[i] ELSE t[i - n]
           /\ s \o t = [i \in 1 .. n + m |-> (s \o t)[i]]
<1> DEFINE S == {s[i] : i \in 1 .. n} \cup {t[i] : i \in 1 .. m}
<1>1. /\ \A i \in 1 .. n : s[i] \in S
      /\ \A i \in 1 .. m : t[i] \in S
  OBVIOUS
<1> HIDE DEF S
<1>3. s \in [1 .. n -> S] /\ t \in [1 .. m -> S]
  BY <1>1
<1>4. s \in Seq(S) /\ t \in Seq(S) /\ Len(s) = n /\ Len(t) = m
  BY <1>3
<1>2. QED
  BY <1>4

(* The steps of initializeMarketVaults: the tokens of the evidence from    *)
(* the first that is not listed, and then claims.                          *)
ListsFirst(steps, n) ==
    /\ steps = [i \in 1 .. n |-> steps[i]]
    /\ \A i \in 1 .. n : steps[i].op = "list" =>
         /\ Len(listed) + i <= Len(BaseTokens) /\ steps[i].arg = BaseTokens[Len(listed) + i]
         /\ \A j \in 1 .. i : steps[j].op = "list"

LEMMA StepsShape ==
    ASSUME listed \in Seq(Tokens), NEW tokens \in KnownTokens
    PROVE  \E n \in Nat : ListsFirst(Steps(tokens), n)
<1>1. (tokens = <<>> \/ tokens = BaseTokens) /\ Len(listed) \in Nat /\ Len(BaseTokens) \in Nat
  BY TokensFit DEF KnownTokens
<1> DEFINE total == IF Len(tokens) > Len(listed) THEN Len(tokens) ELSE Len(listed)
           missing == ClaimsLeft(total)
           n == total - Len(listed)
           m == Cardinality((0 .. total) \ minted)
           s == [i \in 1 .. n |-> List(tokens[Len(listed) + i])]
           t == [i \in DOMAIN missing |-> Claims(missing[i])]
<1>2. total \in Nat /\ n \in Nat /\ (n > 0 => tokens = BaseTokens /\ total = Len(BaseTokens))
  <2>1. Len(tokens) \in Nat
    BY <1>1
  <2>2. QED
    BY <1>1, <2>1
<1>3. m \in Nat
  <2> HIDE DEF total
  <2>1. IsFiniteSet(0 .. total)
    <3>1. 0 \in Int /\ total \in Int
      BY <1>2
    <3>2. QED
      BY <3>1, FS_Interval
  <2>2. (0 .. total) \ minted \in SUBSET (0 .. total)
    OBVIOUS
  <2>3. IsFiniteSet((0 .. total) \ minted)
    BY <2>1, <2>2, FS_Subset
  <2>4. QED
    BY <2>3, FS_CardinalityType
<1>4. DOMAIN missing = 1 .. m
  BY DEF ClaimsLeft
<1>5. Steps(tokens) = s \o t
  BY DEF Steps
<1>6. \A i \in 1 .. n : s[i] = List(tokens[Len(listed) + i])
  OBVIOUS
<1>7. \A i \in 1 .. m : t[i] = Claims(missing[i])
  BY <1>4
<1>8. s = [i \in 1 .. n |-> s[i]] /\ t = [i \in 1 .. m |-> t[i]]
  BY <1>4
<1> HIDE DEF s, t, missing, m, total
<1>9. /\ DOMAIN (s \o t) = 1 .. n + m
      /\ \A i \in 1 .. n + m : (s \o t)[i] = IF i <= n THEN s[i] ELSE t[i - n]
      /\ s \o t = [i \in 1 .. n + m |-> (s \o t)[i]]
  <2> HIDE DEF n
  <2>1. QED
    BY <1>2, <1>3, <1>8, Joined
<1>10. \A i \in 1 .. n + m : (s \o t)[i].op = "list" => i \in 1 .. n
  <2> HIDE DEF n
  <2>1. ASSUME NEW i \in 1 .. n + m, ~(i <= n) PROVE (s \o t)[i].op # "list"
    <3>1. i - n \in 1 .. m
      BY <1>2, <1>3, <2>1
    <3>2. (s \o t)[i] = Claims(missing[i - n])
      BY <1>7, <1>9, <2>1, <3>1
    <3>3. QED
      BY <3>2 DEF Claims
  <2>2. \A i \in 1 .. n + m : i <= n => i \in 1 .. n
    BY <1>2, <1>3
  <2>3. QED
    BY <2>1, <2>2
<1>11. \A i \in 1 .. n : (s \o t)[i] = List(tokens[Len(listed) + i]) /\ i \in 1 .. n + m
  BY <1>2, <1>3, <1>6, <1>9
<1>12. ASSUME NEW i \in 1 .. n + m, (s \o t)[i].op = "list"
       PROVE  /\ Len(listed) + i <= Len(BaseTokens)
              /\ (s \o t)[i].arg = BaseTokens[Len(listed) + i]
              /\ \A j \in 1 .. i : (s \o t)[j].op = "list"
  <2>1. i \in 1 .. n
    BY <1>10, <1>12
  <2>2. tokens = BaseTokens /\ Len(listed) + i <= Len(BaseTokens)
    BY <1>1, <1>2, <2>1
  <2> HIDE DEF n
  <2>3. (s \o t)[i] = List(BaseTokens[Len(listed) + i])
    BY <1>11, <2>1, <2>2
  <2>4. (s \o t)[i].arg = BaseTokens[Len(listed) + i]
    BY <2>3 DEF List
  <2>5. ASSUME NEW j \in 1 .. i PROVE (s \o t)[j].op = "list"
    <3>1. j \in 1 .. n
      BY <1>2, <2>1
    <3>2. (s \o t)[j] = List(tokens[Len(listed) + j])
      BY <1>11, <3>1
    <3>3. QED
      BY <3>2 DEF List
  <2>6. QED
    BY <2>2, <2>4, <2>5
<1>13. n + m \in Nat
  BY <1>2, <1>3
<1>14. QED
  BY <1>5, <1>9, <1>12, <1>13 DEF ListsFirst

(* A new list of steps, of which none has been signed. *)
LEMMA LoadDoing ==
    ASSUME LegsInv, NEW steps, NEW n \in Nat, ListsFirst(steps, n), NEW kind
    PROVE  Doing([phase |-> "loaded", steps |-> steps, next |-> 1, kind |-> kind], Len(listed))
<1> DEFINE task == [phase |-> "loaded", steps |-> steps, next |-> 1, kind |-> kind]
<1>1. /\ IsTask(task) /\ task.steps = steps /\ task.next = 1
  BY DEF IsTask
<1> HIDE DEF task
<1>2. /\ Len(listed) \in Nat /\ Len(BaseTokens) \in Nat /\ DOMAIN steps = 1 .. n
      /\ \A i \in 1 .. n : steps[i].op = "list" =>
           /\ Len(listed) + i <= Len(BaseTokens) /\ steps[i].arg = BaseTokens[Len(listed) + i]
           /\ \A j \in 1 .. i : steps[j].op = "list"
  <2>1. DOMAIN [i \in 1 .. n |-> steps[i]] = 1 .. n
    OBVIOUS
  <2>2. DOMAIN steps = 1 .. n
    BY <2>1, Zenon DEF ListsFirst
  <2>3. Len(listed) \in Nat /\ Len(BaseTokens) \in Nat
    BY TokensFit DEF LegsInv
  <2>4. \A i \in 1 .. n : steps[i].op = "list" =>
           /\ Len(listed) + i <= Len(BaseTokens) /\ steps[i].arg = BaseTokens[Len(listed) + i]
           /\ \A j \in 1 .. i : steps[j].op = "list"
    BY DEF ListsFirst
  <2>5. QED
    BY <2>2, <2>3, <2>4
<1>3. Shape(task)
  <2>1. ASSUME NEW i \in 1 .. n, steps[i].op = "list" PROVE steps[i].arg \in Tokens
    <3>1. Len(listed) + i \in 1 .. Len(BaseTokens)
      BY <1>2, <2>1
    <3>2. QED
      BY <1>2, <2>1, <3>1, TokensFit
  <2>2. QED
    BY <1>1, <1>2, <2>1 DEF Shape
<1>4. Planned(task, Len(listed))
  <2>1. \A i \in 1 .. n : i <= 1 => Len(listed) + i <= Len(listed) + 1
    BY <1>2
  <2>2. QED
    BY <1>1, <1>2, <2>1 DEF Planned
<1>5. QED
  BY <1>1, <1>3, <1>4 DEF Doing, task

LEMMA LoadKeeps ==
    ASSUME LegsInv, NEW k \in Consoles, NEW steps, NEW kind, Load(k, steps, kind),
           Doing([phase |-> "loaded", steps |-> steps, next |-> 1, kind |-> kind], Len(listed))
    PROVE  LegsInv'
BY TaskMoves DEF Load

LEMMA OpeningLast ==
    ASSUME NEW s, NEW n \in Nat, ListsFirst(s, n), Len(BaseTokens) \in Nat, Len(listed) \in Nat
    PROVE  ListsFirst(Append(s, OpenMarket), n + 1)
<1> DEFINE S == {s[i] : i \in 1 .. n} \cup {OpenMarket}
           t == Append(s, OpenMarket)
<1>1. s = [i \in 1 .. n |-> s[i]] /\ \A i \in 1 .. n : s[i] \in S
  BY DEF ListsFirst
<1>2. OpenMarket \in S /\ OpenMarket.op # "list"
  BY DEF OpenMarket
<1> HIDE DEF S
<1>3. s \in Seq(S) /\ Len(s) = n
  <2>1. s \in [1 .. n -> S]
    BY <1>1
  <2>2. QED
    BY <2>1
<1>4. t \in Seq(S) /\ Len(t) = n + 1 /\ t[n + 1] = OpenMarket /\ \A i \in 1 .. n : t[i] = s[i]
  BY <1>2, <1>3
<1> HIDE DEF t
<1>5. t = [i \in 1 .. n + 1 |-> t[i]]
  BY <1>4
<1>6. \A i \in 1 .. n + 1 : t[i].op = "list" => i \in 1 .. n
  <2>1. \A i \in 1 .. n + 1 : i = n + 1 \/ i \in 1 .. n
    OBVIOUS
  <2>2. QED
    BY <1>2, <1>4, <2>1
<1>7. \A i \in 1 .. n : \A j \in 1 .. i : j \in 1 .. n
  OBVIOUS
<1>8. QED
  BY <1>4, <1>5, <1>6, <1>7 DEF ListsFirst, t

LEMMA SetupLoads ==
    ASSUME LegsInv, NEW k \in Consoles, LoadSetup(k) \/ LoadOpening(k)
    PROVE  LegsInv'
<1>1. listed \in Seq(Tokens) /\ Len(listed) \in Nat /\ Len(BaseTokens) \in Nat
  BY TokensFit DEF LegsInv
<1>2. CASE LoadSetup(k)
  <2>1. PICK tokens \in KnownTokens : Load(k, Steps(tokens), "setup")
    BY <1>2 DEF LoadSetup
  <2>2. PICK n \in Nat : ListsFirst(Steps(tokens), n)
    BY <1>1, StepsShape
  <2>3. QED
    BY <2>1, <2>2, LoadDoing, LoadKeeps
<1>3. CASE LoadOpening(k)
  <2>1. PICK tokens \in KnownTokens : Load(k, Append(Steps(tokens), OpenMarket), "opening")
    BY <1>3 DEF LoadOpening
  <2>2. PICK n \in Nat : ListsFirst(Steps(tokens), n)
    BY <1>1, StepsShape
  <2>3. ListsFirst(Append(Steps(tokens), OpenMarket), n + 1) /\ n + 1 \in Nat
    BY <1>1, <2>2, OpeningLast
  <2>4. QED
    BY <2>1, <2>3, LoadDoing, LoadKeeps
<1>4. QED
  BY <1>2, <1>3

LEMMA IssuerLoads ==
    ASSUME LegsInv, NEW k \in Consoles, NEW token \in Tokens, LoadIssuer(k, token)
    PROVE  LegsInv'
<1>1. listed \in Seq(Tokens) /\ Len(listed) \in Nat /\ Len(BaseTokens) \in Nat
  BY TokensFit DEF LegsInv
<1>2. CASE Load(k, Steps(<<>>), "issuer")
  <2>1. PICK n \in Nat : ListsFirst(Steps(<<>>), n)
    BY <1>1, StepsShape DEF KnownTokens
  <2>2. QED
    BY <1>2, <2>1, LoadDoing, LoadKeeps
<1>3. CASE Load(k, <<List(token), Claims(Len(listed) + 1)>>, "issuer")
  <2> DEFINE steps == <<List(token), Claims(Len(listed) + 1)>>
             task == [phase |-> "loaded", steps |-> steps, next |-> 1, kind |-> "issuer"]
  <2>1. DOMAIN steps = 1 .. 2 /\ steps[1] = List(token) /\ steps[2] = Claims(Len(listed) + 1)
    OBVIOUS
  <2>2. steps[1].arg = token /\ steps[2].op # "list"
    BY <2>1 DEF List, Claims
  <2> HIDE DEF steps
  <2>3. \A i \in DOMAIN steps : i = 1 \/ i = 2
    BY <2>1
  <2>4. Doing(task, Len(listed))
    BY <2>1, <2>2, <2>3 DEF Doing, IsTask, Shape, Planned
  <2>5. QED
    BY <1>3, <2>4, LoadKeeps DEF steps
<1>4. QED
  BY <1>2, <1>3 DEF LoadIssuer

LEMMA IdleDoing ==
    ASSUME NEW n \in Nat
    PROVE  Doing(Idle, n)
<1>1. Idle.steps = <<>> /\ Idle.next = 1 /\ DOMAIN Idle.steps = 1 .. 0
  BY DEF Idle
<1>2. IsTask(Idle)
  BY DEF Idle, IsTask
<1>3. DOMAIN Idle.steps = {}
  BY <1>1
<1>4. QED
  BY <1>1, <1>2, <1>3 DEF Doing, Shape, Planned

LEMMA PhaseDoing ==
    ASSUME NEW task, NEW n \in Nat, Doing(task, n), NEW phase
    PROVE  Doing([task EXCEPT !.phase = phase], n)
<1> DEFINE new == [task EXCEPT !.phase = phase]
<1>1. new = [phase |-> phase, steps |-> task.steps, next |-> task.next, kind |-> task.kind]
  <2>1. task = [phase |-> task.phase, steps |-> task.steps, next |-> task.next, kind |-> task.kind]
    BY DEF Doing, IsTask
  <2>2. QED
    BY <2>1
<1>2. IsTask(new) /\ new.steps = task.steps /\ new.next = task.next /\ new.kind = task.kind
  BY <1>1 DEF IsTask, Doing
<1> HIDE DEF new
<1>3. QED
  BY <1>2 DEF Doing, Shape, Planned, new

LEMMA TaskFields ==
    ASSUME LegsInv, NEW k \in Consoles
    PROVE  /\ Doing(tasks[k], Len(listed)) /\ Len(listed) \in Nat /\ DOMAIN tasks = Consoles
           /\ \A phase : [tasks EXCEPT ![k].phase = phase]
                          = [tasks EXCEPT ![k] = [tasks[k] EXCEPT !.phase = phase]]
BY DEF LegsInv

(* The next step is signed: the tokens before it are listed. *)
LEMMA SendKeeps ==
    ASSUME LegsInv, NEW k \in Consoles, SendStep(k)
    PROVE  LegsInv'
<1> DEFINE task == tasks[k]
           i == task.next
           tx == [step |-> task.steps[i], kind |-> task.kind]
<1>1. Doing(task, Len(listed)) /\ Len(listed) \in Nat
  BY TaskFields
<1>2. /\ i \in DOMAIN task.steps /\ pipe' = pipe \cup {tx} /\ UNCHANGED <<listed, strayed>>
      /\ tasks' = [tasks EXCEPT ![k].phase = "waiting"]
  BY DEF SendStep
<1>3. tasks' = [tasks EXCEPT ![k] = [task EXCEPT !.phase = "waiting"]]
  BY <1>2, TaskFields
<1>4. tx.step = task.steps[i] /\ tx.kind = task.kind
  OBVIOUS
<1> HIDE DEF tx
<1>5. Listable(tx, Len(listed))
  <2>1. SUFFICES ASSUME tx.step.op = "list"
                 PROVE  /\ tx.step.arg \in Tokens
                        /\ tx.kind # "issuer" =>
                             \E j \in 1 .. Len(BaseTokens) : tx.step.arg = BaseTokens[j] /\ j <= Len(listed) + 1
    BY DEF Listable
  <2>2. tx.step.arg \in Tokens
    BY <1>1, <1>2, <1>4, <2>1 DEF Doing, Shape
  <2>3. CASE task.kind # "issuer"
    <3>1. PICK from \in Nat : \A a \in DOMAIN task.steps :
              task.steps[a].op = "list" =>
                /\ from + a <= Len(BaseTokens) /\ task.steps[a].arg = BaseTokens[from + a]
                /\ \A j \in 1 .. a : task.steps[j].op = "list"
                /\ a <= task.next => from + a <= Len(listed) + 1
      BY <1>1, <2>3 DEF Doing, Planned
    <3>2. i \in Nat /\ i >= 1
      BY <1>1, <1>2 DEF Doing, IsTask
    <3>3. /\ from + i <= Len(BaseTokens) /\ task.steps[i].arg = BaseTokens[from + i]
          /\ from + i <= Len(listed) + 1
      BY <1>2, <1>4, <2>1, <3>1, <3>2
    <3>4. from + i \in 1 .. Len(BaseTokens)
      BY <3>2, <3>3, TokensFit
    <3>5. QED
      BY <1>4, <2>2, <3>3, <3>4
  <2>4. QED
    BY <1>4, <2>2, <2>3
<1> HIDE DEF task
<1>6. Doing([task EXCEPT !.phase = "waiting"], Len(listed))
  BY <1>1, PhaseDoing
<1>7. QED
  BY <1>2, <1>3, <1>5, <1>6, TaskMoves

LEMMA RestsTask ==
    ASSUME LegsInv, NEW k \in Consoles, StopSequence(k) \/ CloseTask(k)
    PROVE  LegsInv'
<1> DEFINE task == tasks[k]
<1>1. Doing(task, Len(listed)) /\ Len(listed) \in Nat
  BY TaskFields
<1>2. pipe' = pipe /\ UNCHANGED <<listed, strayed>>
  BY DEF StopSequence, CloseTask
<1>3. CASE StopSequence(k)
  <2>1. tasks' = [tasks EXCEPT ![k].phase = "stopped"]
    BY <1>3 DEF StopSequence
  <2>2. tasks' = [tasks EXCEPT ![k] = [task EXCEPT !.phase = "stopped"]]
    BY <2>1, TaskFields
  <2> HIDE DEF task
  <2>3. Doing([task EXCEPT !.phase = "stopped"], Len(listed))
    BY <1>1, PhaseDoing
  <2>4. QED
    BY <1>2, <2>2, <2>3, TaskMoves
<1>4. CASE CloseTask(k)
  BY <1>1, <1>2, <1>4, IdleDoing, TaskMoves DEF CloseTask
<1>5. QED
  BY <1>3, <1>4

Agree == IsPrefix(listed, BaseTokens) \/ IsPrefix(BaseTokens, listed)

(* A token of the evidence that is not listed is the next one. *)
LEMMA NextListed ==
    ASSUME listed \in Seq(Tokens), Agree, NEW j \in 1 .. Len(BaseTokens), j <= Len(listed) + 1,
           BaseTokens[j] \notin ToSet(listed)
    PROVE  IsPrefix(Append(listed, BaseTokens[j]), BaseTokens)
<1> DEFINE n == Len(listed)
           more == Append(listed, BaseTokens[j])
<1>1. /\ n \in Nat /\ BaseTokens \in Seq(Tokens) /\ Len(BaseTokens) \in Nat /\ BaseTokens[j] \in Tokens
      /\ DOMAIN listed = 1 .. n
  BY TokensFit
<1>2. /\ more \in Seq(Tokens) /\ Len(more) = n + 1 /\ more[n + 1] = BaseTokens[j]
      /\ \A i \in 1 .. n : more[i] = listed[i]
  BY <1>1
<1>3. /\ IsPrefix(listed, BaseTokens) <=> (n <= Len(BaseTokens) /\ \A i \in 1 .. n : listed[i] = BaseTokens[i])
      /\ IsPrefix(BaseTokens, listed) <=> (/\ Len(BaseTokens) <= n
                                           /\ \A i \in 1 .. Len(BaseTokens) : BaseTokens[i] = listed[i])
  BY <1>1, PrefixFields
<1> HIDE DEF more
<1>4. j > n
  <2>1. SUFFICES ASSUME j <= n PROVE FALSE
    BY <1>1
  <2>2. j \in 1 .. n
    BY <1>1, <2>1
  <2>3. listed[j] = BaseTokens[j]
    BY <1>3, <2>2 DEF Agree
  <2>4. QED
    BY <1>1, <2>2, <2>3 DEF ToSet
<1>5. j = n + 1 /\ n + 1 <= Len(BaseTokens)
  BY <1>1, <1>4
<1>6. \A i \in 1 .. n : listed[i] = BaseTokens[i]
  BY <1>1, <1>3, <1>5 DEF Agree
<1> HIDE DEF n
<1>7. \A i \in 1 .. n + 1 : more[i] = BaseTokens[i]
  <2>1. \A i \in 1 .. n + 1 : i = n + 1 \/ i \in 1 .. n
    BY <1>1
  <2>2. QED
    BY <1>2, <1>5, <1>6, <2>1
<1>8. IsPrefix(more, BaseTokens) <=> (Len(more) <= Len(BaseTokens) /\ \A i \in 1 .. Len(more) : more[i] = BaseTokens[i])
  BY <1>1, <1>2, PrefixFields
<1>9. QED
  BY <1>2, <1>5, <1>7, <1>8 DEF more

(* Once the evidence is listed, any token may follow. *)
LEMMA AnyListed ==
    ASSUME listed \in Seq(Tokens), Agree, Len(listed) >= Len(BaseTokens), NEW token \in Tokens
    PROVE  IsPrefix(BaseTokens, Append(listed, token))
<1> DEFINE n == Len(listed)
           more == Append(listed, token)
<1>1. n \in Nat /\ BaseTokens \in Seq(Tokens) /\ Len(BaseTokens) \in Nat
  BY TokensFit
<1>2. /\ more \in Seq(Tokens) /\ Len(more) = n + 1 /\ \A i \in 1 .. n : more[i] = listed[i]
  BY <1>1
<1>3. /\ IsPrefix(listed, BaseTokens) <=> (n <= Len(BaseTokens) /\ \A i \in 1 .. n : listed[i] = BaseTokens[i])
      /\ IsPrefix(BaseTokens, listed) <=> (/\ Len(BaseTokens) <= n
                                           /\ \A i \in 1 .. Len(BaseTokens) : BaseTokens[i] = listed[i])
      /\ IsPrefix(BaseTokens, more) <=> (/\ Len(BaseTokens) <= Len(more)
                                         /\ \A i \in 1 .. Len(BaseTokens) : BaseTokens[i] = more[i])
  <2> HIDE DEF more
  <2>1. IsPrefix(BaseTokens, more) <=> (/\ Len(BaseTokens) <= Len(more)
                                        /\ \A i \in 1 .. Len(BaseTokens) : BaseTokens[i] = more[i])
    BY <1>1, <1>2, PrefixFields
  <2>2. QED
    BY <1>1, <2>1, PrefixFields
<1> HIDE DEF more
<1>4. Len(BaseTokens) <= n /\ \A i \in 1 .. Len(BaseTokens) : i \in 1 .. n /\ BaseTokens[i] = listed[i]
  BY <1>1, <1>3 DEF Agree
<1> HIDE DEF n
<1>5. Len(BaseTokens) <= Len(more) /\ \A i \in 1 .. Len(BaseTokens) : BaseTokens[i] = more[i]
  BY <1>1, <1>2, <1>4
<1>6. QED
  BY <1>3, <1>5 DEF more

(* A console learns that its step succeeded, and comes to the next one.    *)
LEMMA AdvanceDoing ==
    ASSUME NEW task, NEW n \in Nat, NEW more \in Nat, n <= more, Doing(task, n),
           task.steps[task.next].op = "list" => n + 1 <= more
    PROVE  Doing([task EXCEPT !.next = @ + 1, !.phase = "running"], more)
<1> DEFINE new == [task EXCEPT !.next = @ + 1, !.phase = "running"]
           next == task.next
<1>1. next \in Nat \ {0} /\ task = [phase |-> task.phase, steps |-> task.steps, next |-> next, kind |-> task.kind]
  BY DEF Doing, IsTask
<1>2. new = [phase |-> "running", steps |-> task.steps, next |-> next + 1, kind |-> task.kind]
  <2>1. PICK p, s, x, k : task = [phase |-> p, steps |-> s, next |-> x, kind |-> k]
    BY <1>1
  <2>2. next = x /\ task.phase = p /\ task.steps = s /\ task.kind = k
    BY <2>1
  <2> HIDE DEF next
  <2>3. [[phase |-> p, steps |-> s, next |-> x, kind |-> k] EXCEPT !.next = x + 1, !.phase = "running"]
        = [phase |-> "running", steps |-> s, next |-> x + 1, kind |-> k]
    <3> DEFINE y == x + 1
               r == [phase |-> p, steps |-> s, next |-> x, kind |-> k]
    <3> HIDE DEF y
    <3>1. [r EXCEPT !.next = y] = [phase |-> p, steps |-> s, next |-> y, kind |-> k]
      OBVIOUS
    <3>2. [r EXCEPT !.next = y, !.phase = "running"] = [[r EXCEPT !.next = y] EXCEPT !.phase = "running"]
      <4> HIDE DEF r
      <4>1. QED
        OBVIOUS
    <3>3. [[phase |-> p, steps |-> s, next |-> y, kind |-> k] EXCEPT !.phase = "running"]
          = [phase |-> "running", steps |-> s, next |-> y, kind |-> k]
      OBVIOUS
    <3> HIDE DEF r
    <3>4. QED
      BY <3>1, <3>2, <3>3 DEF y, r
  <2>4. new = [task EXCEPT !.next = x + 1, !.phase = "running"]
    BY <2>2 DEF next
  <2> HIDE DEF new
  <2>5. QED
    BY <2>1, <2>2, <2>3, <2>4
<1> HIDE DEF new
<1>3. /\ IsTask(new) /\ new.steps = task.steps /\ new.next = next + 1 /\ new.kind = task.kind
  BY <1>1, <1>2 DEF IsTask
<1>4. Shape(new)
  BY <1>3 DEF Doing, Shape
<1>5. Planned(new, more)
  <2>1. CASE task.kind = "issuer"
    BY <1>3, <2>1 DEF Planned
  <2>2. CASE task.kind # "issuer"
    <3>1. PICK from \in Nat : \A i \in DOMAIN task.steps :
              task.steps[i].op = "list" =>
                /\ from + i <= Len(BaseTokens) /\ task.steps[i].arg = BaseTokens[from + i]
                /\ \A j \in 1 .. i : task.steps[j].op = "list"
                /\ i <= next => from + i <= n + 1
      BY <2>2 DEF Doing, Planned
    <3>2. PICK m \in Nat : DOMAIN task.steps = 1 .. m
      BY DEF Doing, Shape
    <3>3. ASSUME NEW i \in DOMAIN task.steps, task.steps[i].op = "list", i <= next + 1
          PROVE  from + i <= more + 1
      <4>1. CASE i <= next
        <5>1. from + i <= n + 1 /\ i \in Nat
          BY <3>1, <3>2, <3>3, <4>1
        <5>2. QED
          BY <5>1
      <4>2. CASE i = next + 1
        <5>1. next \in DOMAIN task.steps /\ next \in 1 .. i
          BY <1>1, <3>2, <4>2
        <5>2. task.steps[next].op = "list"
          BY <3>1, <3>3, <5>1
        <5>3. from + next <= n + 1
          BY <1>1, <3>1, <5>1, <5>2
        <5>4. QED
          BY <1>1, <4>2, <5>2, <5>3
      <4>3. QED
        BY <1>1, <3>2, <3>3, <4>1, <4>2
    <3>4. QED
      BY <1>3, <3>1, <3>3 DEF Planned
  <2>3. QED
    BY <2>1, <2>2
<1>6. QED
  BY <1>3, <1>4, <1>5 DEF Doing, new

LEMMA LandLegs ==
    ASSUME LegsInv, NEW tx \in pipe, NEW told \in BOOLEAN, LandStep(tx, told), Runs(tx.step)
    PROVE  LegsInv'
<1> DEFINE n == Len(listed)
           more == Len(listed')
           alone == tx.kind = "issuer" /\ tx.step.op = "list" /\ n < Len(BaseTokens)
<1>1. /\ listed \in Seq(Tokens) /\ strayed \in BOOLEAN /\ DOMAIN tasks = Consoles /\ n \in Nat
      /\ Listable(tx, n) /\ Len(BaseTokens) \in Nat
  BY TokensFit DEF LegsInv
<1>2. /\ listed' = IF tx.step.op = "list" THEN Append(listed, tx.step.arg) ELSE listed
      /\ tasks' = Confirmed(tx) \/ tasks' = tasks
      /\ strayed' = (strayed \/ alone) /\ pipe' = pipe \ {tx}
  BY DEF LandStep
<1>3. listed' \in Seq(Tokens) /\ more = IF tx.step.op = "list" THEN n + 1 ELSE n
  BY <1>1, <1>2 DEF Listable
<1>4. n <= more /\ more \in Nat /\ (tx.step.op = "list" => n + 1 <= more)
  BY <1>1, <1>3
<1>5. alone \in BOOLEAN
  OBVIOUS
<1> HIDE DEF more
<1>6. ASSUME NEW k \in Consoles PROVE Doing(tasks'[k], more)
  <2>1. Doing(tasks[k], n)
    BY DEF LegsInv
  <2>2. CASE tasks'[k] = tasks[k]
    BY <1>1, <1>4, <2>1, <2>2, DoingLater
  <2>3. CASE /\ tasks[k].steps[tasks[k].next] = tx.step
             /\ tasks'[k] = [tasks[k] EXCEPT !.next = @ + 1, !.phase = "running"]
    BY <1>1, <1>4, <2>1, <2>3, AdvanceDoing
  <2>4. QED
    BY <1>2, <2>2, <2>3 DEF Confirmed
<1>7. DOMAIN tasks' = Consoles
  BY <1>1, <1>2 DEF Confirmed
<1>8. \A t \in pipe' : Listable(t, more)
  BY <1>1, <1>2, <1>4, ListableLater DEF LegsInv
<1>9. ASSUME ~strayed, ~alone PROVE (IsPrefix(listed, BaseTokens) \/ IsPrefix(BaseTokens, listed))'
  <2>1. Agree
    BY <1>9 DEF LegsInv, LegsAsReviewed, Agree
  <2>2. CASE tx.step.op # "list"
    BY <1>2, <2>1, <2>2 DEF Agree
  <2>3. CASE tx.step.op = "list" /\ tx.kind = "issuer"
    <3>1. n >= Len(BaseTokens) /\ tx.step.arg \in Tokens
      BY <1>1, <1>9, <2>3 DEF Listable
    <3>2. QED
      BY <1>1, <1>2, <2>1, <2>3, <3>1, AnyListed
  <2>4. CASE tx.step.op = "list" /\ tx.kind # "issuer"
    <3>1. PICK j \in 1 .. Len(BaseTokens) : tx.step.arg = BaseTokens[j] /\ j <= n + 1
      BY <1>1, <2>4 DEF Listable
    <3>2. tx.step.arg \notin ToSet(listed)
      BY <2>4 DEF Runs
    <3>3. QED
      BY <1>1, <1>2, <2>1, <2>4, <3>1, <3>2, NextListed
  <2>5. QED
    BY <2>2, <2>3, <2>4
<1>10. LegsAsReviewed'
  BY <1>1, <1>2, <1>9 DEF LegsAsReviewed
<1>11. strayed' \in BOOLEAN
  BY <1>1, <1>2, <1>5
<1>12. QED
  BY <1>3, <1>6, <1>7, <1>8, <1>10, <1>11 DEF LegsInv, more

LEMMA SetupKeepsLegs ==
    ASSUME LegsInv, SetupNext
    PROVE  LegsInv'
<1>1. CASE \E k \in Consoles : LoadSetup(k) \/ LoadOpening(k)
  BY <1>1, SetupLoads
<1>2. CASE \E k \in Consoles, token \in ToSet(BaseTokens) \cup {Extra} : LoadIssuer(k, token)
  BY <1>2, IssuerLoads DEF Tokens
<1>3. CASE \E k \in Consoles : SendStep(k)
  BY <1>3, SendKeeps
<1>4. CASE \E k \in Consoles : StopSequence(k) \/ CloseTask(k)
  BY <1>4, RestsTask
<1>5. CASE \E tx \in pipe : ExpireStep(tx)
  BY <1>5 DEF ExpireStep, LegsInv, LegsAsReviewed
<1>6. CASE \E tx \in pipe, told \in BOOLEAN : LandStep(tx, told)
  <2>1. PICK tx \in pipe, told \in BOOLEAN : LandStep(tx, told)
    BY <1>6
  <2>2. CASE ~Runs(tx.step)
    <3>1. pipe' = pipe \ {tx} /\ UNCHANGED <<listed, tasks, strayed>>
      BY <2>1, <2>2 DEF LandStep
    <3>2. QED
      BY <3>1 DEF LegsInv, LegsAsReviewed
  <2>3. QED
    BY <2>1, <2>2, LandLegs
<1>7. QED
  BY <1>1, <1>2, <1>3, <1>4, <1>5, <1>6 DEF SetupNext

LEMMA LegsStart == SetupDone => LegsInv
<1> SUFFICES ASSUME SetupDone PROVE LegsInv
  OBVIOUS
<1>1. listed = <<>> /\ pipe = {} /\ strayed = FALSE /\ tasks = [k \in Consoles |-> Idle]
  BY DEF SetupDone
<1>2. listed \in Seq(Tokens) /\ Len(listed) = 0
  BY <1>1
<1>3. \A k \in Consoles : Doing(tasks[k], Len(listed))
  BY <1>1, <1>2, IdleDoing
<1>4. IsPrefix(listed, BaseTokens)
  <2>1. IsPrefix(listed, BaseTokens) <=> (/\ Len(listed) <= Len(BaseTokens)
                                          /\ \A i \in 1 .. Len(listed) : listed[i] = BaseTokens[i])
    <3>1. listed \in Seq(Tokens) /\ BaseTokens \in Seq(Tokens)
      BY <1>2, TokensFit
    <3>2. QED
      BY <3>1, PrefixFields
  <2>2. QED
    BY <1>2, <2>1, TokensFit
<1>5. QED
  BY <1>1, <1>2, <1>3, <1>4 DEF LegsInv, LegsAsReviewed

(* Tokens of a market are listed in the order of the evidence, for any     *)
(* number of tokens, of consoles that set it up at the same time and of    *)
(* transactions that fail, land late or are signed again, unless an        *)
(* operator lists a token on its own (the set-up of CreateMarketForm and   *)
(* its plan).                                                              *)
THEOREM LegsListedAsReviewed == OperatorsSpec => []LegsAsReviewed
<1>1. OperatorsInit => LegsInv
  BY LegsStart DEF OperatorsInit
<1>2. LegsInv /\ [OperatorsNext]_operatorVars => LegsInv'
  <2> SUFFICES ASSUME LegsInv, [OperatorsNext]_operatorVars PROVE LegsInv'
    OBVIOUS
  <2>1. CASE UNCHANGED setupVars
    BY <2>1 DEF setupVars, LegsInv, LegsAsReviewed
  <2>2. CASE SetupNext
    BY <2>2, SetupKeepsLegs
  <2>3. QED
    BY <2>1, <2>2 DEF OperatorsNext, operatorVars
<1>3. LegsInv => LegsAsReviewed
  BY DEF LegsInv
<1>4. QED
  BY <1>1, <1>2, <1>3, PTL DEF OperatorsSpec
=============================================================================
