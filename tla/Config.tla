------------------------------- MODULE Config -------------------------------
(***************************************************************************)
(* The deployment's Config account (governance.rs): its administrator and  *)
(* the delayed hand-over of that role, the three operational roles, the    *)
(* trading pause and the two fee rates.  The module also owns the clock    *)
(* every handler reads.                                                    *)
(***************************************************************************)
EXTENDS ProtocolCore

CONSTANTS
    Keys,        \* public keys that can sign
    NoKey,       \* Pubkey::default(): nobody can sign for it
    AdminDelay,  \* seconds between a proposal and its acceptance (172_800)
    MaxTime,     \* bound: the clock stops here
    RoleSets,    \* the role assignments initialize and configure are called with
    FeeRates     \* the fee rates configure is called with

ASSUME ConfigAssumption ==
    /\ NoKey \notin Keys
    /\ AdminDelay \in Nat /\ MaxTime \in Nat
    /\ RoleSets \subseteq [marketAdmin : Keys, guardian : Keys, resolutionAdmin : Keys]
    /\ FeeRates \subseteq Nat

VARIABLES
    now,      \* Clock::unix_timestamp
    config,   \* the Config account
    noticed   \* history: when the pending administrator was last proposed

configVars == <<now, config, noticed>>

Roles == [marketAdmin : Keys, guardian : Keys, resolutionAdmin : Keys]

ConfigType ==
    /\ now \in 0 .. MaxTime
    /\ config \in [admin : Keys, pendingAdmin : Keys \cup {NoKey}, adminAfter : Nat,
                   roles : Roles, paused : BOOLEAN,
                   makerBps : 0 .. MaxFeeBps, takerBps : 0 .. MaxFeeBps]
    /\ noticed \in 0 .. MaxTime

(* The state after initialize(roles) by the key that becomes administrator. *)
ConfigInit ==
    /\ now = 0
    /\ \E admin \in Keys, roles \in RoleSets :
         config = [admin |-> admin, pendingAdmin |-> NoKey, adminAfter |-> 0,
                   roles |-> roles, paused |-> FALSE, makerBps |-> 0, takerBps |-> 0]
    /\ noticed = 0

(* External: the cluster clock. *)
Tick ==
    /\ now < MaxTime
    /\ now' = now + 1
    /\ UNCHANGED <<config, noticed>>

(* Slip: only one of the two rates is capped.                              *)
ConfigureTakerUncapped(actor, roles, maker, taker) ==
    /\ actor = config.admin
    /\ maker <= MaxFeeBps
    /\ config' = [config EXCEPT !.roles = roles, !.makerBps = maker, !.takerBps = taker]
    /\ UNCHANGED <<now, noticed>>

Configure(actor, roles, maker, taker) ==
    /\ actor = config.admin
    /\ maker <= MaxFeeBps /\ taker <= MaxFeeBps
    /\ config' = [config EXCEPT !.roles = roles, !.makerBps = maker, !.takerBps = taker]
    /\ UNCHANGED <<now, noticed>>

(* Slip: a re-proposal inherits the notice of the one it replaces.         *)
ProposeKeepingNotice(actor, successor) ==
    /\ actor = config.admin
    /\ successor # config.admin
    /\ config' = [config EXCEPT
                    !.pendingAdmin = successor,
                    !.adminAfter = IF config.pendingAdmin = NoKey THEN now + AdminDelay ELSE @]
    /\ noticed' = now
    /\ UNCHANGED now

(* The zero key as successor cancels a pending transfer. *)
ProposeAdmin(actor, successor) ==
    /\ actor = config.admin
    /\ successor # config.admin
    /\ config' = [config EXCEPT !.pendingAdmin = successor, !.adminAfter = now + AdminDelay]
    /\ noticed' = now
    /\ UNCHANGED now

AcceptAdmin(successor) ==
    /\ successor = config.pendingAdmin
    /\ now >= config.adminAfter
    /\ config' = [config EXCEPT !.admin = successor, !.pendingAdmin = NoKey, !.adminAfter = 0]
    /\ UNCHANGED <<now, noticed>>

Pause(actor, paused) ==
    /\ actor = config.roles.guardian
    /\ paused # config.paused
    /\ config' = [config EXCEPT !.paused = paused]
    /\ UNCHANGED <<now, noticed>>

ConfigNext ==
    \/ Tick
    \/ \E actor \in Keys, roles \in RoleSets, maker, taker \in FeeRates :
         Configure(actor, roles, maker, taker)
    \/ \E actor \in Keys, successor \in Keys \cup {NoKey} : ProposeAdmin(actor, successor)
    \/ \E successor \in Keys : AcceptAdmin(successor)
    \/ \E actor \in Keys, paused \in BOOLEAN : Pause(actor, paused)

ConfigSpec == ConfigInit /\ [][ConfigNext]_configVars

----------------------------------------------------------------------------
(* The administrator changes only to a successor whose proposal stood for  *)
(* the whole AdminDelay: a re-proposal or a cancellation in between starts *)
(* the notice again (propose_admin, accept_admin).                         *)
HandoverNotice ==
    [][config'.admin # config.admin =>
         /\ config'.admin = config.pendingAdmin
         /\ now >= noticed + AdminDelay]_configVars
=============================================================================
