-------------------------- MODULE WalletController --------------------------
(***************************************************************************)
(* The wallet controller of the user interface (lib/wallet/controller.ts,  *)
(* session.ts, injected.ts) in the tabs of one browser.  They share the    *)
(* storage and tell each other of its changes; the extension shows each    *)
(* tab an account, which changes under a request that is under way.        *)
(* Chain id, messages and the lifetime of a saved session are left out.    *)
(***************************************************************************)
EXTENDS Integers, FiniteSets

CONSTANTS
    Tabs,
    Accounts,
    Nothing,    \* no account, no session
    MaxRequests,\* bound: requests of a tab, those of an earlier mount included
    MaxTrips    \* bound: what the user, the extension and the API do of their own accord

ASSUME WalletAssumption == Nothing \notin Accounts /\ MaxRequests \in Nat \ {0} /\ MaxTrips \in Nat

VARIABLES
    tabs,       \* of a controller: account, session, selected, connecting, restoring
    requests,   \* of a tab: the calls of establish, authenticate and sendTransaction
    keys,       \* publicKey of the provider of a tab, and whether the tab was told of it
    storage,    \* the remembered wallet and the saved session
    notices,    \* storage events on their way to a tab
    issued,     \* tokens the API has issued
    sent,       \* history: transactions sent, and under which identity
    disturbed,  \* history: the identity of the tab changed since its last review
    trips

controllerVars == <<tabs, requests, keys, storage, notices, issued, sent, trips>>
walletVars == <<controllerVars, disturbed>>

Away == [account |-> Nothing, session |-> Nothing, selected |-> FALSE, connecting |-> FALSE,
         restoring |-> TRUE]

\* current: the generation has not moved since it was captured; holds: it is the pending one.
Request(kind, at, t) ==
    [kind |-> kind, at |-> at, current |-> TRUE, holds |-> TRUE,
     owner |-> tabs[t].account, session |-> tabs[t].session]

Trip == trips < MaxTrips /\ trips' = trips + 1

-----------------------------------------------------------------------------
\* generation++.
NextGeneration(calls) == {[r EXCEPT !.current = FALSE] : r \in calls}

\* A change of the storage is told to the other tabs.
Write(t, value) ==
    /\ storage' = value
    /\ notices' = [u \in Tabs |-> IF u = t THEN notices[u]
                                  ELSE notices[u] \cup {k \in {"wallet", "session"} : value[k] # storage[k]}]
Keep == UNCHANGED <<storage, notices>>

\* dropConnection(): the other tabs of this browser follow unless it is they who began.
Drop(t) ==
    /\ tabs' = [tabs EXCEPT ![t].account = Nothing, ![t].session = Nothing, ![t].selected = FALSE]
    /\ requests' = [requests EXCEPT ![t] = NextGeneration(@)]
DropAndForget(t) == Drop(t) /\ Write(t, [wallet |-> Nothing, session |-> Nothing])

\* invalidateSession().
Invalidate(t) ==
    /\ tabs' = [tabs EXCEPT ![t].session = Nothing]
    /\ requests' = [requests EXCEPT ![t] = NextGeneration(@)]
    /\ Write(t, [storage EXCEPT !.session = Nothing])

\* restoreSession(): what is saved for the account, unless there is a session.
Restored(tab, key) ==
    IF tab.session = Nothing /\ tab.account # Nothing /\ key = tab.account
       /\ storage.session # Nothing /\ storage.session.owner = tab.account
    THEN storage.session ELSE tab.session

-----------------------------------------------------------------------------
\* capture(): a request is for the account that is shown and that the wallet has.
MayBegin(t) ==
    /\ \A r \in requests[t] : ~r.holds
    /\ Cardinality(requests[t]) < MaxRequests
Capture(t) == tabs[t].account # Nothing /\ keys[t].key = tabs[t].account

\* Slip: only the account is compared.
SameAccount(t, r) == tabs[t].account = r.owner /\ keys[t].key = r.owner

\* check(), after each await.
Check(t, r) ==
    /\ r.current
    /\ tabs[t].account = r.owner /\ keys[t].key = r.owner
    /\ tabs[t].session = r.session

\* finish(): only the pending request ends the state it began.
Finish(t, r) ==
    /\ requests' = [requests EXCEPT ![t] = @ \ {r}]
    /\ tabs' = [tabs EXCEPT ![t].connecting = @ /\ ~r.holds]

Advance(t, r, at) ==
    /\ requests' = [requests EXCEPT ![t] = (@ \ {r}) \cup {[r EXCEPT !.at = at]}]
    /\ UNCHANGED tabs

\* A request fails: the wallet refuses, the network does, or check() throws.
Fails(t) ==
    /\ \E r \in requests[t] : Finish(t, r)
    /\ UNCHANGED <<keys, storage, notices, issued, sent, trips>>

-----------------------------------------------------------------------------
\* establish(), up to the wallet.
Begin(t) ==
    /\ requests' = [requests EXCEPT ![t] = @ \cup {Request("connect", "wallet", t)}]
    /\ tabs' = [tabs EXCEPT ![t].connecting = TRUE, ![t].selected = TRUE, ![t].restoring = FALSE]

Connect(t) ==
    /\ Trip /\ MayBegin(t) /\ Begin(t)
    /\ UNCHANGED <<keys, storage, notices, issued, sent>>

\* restore(), after start(): a remembered wallet is connected again.
Restore(t) ==
    /\ tabs[t].restoring
    /\ IF storage.wallet # Nothing /\ MayBegin(t) THEN Begin(t)
       ELSE tabs' = [tabs EXCEPT ![t].restoring = FALSE] /\ UNCHANGED requests
    /\ UNCHANGED <<keys, storage, notices, issued, sent, trips>>

\* The wallet answers with the account it has, or with one that the user picks; another
\* one than was remembered ends the saved session.
WalletAnswers(t) ==
    /\ \E r \in requests[t], a \in Accounts :
        /\ r.kind = "connect" /\ r.at = "wallet" /\ r.current
        /\ keys[t].key \in {Nothing, a}
        /\ keys' = [keys EXCEPT ![t].key = a]
        /\ tabs' = [tabs EXCEPT ![t].account = a, ![t].session = Nothing]
        /\ requests' = [requests EXCEPT ![t] =
             NextGeneration(@ \ {r}) \cup {[r EXCEPT !.at = "network", !.owner = a]}]
        /\ Write(t, [wallet |-> a, session |-> IF storage.wallet \in {Nothing, a} THEN storage.session
                                               ELSE Nothing])
    /\ UNCHANGED <<issued, sent, trips>>

\* ensureNetwork(), in establish() or from a page.
NetworkVerified(t) ==
    /\ \E r \in requests[t] :
        /\ r.kind = "connect" /\ r.at = "network"
        /\ r.current /\ keys[t].key = r.owner
        /\ requests' = [requests EXCEPT ![t] = @ \ {r}]
        /\ tabs' = [tabs EXCEPT ![t].session = Restored(tabs[t], keys[t].key),
                                ![t].connecting = @ /\ ~r.holds]
    /\ UNCHANGED <<keys, storage, notices, issued, sent, trips>>

EnsureNetwork(t) ==
    /\ Capture(t)
    /\ tabs' = [tabs EXCEPT ![t].session = Restored(tabs[t], keys[t].key)]
    /\ UNCHANGED <<requests, keys, storage, notices, issued, sent, trips>>

\* disconnect(): the extension may or may not follow.
Disconnect(t) ==
    /\ Trip
    /\ DropAndForget(t)
    /\ \E key \in {keys[t].key, Nothing} : keys' = [keys EXCEPT ![t].key = key]
    /\ UNCHANGED <<issued, sent>>

-----------------------------------------------------------------------------
\* authenticate() and sendTransaction() begin.
Authenticate(t) ==
    /\ Trip /\ MayBegin(t) /\ Capture(t)
    /\ requests' = [requests EXCEPT ![t] = @ \cup {Request("sign in", "network", t)}]
    /\ UNCHANGED <<tabs, keys, storage, notices, issued, sent>>

SendTransaction(t) ==
    /\ Trip /\ MayBegin(t) /\ Capture(t)
    /\ requests' = [requests EXCEPT ![t] = @ \cup {Request("send", "tables", t)}]
    /\ UNCHANGED <<tabs, keys, storage, notices, issued, sent>>

\* What was awaited is there: the network, the challenge, the signature, the token; the
\* lookup tables, the transaction, its signature.
Steps == [network |-> "challenge", challenge |-> "signature", signature |-> "token",
          tables |-> "transaction", transaction |-> "signed"]

Continue(t) ==
    /\ \E r \in requests[t] :
        /\ r.kind # "connect" /\ r.at \in DOMAIN Steps
        /\ Check(t, r)
        /\ IF r.at = "network" /\ r.session # Nothing THEN Finish(t, r) ELSE Advance(t, r, Steps[r.at])
    /\ UNCHANGED <<keys, storage, notices, issued, sent, trips>>

\* The token is there: it is the session of the tab, and saved.
SignedIn(t) ==
    /\ \E r \in requests[t] :
        /\ r.at = "token" /\ Check(t, r)
        /\ issued' = issued + 1
        /\ requests' = [requests EXCEPT ![t] = @ \ {r}]
        /\ tabs' = [tabs EXCEPT ![t].session = [owner |-> r.owner, token |-> issued + 1],
                                ![t].connecting = @ /\ ~r.holds]
        /\ Write(t, [storage EXCEPT !.session = [owner |-> r.owner, token |-> issued + 1]])
    /\ UNCHANGED <<keys, sent, trips>>

\* The signed transaction is sent as it was reviewed; what follows only awaits its fate.
Sends(t) ==
    /\ \E r \in requests[t] :
        /\ r.at = "signed" /\ Check(t, r)
        /\ Finish(t, r)
        /\ sent' = sent \cup {[owner |-> r.owner, shown |-> tabs[t].account, signer |-> keys[t].key,
                               reviewed |-> r.holds /\ ~disturbed[t]]}
    /\ UNCHANGED <<keys, storage, notices, issued, trips>>

-----------------------------------------------------------------------------
\* The extension shows the tab another account, or none ...
KeyChanges(t) ==
    /\ Trip
    /\ \E a \in (Accounts \cup {Nothing}) \ {keys[t].key} :
        keys' = [keys EXCEPT ![t] = [key |-> a, told |-> FALSE]]
    /\ UNCHANGED <<tabs, requests, storage, notices, issued, sent>>

\* changed() to another account: its session does not follow.
ChangedTo(t, key) ==
    /\ tabs' = [tabs EXCEPT ![t].account = key, ![t].session = Nothing]
    /\ requests' = [requests EXCEPT ![t] = NextGeneration(@)]
    /\ Write(t, [wallet |-> key, session |-> Nothing])

\* ... and then tells it, if the tab listens.
KeyEvent(t) ==
    /\ ~keys[t].told
    /\ keys' = [keys EXCEPT ![t].told = TRUE]
    /\ LET key == keys[t].key
           heard == tabs[t].selected /\ key # tabs[t].account
                     /\ ~(tabs[t].account = Nothing /\ tabs[t].connecting)
       IN  IF ~heard THEN UNCHANGED <<tabs, requests>> /\ Keep
           ELSE IF key = Nothing THEN DropAndForget(t)
           ELSE ChangedTo(t, key)
    /\ UNCHANGED <<issued, sent, trips>>

\* The extension says that it has disconnected.
ProviderDisconnects(t) ==
    /\ Trip
    /\ keys' = [keys EXCEPT ![t].key = Nothing]
    /\ IF tabs[t].selected THEN DropAndForget(t) ELSE UNCHANGED <<tabs, requests>> /\ Keep
    /\ UNCHANGED <<issued, sent>>

\* The session expires, or the API refuses its token.
SessionEnds(t) ==
    /\ Trip
    /\ tabs[t].session # Nothing
    /\ Invalidate(t)
    /\ UNCHANGED <<keys, issued, sent>>

-----------------------------------------------------------------------------
\* Slip: a session that another tab has replaced stays.
ForeignOnlyWhilePending(t) ==
    /\ tabs[t].session = Nothing /\ \E r \in requests[t] : r.holds

\* storageChanged() of the session: it is no longer the saved one, or one that is being
\* asked for may no longer be wanted.
ForeignSession(t) ==
    \/ tabs[t].session # Nothing /\ storage.session # tabs[t].session
    \/ tabs[t].session = Nothing /\ \E r \in requests[t] : r.holds

ForeignWallet(t) ==
    storage.wallet = Nothing \/ (tabs[t].selected /\ storage.wallet # tabs[t].account)

StorageEvent(t) ==
    /\ \E k \in notices[t] :
        /\ notices' = [notices EXCEPT ![t] = @ \ {k}]
        /\ IF k = "wallet" /\ ForeignWallet(t) THEN Drop(t)
           ELSE IF k = "session" /\ ForeignSession(t)
           THEN /\ tabs' = [tabs EXCEPT ![t].session = Nothing]
                /\ requests' = [requests EXCEPT ![t] = NextGeneration(@)]
           ELSE UNCHANGED <<tabs, requests>>
    /\ UNCHANGED <<keys, storage, issued, sent, trips>>

\* stop() and start(): what is under way belongs to nobody, but it is under way.
Remount(t) ==
    /\ Trip
    /\ tabs' = [tabs EXCEPT ![t] = Away]
    /\ requests' = [requests EXCEPT ![t] = {[r EXCEPT !.current = FALSE, !.holds = FALSE] : r \in @}]
    /\ UNCHANGED <<keys, storage, notices, issued, sent>>

\* The page is loaded anew.
Reload(t) ==
    /\ Trip
    /\ tabs' = [tabs EXCEPT ![t] = Away]
    /\ requests' = [requests EXCEPT ![t] = {}]
    /\ keys' = [keys EXCEPT ![t] = [key |-> Nothing, told |-> TRUE]]
    /\ notices' = [notices EXCEPT ![t] = {}]
    /\ UNCHANGED <<storage, issued, sent>>

WalletInit ==
    /\ tabs = [t \in Tabs |-> Away]
    /\ requests = [t \in Tabs |-> {}]
    /\ keys = [t \in Tabs |-> [key |-> Nothing, told |-> TRUE]]
    /\ storage = [wallet |-> Nothing, session |-> Nothing]
    /\ notices = [t \in Tabs |-> {}]
    /\ issued = 0 /\ sent = {} /\ trips = 0
    /\ disturbed = [t \in Tabs |-> FALSE]

TabActs(t) ==
    \/ Connect(t) \/ Restore(t) \/ WalletAnswers(t) \/ NetworkVerified(t) \/ EnsureNetwork(t)
    \/ Disconnect(t) \/ Authenticate(t) \/ SendTransaction(t) \/ Continue(t) \/ SignedIn(t)
    \/ Sends(t) \/ Fails(t)
    \/ KeyChanges(t) \/ KeyEvent(t) \/ ProviderDisconnects(t) \/ SessionEnds(t)
    \/ StorageEvent(t) \/ Remount(t) \/ Reload(t)

\* A review begins with a request; from then on a change of account or session disturbs it.
Begins(t) == \E r \in requests'[t] \ requests[t] : r.at = "tables"
SameIdentity(t) ==
    tabs'[t].account = tabs[t].account /\ tabs'[t].session = tabs[t].session

WalletNext ==
    /\ \E t \in Tabs : TabActs(t)
    /\ disturbed' = [t \in Tabs |-> ~Begins(t) /\ (disturbed[t] \/ ~SameIdentity(t))]

\* Events are delivered; nobody has to act.
WalletFairness == \A t \in Tabs : WF_walletVars(StorageEvent(t) /\ WalletNext)

WalletSpec == WalletInit /\ [][WalletNext]_walletVars /\ WalletFairness

-----------------------------------------------------------------------------
\* A transaction is sent for the account that is shown and that signs, and nothing of the
\* identity changed since it was reviewed, not even there and back.
SentAsReviewed ==
    \A s \in sent : s.owner = s.shown /\ s.owner = s.signer /\ s.reviewed

\* Once nobody acts, the tabs that are connected agree with the storage, and so with
\* each other: a session that ended in one tab has ended in all.
OneIdentity ==
    <>[](\A t \in Tabs :
        /\ tabs[t].account # Nothing => tabs[t].account = storage.wallet
        /\ tabs[t].session # Nothing => tabs[t].session = storage.session)
=============================================================================
