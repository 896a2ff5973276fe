------------------------------- MODULE EdgeMC -------------------------------
(***************************************************************************)
(* TLC instance of what stands between the system and its users: the index *)
(* stream with a store of the browser, the tabs of a wallet, and the       *)
(* Polymarket feed.  They share nothing: each behaviour follows one, and   *)
(* the others stand where they have nothing left to do.                    *)
(***************************************************************************)
EXTENDS BrowserStores, PolymarketFeed, WalletController

CONSTANT MCAccount   \* the account that the tabs start with

VARIABLE focus       \* what the behaviour follows

edgeVars == <<browserVars, feedVars, walletVars, focus>>

\* No page is open, and nothing is under way.
BrowserDone ==
    /\ views = [up |-> TRUE, head |-> 0, final |-> 0]
    /\ store = "none" /\ touched = {}
    /\ conn = Closed /\ wire = <<>>
    /\ image = [slot |-> 0, reading |-> Never] /\ mishaps = 0 /\ noticed = TRUE /\ doubt = Never
    /\ entry = Data(0) /\ read = NoRead /\ health = [slot |-> 0, ok |-> TRUE]

\* The ingestor is down.
FeedDone ==
    /\ version = LastVersion
    /\ book = Snapshot(LastVersion)
    /\ socket = [gen |-> 1, state |-> "none", wire |-> <<>>]
    /\ work = <<>>
    /\ reconnect = [timer |-> FALSE, pass |-> "timer"]
    /\ troubles = [count |-> 0, store |-> TRUE]

\* Two tabs were opened with one account, which has signed in or not: a state that the
\* controllers reach.
TabsInit ==
    /\ storage \in [wallet : {MCAccount}, session : {Nothing, [owner |-> MCAccount, token |-> 1]}]
    /\ tabs = [t \in Tabs |-> [account |-> MCAccount, session |-> storage.session, selected |-> TRUE,
                               connecting |-> FALSE, restoring |-> FALSE]]
    /\ requests = [t \in Tabs |-> {}]
    /\ keys = [t \in Tabs |-> [key |-> MCAccount, told |-> TRUE]]
    /\ notices = [t \in Tabs |-> {}]
    /\ issued = 1 /\ sent = {} /\ trips = 0
    /\ disturbed = [t \in Tabs |-> FALSE]

\* Nothing can be missed of slots that change nothing, and which of them change the
\* positions makes no difference to what is read and written.
StoresWatched ==
    /\ BrowserInit /\ touched # {}
    /\ store = "positions" => touched = 1..EndSlot

EdgeInit ==
    \/ focus = "browser" /\ StoresWatched /\ FeedDone /\ WalletInit
    \/ focus = "feed" /\ BrowserDone /\ FeedInit /\ WalletInit
    \/ focus = "wallet" /\ BrowserDone /\ FeedDone /\ (WalletInit \/ TabsInit)

EdgeNext ==
    \/ focus = "browser" /\ BrowserNext /\ UNCHANGED <<feedVars, walletVars, focus>>
    \/ focus = "feed" /\ FeedNext /\ UNCHANGED <<browserVars, walletVars, focus>>
    \/ focus = "wallet" /\ WalletNext /\ UNCHANGED <<browserVars, feedVars, focus>>

EdgeSpec ==
    /\ EdgeInit /\ [][EdgeNext]_edgeVars
    /\ BrowserFairness /\ FeedFairness /\ WalletFairness
=============================================================================
