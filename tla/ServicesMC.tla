---------------------------- MODULE ServicesMC -----------------------------
(***************************************************************************)
(* TLC instance of the off-chain services, which share nothing but the     *)
(* cluster: each behaviour follows one of them, and the others stand where *)
(* they have nothing left to do.                                           *)
(***************************************************************************)
EXTENDS MarketMaker, DelegatedOrders, IndexService, LookupKeeper

VARIABLE focus   \* the service that runs

vars == <<cluster, botVars, apiVars, serviceVars, keeperVars, focus>>

MCOrderOf(r) == "o1"

\* Every request was answered, every slot is durable, and no pass begins.
OrdersDone ==
    /\ requests = [r \in Requests |-> [at |-> "failed", row |-> Unwritten, seen |-> 0, replans |-> 0]]
    /\ lock = Nobody
    /\ journal = [o \in Orders |-> Unwritten]
    /\ changes = {}
    /\ mishaps = [crashes |-> 0, lost |-> 0]

IndexDone ==
    /\ head = [confirmed |-> LastSlot, final |-> LastSlot]
    /\ live = [up |-> TRUE, base |-> 0, confirmed |-> LastSlot, final |-> LastSlot]
    /\ worker = [Off EXCEPT !.at = "idle"]
    /\ queue = <<>> /\ gap = FALSE /\ tail = <<>> /\ broken = FALSE
    /\ db = [cursor |-> LastSlot, events |-> 1..LastSlot, slot |-> LastSlot, healthy |-> TRUE]
    /\ upsets = 0 /\ skipped = {}

\* The cluster has come to its last block, and the bot is down.
MakerDone ==
    /\ height = MaxHeight /\ txs = <<>>
    /\ bot = Down(InitialState) /\ disk = InitialState
    /\ leftover = FALSE /\ day = 1 /\ faults = 0

KeeperDone ==
    /\ wanted = {} /\ tables = <<>> /\ registry = {}
    /\ passes = [p \in Passes |-> NoPass]
    /\ keeper = [NewKeeper EXCEPT !.running = TRUE]
    /\ calendar = 1 /\ trips = 0
    /\ late = {} /\ doubted = {}

ServicesInit ==
    \/ focus = "market maker" /\ MakerInit /\ OrdersDone /\ IndexDone /\ KeeperDone
    \/ focus = "orders" /\ MakerInit /\ SubmitInit /\ IndexDone /\ KeeperDone
    \/ focus = "index" /\ MakerDone /\ OrdersDone /\ IndexInit /\ KeeperDone
    \/ focus = "keeper" /\ MakerDone /\ OrdersDone /\ IndexDone /\ KeeperInit

ServicesNext ==
    \/ focus = "market maker" /\ MakerNext /\ UNCHANGED <<apiVars, serviceVars, keeperVars, focus>>
    \/ focus = "orders" /\ SubmitNext /\ UNCHANGED <<botVars, serviceVars, keeperVars, focus>>
    \/ focus = "index" /\ IndexNext /\ UNCHANGED <<cluster, botVars, apiVars, keeperVars, focus>>
    \/ focus = "keeper" /\ KeeperNext /\ UNCHANGED <<cluster, botVars, apiVars, serviceVars, focus>>

ServicesSpec ==
    /\ ServicesInit /\ [][ServicesNext]_vars
    /\ MakerFairness /\ SubmitFairness /\ IndexFairness /\ KeeperFairness

\* Repeated requests for an order send one transaction, whatever answer was lost:
\* "an ambiguous RPC result never creates another transaction" (delegated-orders.ts:161).
OneTransaction ==
    focus = "orders" =>
      \A o \in Orders : Cardinality({i \in DOMAIN txs : txs[i].body.order = o /\ txs[i].sent}) <= 1
=============================================================================
