---------------------------- MODULE LookupKeeper ----------------------------
(***************************************************************************)
(* The lookup-table keeper (services/solana-indexer/src/lookup-keeper.ts): *)
(* passes that append the addresses of live orders to on-chain tables,     *)
(* under a budget a day, while sends fail, the indexer restarts, tables    *)
(* are deactivated by somebody else and an RPC node lags.  An entry stands *)
(* for a chunk of addresses, which go in one transaction.  An extension    *)
(* whose answer is lost may land for as long as its blockhash is valid,    *)
(* whatever passes run meanwhile.  (A table that is created so is in no    *)
(* registry: when it appears makes no difference.)                         *)
(***************************************************************************)
EXTENDS Integers, Sequences, SequencesExt

CONSTANTS
    Entries,      \* entries 1..Entries, in the order of their value
    Passes,       \* calls of sync() that may overlap
    Room,         \* LOOKUP_TABLE_CAPACITY
    DayBudget,    \* dailyAddressBudget
    MaxSends,     \* maxTransactionsPerSync
    MaxTrips      \* bound: failed calls, stale reads, restarts and deactivated tables

ASSUME KeeperAssumption ==
    /\ Entries \in Nat /\ Room \in Nat \ {0} /\ DayBudget \in Nat \ {0}
    /\ MaxSends \in Nat /\ MaxSends > 1

VARIABLES
    wanted,   \* what placements may reference
    tables,   \* the tables on the chain, in the order of creation
    registry, \* the numbers of those in the database
    passes,   \* [call |-> where it is and its locals]
    keeper,   \* the fields of the object: running, spentDay, spent and known
    calendar, \* today: 0 or 1, as days are only compared
    trips,
    late,     \* extensions that were not answered and may land yet
    doubted   \* history: entries that a plan could not know of, landed or about to

keeperVars == <<wanted, tables, registry, passes, keeper, calendar, trips, late, doubted>>

\* room: what the plan still takes from each table it knows of.
NoPass == [at |-> "idle", missing |-> {}, room |-> <<>>, budget |-> 0, sends |-> 0,
           extended |-> 0, created |-> FALSE]
Unknown == {0}
NewKeeper == [running |-> FALSE, day |-> 0, spent |-> 0, known |-> Unknown]

Trip == trips < MaxTrips /\ trips' = trips + 1
Smooth == UNCHANGED trips

Least(s) == CHOOSE x \in s : \A y \in s : x <= y

\* What the active tables of the registry hold, as a node shows them, and as they are.
Held(view) == UNION {ToSet(view[t].entries) : t \in {u \in registry : view[u].active}}

Present == Held(tables)

\* How a node that lags may show a table: without its newest entries, not there yet, or
\* not deactivated yet.
Earlier(t) ==
    {[entries |-> SubSeq(tables[t].entries, 1, n), active |-> a] :
        n \in 0 .. Len(tables[t].entries), a \in BOOLEAN}

Views ==
    {v \in [registry -> UNION {Earlier(t) : t \in registry}] :
        \A t \in registry : v[t] \in Earlier(t)}

-----------------------------------------------------------------------------
\* However a pass ends, the next may run.
Ends(p) == passes' = [passes EXCEPT ![p] = NoPass]
Idle(k) == [k EXCEPT !.running = FALSE]
Unread(k) == [k EXCEPT !.known = Unknown]

\* Slip: passes overlap.
NeverRunning == FALSE

\* A pass is under way.
Running == keeper.running

\* sync(): the budget of the day, and nothing to do if all is known to be there.
Sync(p) ==
    /\ passes[p].at = "idle" /\ ~Running
    /\ LET spent == IF calendar # keeper.day THEN 0 ELSE keeper.spent
           k == [keeper EXCEPT !.running = TRUE, !.day = calendar, !.spent = spent]
       IN  IF k.known # Unknown /\ wanted \subseteq k.known
           THEN keeper' = Idle(k) /\ UNCHANGED passes
           ELSE /\ keeper' = k
                /\ passes' = [passes EXCEPT ![p] = [NoPass EXCEPT !.at = "tables", !.missing = wanted,
                                                      !.budget = DayBudget - spent, !.sends = MaxSends]]
    /\ Smooth /\ UNCHANGED <<wanted, tables, registry, calendar, late, doubted>>

\* tables(), and planLookupExtensions(): what is missing from every active table that the
\* node shows, and the room that they have; or the read fails.
Reads(p, view) ==
    /\ keeper' = [keeper EXCEPT !.known = Held(view)]
    /\ passes' = [passes EXCEPT ![p].at = "extend", ![p].missing = @ \ Held(view),
                                ![p].room = [t \in registry |-> IF view[t].active
                                               THEN Room - Len(view[t].entries) ELSE 0]]
    /\ doubted' = doubted \cup (Present \ Held(view)) \cup {x.entry : x \in late}

ReadTables(p) ==
    /\ passes[p].at = "tables"
    /\ \/ Reads(p, tables) /\ Smooth
       \/ Trip /\ \E view \in Views : Reads(p, view)
       \/ Trip /\ Ends(p) /\ keeper' = Idle(keeper) /\ UNCHANGED doubted
    /\ UNCHANGED <<wanted, tables, registry, calendar, late>>

Planned(pass) == {t \in DOMAIN pass.room : pass.room[t] > 0}

\* An extension of a full or deactivated table fails on the chain.
Extendable(t) == tables[t].active /\ Len(tables[t].entries) < Room

Extended(t, a) == tables' = [tables EXCEPT ![t].entries = Append(@, a)]

\* extend(): one transaction, to the oldest table with room; all fails if it does.
Extend(p) ==
    /\ passes[p].at = "extend" /\ passes[p].missing # {} /\ Planned(passes[p]) # {}
    /\ passes[p].sends > 0 /\ passes[p].extended < passes[p].budget
    /\ \E t \in {Least(Planned(passes[p]))}, a \in {Least(passes[p].missing)} :
         \/ /\ Extendable(t) /\ Smooth /\ Extended(t, a) /\ UNCHANGED late
            /\ keeper' = [Unread(keeper) EXCEPT !.spent = @ + 1]
            /\ passes' = [passes EXCEPT ![p].missing = @ \ {a}, ![p].room[t] = @ - 1,
                                        ![p].sends = @ - 1, ![p].extended = @ + 1]
         \/ /\ \/ ~Extendable(t) /\ Smooth /\ UNCHANGED late
               \/ Trip /\ late' \in {late, late \cup {[table |-> t, entry |-> a, send |-> trips]}}
            /\ UNCHANGED tables
            /\ keeper' = Idle(Unread(keeper)) /\ Ends(p)
    /\ UNCHANGED <<wanted, registry, calendar, doubted>>

\* An extension that nobody waits for any more lands, or fails, or its blockhash runs out.
Settles ==
    /\ \E x \in late :
         /\ late' = late \ {x}
         /\ \/ Extendable(x.table) /\ Extended(x.table, x.entry)
            \/ UNCHANGED tables
    /\ UNCHANGED <<wanted, registry, passes, keeper, calendar, trips, doubted>>

\* A new table needs two transactions, and a pass creates one.
MayCreate(pass) == ~pass.created /\ pass.sends > 1 /\ pass.extended < pass.budget

\* The plan is done, or the pass has no transactions or no budget left.
Finish(p) ==
    LET pass == passes[p]
    IN  /\ pass.at = "extend"
        /\ \/ pass.missing = {}
           \/ Planned(pass) # {} /\ (pass.sends <= 0 \/ pass.extended >= pass.budget)
           \/ Planned(pass) = {} /\ ~MayCreate(pass)
        /\ Ends(p) /\ keeper' = Idle(keeper)
        /\ Smooth /\ UNCHANGED <<wanted, tables, registry, calendar, late, doubted>>

NewTable == Append(tables, [entries |-> <<>>, active |-> TRUE])

\* A table is created when the others are full.
CreateTable(p) ==
    /\ passes[p].at = "extend" /\ passes[p].missing # {}
    /\ Planned(passes[p]) = {} /\ MayCreate(passes[p])
    /\ \/ /\ tables' = NewTable /\ Smooth
          /\ passes' = [passes EXCEPT ![p].at = "register"]
          /\ keeper' = Unread(keeper)
       \/ /\ tables' \in {tables, NewTable} /\ Trip
          /\ keeper' = Idle(Unread(keeper)) /\ Ends(p)
    /\ UNCHANGED <<wanted, registry, calendar, late, doubted>>

\* putLookupTable(), before the table is extended.
RegisterTable(p) ==
    /\ passes[p].at = "register"
    /\ \/ /\ registry' = registry \cup {Len(tables)} /\ Smooth
          /\ passes' = [passes EXCEPT ![p].at = "extend", ![p].sends = @ - 1, ![p].created = TRUE,
                                      ![p].room = [t \in {Len(tables)} |-> Room]]
          /\ UNCHANGED keeper
       \/ /\ UNCHANGED registry /\ Trip
          /\ keeper' = Idle(keeper) /\ Ends(p)
    /\ UNCHANGED <<wanted, tables, calendar, late, doubted>>

\* Slip: what is known stays known.
NeverOld == FALSE

\* What was read of the tables gets older than refreshMs at some time.
Old == TRUE

Age ==
    /\ keeper.known # Unknown /\ Old
    /\ keeper' = Unread(keeper)
    /\ UNCHANGED <<wanted, tables, registry, passes, calendar, trips, late, doubted>>

-----------------------------------------------------------------------------
\* The indexer restarts.
Restart ==
    /\ Trip
    /\ passes' = [p \in Passes |-> NoPass]
    /\ keeper' = NewKeeper
    /\ UNCHANGED <<wanted, tables, registry, calendar, late, doubted>>

\* An order of a new participant rests.
Want ==
    /\ \E a \in (1..Entries) \ wanted : wanted' = wanted \cup {a}
    /\ UNCHANGED <<tables, registry, passes, keeper, calendar, trips, late, doubted>>

Deactivate ==
    /\ Trip
    /\ \E t \in DOMAIN tables : tables[t].active /\ tables' = [tables EXCEPT ![t].active = FALSE]
    /\ UNCHANGED <<wanted, registry, passes, keeper, calendar, late, doubted>>

\* Passes begin far more often than days.
NextDay ==
    /\ calendar = keeper.day
    /\ calendar' = 1 - calendar
    /\ UNCHANGED <<wanted, tables, registry, passes, keeper, trips, late, doubted>>

KeeperInit ==
    /\ wanted = {} /\ tables = <<>> /\ registry = {}
    /\ passes = [p \in Passes |-> NoPass]
    /\ keeper = NewKeeper
    /\ calendar = 0 /\ trips = 0
    /\ late = {} /\ doubted = {}

PassSteps(p) ==
    Sync(p) \/ ReadTables(p) \/ Extend(p) \/ Finish(p) \/ CreateTable(p) \/ RegisterTable(p)

KeeperNext ==
    \/ \E p \in Passes : PassSteps(p)
    \/ Settles \/ Restart \/ Want \/ Deactivate \/ Age \/ NextDay

\* The timer goes on calling sync(), its calls return, and days pass.
KeeperFairness ==
    /\ WF_keeperVars(\E p \in Passes : PassSteps(p))
    /\ WF_keeperVars(Age) /\ WF_keeperVars(NextDay)

KeeperSpec == KeeperInit /\ [][KeeperNext]_keeperVars /\ KeeperFairness

-----------------------------------------------------------------------------
\* The tables that clients learn of.
Kept == {t \in registry : tables[t].active}

\* Nothing is paid for twice but what a plan could not know of: any other entry is in one
\* place of the active tables.  And what one process has seen answered on a day is within
\* its budget.
PaidOnce ==
    /\ \A t, u \in Kept : \A i \in DOMAIN tables[t].entries, j \in DOMAIN tables[u].entries :
         tables[t].entries[i] = tables[u].entries[j] /\ tables[t].entries[i] \notin doubted
            => t = u /\ i = j
    /\ keeper.spent <= DayBudget

\* "extensions sent by the previous sync are already visible, so they are not appended
\* twice" (lookup-keeper.ts:128): no entry at all is in two places of the active tables.
NeverTwice ==
    \A t, u \in Kept : \A i \in DOMAIN tables[t].entries, j \in DOMAIN tables[u].entries :
        tables[t].entries[i] = tables[u].entries[j] => t = u /\ i = j

\* In the end everything that placements may reference is in a table of the registry,
\* whatever failed on the way.
AllKept == <>[](wanted \subseteq Present)
=============================================================================
