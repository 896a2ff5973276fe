--------------------------- MODULE DurableHistory ---------------------------
(***************************************************************************)
(* What the indexer promises the readers of its database: the events that  *)
(* are stored are of slots up to the cursor, which only moves forward over *)
(* finalized slots; they stay stored; and those missing below the cursor   *)
(* are accounted for.                                                      *)
(***************************************************************************)
EXTENDS Integers

VARIABLES
    final,    \* the last finalized slot
    cursor,   \* the last slot whose history was dealt with, or -1
    events,   \* the slots whose events are stored
    lost      \* the slots given up

history == <<final, cursor, events, lost>>

\* Every slot up to the cursor is stored or given up, and none past it is stored.
Accounted(c, stored, given) == stored \subseteq 1..c /\ (1..c) \ stored \subseteq given

HistoryInit ==
    /\ final \in Nat
    /\ cursor \in -1 .. final
    /\ Accounted(cursor, events, lost)

\* The chain goes on.
Grow == final' > final /\ UNCHANGED <<cursor, events, lost>>

\* A stretch of finalized history becomes durable, or what was missing of one.
Record ==
    /\ cursor <= cursor' /\ cursor' <= final
    /\ events \subseteq events' /\ lost \subseteq lost'
    /\ Accounted(cursor', events', lost')
    /\ UNCHANGED final

HistorySpec == HistoryInit /\ [][Grow \/ Record]_history
=============================================================================
