----------------------------- MODULE ChainRelay -----------------------------
(***************************************************************************)
(* The loopback relay of the indexer's one upstream stream                 *)
(* (services/solana-indexer/src/live/relay.ts): a retained buffer of       *)
(* events that consumers resume from by slot.                              *)
(***************************************************************************)
EXTENDS Chain, SequencesExt

CONSTANT
    RetainSlots   \* slots of events kept for consumers that resume

VARIABLES buffer, inbox

relay == <<buffer, inbox>>

\* What a consumer reads when the relay closes its stream.
End == [kind |-> "end", slot |-> 0]

FirstAvailable == IF buffer = <<>> THEN None ELSE buffer[1].slot

Highest(events) ==
    LET slots == {events[i].slot : i \in DOMAIN events}
    IN  CHOOSE s \in slots : \A x \in slots : x <= s

\* Drops events from the head while they are older than the retention window.
Prune(events) ==
    LET floor == Highest(events) - RetainSlots
        first == CHOOSE i \in DOMAIN events :
                    /\ events[i].slot >= floor
                    /\ \A j \in 1..(i - 1) : events[j].slot < floor
    IN  SubSeq(events, first, Len(events))

RelayInit == buffer = <<>> /\ inbox = <<>>

\* Events go to the buffer and to the consumer that is attached, if any.
Publish(events, attached) ==
    /\ buffer' = Prune(buffer \o events)
    /\ inbox' = IF attached THEN inbox \o events ELSE inbox

\* What a consumer that resumes from a slot is sent before the live events.
Replay(from) ==
    IF from = None THEN <<>> ELSE SelectSeq(buffer, LAMBDA e : e.slot >= from)

\* The upstream started over: the retained events are discontinuous, consumers
\* are closed, and the upstream replays from the slot it started over at.
Reset(slot, attached) ==
    /\ buffer' = SelectSeq(buffer, LAMBDA e : e.slot > slot)
    /\ inbox' = IF attached THEN Append(inbox, End) ELSE inbox
=============================================================================
