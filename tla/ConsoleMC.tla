------------------------------ MODULE ConsoleMC -----------------------------
(***************************************************************************)
(* TLC instance of the operators' console.  A behaviour follows the        *)
(* evidence of a market that trades, a batch of markets to create, or the  *)
(* set-up of a created market.  A batch is followed until two forms        *)
(* overlap, since nothing is claimed of it from there on; to the form an   *)
(* approved packet is as good as one that was prepared.                    *)
(***************************************************************************)
EXTENDS Console

CONSTANTS MaxBatchPackets   \* bound: packets in a behaviour that follows a batch

VARIABLE part    \* "evidence", "batch" or "setup"

consoleVars == <<batchVars, setupVars, part>>

MCBaseTokens == <<"x", "y">>

(* The market was created by an approved packet. *)
Created ==
    /\ packets = <<[Packet(Creation(Subject)) EXCEPT !.status = "approved"]>>
    /\ accounts = [m \in Ids |-> IF m = Subject THEN [Absent EXCEPT !.state = "scheduled"]
                                 ELSE Absent]
    /\ asked = {} /\ flying = {} /\ done = {} /\ tracked = {}
    /\ signing = [k \in Consoles |-> Nowhere]

FormsDone ==
    /\ forms = [k \in Consoles |-> Blank]
    /\ started = 0 /\ overlap = FALSE

ConsoleInit ==
    /\ FormsDone /\ SetupDone
    /\ \/ part = "evidence" /\ Created
       \/ part = "batch" /\ DeskInit
       \/ part = "setup" /\ Created

ConsoleDone == FormsDone /\ SetupDone /\ DeskInit /\ part = "none"

ConsoleNext ==
    /\ \/ part = "evidence" /\ DeskNext /\ UNCHANGED <<formVars, setupVars>>
       \/ /\ part = "batch" /\ ~overlap /\ UNCHANGED setupVars
          /\ FormNext \/ (DeskNext /\ UNCHANGED <<formVars, signing>>)
          /\ \A p \in DOMAIN packets' : packets'[p].status # "approved"
          /\ Len(packets') <= MaxBatchPackets
       \/ part = "setup" /\ SetupNext /\ UNCHANGED formVars
    /\ UNCHANGED part

ConsoleSpec == ConsoleInit /\ [][ConsoleNext]_consoleVars
=============================================================================
