------------------------------- MODULE Console ------------------------------
(***************************************************************************)
(* The operators' console as a whole: the evidence, the forms that prepare *)
(* batches of markets, and the set-up of a market, at the same time and on *)
(* the same packets and market accounts.                                   *)
(***************************************************************************)
EXTENDS MarketBatch, MarketSetup

operatorVars == <<batchVars, setupVars>>

OperatorsInit == BatchInit /\ SetupDone

OperatorsNext ==
    \/ BatchNext /\ UNCHANGED setupVars
    \/ SetupNext /\ UNCHANGED formVars

OperatorsSpec == OperatorsInit /\ [][OperatorsNext]_operatorVars
=============================================================================
