---------------------------- MODULE LiveIndexMC ----------------------------
\* Small instances of the live index.
EXTENDS LiveIndex

\* A listing with its first order, then the order closed while the mint changes.
MCWrites(listed) ==
    IF listed THEN {[touched |-> {Order, Mint}, closes |-> {Order}]}
    ELSE {[touched |-> {Market, Order}, closes |-> {}]}

\* After the listing either the mint changes or the order does.
MCSeedWrites(listed) ==
    IF listed THEN {[touched |-> {Mint}, closes |-> {}], [touched |-> {Order}, closes |-> {}]}
    ELSE {[touched |-> {Market, Order}, closes |-> {}]}
=============================================================================
