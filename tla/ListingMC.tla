------------------------------ MODULE ListingMC -----------------------------
(***************************************************************************)
(* TLC instance of Market: one market from its creation to the archive,    *)
(* with three stock tokens for two legs; the issuer of one has controls.   *)
(* A second market exists only as the subject of a commitment signed for   *)
(* the wrong market.  Other behaviours follow the configuration alone:     *)
(* three keys that may all become administrator, and a clock that runs     *)
(* past two full notices.  Others follow the console from which operators  *)
(* create, set up and resolve markets.                                     *)
(***************************************************************************)
EXTENDS Market, ConsoleMC

CONSTANTS Admin, Resolver, Split, Spare, M

VARIABLE focus   \* "listing", "handover" or "console"

MCRoles == [marketAdmin |-> Admin, guardian |-> Resolver, resolutionAdmin |-> Resolver]
MCRoleSets ==
    {MCRoles} \cup {[marketAdmin |-> k, guardian |-> k, resolutionAdmin |-> k] : k \in Keys}
MCControls == [k \in Mints |-> IF k = Split THEN {"pausable", "scaled", "hook"} ELSE {}]
MCTransferFee == [k \in Mints |-> 0]
(* In the band of 1 and unreadable. *)
MCMultipliers == {[mantissa |-> 7, power |-> 8], [mantissa |-> 0, power |-> 1]}
MCCaps == [step |-> 1, tick |-> 2, minNotional |-> 1, maxQuantity |-> 2,
           maxOrder |-> 4, maxWallet |-> 8, maxMarket |-> 16]
MCTerms == [m \in Markets |-> [open |-> 1, cutoff |-> 2, caps |-> MCCaps]]
MCScale == [k \in Mints |-> 2]

(* Configuration stays as initialized.  The issuer of Split acts while     *)
(* tokens can still be listed, and rescales before the market can open.    *)
(* The pool of Spare may be created after the market; nobody has tokens.   *)
MCListingNext ==
    \/ now < 2 /\ Tick /\ UNCHANGED <<poolVars, marketVars>>
    \/ /\ market[M].state \in {NONE, SCHEDULED, OPEN}
       /\ \/ \E paused \in BOOLEAN : IssuerFlags(Split, paused, FALSE, FALSE)
          \/ now = 0 /\ \E m \in Multipliers : Rescale(Split, m, 1)
          \/ \E k \in Mints : /\ k = Spare \/ market[M].state = NONE
                            /\ InitializePool(Admin, k)
       /\ UNCHANGED <<configVars, marketVars>>
    \/ /\ MarketNext
       /\ \A m \in Markets \ {M} : market'[m] = market[m]
       /\ UNCHANGED <<configVars, poolVars>>

MCListingInit ==
    /\ ListingInit
    /\ \/ /\ focus \in {"listing", "handover"} /\ ConsoleDone
          /\ focus = "listing" => config.admin = Admin /\ config.roles = MCRoles
       \/ /\ focus = "console" /\ ConsoleInit
          /\ config.admin = Admin /\ config.roles = MCRoles

MCNext ==
    \/ focus = "listing" /\ MCListingNext /\ UNCHANGED <<consoleVars, focus>>
    \/ /\ focus = "handover" /\ ConfigNext
       /\ UNCHANGED <<poolVars, marketVars, consoleVars, focus>>
    \/ focus = "console" /\ ConsoleNext /\ UNCHANGED <<ListingVars, focus>>

MCListingSpec == MCListingInit /\ [][MCNext]_<<ListingVars, consoleVars, focus>>
=============================================================================
