----------------------------- MODULE MarketBatch ----------------------------
(***************************************************************************)
(* The form that prepares a batch of markets: a creation packet for each   *)
(* row, one request after another.  The form lists the saved packets before*)
(* it asks for the rows that were never attempted, and never asks again for*)
(* a row whose outcome it does not know.  All forms are of one operator and*)
(* of the same rows: their markets are the same.                           *)
(***************************************************************************)
EXTENDS EvidenceDesk

CONSTANT MaxForms   \* bound: forms that are started

ASSUME BatchAssumption == MaxForms \in Nat /\ Ids \subseteq Nat   \* in the order of the rows

VARIABLES
    forms,    \* of each console: its serial number, stage, listing and results
    started,  \* forms started so far
    overlap   \* history: a form listed while another form was asking, or a request of another
              \* form had not been answered

batchVars == <<deskVars, forms, started, overlap>>
formVars == <<forms, started, overlap>>

Phases == {"pending", "preparing", "uncertain", "prepared"}
Blank == [serial |-> 0, stage |-> "blank", submits |-> FALSE, listing |-> {},
          results |-> [m \in Ids |-> "pending"]]

(* A form between its listing and the last answer it waits for. *)
Asking(form) == form.submits /\ form.stage \in {"listed", "preparing", "waiting"}

(* What a listing shows of row m: its packets that were not rejected. *)
Listing == [m \in Ids |-> Live(Creation(m))]

\* Slip: a row that is not among the saved packets counts as unattempted.
RecoveredAfresh(results, listing) ==
    [m \in Ids |->
        IF results[m] = "prepared" THEN "prepared"
        ELSE CASE Cardinality(listing[m]) > 1 -> "uncertain"
               [] Cardinality(listing[m]) = 1 -> "prepared"
               [] OTHER -> "pending"]

(* recoverBatchResults: a prepared row stays; a row with one packet is     *)
(* prepared, with several uncertain, and with none what it was.            *)
Recovered(results, listing) ==
    [m \in Ids |->
        IF results[m] = "prepared" THEN "prepared"
        ELSE CASE Cardinality(listing[m]) > 1 -> "uncertain"
               [] Cardinality(listing[m]) = 1 -> "prepared"
               [] OTHER -> results[m]]

(* prepare: none of the markets exists on chain. *)
Start(k) ==
    /\ forms[k].stage = "blank" /\ started < MaxForms
    /\ \A m \in Ids : accounts[m].state = "none"
    /\ started' = started + 1
    /\ forms' = [forms EXCEPT ![k] = [Blank EXCEPT !.serial = started + 1, !.stage = "listing",
                                                   !.submits = TRUE]]
    /\ UNCHANGED <<deskVars, overlap>>

(* "Recover saved packets", or "Prepare remaining unattempted markets". *)
ListAgain(k) ==
    /\ forms[k].stage = "idle"
    /\ \E submits \in BOOLEAN :
         /\ submits => \E m \in Ids : forms[k].results[m] = "pending"
         /\ forms' = [forms EXCEPT ![k].stage = "listing", ![k].submits = submits]
    /\ UNCHANGED <<deskVars, started, overlap>>

(* The API reads the packets for the listing. *)
ReadList(k) ==
    /\ forms[k].stage = "listing"
    /\ forms' = [forms EXCEPT ![k].stage = "listed", ![k].listing = Listing]
    /\ overlap' = (overlap \/
         /\ forms[k].submits
         /\ \/ \E other \in Consoles \ {k} : Asking(forms[other])
            \/ \E request \in asked :
                 request.content.kind = "creation" /\ request.by # forms[k].serial)
    /\ UNCHANGED <<deskVars, started>>

(* The listing arrives and the session is the same; or it does not.  A     *)
(* submit goes on with the rows that are pending.                          *)
TakeList(k) ==
    /\ forms[k].stage = "listed"
    /\ forms' = [forms EXCEPT
         ![k].stage = IF forms[k].submits THEN "preparing" ELSE "idle",
         ![k].results = Recovered(@, forms[k].listing), ![k].listing = {}]
    /\ UNCHANGED <<deskVars, started, overlap>>

ListFails(k) ==
    /\ forms[k].stage \in {"listing", "listed"}
    /\ forms' = [forms EXCEPT ![k].stage = "idle", ![k].listing = {}]
    /\ UNCHANGED <<deskVars, started, overlap>>

(* The next pending row: the session is checked and the request is sent.   *)
(* When the session has changed, or no row is left, the run ends.          *)
AskCreation(k, m) ==
    /\ forms[k].stage = "preparing" /\ forms[k].results[m] = "pending"
    /\ \A r \in Ids : forms[k].results[r] = "pending" => m <= r
    /\ Cardinality(asked) < MaxAsked
    /\ forms' = [forms EXCEPT ![k].stage = "waiting", ![k].results[m] = "preparing"]
    /\ asked' = asked \cup {[content |-> Creation(m), by |-> forms[k].serial]}
    /\ UNCHANGED <<packets, accounts, signing, flying, done, tracked, started, overlap>>

EndRun(k) ==
    /\ forms[k].stage = "preparing"
    /\ forms' = [forms EXCEPT ![k].stage = "idle"]
    /\ UNCHANGED <<deskVars, started, overlap>>

(* The API stores the packet of a creation request; the answer arrives, or *)
(* it is lost, late, or for a session that has changed.                    *)
PrepareCreation(request, heard) ==
    /\ request \in asked /\ request.content.kind = "creation"
    /\ StorePacket(request.content)
    /\ asked' = asked \ {request}
    /\ IF heard
       THEN \E k \in Consoles :
              /\ forms[k].serial = request.by /\ forms[k].stage = "waiting"
              /\ forms[k].results[request.content.id] = "preparing"
              /\ forms' = [forms EXCEPT ![k].stage = "preparing",
                                        ![k].results[request.content.id] = "prepared"]
       ELSE UNCHANGED forms
    /\ UNCHANGED <<accounts, signing, flying, done, tracked, started, overlap>>

(* Thirty seconds without an answer, or an error: the outcome is unknown   *)
(* and the run ends.                                                       *)
GiveUp(k) ==
    /\ forms[k].stage = "waiting"
    /\ forms' = [forms EXCEPT ![k].stage = "idle",
         ![k].results = [m \in Ids |-> IF @[m] = "preparing" THEN "uncertain" ELSE @[m]]]
    /\ UNCHANGED <<deskVars, started, overlap>>

(* The page is reloaded; what the form knew is gone. *)
ReloadForm(k) ==
    /\ forms[k].stage # "blank"
    /\ forms' = [forms EXCEPT ![k] = Blank]
    /\ UNCHANGED <<deskVars, started, overlap>>

BatchInit ==
    /\ DeskInit
    /\ forms = [k \in Consoles |-> Blank]
    /\ started = 0 /\ overlap = FALSE

FormNext ==
    \/ \E k \in Consoles :
         \/ Start(k) \/ ListAgain(k) \/ ReadList(k) \/ TakeList(k) \/ ListFails(k)
         \/ \E m \in Ids : AskCreation(k, m)
         \/ EndRun(k) \/ GiveUp(k) \/ ReloadForm(k)
    \/ \E request \in asked, heard \in BOOLEAN : PrepareCreation(request, heard)

BatchNext == FormNext \/ (DeskNext /\ UNCHANGED formVars)

BatchSpec == BatchInit /\ [][BatchNext]_batchVars

(***************************************************************************)
(* No row of a batch has two packets that were not rejected: "Never retry  *)
(* ambiguous requests automatically" (market-batch.ts).  A reload or a     *)
(* second console may ask for a row again only after it has listed the     *)
(* packets, so this needs that no other form was asking at that time.      *)
(***************************************************************************)
RowsOnce == overlap \/ \A m \in Ids : Cardinality(Live(Creation(m))) <= 1
=============================================================================
