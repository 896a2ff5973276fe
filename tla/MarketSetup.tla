----------------------------- MODULE MarketSetup ----------------------------
(***************************************************************************)
(* From a created market to an open one: consoles list the tokens of the   *)
(* reviewed configuration, create the claim mints of every collateral and  *)
(* open the market, one transaction after another, each list of them read  *)
(* from the chain before its first is signed.  An operator may also list a *)
(* token that is not in the evidence.                                      *)
(***************************************************************************)
EXTENDS EvidenceDesk, SequencesExt

CONSTANTS
    Subject,     \* the market
    BaseTokens,  \* its issuer tokens in the order of the evidence
    Extra,       \* another token of the same stock
    MaxLegs,     \* MAX_BASES
    MaxLoads     \* bound: lists of steps that are loaded

ASSUME SetupAssumption ==
    /\ Subject \in Ids /\ MaxLegs \in Nat /\ MaxLoads \in Nat
    /\ BaseTokens \in Seq(ToSet(BaseTokens)) /\ Len(BaseTokens) <= MaxLegs
    /\ Extra \notin ToSet(BaseTokens)

VARIABLES
    listed,    \* the tokens listed on chain, in order
    minted,   \* the collaterals that have their claim mints; 0 is the quote
    tasks,   \* of each console: the steps it loaded, the next one, and what it waits for
    pipe,    \* set-up transactions that may land
    loads,   \* lists loaded so far
    strayed  \* history: a token was listed on its own before the set-up was complete

setupVars == <<listed, minted, tasks, pipe, loads, strayed>>

Idle == [phase |-> "none", steps |-> <<>>, next |-> 1, kind |-> "setup"]
List(token) == [op |-> "list", arg |-> token]
Claims(c) == [op |-> "claims", arg |-> c]
OpenMarket == [op |-> "open", arg |-> 0]

State == accounts[Subject].state

(* initializeMarketVaults: nothing, when the listed legs differ from the   *)
(* tokens asked for; else what is left to list, in order, and then the     *)
(* claims of every collateral listed by then.                              *)
Differ(tokens) == tokens # <<>> /\ ~IsPrefix(listed, tokens)

(* The collaterals up to this one that have no claim mints, in order. *)
ClaimsLeft(upTo) ==
    LET left == (0 .. upTo) \ minted
    IN  [i \in 1 .. Cardinality(left) |->
            CHOOSE c \in left : Cardinality({d \in left : d <= c}) = i]

Steps(tokens) ==
    LET total == IF Len(tokens) > Len(listed) THEN Len(tokens) ELSE Len(listed)
        missing == ClaimsLeft(total)
    IN  [i \in 1 .. (total - Len(listed)) |-> List(tokens[Len(listed) + i])]
        \o [i \in DOMAIN missing |-> Claims(missing[i])]

(* creationBaseTokens: those of a creation packet that was not rejected;   *)
(* none, while the evidence of the console has not been loaded.            *)
KnownTokens ==
    {<<>>} \cup IF Live(Creation(Subject)) # {} THEN {BaseTokens} ELSE {}

(* setupRemaining, of a market that lists n tokens. *)
CompleteAt(n, tokens) ==
    /\ n > 0 /\ Len(tokens) <= n
    /\ \A c \in 0 .. n : c \in minted

(* A console reads the chain and shows the steps of the set-up panel.      *)
Load(k, steps, kind) ==
    /\ tasks[k].phase = "none" \/ (tasks[k].phase = "stopped" /\ kind = tasks[k].kind)
    /\ loads < MaxLoads
    /\ tasks' = [tasks EXCEPT ![k] = [phase |-> "loaded", steps |-> steps, next |-> 1,
                                      kind |-> kind]]
    /\ loads' = loads + 1
    /\ UNCHANGED <<deskVars, listed, minted, pipe, strayed>>

LoadSetup(k) ==
    /\ State = "scheduled"
    /\ \E tokens \in KnownTokens :
         /\ listed # <<>> \/ tokens # <<>>
         /\ ~CompleteAt(Len(listed), tokens) /\ ~Differ(tokens)
         /\ Load(k, Steps(tokens), "setup")

(* MarketLifecycleAction opens a market whose set-up shows as complete,    *)
(* after whatever is left of it: what is shown is up to eight seconds old, *)
(* and may be without the last tokens.                                     *)
LoadOpening(k) ==
    /\ State = "scheduled"
    /\ \E tokens \in KnownTokens :
         /\ \E shown \in 1 .. Len(listed) : CompleteAt(shown, tokens)
         /\ ~Differ(tokens)
         /\ Load(k, Append(Steps(tokens), OpenMarket), "opening")

(* addIssuerSteps: one more token, and its claims at the next position;    *)
(* when it is listed already, the claims that are missing.                 *)
LoadIssuer(k, token) ==
    /\ State \in {"scheduled", "open"}
    /\ IF token \in ToSet(listed)
       THEN Steps(<<>>) # <<>> /\ Load(k, Steps(<<>>), "issuer")
       ELSE /\ Len(listed) < MaxLegs
            /\ Load(k, <<List(token), Claims(Len(listed) + 1)>>, "issuer")

(* The handlers of the program that the steps call. *)
Runs(step) ==
    CASE step.op = "list" ->
           /\ State \in {"scheduled", "open"}
           /\ Len(listed) < MaxLegs /\ step.arg \notin ToSet(listed)
      [] step.op = "claims" -> step.arg \in 0 .. Len(listed) /\ step.arg \notin minted
      [] step.op = "open" ->
           State = "scheduled" /\ listed # <<>> /\ \A c \in 0 .. Len(listed) : c \in minted

(* "Sign steps in order", from the first that is not confirmed: the        *)
(* preflight of a step succeeds, and it is signed and sent.  An opening    *)
(* that failed starts anew instead.                                        *)
SendStep(k) ==
    /\ \/ tasks[k].phase \in {"loaded", "running"}
       \/ tasks[k].phase = "stopped" /\ tasks[k].kind # "opening"
    /\ tasks[k].next \in DOMAIN tasks[k].steps
    /\ Runs(tasks[k].steps[tasks[k].next])
    /\ pipe' = pipe \cup {[step |-> tasks[k].steps[tasks[k].next], kind |-> tasks[k].kind]}
    /\ tasks' = [tasks EXCEPT ![k].phase = "waiting"]
    /\ UNCHANGED <<deskVars, listed, minted, loads, strayed>>

\* Slip: the sequence goes on with the step after the one that failed.
StopSequenceSkipping(k) ==
    /\ tasks[k].phase \in {"loaded", "running", "waiting"}
    /\ tasks' = [tasks EXCEPT ![k].phase = "stopped", ![k].next = @ + 1]
    /\ UNCHANGED <<deskVars, listed, minted, pipe, loads, strayed>>

(* A preflight, a signature or a confirmation fails, and the sequence      *)
(* stops where it is; what was sent may still land.                        *)
StopSequence(k) ==
    /\ tasks[k].phase \in {"loaded", "running", "waiting"}
    /\ tasks' = [tasks EXCEPT ![k].phase = "stopped"]
    /\ UNCHANGED <<deskVars, listed, minted, pipe, loads, strayed>>

CloseTask(k) ==
    /\ tasks[k].phase # "none"
    /\ tasks' = [tasks EXCEPT ![k] = Idle]
    /\ UNCHANGED <<deskVars, listed, minted, pipe, loads, strayed>>

(* The consoles that wait for the transaction and learn that it succeeded. *)
Confirmed(tx) ==
    [k \in Consoles |->
        IF /\ tasks[k].phase = "waiting" /\ tasks[k].kind = tx.kind
           /\ tasks[k].steps[tasks[k].next] = tx.step
        THEN [tasks[k] EXCEPT !.next = @ + 1, !.phase = "running"]
        ELSE tasks[k]]

(* A transaction lands; the console that sent it is told, or is not and    *)
(* will stop.                                                              *)
LandStep(tx, told) ==
    /\ tx \in pipe
    /\ pipe' = pipe \ {tx}
    /\ IF Runs(tx.step)
       THEN /\ listed' = IF tx.step.op = "list" THEN Append(listed, tx.step.arg) ELSE listed
            /\ minted' = IF tx.step.op = "claims" THEN minted \cup {tx.step.arg} ELSE minted
            /\ accounts' = IF tx.step.op = "open"
                           THEN [accounts EXCEPT ![Subject].state = "open"] ELSE accounts
            /\ tasks' = IF told THEN Confirmed(tx) ELSE tasks
            /\ strayed' = (strayed \/
                 (tx.kind = "issuer" /\ tx.step.op = "list" /\ Len(listed) < Len(BaseTokens)))
       ELSE UNCHANGED <<listed, minted, accounts, tasks, strayed>>
    /\ UNCHANGED <<packets, asked, signing, flying, done, tracked, loads>>

ExpireStep(tx) ==
    /\ tx \in pipe
    /\ pipe' = pipe \ {tx}
    /\ UNCHANGED <<deskVars, listed, minted, tasks, loads, strayed>>

SetupDone ==
    /\ listed = <<>> /\ minted = {} /\ pipe = {} /\ loads = 0 /\ strayed = FALSE
    /\ tasks = [k \in Consoles |-> Idle]

SetupNext ==
    \/ \E k \in Consoles :
         \/ LoadSetup(k) \/ LoadOpening(k)
         \/ \E token \in ToSet(BaseTokens) \cup {Extra} : LoadIssuer(k, token)
         \/ SendStep(k) \/ StopSequence(k) \/ CloseTask(k)
    \/ \E tx \in pipe : ExpireStep(tx) \/ \E told \in BOOLEAN : LandStep(tx, told)

(***************************************************************************)
(* Whatever consoles do at the same time, whatever fails and is signed     *)
(* again, the tokens of a market are listed in the order of the evidence   *)
(* that was reviewed.  When they are not, the console refuses to go on     *)
(* with the market for good ("Listed issuer legs differ from the market    *)
(* evidence").  A token that an operator lists on its own before the       *)
(* set-up is complete is excused: the console lets them.                   *)
(***************************************************************************)
LegsAsReviewed ==
    strayed \/ IsPrefix(listed, BaseTokens) \/ IsPrefix(BaseTokens, listed)

(***************************************************************************)
(* An open market lists every token of its evidence: "Evidence-ordered     *)
(* issuer tokens; any still unlisted are listed before opening."           *)
(* (MarketLifecycleAction.tsx:24).  A console that has not loaded the      *)
(* evidence shows a market as complete with the tokens it lists so far.    *)
(***************************************************************************)
OpenedAsReviewed ==
    State = "open" /\ ~strayed => Len(listed) >= Len(BaseTokens)
=============================================================================
