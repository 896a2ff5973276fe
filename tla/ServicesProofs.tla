-------------------------- MODULE ServicesProofs --------------------------
(***************************************************************************)
(* Proofs about the services around the program: the market maker and its  *)
(* journal, orders placed for a user, the lookup-table keeper, and the     *)
(* history of the index service.  Each part is about the specification of  *)
(* one service: MakerSpec, SubmitSpec, KeeperSpec, IndexSpec.              *)
(***************************************************************************)
EXTENDS MarketMaker, DelegatedOrders, LookupKeeper, IndexService,
        FiniteSetTheorems, WellFoundedInduction, NaturalsInduction, TLAPS

-----------------------------------------------------------------------------
(* The market maker: what its variables hold.                              *)

MakerTasks == {"fund", "quote", "cancel"}
MakerStates ==
    [day : Nat, spent : Nat, lastSlot : Nat, pending : Nat, started : BOOLEAN, complete : BOOLEAN]
MakerBodies == [kind : MakerTasks, cancels : SUBSET Nat, day : Nat]
MakerTxs == [body : MakerBodies, valid : Nat, sent : BOOLEAN, slot : Nat, ok : BOOLEAN]
MakerPlans == [kind : MakerTasks, cancels : SUBSET Nat]
Bots ==
    [at : {"down", "reconcile", "view", "send", "broadcast", "confirm"},
     task : MakerTasks, plan : SUBSET MakerPlans, state : MakerStates]

\* The ladder that transactions have made by a block.
DoneBy(ts, s) == {i \in DOMAIN ts : ts[i].slot \in 1..s /\ ts[i].ok}
LadderBy(ts, s) ==
    {i \in DoneBy(ts, s) :
        ts[i].body.kind = "quote" /\ \A j \in DoneBy(ts, s) : i \notin ts[j].body.cancels}

\* A quote that replaces an order, or for which there is a level left.
FitsLadder(h, ts, body) ==
    body.kind = "quote" => body.cancels # {} \/ Cardinality(LadderBy(ts, h)) < Levels

\* A transaction has nothing ahead that a bot does not know of: it landed by the last slot
\* of the state, or its window is over.
Gone(ts, h, i, last) == ts[i].slot \in 1..last \/ (ts[i].slot = 0 /\ h >= ts[i].valid)

TxsFit(h, ts) ==
    /\ h \in Nat
    /\ ts \in Seq(MakerTxs)
    /\ \A i \in DOMAIN ts :
         ts[i].slot <= h /\ ts[i].slot <= ts[i].valid /\ (ts[i].slot > 0 => ts[i].sent)

\* The ladder is within its levels, and stays there whatever lands next.
LadderFits(h, ts) ==
    /\ Cardinality(LadderBy(ts, h)) <= Levels
    /\ \A i \in DOMAIN ts :
         ts[i].sent /\ ts[i].slot = 0 /\ h < ts[i].valid => FitsLadder(h, ts, ts[i].body)

ChargedTo(ts, state) ==
    {i \in DOMAIN ts : ts[i].body.day = state.day /\ (ts[i].sent \/ i = state.pending)}

FundTxs(ts) == {i \in DOMAIN ts : ts[i].body.kind = "fund"}

\* What a State accounts for, in memory as on the disk: of all that was ever sent only the
\* journalled transaction may still land unseen, what was sent on its day is charged, and
\* a funding transaction is latched.
StateFits(h, ts, d, state) ==
    /\ state \in MakerStates
    /\ state.pending \in 0..Len(ts)
    /\ state.day <= d
    /\ \A i \in DOMAIN ts : ts[i].sent /\ i # state.pending => Gone(ts, h, i, state.lastSlot)
    /\ \A i \in DOMAIN ts : ts[i].sent \/ i = state.pending => ts[i].body.day <= state.day
    /\ Cardinality(ChargedTo(ts, state)) <= state.spent
    /\ FundTxs(ts) # {} => state.started

\* Where the process is tells what it has journalled, planned and latched.
BotFits(h, ts, b, dsk) ==
    /\ b \in Bots
    /\ b.at \in {"view", "send"} => b.state.pending = NoTx
    /\ b.at = "send" =>
         \A body \in b.plan :
            /\ FitsLadder(h, ts, body)
            /\ body.kind = "fund" => FundTxs(ts) = {} /\ b.state.started /\ dsk.started
    /\ b.at = "broadcast" =>
         /\ dsk = b.state /\ b.state.pending # NoTx
         /\ ~ts[b.state.pending].sent
         /\ FitsLadder(h, ts, ts[b.state.pending].body)
    /\ b.at = "confirm" => b.state.pending # NoTx

FundsOnce(ts) == \A i, j \in FundTxs(ts) : i = j

MakerFits(h, ts, d, b, dsk) ==
    /\ d \in Nat
    /\ TxsFit(h, ts)
    /\ LadderFits(h, ts)
    /\ FundsOnce(ts)
    /\ StateFits(h, ts, d, b.state)
    /\ StateFits(h, ts, d, dsk)
    /\ BotFits(h, ts, b, dsk)

MakerInv == MakerFits(height, txs, day, bot, disk)

-----------------------------------------------------------------------------
(* Finite sets of transactions.                                            *)

LEMMA TxSetFinite ==
    ASSUME NEW T, NEW ts \in Seq(T), NEW S, S \subseteq DOMAIN ts
    PROVE  IsFiniteSet(S) /\ Cardinality(S) \in Nat
<1>1. IsFiniteSet(DOMAIN ts)
  <2>1. DOMAIN ts = 1..Len(ts) /\ Len(ts) \in Nat
    OBVIOUS
  <2>2. IsFiniteSet(1..Len(ts))
    BY <2>1, FS_Interval
  <2>3. QED
    BY <2>1, <2>2
<1>2. IsFiniteSet(S)
  BY <1>1, FS_Subset
<1>3. QED
  BY <1>2, FS_CardinalityType

LEMMA SmallerTxSet ==
    ASSUME NEW T, NEW ts \in Seq(T), NEW S, S \subseteq DOMAIN ts, NEW R, R \subseteq S
    PROVE  Cardinality(R) <= Cardinality(S)
BY TxSetFinite, FS_Subset

LEMMA LadderSubset ==
    ASSUME NEW ts, NEW s
    PROVE  LadderBy(ts, s) \subseteq DOMAIN ts
BY DEF LadderBy, DoneBy

\* Every transaction is one of the market maker.
LEMMA OpenIsLadder ==
    ASSUME TxsFit(height, txs)
    PROVE  Own = DOMAIN txs /\ \A s : Open(s) = LadderBy(txs, s)
<1>1. \A i \in DOMAIN txs : txs[i] \in MakerTxs
  BY DEF TxsFit
<1>2. \A i \in DOMAIN txs : "cancels" \in DOMAIN txs[i].body
  BY <1>1 DEF MakerTxs, MakerBodies
<1>3. Own = DOMAIN txs
  BY <1>2 DEF Own
<1>4. ASSUME NEW s
      PROVE  Executed(s) \cap Own = DoneBy(txs, s)
  BY <1>3 DEF Executed, Landed, DoneBy
<1>5. QED
  BY <1>3, <1>4 DEF Open, LadderBy

-----------------------------------------------------------------------------
(* Steps that leave the cluster alone.                                     *)

\* What follows a state without a new transaction: the journal is kept or cleared, and
\* cleared only of what cannot land unseen; a later day begins with nothing spent.
Follows(h, ts, d, state, next) ==
    /\ next \in MakerStates
    /\ state.started => next.started
    /\ state.lastSlot <= next.lastSlot
    /\ \/ next.pending = state.pending
       \/ next.pending = NoTx /\ (ts[state.pending].sent => Gone(ts, h, state.pending, next.lastSlot))
    /\ \/ next.day = state.day /\ next.spent = state.spent
       \/ state.day < next.day /\ next.day <= d /\ next.pending = NoTx

LEMMA FollowsFits ==
    ASSUME NEW h, NEW ts, NEW d \in Nat, NEW state, NEW next,
           TxsFit(h, ts), StateFits(h, ts, d, state), Follows(h, ts, d, state, next)
    PROVE  StateFits(h, ts, d, next)
<1>1. /\ state \in MakerStates /\ next \in MakerStates
      /\ ts \in Seq(MakerTxs) /\ h \in Nat
  BY DEF TxsFit, StateFits, Follows
<1>2. next.pending \in 0..Len(ts) /\ next.day <= d
  BY <1>1 DEF StateFits, Follows, MakerStates, NoTx
<1>3. ASSUME NEW i \in DOMAIN ts, ts[i].sent, i # next.pending
      PROVE  Gone(ts, h, i, next.lastSlot)
  <2>0. i \in Nat /\ i # NoTx
    BY <1>1 DEF NoTx
  <2>1. CASE i = state.pending
    BY <1>3, <2>1, <2>0 DEF Follows
  <2>2. CASE i # state.pending
    <3>1. Gone(ts, h, i, state.lastSlot)
      BY <2>2, <1>3 DEF StateFits
    <3>2. ts[i].slot \in Nat /\ state.lastSlot \in Nat /\ next.lastSlot \in Nat /\ state.lastSlot <= next.lastSlot
      <4>1. ts[i] \in MakerTxs
        BY <1>1
      <4>2. ts[i].slot \in Nat
        BY <4>1 DEF MakerTxs
      <4>3. QED
        BY <4>2, <1>1 DEF MakerStates, Follows
    <3>3. QED
      BY <3>1, <3>2 DEF Gone
  <2>3. QED
    BY <2>1, <2>2
<1>4. \A i \in DOMAIN ts : ts[i].body.day \in Nat
  <2>1. \A i \in DOMAIN ts : ts[i] \in MakerTxs
    BY <1>1
  <2>2. QED
    BY <2>1 DEF MakerTxs, MakerBodies
<1>5. state.day \in Nat /\ next.day \in Nat /\ state.spent \in Nat /\ next.spent \in Nat
  BY <1>1 DEF MakerStates
<1>6. \A i \in DOMAIN ts : i # NoTx
  BY <1>1 DEF NoTx
<1>7. state.day <= next.day
  BY <1>5 DEF Follows
<1>8. ASSUME NEW i \in DOMAIN ts, ts[i].sent \/ i = next.pending
      PROVE  ts[i].body.day <= next.day
  <2>1. ts[i].sent \/ i = state.pending
    BY <1>8, <1>6 DEF Follows
  <2>2. ts[i].body.day <= state.day
    BY <2>1 DEF StateFits
  <2>3. QED
    BY <2>2, <1>4, <1>5, <1>7
<1>9. Cardinality(ChargedTo(ts, next)) <= next.spent
  <2>1. CASE next.day = state.day /\ next.spent = state.spent
    <3>1. ChargedTo(ts, next) \subseteq ChargedTo(ts, state)
      BY <2>1, <1>6 DEF ChargedTo, Follows
    <3>2. ChargedTo(ts, state) \subseteq DOMAIN ts
      BY DEF ChargedTo
    <3>3. Cardinality(ChargedTo(ts, next)) <= Cardinality(ChargedTo(ts, state))
      BY <3>1, <3>2, <1>1, SmallerTxSet
    <3>4. Cardinality(ChargedTo(ts, state)) \in Nat /\ Cardinality(ChargedTo(ts, next)) \in Nat
      BY <3>1, <3>2, <1>1, TxSetFinite
    <3>5. Cardinality(ChargedTo(ts, state)) <= state.spent
      BY DEF StateFits
    <3>6. QED
      BY <3>3, <3>4, <3>5, <2>1, <1>5
  <2>2. CASE state.day < next.day /\ next.pending = NoTx
    <3>1. ASSUME NEW i \in ChargedTo(ts, next)
          PROVE  FALSE
      <4>1. i \in DOMAIN ts /\ ts[i].body.day = next.day /\ ts[i].sent
        BY <2>2, <1>6 DEF ChargedTo
      <4>2. ts[i].body.day <= state.day
        BY <4>1 DEF StateFits
      <4>3. QED
        BY <4>1, <4>2, <2>2, <1>5
    <3>2. ChargedTo(ts, next) = {}
      BY <3>1
    <3>3. QED
      BY <3>2, <1>5, FS_EmptySet
  <2>3. QED
    BY <2>1, <2>2 DEF Follows
<1>10. FundTxs(ts) # {} => next.started
  BY DEF StateFits, Follows
<1>11. QED
  BY <1>1, <1>2, <1>3, <1>8, <1>9, <1>10 DEF StateFits

\* A step of the process: the disk keeps its state, or takes the one in memory.
BotStep(h, ts, d, b, next, dsk, saved) ==
    /\ Follows(h, ts, d, b.state, next.state)
    /\ saved \in {dsk, next.state}
    /\ BotFits(h, ts, next, saved)

LEMMA BotStepFits ==
    ASSUME NEW h, NEW ts, NEW d, NEW b, NEW next, NEW dsk, NEW saved,
           MakerFits(h, ts, d, b, dsk), BotStep(h, ts, d, b, next, dsk, saved)
    PROVE  MakerFits(h, ts, d, next, saved)
<1>1. StateFits(h, ts, d, next.state)
  BY FollowsFits DEF MakerFits, BotStep
<1>2. StateFits(h, ts, d, saved)
  BY <1>1 DEF MakerFits, BotStep
<1>3. QED
  BY <1>1, <1>2 DEF MakerFits, BotStep

LEMMA FollowsItself ==
    ASSUME NEW h, NEW ts, NEW d, NEW state \in MakerStates
    PROVE  Follows(h, ts, d, state, state)
BY DEF Follows, MakerStates

\* A process that is down or begins again has nothing to keep.
LEMMA RestingFits ==
    ASSUME NEW h, NEW ts, NEW b \in Bots, NEW dsk, b.at \in {"down", "reconcile"}
    PROVE  BotFits(h, ts, b, dsk)
BY DEF BotFits

LEMMA ThrownRests ==
    ASSUME NEW b \in Bots, NEW state \in MakerStates
    PROVE  /\ Thrown(b, state) \in Bots /\ Thrown(b, state).at \in {"down", "reconcile"}
           /\ Thrown(b, state).state = state
           /\ Done(b, state) \in Bots /\ Done(b, state).at \in {"down", "reconcile"}
           /\ Done(b, state).state = state
<1>1. Done(b, state) \in Bots /\ Done(b, state).at \in {"down", "reconcile"} /\ Done(b, state).state = state
  BY DEF Done, Down, Bots, MakerTasks
<1>2. QED
  BY <1>1 DEF Thrown, Bots, MakerTasks

LEMMA ThrownStep ==
    ASSUME NEW h, NEW ts, NEW d, NEW b \in Bots, NEW state \in MakerStates, NEW dsk, NEW saved,
           Follows(h, ts, d, b.state, state), saved \in {dsk, state}
    PROVE  /\ BotStep(h, ts, d, b, Thrown(b, state), dsk, saved)
           /\ BotStep(h, ts, d, b, Done(b, state), dsk, saved)
BY ThrownRests, RestingFits DEF BotStep

LEMMA Saves ==
    ASSUME NEW state, Saved(state) \/ SaveFails(state)
    PROVE  disk' \in {disk, state}
BY DEF Saved, SaveFails

\* A journalled transaction that is known to have landed.
LEMMA ResolvedFollows ==
    ASSUME NEW h, NEW d, NEW state, TxsFit(h, txs), StateFits(h, txs, d, state),
           state.pending # NoTx, txs[state.pending].slot > 0
    PROVE  Follows(h, txs, d, state, Resolved(state))
<1>1. state \in MakerStates /\ txs \in Seq(MakerTxs) /\ state.pending \in DOMAIN txs
  BY DEF TxsFit, StateFits, NoTx
<1>2. txs[state.pending] \in MakerTxs
  BY <1>1
<1>3. txs[state.pending].slot \in Nat
  BY <1>2 DEF MakerTxs
<1>4. /\ Resolved(state) \in MakerStates /\ Resolved(state).pending = NoTx
      /\ Resolved(state).started = state.started
      /\ Resolved(state).day = state.day /\ Resolved(state).spent = state.spent
      /\ Resolved(state).lastSlot =
           (IF txs[state.pending].slot > state.lastSlot THEN txs[state.pending].slot ELSE state.lastSlot)
  BY <1>1, <1>3 DEF Resolved, MakerStates, NoTx
<1>5. state.lastSlot \in Nat /\ Resolved(state).lastSlot \in Nat
  BY <1>1, <1>4 DEF MakerStates
<1>6. state.lastSlot <= Resolved(state).lastSlot /\ txs[state.pending].slot \in 1..Resolved(state).lastSlot
  BY <1>3, <1>4, <1>5
<1>7. QED
  BY <1>4, <1>6 DEF Follows, Gone

\* One whose window is over, and that no node knows.
LEMMA DroppedFollows ==
    ASSUME NEW d, NEW state, NEW s \in Final..height,
           TxsFit(height, txs), StateFits(height, txs, d, state),
           state.pending # NoTx, ~Landed(state.pending, s), Expired(state.pending)
    PROVE  Follows(height, txs, d, state, [state EXCEPT !.pending = NoTx])
<1> DEFINE i == state.pending
           next == [state EXCEPT !.pending = NoTx]
<1>1. state \in MakerStates /\ txs \in Seq(MakerTxs) /\ i \in DOMAIN txs /\ height \in Nat
  BY DEF TxsFit, StateFits, NoTx
<1>2. txs[i] \in MakerTxs
  BY <1>1
<1>3. txs[i].slot \in Nat /\ txs[i].valid \in Nat
  BY <1>2 DEF MakerTxs
<1>4. txs[i].slot <= txs[i].valid
  BY <1>1 DEF TxsFit
<1>5. Final \in Nat /\ Final <= height
  BY <1>1, ClusterAssumption DEF Final
<1>6. ~(txs[i].slot \in 1..s) /\ Final > txs[i].valid
  BY DEF Landed, Expired
<1>7. txs[i].slot = 0 /\ height >= txs[i].valid
  BY <1>1, <1>3, <1>4, <1>5, <1>6
<1>8. Gone(txs, height, i, next.lastSlot)
  BY <1>7 DEF Gone
<1>9. next \in MakerStates /\ next.pending = NoTx /\ next.started = state.started
      /\ next.lastSlot = state.lastSlot /\ next.day = state.day /\ next.spent = state.spent
  BY <1>1 DEF MakerStates, NoTx
<1>10. state.lastSlot <= next.lastSlot
  BY <1>1, <1>9 DEF MakerStates
<1>11. QED
  BY <1>8, <1>9, <1>10 DEF Follows

MakerMoves == BotStep(height, txs, day, bot, bot', disk, disk')

LEMMA ResolveMoves ==
    ASSUME NEW state \in MakerStates, NEW next, bot \in Bots,
           Follows(height, txs, day, bot.state, state),
           next.state = state, BotFits(height, txs, next, state),
           Resolve(state, next)
    PROVE  MakerMoves
<1>1. CASE Saved(state) /\ bot' = next
  <2>1. disk' = state
    BY <1>1 DEF Saved
  <2>2. QED
    BY <1>1, <2>1 DEF MakerMoves, BotStep
<1>2. CASE bot' = Thrown(bot, state) /\ (Saved(state) \/ SaveFails(state))
  <2>1. disk' \in {disk, state}
    BY <1>2, Saves
  <2>2. QED
    BY <1>2, <2>1, ThrownStep DEF MakerMoves
<1>3. QED
  BY <1>1, <1>2 DEF Resolve

LEMMA ViewingFits ==
    ASSUME NEW h, NEW ts, NEW b \in Bots, NEW state \in MakerStates, state.pending = NoTx, NEW dsk
    PROVE  /\ BotFits(h, ts, [b EXCEPT !.at = "view", !.state = state], dsk)
           /\ [b EXCEPT !.at = "view", !.state = state].state = state
BY DEF BotFits, Bots

LEMMA LandedFacts ==
    ASSUME NEW i \in DOMAIN txs, TxsFit(height, txs), Landed(i, height)
    PROVE  txs[i].slot > 0
<1>1. txs[i] \in MakerTxs
  BY DEF TxsFit
<1>2. txs[i].slot \in Nat /\ height \in Nat
  BY <1>1 DEF MakerTxs, TxsFit
<1>3. QED
  BY <1>2 DEF Landed

LEMMA ReconcileMoves ==
    ASSUME MakerInv, ReconcilePending
    PROVE  MakerMoves
<1> DEFINE i == bot.state.pending
           dropped == [bot.state EXCEPT !.pending = NoTx]
           viewing(state) == [bot EXCEPT !.at = "view", !.state = state]
<1>1. /\ TxsFit(height, txs) /\ StateFits(height, txs, day, bot.state)
      /\ BotFits(height, txs, bot, disk)
  BY DEF MakerInv, MakerFits
<1>2. bot \in Bots /\ bot.state \in MakerStates /\ txs \in Seq(MakerTxs)
  BY <1>1 DEF BotFits, StateFits, TxsFit
<1>3. i # NoTx => i \in DOMAIN txs
  BY <1>1, <1>2 DEF StateFits, NoTx
<1>4. Follows(height, txs, day, bot.state, bot.state)
  BY <1>2, FollowsItself
<1>5. CASE i = NoTx /\ bot' = viewing(bot.state) /\ UNCHANGED disk
  BY <1>5, <1>2, <1>4, ViewingFits DEF MakerMoves, BotStep
<1>6. CASE i # NoTx /\ Landed(i, height) /\ Resolve(Resolved(bot.state), viewing(Resolved(bot.state)))
  <2>1. Follows(height, txs, day, bot.state, Resolved(bot.state))
    BY <1>1, <1>3, <1>6, LandedFacts, ResolvedFollows
  <2>2. Resolved(bot.state) \in MakerStates /\ Resolved(bot.state).pending = NoTx
    <3>1. Resolved(bot.state) \in MakerStates
      BY <2>1 DEF Follows
    <3>2. QED
      BY <3>1, <1>2 DEF Resolved, MakerStates, NoTx
  <2>3. QED
    BY <1>6, <1>2, <2>1, <2>2, ViewingFits, ResolveMoves
<1>7. CASE bot' = Thrown(bot, bot.state) /\ UNCHANGED disk
  BY <1>7, <1>2, <1>4, ThrownStep DEF MakerMoves
<1>8. ASSUME NEW s \in Final..height, i # NoTx, ~Landed(i, s), Expired(i),
             \/ Saved(dropped) /\ bot' = viewing(dropped)
             \/ SaveFails(dropped) /\ bot' = Thrown(bot, dropped)
      PROVE  MakerMoves
  <2>1. Follows(height, txs, day, bot.state, dropped)
    BY <1>1, <1>8, DroppedFollows
  <2>2. dropped \in MakerStates /\ dropped.pending = NoTx
    BY <1>2 DEF MakerStates, NoTx
  <2>3. disk' \in {disk, dropped}
    BY <1>8, Saves
  <2> HIDE DEF dropped, i
  <2>4. BotFits(height, txs, viewing(dropped), disk') /\ viewing(dropped).state = dropped
    BY <1>2, <2>2, ViewingFits
  <2>5. CASE bot' = Thrown(bot, dropped)
    BY <2>5, <1>2, <2>1, <2>2, <2>3, ThrownStep DEF MakerMoves
  <2>6. CASE bot' = viewing(dropped)
    <3>1. bot'.state = dropped /\ BotFits(height, txs, bot', disk')
      BY <2>4, <2>6
    <3>2. QED
      BY <3>1, <2>1, <2>3 DEF MakerMoves, BotStep
  <2>7. QED
    BY <1>8, <2>5, <2>6
<1>9. QED
  BY <1>5, <1>6, <1>7, <1>8 DEF ReconcilePending

LEMMA ConfirmMoves ==
    ASSUME MakerInv, Confirm
    PROVE  MakerMoves
<1> DEFINE i == bot.state.pending
           done == [Resolved(bot.state) EXCEPT !.complete = @ \/ (bot.task = "fund" /\ txs[i].ok)]
<1>1. /\ TxsFit(height, txs) /\ StateFits(height, txs, day, bot.state)
      /\ BotFits(height, txs, bot, disk)
  BY DEF MakerInv, MakerFits
<1>2. bot \in Bots /\ bot.state \in MakerStates /\ txs \in Seq(MakerTxs)
  BY <1>1 DEF BotFits, StateFits, TxsFit
<1>3. i # NoTx /\ i \in DOMAIN txs
  BY <1>1, <1>2 DEF StateFits, NoTx, BotFits, Confirm
<1>4. Follows(height, txs, day, bot.state, bot.state)
  BY <1>2, FollowsItself
<1>5. CASE Landed(i, height) /\ Resolve(done, Done(bot, done))
  <2>1. Follows(height, txs, day, bot.state, Resolved(bot.state))
    BY <1>1, <1>3, <1>5, LandedFacts, ResolvedFollows
  <2>2. Resolved(bot.state) \in MakerStates
    BY <2>1 DEF Follows
  <2>3. /\ done \in MakerStates /\ done.pending = Resolved(bot.state).pending
        /\ done.lastSlot = Resolved(bot.state).lastSlot
        /\ done.day = Resolved(bot.state).day /\ done.spent = Resolved(bot.state).spent
        /\ done.started = Resolved(bot.state).started
    BY <2>2 DEF MakerStates
  <2> HIDE DEF done
  <2>4. Follows(height, txs, day, bot.state, done)
    BY <2>1, <2>3 DEF Follows
  <2>5. BotFits(height, txs, Done(bot, done), done) /\ Done(bot, done).state = done
    BY <1>2, <2>3, ThrownRests, RestingFits
  <2>6. QED
    BY <1>5, <1>2, <2>3, <2>4, <2>5, ResolveMoves
<1>6. CASE bot' = Thrown(bot, bot.state) /\ UNCHANGED disk
  BY <1>6, <1>2, <1>4, ThrownStep DEF MakerMoves
<1>7. QED
  BY <1>5, <1>6 DEF Confirm

\* What a snapshot shows that is not older than the last transaction known of: with no
\* transaction journalled, nothing that was sent has landed since.
LEMMA SnapshotIsLadder ==
    ASSUME NEW s \in Nat, MakerInv, bot.state.pending = NoTx,
           s <= height, FreshSnapshot(bot.state, s)
    PROVE  LadderBy(txs, s) = LadderBy(txs, height)
<1>1. /\ TxsFit(height, txs) /\ StateFits(height, txs, day, bot.state)
  BY DEF MakerInv, MakerFits
<1>2. bot.state \in MakerStates /\ txs \in Seq(MakerTxs) /\ height \in Nat
  BY <1>1 DEF StateFits, TxsFit
<1>3. bot.state.lastSlot \in Nat /\ s >= bot.state.lastSlot
  BY <1>2 DEF MakerStates, FreshSnapshot
<1>4. ASSUME NEW i \in DOMAIN txs
      PROVE  txs[i].slot \in 1..s <=> txs[i].slot \in 1..height
  <2>1. txs[i] \in MakerTxs /\ i # NoTx
    BY <1>2 DEF NoTx
  <2>2. txs[i].slot \in Nat
    BY <2>1 DEF MakerTxs
  <2>3. ASSUME txs[i].slot > 0
        PROVE  txs[i].slot <= s
    <3>1. txs[i].sent
      BY <2>3, <1>1 DEF TxsFit
    <3>2. Gone(txs, height, i, bot.state.lastSlot)
      BY <3>1, <2>1, <1>1 DEF StateFits
    <3>3. QED
      BY <3>2, <2>2, <2>3, <1>3 DEF Gone
  <2>4. QED
    BY <2>2, <2>3, <1>2
<1>5. DoneBy(txs, s) = DoneBy(txs, height)
  BY <1>4 DEF DoneBy
<1>6. QED
  BY <1>5 DEF LadderBy

LEMMA SendingFits ==
    ASSUME NEW h, NEW ts, NEW body \in MakerPlans, NEW state \in MakerStates, NEW dsk,
           bot \in Bots, state.pending = NoTx, FitsLadder(h, ts, body),
           body.kind = "fund" => FundTxs(ts) = {} /\ state.started /\ dsk.started
    PROVE  BotFits(h, ts, Sending(body, state), dsk) /\ Sending(body, state).state = state
<1> DEFINE b == Sending(body, state)
<1>1. b \in Bots /\ b.at = "send" /\ b.plan = {body} /\ b.state = state
  BY DEF Sending, Bots
<1> HIDE DEF b
<1>2. ASSUME NEW other \in b.plan
      PROVE  /\ FitsLadder(h, ts, other)
             /\ other.kind = "fund" => FundTxs(ts) = {} /\ b.state.started /\ dsk.started
  <2>1. other = body
    BY <1>1, <1>2
  <2>2. QED
    BY <2>1, <1>1
<1>3. BotFits(h, ts, b, dsk)
  BY <1>1, <1>2 DEF BotFits
<1>4. QED
  BY <1>1, <1>3 DEF b

LEMMA QuoteChangeFits ==
    ASSUME NEW orders \in SUBSET Nat, Cardinality(orders) \in Nat, NEW targets \in {0, Levels},
           NEW stale \in BOOLEAN, NEW body \in QuoteChange(orders, targets, stale)
    PROVE  /\ body \in MakerPlans /\ body.kind # "fund"
           /\ body.kind = "quote" => body.cancels # {} \/ Cardinality(orders) < Levels
<1>1. Levels \in Nat
  BY MakerAssumption
<1>2. CASE \E i \in orders : body = Body("cancel", {i}) \/ body = Body("quote", {i})
  BY <1>2 DEF Body, MakerPlans, MakerTasks
<1>3. CASE body = Body("quote", {}) /\ Cardinality(orders) < targets
  <2>1. Cardinality(orders) < Levels
    BY <1>3, <1>1
  <2>2. QED
    BY <1>3, <2>1 DEF Body, MakerPlans, MakerTasks
<1>4. QED
  BY <1>2, <1>3 DEF QuoteChange

LEMMA ViewMoves ==
    ASSUME MakerInv, View
    PROVE  MakerMoves
<1>1. /\ TxsFit(height, txs) /\ StateFits(height, txs, day, bot.state)
      /\ StateFits(height, txs, day, disk) /\ BotFits(height, txs, bot, disk)
  BY DEF MakerInv, MakerFits
<1>2. bot \in Bots /\ bot.state \in MakerStates /\ txs \in Seq(MakerTxs) /\ height \in Nat
  BY <1>1 DEF BotFits, StateFits, TxsFit
<1>3. bot.state.pending = NoTx
  BY <1>1 DEF BotFits, View
<1>4. Follows(height, txs, day, bot.state, bot.state)
  BY <1>2, FollowsItself
<1>5. CASE bot' = Thrown(bot, bot.state) /\ UNCHANGED disk
  BY <1>5, <1>2, <1>4, ThrownStep DEF MakerMoves
<1>6. CASE bot' = Done(bot, bot.state) /\ UNCHANGED disk
  BY <1>6, <1>2, <1>4, ThrownStep DEF MakerMoves
<1>7. Final \in Nat /\ Final..height \subseteq Nat
  BY <1>2, ClusterAssumption DEF Final
<1>8. ASSUME NEW s \in Final..height, FreshSnapshot(bot.state, s)
      PROVE  /\ Open(s) = LadderBy(txs, height) /\ Open(s) \in SUBSET Nat
             /\ Cardinality(Open(s)) \in Nat
  <2>1. s \in Nat /\ s <= height
    BY <1>7, <1>2
  <2>2. Open(s) = LadderBy(txs, height)
    BY <2>1, <1>1, <1>3, <1>8, OpenIsLadder, SnapshotIsLadder
  <2>3. LadderBy(txs, height) \subseteq DOMAIN txs
    BY LadderSubset
  <2>4. DOMAIN txs \subseteq Nat
    BY <1>2
  <2>5. Cardinality(LadderBy(txs, height)) \in Nat
    BY <2>3, <1>2, TxSetFinite
  <2>6. QED
    BY <2>2, <2>3, <2>4, <2>5
<1>9. ASSUME NEW body \in MakerPlans, body.kind # "fund", FitsLadder(height, txs, body),
             bot' = Sending(body, bot.state), UNCHANGED disk
      PROVE  MakerMoves
  <2>1. BotFits(height, txs, Sending(body, bot.state), disk) /\ Sending(body, bot.state).state = bot.state
    BY <1>2, <1>3, <1>9, SendingFits
  <2>2. QED
    BY <2>1, <1>4, <1>9 DEF MakerMoves, BotStep
<1>10. ASSUME NEW s \in Final..height, FreshSnapshot(bot.state, s), Cancel(s)
       PROVE  MakerMoves
  <2>1. CASE bot' = Sending(Body("cancel", Open(s)), bot.state)
    <3>1. Body("cancel", Open(s)) \in MakerPlans /\ Body("cancel", Open(s)).kind = "cancel"
      BY <1>8, <1>10 DEF Body, MakerPlans, MakerTasks
    <3>2. FitsLadder(height, txs, Body("cancel", Open(s)))
      BY <3>1 DEF FitsLadder
    <3>3. QED
      BY <3>1, <3>2, <2>1, <1>9, <1>10 DEF Cancel
  <2>2. QED
    BY <2>1, <1>6, <1>10 DEF Cancel
<1>11. ASSUME NEW s \in Final..height, FreshSnapshot(bot.state, s), Quote(s)
       PROVE  MakerMoves
  <2>1. ASSUME NEW targets \in {0, Levels}, NEW stale \in BOOLEAN,
               NEW body \in QuoteChange(Open(s), targets, stale),
               bot' = Sending(body, bot.state)
        PROVE  MakerMoves
    <3>1. /\ body \in MakerPlans /\ body.kind # "fund"
          /\ body.kind = "quote" => body.cancels # {} \/ Cardinality(Open(s)) < Levels
      BY <1>8, <1>11, QuoteChangeFits
    <3>2. FitsLadder(height, txs, body)
      <4>1. Open(s) = LadderBy(txs, height)
        BY <1>8, <1>11
      <4>2. QED
        BY <3>1, <4>1, <1>8, <1>11, MakerAssumption DEF FitsLadder
    <3>3. QED
      BY <3>1, <3>2, <2>1, <1>9, <1>11 DEF Quote
  <2>2. QED
    BY <2>1, <1>5, <1>6, <1>11 DEF Quote
<1>12. ASSUME NEW s \in Final..height, Fund(s)
       PROVE  MakerMoves
  <2> DEFINE latched == Latched(bot.state)
  <2>1. CASE bot' = Thrown(bot, bot.state) /\ UNCHANGED disk
    BY <2>1, <1>5
  <2>2. /\ latched \in MakerStates /\ latched.pending = NoTx /\ latched.started
        /\ latched.lastSlot = bot.state.lastSlot /\ latched.day = bot.state.day
        /\ latched.spent = bot.state.spent
    BY <1>2, <1>3 DEF Latched, MakerStates
  <2> HIDE DEF latched
  <2>3. Follows(height, txs, day, bot.state, latched)
    BY <2>2, <1>2, <1>3 DEF Follows, MakerStates
  <2>4. CASE disk' = latched /\ bot' = Sending(Body("fund", {}), latched) /\ ~bot.state.started
    <3>1. FundTxs(txs) = {}
      BY <2>4, <1>1 DEF StateFits
    <3>2. Body("fund", {}) \in MakerPlans /\ Body("fund", {}).kind = "fund"
      BY DEF Body, MakerPlans, MakerTasks
    <3>3. FitsLadder(height, txs, Body("fund", {}))
      BY <3>2 DEF FitsLadder
    <3>4. /\ BotFits(height, txs, Sending(Body("fund", {}), latched), disk')
          /\ Sending(Body("fund", {}), latched).state = latched
      BY <3>1, <3>2, <3>3, <2>2, <2>4, <1>2, SendingFits
    <3>5. QED
      BY <3>4, <2>3, <2>4 DEF MakerMoves, BotStep
  <2>5. CASE bot' = Thrown(bot, latched) /\ UNCHANGED disk
    BY <2>5, <1>2, <2>2, <2>3, ThrownStep DEF MakerMoves
  <2>6. QED
    BY <2>1, <2>4, <2>5, <1>12 DEF Fund, Saved, latched
<1>13. QED
  BY <1>5, <1>10, <1>11, <1>12 DEF View

-----------------------------------------------------------------------------
(* A transaction is signed.                                                *)

LEMMA DatedBody ==
    ASSUME NEW body \in MakerPlans, NEW on \in Nat
    PROVE  /\ Dated(body, on) \in MakerBodies /\ Dated(body, on).kind = body.kind
           /\ Dated(body, on).cancels = body.cancels /\ Dated(body, on).day = on
BY DEF Dated, MakerPlans, MakerBodies

\* ts and the transaction tx, which was not sent.
Signs(ts, tx) ==
    /\ tx \in MakerTxs
    /\ tx.slot = 0 /\ ~tx.sent

LEMMA AppendedTxs ==
    ASSUME NEW ts \in Seq(MakerTxs), NEW tx \in MakerTxs
    PROVE  /\ Append(ts, tx) \in Seq(MakerTxs)
           /\ Len(Append(ts, tx)) = Len(ts) + 1
           /\ DOMAIN Append(ts, tx) = DOMAIN ts \cup {Len(ts) + 1}
           /\ Append(ts, tx)[Len(ts) + 1] = tx
           /\ \A i \in DOMAIN ts : Append(ts, tx)[i] = ts[i]
           /\ Len(ts) + 1 \notin DOMAIN ts
OBVIOUS

LEMMA SignedLadder ==
    ASSUME NEW ts \in Seq(MakerTxs), NEW tx, Signs(ts, tx), NEW s
    PROVE  LadderBy(Append(ts, tx), s) = LadderBy(ts, s)
<1> DEFINE longer == Append(ts, tx)
           n == Len(ts) + 1
<1>1. /\ DOMAIN longer = DOMAIN ts \cup {n} /\ longer[n] = tx
      /\ \A i \in DOMAIN ts : longer[i] = ts[i]
  BY AppendedTxs DEF Signs
<1>2. ~(tx.slot \in 1..s)
  BY DEF Signs
<1> HIDE DEF longer, n
<1>3. DoneBy(longer, s) = DoneBy(ts, s)
  BY <1>1, <1>2 DEF DoneBy
<1>4. LadderBy(longer, s) = LadderBy(ts, s)
  BY <1>1, <1>3 DEF LadderBy, DoneBy
<1>5. QED
  BY <1>4 DEF longer

LEMMA SignedTxs ==
    ASSUME NEW h, NEW ts, NEW tx, TxsFit(h, ts), LadderFits(h, ts), Signs(ts, tx)
    PROVE  TxsFit(h, Append(ts, tx)) /\ LadderFits(h, Append(ts, tx))
<1> DEFINE longer == Append(ts, tx)
           n == Len(ts) + 1
<1>1. ts \in Seq(MakerTxs) /\ h \in Nat
  BY DEF TxsFit
<1>2. /\ longer \in Seq(MakerTxs) /\ DOMAIN longer = DOMAIN ts \cup {n} /\ longer[n] = tx
      /\ \A i \in DOMAIN ts : longer[i] = ts[i]
  BY <1>1, AppendedTxs DEF Signs
<1>3. LadderBy(longer, h) = LadderBy(ts, h)
  BY <1>1, SignedLadder
<1>4. tx.valid \in Nat /\ tx.slot = 0 /\ ~tx.sent
  BY DEF Signs, MakerTxs
<1> HIDE DEF longer, n
<1>5. TxsFit(h, longer)
  BY <1>1, <1>2, <1>4 DEF TxsFit
<1>6. ASSUME NEW i \in DOMAIN longer, longer[i].sent, longer[i].slot = 0, h < longer[i].valid
      PROVE  FitsLadder(h, longer, longer[i].body)
  <2>1. i \in DOMAIN ts /\ longer[i] = ts[i]
    BY <1>2, <1>4, <1>6
  <2>2. FitsLadder(h, ts, ts[i].body)
    BY <2>1, <1>6 DEF LadderFits
  <2>3. QED
    BY <2>1, <2>2, <1>3 DEF FitsLadder
<1>7. LadderFits(h, longer)
  BY <1>3, <1>6 DEF LadderFits
<1>8. QED
  BY <1>5, <1>7 DEF longer

\* A State to which the new transaction is nothing.
LEMMA SignedState ==
    ASSUME NEW h, NEW ts, NEW d \in Nat, NEW state, NEW tx, TxsFit(h, ts),
           StateFits(h, ts, d, state), Signs(ts, tx), tx.body.kind = "fund" => state.started
    PROVE  StateFits(h, Append(ts, tx), d, state)
<1> DEFINE longer == Append(ts, tx)
           n == Len(ts) + 1
<1>1. ts \in Seq(MakerTxs) /\ h \in Nat
  BY DEF TxsFit
<1>2. /\ longer \in Seq(MakerTxs) /\ DOMAIN longer = DOMAIN ts \cup {n} /\ longer[n] = tx
      /\ \A i \in DOMAIN ts : longer[i] = ts[i]
      /\ Len(longer) = Len(ts) + 1 /\ n \notin DOMAIN ts
  BY <1>1, AppendedTxs DEF Signs
<1>3. ~tx.sent
  BY DEF Signs
<1>4. /\ state \in MakerStates /\ state.day <= d
      /\ state.pending \in 0..Len(longer) /\ state.pending # n
  BY <1>1, <1>2 DEF StateFits
<1> HIDE DEF longer, n
<1>5. ASSUME NEW i \in DOMAIN longer, longer[i].sent \/ i = state.pending
      PROVE  /\ i \in DOMAIN ts /\ longer[i] = ts[i]
             /\ longer[i].body.day <= state.day
             /\ longer[i].sent /\ i # state.pending => Gone(longer, h, i, state.lastSlot)
  <2>1. i \in DOMAIN ts /\ longer[i] = ts[i]
    BY <1>2, <1>3, <1>4, <1>5
  <2>2. QED
    BY <2>1, <1>5 DEF StateFits, Gone
<1>6. ChargedTo(longer, state) = ChargedTo(ts, state)
  <2>1. ChargedTo(longer, state) \subseteq ChargedTo(ts, state)
    BY <1>5 DEF ChargedTo
  <2>2. ChargedTo(ts, state) \subseteq ChargedTo(longer, state)
    BY <1>2 DEF ChargedTo
  <2>3. QED
    BY <2>1, <2>2
<1>7. FundTxs(longer) # {} => state.started
  BY <1>2 DEF FundTxs, StateFits
<1>8. Cardinality(ChargedTo(longer, state)) <= state.spent
  BY <1>6 DEF StateFits
<1>9. StateFits(h, longer, d, state)
  BY <1>4, <1>5, <1>7, <1>8 DEF StateFits
<1>10. QED
  BY <1>9 DEF longer

\* The state that journals the new transaction and pays for it.
LEMMA JournalledState ==
    ASSUME NEW h, NEW ts, NEW d \in Nat, NEW state, NEW tx, TxsFit(h, ts),
           StateFits(h, ts, d, state), Signs(ts, tx), state.pending = NoTx,
           tx.body.day = state.day, tx.body.kind = "fund" => state.started
    PROVE  StateFits(h, Append(ts, tx), d, Journalled(state, Len(ts) + 1))
<1> DEFINE longer == Append(ts, tx)
           n == Len(ts) + 1
           next == Journalled(state, n)
<1>1. ts \in Seq(MakerTxs) /\ h \in Nat /\ state \in MakerStates /\ state.day <= d
  BY DEF TxsFit, StateFits
<1>2. /\ longer \in Seq(MakerTxs) /\ DOMAIN longer = DOMAIN ts \cup {n} /\ longer[n] = tx
      /\ \A i \in DOMAIN ts : longer[i] = ts[i]
      /\ Len(longer) = n /\ n \notin DOMAIN ts /\ n \in Nat /\ DOMAIN ts \subseteq Nat \ {0}
  BY <1>1, AppendedTxs DEF Signs
<1>3. ~tx.sent
  BY DEF Signs
<1>4. /\ next \in MakerStates /\ next.pending = n /\ next.day = state.day
      /\ next.spent = state.spent + 1 /\ next.started = state.started
      /\ next.lastSlot = state.lastSlot
  <2>1. state.spent + 1 \in Nat
    BY <1>1 DEF MakerStates
  <2>2. QED
    BY <1>1, <1>2, <2>1 DEF Journalled, MakerStates
<1>5. next.pending \in 0..Len(longer)
  BY <1>2, <1>4
<1>6. \A i \in DOMAIN ts : i # NoTx
  BY <1>1 DEF NoTx
<1>7. state.day \in Nat
  BY <1>1 DEF MakerStates
<1> HIDE DEF longer, n, next
<1>8. ASSUME NEW i \in DOMAIN longer, longer[i].sent, i # next.pending
      PROVE  Gone(longer, h, i, next.lastSlot)
  <2>1. i \in DOMAIN ts /\ longer[i] = ts[i]
    BY <1>2, <1>4, <1>8
  <2>2. Gone(ts, h, i, state.lastSlot)
    BY <2>1, <1>6, <1>8 DEF StateFits
  <2>3. QED
    BY <2>1, <2>2, <1>4 DEF Gone
<1>9. ASSUME NEW i \in DOMAIN longer, longer[i].sent \/ i = next.pending
      PROVE  longer[i].body.day <= next.day
  <2>1. CASE i = n
    <3>1. longer[i].body.day = state.day
      BY <2>1, <1>2
    <3>2. QED
      BY <3>1, <1>4, <1>7
  <2>2. CASE i # n
    <3>1. i \in DOMAIN ts /\ longer[i] = ts[i] /\ ts[i].sent
      BY <1>2, <1>4, <1>9, <2>2
    <3>2. QED
      BY <3>1, <1>4 DEF StateFits
  <2>3. QED
    BY <2>1, <2>2
<1>10. Cardinality(ChargedTo(longer, next)) <= next.spent
  <2>1. ChargedTo(longer, next) \subseteq ChargedTo(ts, state) \cup {n}
    BY <1>2, <1>4 DEF ChargedTo
  <2>2. ChargedTo(ts, state) \subseteq DOMAIN ts
    BY DEF ChargedTo
  <2>3. IsFiniteSet(ChargedTo(ts, state)) /\ Cardinality(ChargedTo(ts, state)) \in Nat
    BY <2>2, <1>1, TxSetFinite
  <2>4. n \notin ChargedTo(ts, state)
    BY <2>2, <1>2
  <2>5. /\ IsFiniteSet(ChargedTo(ts, state) \cup {n})
        /\ Cardinality(ChargedTo(ts, state) \cup {n}) = Cardinality(ChargedTo(ts, state)) + 1
    BY <2>3, <2>4, FS_AddElement
  <2>6. /\ Cardinality(ChargedTo(longer, next)) <= Cardinality(ChargedTo(ts, state) \cup {n})
        /\ Cardinality(ChargedTo(longer, next)) \in Nat
    BY <2>1, <2>5, FS_Subset, FS_CardinalityType
  <2>7. Cardinality(ChargedTo(ts, state)) <= state.spent
    BY DEF StateFits
  <2>8. state.spent \in Nat
    BY <1>1 DEF MakerStates
  <2>9. QED
    BY <2>3, <2>5, <2>6, <2>7, <2>8, <1>4
<1>11. FundTxs(longer) # {} => next.started
  BY <1>2, <1>4 DEF FundTxs, StateFits
<1>12. StateFits(h, longer, d, next)
  BY <1>1, <1>4, <1>5, <1>8, <1>9, <1>10, <1>11 DEF StateFits
<1>13. QED
  BY <1>12 DEF longer, n, next

LEMMA TodayFollows ==
    ASSUME NEW h, NEW ts, NEW state, day \in Nat, StateFits(h, ts, day, state), state.pending = NoTx
    PROVE  Follows(h, ts, day, state, Today(state))
<1>1. state \in MakerStates /\ state.day \in Nat /\ state.day <= day
  BY DEF StateFits, MakerStates
<1>2. CASE day = state.day
  BY <1>1, <1>2, FollowsItself DEF Today
<1>3. CASE day # state.day
  <2> DEFINE next == [state EXCEPT !.day = day, !.spent = 0]
  <2>1. /\ next \in MakerStates /\ next.day = day /\ next.pending = state.pending
        /\ next.started = state.started /\ next.lastSlot = state.lastSlot
    BY <1>1 DEF MakerStates
  <2>2. state.day < day /\ day <= day
    BY <1>1, <1>3
  <2>3. state.lastSlot <= next.lastSlot
    BY <2>1, <1>1 DEF MakerStates
  <2>4. Today(state) = next
    BY <1>3 DEF Today
  <2> HIDE DEF next
  <2>5. Follows(h, ts, day, state, next)
    BY <2>1, <2>2, <2>3 DEF Follows
  <2>6. QED
    BY <2>4, <2>5
<1>4. QED
  BY <1>2, <1>3

LEMMA TodayState ==
    ASSUME NEW state \in MakerStates, day \in Nat
    PROVE  /\ Today(state) \in MakerStates /\ Today(state).pending = state.pending
           /\ Today(state).started = state.started /\ Today(state).day = day
BY DEF Today, MakerStates

LEMMA SendSigns ==
    ASSUME MakerInv, NEW body \in bot.plan, bot.at = "send",
           NEW today, today = Today(bot.state),
           txs' = Append(txs, Signed(Dated(body, today.day))),
           disk' \in {disk, Journalled(today, Len(txs) + 1)},
           \/ /\ disk' = Journalled(today, Len(txs) + 1)
              /\ bot' = [bot EXCEPT !.at = "broadcast", !.state = Journalled(today, Len(txs) + 1),
                                    !.plan = {}]
           \/ bot' = Thrown(bot, Journalled(today, Len(txs) + 1))
    PROVE  MakerFits(height, txs', day, bot', disk')
<1> DEFINE tx == Signed(Dated(body, today.day))
           longer == Append(txs, tx)
           n == Len(txs) + 1
           noted == Journalled(today, n)
<1>1. /\ TxsFit(height, txs) /\ StateFits(height, txs, day, bot.state) /\ LadderFits(height, txs)
      /\ StateFits(height, txs, day, disk) /\ BotFits(height, txs, bot, disk)
      /\ FundsOnce(txs) /\ day \in Nat
  BY DEF MakerInv, MakerFits
<1>2. bot \in Bots /\ bot.state \in MakerStates /\ txs \in Seq(MakerTxs) /\ height \in Nat
  BY <1>1 DEF BotFits, StateFits, TxsFit
<1>3. bot.state.pending = NoTx /\ body \in MakerPlans /\ FitsLadder(height, txs, body)
  BY <1>1, <1>2 DEF BotFits, Bots
<1>4. body.kind = "fund" => FundTxs(txs) = {} /\ bot.state.started /\ disk.started
  BY <1>1 DEF BotFits
<1>5. /\ today \in MakerStates /\ today.pending = NoTx /\ today.started = bot.state.started
      /\ today.day = day
  BY <1>1, <1>2, <1>3, TodayState
<1>6. StateFits(height, txs, day, today)
  BY <1>1, <1>3, TodayFollows, FollowsFits
<1>7. /\ Dated(body, today.day) \in MakerBodies /\ Dated(body, today.day).kind = body.kind
      /\ Dated(body, today.day).cancels = body.cancels /\ Dated(body, today.day).day = day
  BY <1>1, <1>3, <1>5, DatedBody
<1>8. /\ tx \in MakerTxs /\ tx.slot = 0 /\ ~tx.sent /\ tx.body = Dated(body, today.day)
  BY <1>2, <1>7, ClusterAssumption DEF Signed, MakerTxs
<1>9. Signs(txs, tx)
  BY <1>8 DEF Signs
<1>10. /\ longer \in Seq(MakerTxs) /\ DOMAIN longer = DOMAIN txs \cup {n} /\ longer[n] = tx
       /\ \A i \in DOMAIN txs : longer[i] = txs[i]
       /\ Len(longer) = n /\ n # NoTx /\ n \in Nat
  BY <1>2, <1>8, AppendedTxs DEF NoTx
<1>11. txs' = longer
  OBVIOUS
<1> HIDE DEF tx
<1>12. TxsFit(height, longer) /\ LadderFits(height, longer)
  BY <1>1, <1>9, SignedTxs
<1>13. StateFits(height, longer, day, disk)
  BY <1>1, <1>4, <1>7, <1>8, <1>9, SignedState
<1>14. StateFits(height, longer, day, noted)
  BY <1>1, <1>4, <1>5, <1>6, <1>7, <1>8, <1>9, JournalledState
<1>15. FundsOnce(longer)
  <2>1. ASSUME NEW i \in FundTxs(longer), NEW j \in FundTxs(longer)
        PROVE  i = j
    <3>1. CASE body.kind = "fund"
      <4>1. FundTxs(txs) = {}
        BY <3>1, <1>4
      <4>2. i = n /\ j = n
        BY <4>1, <2>1, <1>10 DEF FundTxs
      <4>3. QED
        BY <4>2
    <3>2. CASE body.kind # "fund"
      <4>1. i \in FundTxs(txs) /\ j \in FundTxs(txs)
        BY <3>2, <1>7, <1>8, <1>10 DEF FundTxs
      <4>2. QED
        BY <4>1, <1>1 DEF FundsOnce
    <3>3. QED
      BY <3>1, <3>2
  <2>2. QED
    BY <2>1 DEF FundsOnce
<1>16. noted \in MakerStates /\ noted.pending = n
  <2>1. today.spent + 1 \in Nat
    BY <1>5 DEF MakerStates
  <2>2. QED
    BY <1>5, <1>10, <2>1 DEF Journalled, MakerStates
<1> HIDE DEF longer, n, noted
<1>17. StateFits(height, longer, day, disk')
  BY <1>13, <1>14 DEF noted, n
<1>18. LadderBy(longer, height) = LadderBy(txs, height)
  BY <1>2, <1>9, SignedLadder DEF longer
<1>19. FitsLadder(height, longer, longer[n].body)
  BY <1>3, <1>7, <1>8, <1>10, <1>18 DEF FitsLadder
<1>20. CASE /\ disk' = noted
            /\ bot' = [bot EXCEPT !.at = "broadcast", !.state = noted, !.plan = {}]
  <2>1. bot' \in Bots /\ bot'.at = "broadcast" /\ bot'.state = noted /\ bot'.plan = {}
    BY <1>2, <1>16, <1>20 DEF Bots
  <2>2. BotFits(height, longer, bot', disk')
    BY <2>1, <1>8, <1>10, <1>16, <1>19, <1>20 DEF BotFits
  <2>3. QED
    BY <2>1, <2>2, <1>1, <1>11, <1>12, <1>14, <1>15, <1>17 DEF MakerFits
<1>21. CASE bot' = Thrown(bot, noted)
  <2>1. BotFits(height, longer, bot', disk') /\ bot'.state = noted
    <3>1. noted \in MakerStates /\ bot \in Bots
      BY <1>2, <1>16
    <3>2. bot' \in Bots /\ bot'.at \in {"down", "reconcile"} /\ bot'.state = noted
      BY <3>1, <1>21, ThrownRests
    <3>3. QED
      BY <3>2, RestingFits
  <2>2. QED
    BY <2>1, <1>1, <1>11, <1>12, <1>14, <1>15, <1>17 DEF MakerFits
<1>22. QED
  BY <1>20, <1>21 DEF noted, n

LEMMA SendFits ==
    ASSUME MakerInv, Send
    PROVE  MakerInv'
<1>1. /\ TxsFit(height, txs) /\ StateFits(height, txs, day, bot.state)
      /\ BotFits(height, txs, bot, disk) /\ day \in Nat
  BY DEF MakerInv, MakerFits
<1>2. bot \in Bots /\ bot.state \in MakerStates
  BY <1>1 DEF BotFits, StateFits
<1>3. bot.at = "send" /\ bot.state.pending = NoTx /\ UNCHANGED <<height, day>>
  BY <1>1 DEF BotFits, Send
<1>4. PICK body \in bot.plan :
        LET today   == Today(bot.state)
            noted == Journalled(today, Len(txs) + 1)
        IN  \/ /\ bot' = Thrown(bot, today) /\ UNCHANGED txs
               /\ Saved(today) \/ SaveFails(today) \/ UNCHANGED disk
            \/ /\ txs' = Append(txs, Signed(Dated(body, today.day)))
               /\ \/ /\ Saved(noted)
                     /\ bot' = [bot EXCEPT !.at = "broadcast", !.state = noted, !.plan = {}]
                  \/ SaveFails(noted) /\ bot' = Thrown(bot, noted)
  BY <1>3 DEF Send
<1> DEFINE today == Today(bot.state)
           noted == Journalled(today, Len(txs) + 1)
<1>5. CASE /\ bot' = Thrown(bot, today) /\ UNCHANGED txs
           /\ Saved(today) \/ SaveFails(today) \/ UNCHANGED disk
  <2>1. Follows(height, txs, day, bot.state, today) /\ today \in MakerStates
    BY <1>1, <1>2, <1>3, TodayFollows, TodayState
  <2>2. disk' \in {disk, today}
    BY <1>5, Saves
  <2>3. BotStep(height, txs, day, bot, bot', disk, disk')
    BY <1>2, <1>5, <2>1, <2>2, ThrownStep
  <2>4. MakerFits(height, txs, day, bot', disk')
    BY <2>3, BotStepFits DEF MakerInv
  <2>5. QED
    BY <2>4, <1>3, <1>5 DEF MakerInv
<1>6. CASE /\ txs' = Append(txs, Signed(Dated(body, today.day)))
           /\ \/ /\ Saved(noted)
                 /\ bot' = [bot EXCEPT !.at = "broadcast", !.state = noted, !.plan = {}]
              \/ SaveFails(noted) /\ bot' = Thrown(bot, noted)
  <2>1. disk' \in {disk, noted} /\ (Saved(noted) => disk' = noted)
    BY <1>6, Saves DEF Saved
  <2>2. MakerFits(height, txs', day, bot', disk')
    BY <1>3, <1>6, <2>1, SendSigns
  <2>3. QED
    BY <2>2, <1>3 DEF MakerInv
<1>7. QED
  BY <1>4, <1>5, <1>6

-----------------------------------------------------------------------------
(* A transaction is submitted.                                             *)

LEMMA BroadcastFits ==
    ASSUME MakerInv, Broadcast
    PROVE  MakerInv'
<1> DEFINE p == bot.state.pending
<1>1. /\ TxsFit(height, txs) /\ StateFits(height, txs, day, bot.state) /\ LadderFits(height, txs)
      /\ StateFits(height, txs, day, disk) /\ BotFits(height, txs, bot, disk)
      /\ FundsOnce(txs) /\ day \in Nat
  BY DEF MakerInv, MakerFits
<1>2. /\ bot \in Bots /\ bot.state \in MakerStates /\ txs \in Seq(MakerTxs)
      /\ UNCHANGED <<height, disk, day>> /\ bot.at = "broadcast"
  BY <1>1 DEF BotFits, StateFits, TxsFit, Broadcast
<1>3. disk = bot.state /\ p # NoTx /\ ~txs[p].sent /\ FitsLadder(height, txs, txs[p].body)
  BY <1>1, <1>2 DEF BotFits
<1>4. p \in DOMAIN txs
  BY <1>1, <1>2, <1>3 DEF StateFits, NoTx
<1>5. \/ bot' = [bot EXCEPT !.at = "confirm"]
      \/ bot' = Thrown(bot, bot.state)
  BY <1>2 DEF Broadcast
<1>6. bot'.state = bot.state /\ BotFits(height, txs', bot', disk')
  <2>1. CASE bot' = [bot EXCEPT !.at = "confirm"]
    BY <2>1, <1>2, <1>3 DEF Bots, BotFits
  <2>2. CASE bot' = Thrown(bot, bot.state)
    BY <2>2, <1>2, ThrownRests, RestingFits
  <2>3. QED
    BY <1>5, <2>1, <2>2
<1>7. CASE UNCHANGED txs
  BY <1>7, <1>1, <1>2, <1>6 DEF MakerInv, MakerFits
<1>8. CASE txs' = [txs EXCEPT ![p].sent = TRUE]
  <2> DEFINE sent == [txs EXCEPT ![p].sent = TRUE]
  <2>1. txs[p] \in MakerTxs
    BY <1>2, <1>4
  <2>2. /\ DOMAIN sent = DOMAIN txs /\ Len(sent) = Len(txs) /\ sent \in Seq(MakerTxs)
        /\ \A i \in DOMAIN txs : i # p => sent[i] = txs[i]
        /\ sent[p].sent /\ sent[p].body = txs[p].body /\ sent[p].slot = txs[p].slot
        /\ sent[p].valid = txs[p].valid /\ sent[p].ok = txs[p].ok
    <3> DEFINE tx == [txs[p] EXCEPT !.sent = TRUE]
    <3>1. /\ tx \in MakerTxs /\ tx.sent /\ tx.body = txs[p].body /\ tx.slot = txs[p].slot
          /\ tx.valid = txs[p].valid /\ tx.ok = txs[p].ok
      BY <2>1 DEF MakerTxs
    <3>2. sent = [txs EXCEPT ![p] = tx]
      OBVIOUS
    <3> HIDE DEF tx, sent
    <3>3. /\ DOMAIN sent = DOMAIN txs /\ Len(sent) = Len(txs) /\ sent \in Seq(MakerTxs)
          /\ \A i \in DOMAIN txs : i # p => sent[i] = txs[i]
          /\ sent[p] = tx
      BY <1>2, <1>4, <3>1, <3>2
    <3>4. QED
      BY <3>1, <3>3
  <2>3. sent = txs'
    BY <1>8
  <2> HIDE DEF sent, p
  <2>4. /\ \A i \in DOMAIN txs :
             /\ sent[i].body = txs[i].body /\ sent[i].slot = txs[i].slot
             /\ sent[i].valid = txs[i].valid /\ sent[i].ok = txs[i].ok
             /\ sent[i].sent <=> txs[i].sent \/ i = p
    BY <2>2
  <2>5. LadderBy(sent, height) = LadderBy(txs, height)
    <3>1. DoneBy(sent, height) = DoneBy(txs, height)
      BY <2>2, <2>4 DEF DoneBy
    <3>2. QED
      BY <3>1, <2>4 DEF LadderBy, DoneBy
  <2>6. TxsFit(height, sent)
    BY <1>1, <2>2, <2>4 DEF TxsFit
  <2>7. LadderFits(height, sent)
    <3>1. ASSUME NEW i \in DOMAIN sent, sent[i].sent, sent[i].slot = 0, height < sent[i].valid
          PROVE  FitsLadder(height, sent, sent[i].body)
      <4>1. i \in DOMAIN txs /\ (txs[i].sent \/ i = p) /\ txs[i].slot = 0 /\ height < txs[i].valid
        BY <3>1, <2>2, <2>4
      <4>2. FitsLadder(height, txs, txs[i].body)
        BY <4>1, <1>1, <1>3 DEF LadderFits, p
      <4>3. QED
        BY <4>1, <4>2, <2>4, <2>5 DEF FitsLadder
    <3>2. QED
      BY <3>1, <2>5, <1>1 DEF LadderFits
  <2>8. FundsOnce(sent)
    <3>1. FundTxs(sent) = FundTxs(txs)
      BY <2>2, <2>4 DEF FundTxs
    <3>2. QED
      BY <3>1, <1>1 DEF FundsOnce
  <2>9. StateFits(height, sent, day, bot.state)
    <3>1. ChargedTo(sent, bot.state) = ChargedTo(txs, bot.state)
      BY <2>2, <2>4 DEF ChargedTo, p
    <3>2. FundTxs(sent) = FundTxs(txs)
      BY <2>2, <2>4 DEF FundTxs
    <3>3. ASSUME NEW i \in DOMAIN sent, sent[i].sent, i # bot.state.pending
          PROVE  Gone(sent, height, i, bot.state.lastSlot)
      <4>1. i \in DOMAIN txs /\ txs[i].sent
        BY <3>3, <2>2, <2>4 DEF p
      <4>2. Gone(txs, height, i, bot.state.lastSlot)
        BY <4>1, <3>3, <1>1 DEF StateFits
      <4>3. QED
        BY <4>1, <4>2, <2>4 DEF Gone
    <3>4. ASSUME NEW i \in DOMAIN sent, sent[i].sent \/ i = bot.state.pending
          PROVE  sent[i].body.day <= bot.state.day
      <4>1. i \in DOMAIN txs /\ (txs[i].sent \/ i = bot.state.pending)
        BY <3>4, <2>2, <2>4 DEF p
      <4>2. QED
        BY <4>1, <1>1, <2>4 DEF StateFits
    <3>5. QED
      BY <3>1, <3>2, <3>3, <3>4, <2>2, <1>1 DEF StateFits
  <2>10. QED
    BY <2>3, <2>6, <2>7, <2>8, <2>9, <1>1, <1>2, <1>3, <1>6 DEF MakerInv, MakerFits
<1>9. QED
  BY <1>2, <1>7, <1>8 DEF Broadcast, Submitted

-----------------------------------------------------------------------------
(* Blocks.                                                                 *)

\* No transaction lands later than the last block.
LEMMA LadderStands ==
    ASSUME TxsFit(height, txs)
    PROVE  LadderBy(txs, height + 1) = LadderBy(txs, height)
<1>1. ASSUME NEW i \in DOMAIN txs
      PROVE  txs[i].slot \in 1..height <=> txs[i].slot \in 1..(height + 1)
  <2>1. txs[i] \in MakerTxs /\ height \in Nat /\ txs[i].slot <= height
    BY DEF TxsFit
  <2>2. txs[i].slot \in Nat
    BY <2>1 DEF MakerTxs
  <2>3. QED
    BY <2>1, <2>2
<1>2. DoneBy(txs, height + 1) = DoneBy(txs, height)
  BY <1>1 DEF DoneBy
<1>3. QED
  BY <1>2 DEF LadderBy

LEMMA EmptyBlockFits ==
    ASSUME MakerInv, EmptyBlock, UNCHANGED <<bot, disk, day>>
    PROVE  MakerInv'
<1>1. /\ TxsFit(height, txs) /\ StateFits(height, txs, day, bot.state) /\ LadderFits(height, txs)
      /\ StateFits(height, txs, day, disk) /\ BotFits(height, txs, bot, disk)
      /\ FundsOnce(txs) /\ day \in Nat
  BY DEF MakerInv, MakerFits
<1>2. height' = height + 1 /\ UNCHANGED txs /\ height \in Nat /\ txs \in Seq(MakerTxs)
  BY <1>1 DEF EmptyBlock, TxsFit
<1> DEFINE h == height + 1
<1>3. LadderBy(txs, h) = LadderBy(txs, height)
  BY <1>1, LadderStands
<1>4. h \in Nat /\ height <= h
  BY <1>2
<1>5. ASSUME NEW i \in DOMAIN txs
      PROVE  txs[i].slot \in Nat /\ txs[i].valid \in Nat /\ txs[i].slot <= height
  <2>1. txs[i] \in MakerTxs /\ txs[i].slot <= height
    BY <1>1 DEF TxsFit
  <2>2. QED
    BY <2>1 DEF MakerTxs
<1>6. height' = h
  BY <1>2
<1> HIDE DEF h
<1>7. TxsFit(h, txs)
  <2>1. ASSUME NEW i \in DOMAIN txs
        PROVE  txs[i].slot <= h
    BY <1>2, <1>4, <1>5
  <2>2. QED
    BY <2>1, <1>1, <1>4 DEF TxsFit
<1>8. LadderFits(h, txs)
  <2>1. ASSUME NEW i \in DOMAIN txs, txs[i].sent, txs[i].slot = 0, h < txs[i].valid
        PROVE  FitsLadder(h, txs, txs[i].body)
    <3>1. height < txs[i].valid
      BY <2>1, <1>2, <1>4, <1>5
    <3>2. FitsLadder(height, txs, txs[i].body)
      BY <2>1, <3>1, <1>1 DEF LadderFits
    <3>3. QED
      BY <3>2, <1>3 DEF FitsLadder
  <2>2. QED
    BY <2>1, <1>1, <1>3 DEF LadderFits
<1>9. ASSUME NEW state, StateFits(height, txs, day, state)
      PROVE  StateFits(h, txs, day, state)
  <2>1. ASSUME NEW i \in DOMAIN txs, Gone(txs, height, i, state.lastSlot)
        PROVE  Gone(txs, h, i, state.lastSlot)
    <3>1. CASE txs[i].slot \in 1..state.lastSlot
      BY <3>1 DEF Gone
    <3>2. CASE txs[i].slot = 0 /\ height >= txs[i].valid
      <4>1. h >= txs[i].valid
        BY <3>2, <1>2, <1>4, <1>5
      <4>2. QED
        BY <3>2, <4>1 DEF Gone
    <3>3. QED
      BY <2>1, <3>1, <3>2 DEF Gone
  <2>2. QED
    BY <2>1, <1>9 DEF StateFits
<1>10. BotFits(h, txs, bot, disk)
  <2>1. \A body : FitsLadder(height, txs, body) => FitsLadder(h, txs, body)
    BY <1>3 DEF FitsLadder
  <2>2. QED
    BY <2>1, <1>1 DEF BotFits
<1>11. MakerFits(h, txs, day, bot, disk)
  BY <1>1, <1>7, <1>8, <1>9, <1>10 DEF MakerFits
<1>12. QED
  BY <1>2, <1>6, <1>11 DEF MakerInv

\* ts is txs with transaction i in the block h.
Lands(ts, h, i, ok) ==
    /\ DOMAIN ts = DOMAIN txs /\ ts \in Seq(MakerTxs) /\ Len(ts) = Len(txs)
    /\ i \in DOMAIN txs
    /\ txs[i].sent /\ txs[i].slot = 0
    /\ ts[i].sent /\ ts[i].body = txs[i].body /\ ts[i].valid = txs[i].valid
    /\ ts[i].slot = h /\ ts[i].ok = ok
    /\ \A j \in DOMAIN txs : j # i => ts[j] = txs[j]

LEMMA BlockLands ==
    ASSUME TxsFit(height, txs), NEW i \in DOMAIN txs, NEW ok \in BOOLEAN, Block(i, ok)
    PROVE  /\ Lands(txs', height + 1, i, ok)
           /\ height' = height + 1 /\ height < txs[i].valid
<1> DEFINE tx == [txs[i] EXCEPT !.slot = height + 1, !.ok = ok]
           ts == [txs EXCEPT ![i].slot = height + 1, ![i].ok = ok]
<1>1. txs \in Seq(MakerTxs) /\ height \in Nat
  BY DEF TxsFit
<1>2. txs[i] \in MakerTxs /\ height + 1 \in Nat
  BY <1>1
<1>3. /\ tx \in MakerTxs /\ tx.sent = txs[i].sent /\ tx.body = txs[i].body /\ tx.valid = txs[i].valid
      /\ tx.slot = height + 1 /\ tx.ok = ok
  BY <1>2 DEF MakerTxs
<1>4. ts = [txs EXCEPT ![i] = tx]
  OBVIOUS
<1>5. txs' = ts /\ txs[i].sent /\ txs[i].slot = 0 /\ height' = height + 1 /\ height < txs[i].valid
  BY DEF Block
<1> HIDE DEF tx, ts
<1>6. /\ DOMAIN ts = DOMAIN txs /\ Len(ts) = Len(txs) /\ ts \in Seq(MakerTxs)
      /\ ts[i] = tx
      /\ \A j \in DOMAIN txs : j # i => ts[j] = txs[j]
  BY <1>1, <1>3, <1>4
<1>7. QED
  BY <1>3, <1>5, <1>6 DEF Lands

\* What is executed takes away what it cancels, and a quote adds itself.
LEMMA LandedLadder ==
    ASSUME TxsFit(height, txs), NEW ts, NEW i, NEW ok \in BOOLEAN,
           Lands(ts, height + 1, i, ok)
    PROVE  /\ ~ok => LadderBy(ts, height + 1) = LadderBy(txs, height)
           /\ ok /\ txs[i].body.kind # "quote" => LadderBy(ts, height + 1) \subseteq LadderBy(txs, height)
           /\ ok => LadderBy(ts, height + 1) \subseteq
                      (LadderBy(txs, height) \ txs[i].body.cancels) \cup {i}
           /\ i \notin LadderBy(txs, height)
<1> DEFINE h == height + 1
<1>1. height \in Nat /\ h \in Nat /\ h \in 1..h
  BY DEF TxsFit
<1>2. ASSUME NEW j \in DOMAIN txs
      PROVE  txs[j].slot \in 1..height <=> txs[j].slot \in 1..h
  <2>1. txs[j] \in MakerTxs /\ txs[j].slot <= height
    BY DEF TxsFit
  <2>2. txs[j].slot \in Nat
    BY <2>1 DEF MakerTxs
  <2>3. QED
    BY <2>1, <2>2, <1>1
<1> HIDE DEF h
<1>3. /\ DOMAIN ts = DOMAIN txs /\ i \in DOMAIN txs /\ txs[i].slot = 0
      /\ ts[i].body = txs[i].body /\ ts[i].slot = h /\ ts[i].ok = ok
      /\ \A j \in DOMAIN txs : j # i => ts[j] = txs[j]
  BY DEF Lands, h
<1>4. i \notin DoneBy(txs, height)
  BY <1>1, <1>3 DEF DoneBy
<1>5. DoneBy(ts, h) = IF ok THEN DoneBy(txs, height) \cup {i} ELSE DoneBy(txs, height)
  BY <1>1, <1>2, <1>3, <1>4 DEF DoneBy
<1>6. \A j \in DOMAIN txs : ts[j].body = txs[j].body
  BY <1>3
<1>7. DoneBy(txs, height) \subseteq DOMAIN txs
  BY DEF DoneBy
<1>8. CASE ~ok
  BY <1>3, <1>4, <1>5, <1>6, <1>7, <1>8 DEF LadderBy, h
<1>9. CASE ok
  <2>1. DoneBy(ts, h) = DoneBy(txs, height) \cup {i}
    BY <1>5, <1>9
  <2>2. ASSUME NEW j \in LadderBy(ts, h), j # i
        PROVE  j \in LadderBy(txs, height) /\ j \notin txs[i].body.cancels
    <3>1. j \in DoneBy(txs, height) /\ txs[j].body.kind = "quote"
      BY <2>1, <2>2, <1>6, <1>7 DEF LadderBy
    <3>2. \A k \in DoneBy(ts, h) : j \notin ts[k].body.cancels
      BY <2>2 DEF LadderBy
    <3>3. \A k \in DoneBy(txs, height) : j \notin txs[k].body.cancels
      BY <3>2, <2>1, <1>6, <1>7
    <3>4. j \notin txs[i].body.cancels
      BY <3>2, <2>1, <1>3
    <3>5. QED
      BY <3>1, <3>3, <3>4 DEF LadderBy
  <2>3. i \in LadderBy(ts, h) => txs[i].body.kind = "quote"
    BY <1>3 DEF LadderBy
  <2>4. QED
    BY <2>2, <2>3, <1>4, <1>9 DEF LadderBy, h
<1>10. QED
  BY <1>8, <1>9

LEMMA LandedWithin ==
    ASSUME TxsFit(height, txs), LadderFits(height, txs), NEW ts, NEW i, NEW ok \in BOOLEAN,
           Lands(ts, height + 1, i, ok), height < txs[i].valid,
           ok => txs[i].body.cancels \subseteq LadderBy(txs, height)
    PROVE  Cardinality(LadderBy(ts, height + 1)) <= Levels
<1> DEFINE L == LadderBy(txs, height)
           next == LadderBy(ts, height + 1)
           c == txs[i].body.cancels
<1>1. txs \in Seq(MakerTxs) /\ ts \in Seq(MakerTxs) /\ Cardinality(L) <= Levels /\ Levels \in Nat
  BY MakerAssumption DEF TxsFit, Lands, LadderFits
<1>2. L \subseteq DOMAIN txs /\ IsFiniteSet(L) /\ Cardinality(L) \in Nat
  <2>1. L \subseteq DOMAIN txs
    BY LadderSubset
  <2>2. QED
    BY <2>1, <1>1, TxSetFinite
<1>3. next \subseteq DOMAIN ts /\ IsFiniteSet(next) /\ Cardinality(next) \in Nat
  <2>1. next \subseteq DOMAIN ts
    BY LadderSubset
  <2>2. QED
    BY <2>1, <1>1, TxSetFinite
<1>4. /\ ~ok => next = L
      /\ ok /\ txs[i].body.kind # "quote" => next \subseteq L
      /\ ok => next \subseteq (L \ c) \cup {i}
      /\ i \notin L
  BY LandedLadder
<1>5. txs[i].body.kind = "quote" => c # {} \/ Cardinality(L) < Levels
  <2>1. txs[i].sent /\ txs[i].slot = 0 /\ i \in DOMAIN txs
    BY DEF Lands
  <2>2. FitsLadder(height, txs, txs[i].body)
    BY <2>1 DEF LadderFits
  <2>3. QED
    BY <2>2 DEF FitsLadder
<1>6. ok => c \subseteq L
  OBVIOUS
<1> HIDE DEF L, next, c
<1>7. ASSUME next \subseteq L
      PROVE  Cardinality(next) <= Levels
  <2>1. Cardinality(next) <= Cardinality(L)
    BY <1>2, <1>7, FS_Subset
  <2>2. QED
    BY <2>1, <1>1, <1>2, <1>3
<1>8. ASSUME ok, c # {}
      PROVE  Cardinality(next) <= Levels
  <2>1. PICK x \in c : TRUE
    BY <1>8
  <2>2. x \in L /\ next \subseteq (L \ {x}) \cup {i} /\ i \notin L \ {x}
    BY <2>1, <1>4, <1>6, <1>8
  <2>3. IsFiniteSet(L \ {x}) /\ Cardinality(L \ {x}) = Cardinality(L) - 1
    BY <2>2, <1>2, FS_RemoveElement
  <2>4. /\ IsFiniteSet((L \ {x}) \cup {i})
        /\ Cardinality((L \ {x}) \cup {i}) = Cardinality(L \ {x}) + 1
    BY <2>2, <2>3, FS_AddElement
  <2>5. Cardinality(next) <= Cardinality((L \ {x}) \cup {i})
    BY <2>2, <2>4, FS_Subset
  <2>6. QED
    BY <2>3, <2>4, <2>5, <1>1, <1>2, <1>3
<1>9. ASSUME ok, Cardinality(L) < Levels
      PROVE  Cardinality(next) <= Levels
  <2>1. next \subseteq L \cup {i}
    BY <1>4, <1>9
  <2>2. IsFiniteSet(L \cup {i}) /\ Cardinality(L \cup {i}) = Cardinality(L) + 1
    BY <1>2, <1>4, FS_AddElement
  <2>3. Cardinality(next) <= Cardinality(L \cup {i})
    BY <2>1, <2>2, FS_Subset
  <2>4. QED
    BY <2>2, <2>3, <1>1, <1>2, <1>3, <1>9
<1>10. QED
  BY <1>4, <1>5, <1>7, <1>8, <1>9 DEF next

\* Nothing but the journalled transaction lands.
LEMMA OnlyPendingLands ==
    ASSUME NEW d, NEW state, NEW i \in DOMAIN txs, TxsFit(height, txs),
           StateFits(height, txs, d, state),
           txs[i].sent, txs[i].slot = 0, height < txs[i].valid
    PROVE  i = state.pending
<1>1. SUFFICES ASSUME i # state.pending PROVE FALSE
  OBVIOUS
<1>2. Gone(txs, height, i, state.lastSlot)
  BY <1>1 DEF StateFits
<1>3. txs[i] \in MakerTxs /\ height \in Nat /\ state \in MakerStates
  BY DEF TxsFit, StateFits
<1>4. txs[i].valid \in Nat /\ state.lastSlot \in Nat
  BY <1>3 DEF MakerTxs, MakerStates
<1>5. txs[i].slot \notin 1..state.lastSlot
  BY <1>4
<1>6. height >= txs[i].valid
  BY <1>2, <1>5 DEF Gone
<1>7. QED
  BY <1>3, <1>4, <1>6

LEMMA BlockFits ==
    ASSUME MakerInv, NEW i \in DOMAIN txs, Executes(i), UNCHANGED <<bot, disk, day>>
    PROVE  MakerInv'
<1>1. /\ TxsFit(height, txs) /\ StateFits(height, txs, day, bot.state) /\ LadderFits(height, txs)
      /\ StateFits(height, txs, day, disk) /\ BotFits(height, txs, bot, disk)
      /\ FundsOnce(txs) /\ day \in Nat
  BY DEF MakerInv, MakerFits
<1>2. Open(height) = LadderBy(txs, height)
  BY <1>1, OpenIsLadder
<1>3. PICK ok \in BOOLEAN :
        (ok => txs[i].body.cancels \subseteq LadderBy(txs, height)) /\ Block(i, ok)
  BY <1>2 DEF Executes
<1> DEFINE ts == txs'
           h == height + 1
<1>4. Lands(ts, h, i, ok) /\ height' = h /\ height < txs[i].valid
  BY <1>1, <1>3, BlockLands
<1>5. txs[i].sent /\ txs[i].slot = 0
  BY <1>4 DEF Lands
<1>6. i = bot.state.pending /\ i = disk.pending
  BY <1>1, <1>4, <1>5, OnlyPendingLands
<1>7. Cardinality(LadderBy(ts, h)) <= Levels
  BY <1>1, <1>3, <1>4, LandedWithin
<1>8. height \in Nat /\ h \in Nat /\ height <= h /\ h > 0 /\ txs \in Seq(MakerTxs)
  BY <1>1 DEF TxsFit
<1>9. \A j \in DOMAIN txs : txs[j].slot \in Nat /\ txs[j].valid \in Nat /\ txs[j].slot <= height
  <2>1. \A j \in DOMAIN txs : txs[j] \in MakerTxs /\ txs[j].slot <= height
    BY <1>1 DEF TxsFit
  <2>2. QED
    BY <2>1 DEF MakerTxs
<1>10. h <= txs[i].valid
  BY <1>4, <1>8, <1>9
<1>11. /\ DOMAIN ts = DOMAIN txs /\ ts \in Seq(MakerTxs) /\ Len(ts) = Len(txs)
       /\ ts[i].sent /\ ts[i].body = txs[i].body /\ ts[i].valid = txs[i].valid /\ ts[i].slot = h
       /\ \A j \in DOMAIN txs : j # i => ts[j] = txs[j]
  BY <1>4 DEF Lands
<1> HIDE DEF ts, h
<1>12. \A j \in DOMAIN txs : ts[j].body = txs[j].body /\ (ts[j].sent <=> txs[j].sent)
  BY <1>5, <1>11
<1>13. TxsFit(h, ts)
  <2>1. ASSUME NEW j \in DOMAIN ts
        PROVE  ts[j].slot <= h /\ ts[j].slot <= ts[j].valid /\ (ts[j].slot > 0 => ts[j].sent)
    <3>1. CASE j = i
      BY <3>1, <1>8, <1>10, <1>11
    <3>2. CASE j # i
      <4>1. ts[j] = txs[j] /\ j \in DOMAIN txs
        BY <3>2, <1>11
      <4>2. txs[j].slot <= txs[j].valid /\ (txs[j].slot > 0 => txs[j].sent)
        BY <4>1, <1>1 DEF TxsFit
      <4>3. txs[j].slot <= h
        BY <4>1, <1>8, <1>9
      <4>4. QED
        BY <4>1, <4>2, <4>3
    <3>3. QED
      BY <3>1, <3>2
  <2>2. QED
    BY <2>1, <1>8, <1>11 DEF TxsFit
<1>14. LadderFits(h, ts)
  <2>1. ASSUME NEW j \in DOMAIN ts, ts[j].sent, ts[j].slot = 0, h < ts[j].valid
        PROVE  FALSE
    <3>1. j # i
      BY <2>1, <1>8, <1>11
    <3>2. j \in DOMAIN txs /\ ts[j] = txs[j]
      BY <3>1, <1>11, <2>1
    <3>3. height < txs[j].valid
      BY <3>2, <2>1, <1>8, <1>9
    <3>4. QED
      BY <3>1, <3>2, <3>3, <2>1, <1>1, <1>6, OnlyPendingLands
  <2>2. QED
    BY <2>1, <1>7 DEF LadderFits
<1>15. FundTxs(ts) = FundTxs(txs)
  BY <1>11, <1>12 DEF FundTxs
<1>16. ASSUME NEW state, state.pending = i, StateFits(height, txs, day, state)
       PROVE  StateFits(h, ts, day, state)
  <2>1. ChargedTo(ts, state) = ChargedTo(txs, state)
    BY <1>11, <1>12 DEF ChargedTo
  <2>2. ASSUME NEW j \in DOMAIN ts, ts[j].sent, j # state.pending
        PROVE  Gone(ts, h, j, state.lastSlot)
    <3>1. j \in DOMAIN txs /\ ts[j] = txs[j]
      BY <2>2, <1>11, <1>16
    <3>2. Gone(txs, height, j, state.lastSlot)
      BY <2>2, <3>1, <1>16 DEF StateFits
    <3>3. height >= txs[j].valid => h >= txs[j].valid
      BY <3>1, <1>8, <1>9
    <3>4. QED
      BY <3>1, <3>2, <3>3 DEF Gone
  <2>3. ASSUME NEW j \in DOMAIN ts, ts[j].sent \/ j = state.pending
        PROVE  ts[j].body.day <= state.day
    <3>1. j \in DOMAIN txs /\ (txs[j].sent \/ j = state.pending) /\ ts[j].body = txs[j].body
      BY <2>3, <1>11, <1>12
    <3>2. QED
      BY <3>1, <1>16 DEF StateFits
  <2>4. QED
    BY <2>1, <2>2, <2>3, <1>11, <1>15, <1>16 DEF StateFits
<1>17. bot.at \notin {"view", "send", "broadcast"}
  BY <1>1, <1>5, <1>6, <1>8 DEF BotFits, NoTx
<1>18. BotFits(h, ts, bot, disk)
  BY <1>1, <1>17 DEF BotFits
<1>19. FundsOnce(ts)
  BY <1>1, <1>15 DEF FundsOnce
<1>20. MakerFits(h, ts, day, bot, disk)
  BY <1>1, <1>6, <1>13, <1>14, <1>16, <1>18, <1>19 DEF MakerFits
<1>21. QED
  BY <1>4, <1>20 DEF MakerInv, ts

-----------------------------------------------------------------------------
(* Every step.                                                             *)

LEMMA MakerInitial ==
    ASSUME MakerInit
    PROVE  MakerInv
<1>1. /\ height = 1 /\ txs = <<>> /\ day = 1 /\ disk = InitialState
      /\ bot = Down(InitialState)
  BY DEF MakerInit, ClusterInit
<1>2. InitialState \in MakerStates /\ InitialState.pending = 0 /\ InitialState.day = 1
      /\ InitialState.spent = 0
  BY DEF InitialState, MakerStates, NoTx
<1>3. bot \in Bots /\ bot.at = "down" /\ bot.state = InitialState
  BY <1>1, <1>2 DEF Down, Bots, MakerTasks
<1>4. txs \in Seq(MakerTxs) /\ DOMAIN txs = {} /\ Len(txs) = 0
  BY <1>1
<1>5. LadderBy(txs, height) = {} /\ FundTxs(txs) = {} /\ ChargedTo(txs, InitialState) = {}
  BY <1>4 DEF LadderBy, DoneBy, FundTxs, ChargedTo
<1>6. TxsFit(height, txs) /\ FundsOnce(txs)
  BY <1>1, <1>4, <1>5 DEF TxsFit, FundsOnce
<1>7. Cardinality({}) = 0
  BY FS_EmptySet
<1>8. LadderFits(height, txs)
  BY <1>4, <1>5, <1>7, MakerAssumption DEF LadderFits
<1>9. StateFits(height, txs, day, InitialState)
  <2>1. InitialState.day <= day /\ InitialState.pending \in 0..Len(txs)
    BY <1>1, <1>2, <1>4
  <2>2. Cardinality(ChargedTo(txs, InitialState)) <= InitialState.spent
    BY <1>2, <1>5, <1>7
  <2>3. QED
    BY <2>1, <2>2, <1>2, <1>4, <1>5 DEF StateFits
<1>10. BotFits(height, txs, bot, disk)
  BY <1>3, RestingFits
<1>11. QED
  BY <1>1, <1>3, <1>6, <1>8, <1>9, <1>10 DEF MakerInv, MakerFits

LEMMA MakerStep ==
    ASSUME MakerInv, [MakerNext]_makerVars
    PROVE  MakerInv'
<1>1. /\ TxsFit(height, txs) /\ StateFits(height, txs, day, bot.state) /\ LadderFits(height, txs)
      /\ StateFits(height, txs, day, disk) /\ BotFits(height, txs, bot, disk)
      /\ FundsOnce(txs) /\ day \in Nat
  BY DEF MakerInv, MakerFits
<1>2. bot \in Bots /\ disk \in MakerStates
  BY <1>1 DEF BotFits, StateFits
<1>3. ASSUME MakerMoves, UNCHANGED <<height, txs, day>>
      PROVE  MakerInv'
  <2>1. MakerFits(height, txs, day, bot', disk')
    BY <1>3, BotStepFits DEF MakerInv, MakerMoves
  <2>2. QED
    BY <2>1, <1>3 DEF MakerInv
<1>4. ASSUME bot' \in Bots, bot'.state = disk, bot'.at \in {"down", "reconcile"},
             UNCHANGED <<height, txs, day, disk>>
      PROVE  MakerInv'
  <2>1. BotFits(height, txs, bot', disk)
    BY <1>4, RestingFits
  <2>2. MakerFits(height, txs, day, bot', disk)
    BY <2>1, <1>1, <1>4 DEF MakerFits
  <2>3. QED
    BY <2>2, <1>4 DEF MakerInv
<1>5. CASE Start
  <2>1. PICK task \in {"quote", "fund"} : bot' = [Down(disk) EXCEPT !.at = "reconcile", !.task = task]
    BY <1>5 DEF Start
  <2>2. bot' \in Bots /\ bot'.state = disk /\ bot'.at = "reconcile"
    BY <2>1, <1>2 DEF Down, Bots, MakerTasks
  <2>3. QED
    BY <2>2, <1>4, <1>5 DEF Start, cluster
<1>6. CASE Crash
  <2>1. bot' \in Bots /\ bot'.state = disk /\ bot'.at = "down"
    BY <1>2, <1>6 DEF Crash, Down, Bots, MakerTasks
  <2>2. QED
    BY <2>1, <1>4, <1>6 DEF Crash, cluster
<1>7. CASE ReconcilePending
  BY <1>3, <1>7, ReconcileMoves DEF ReconcilePending, cluster
<1>8. CASE View
  BY <1>3, <1>8, ViewMoves DEF View, cluster
<1>9. CASE Send
  BY <1>9, SendFits
<1>10. CASE Broadcast
  BY <1>10, BroadcastFits
<1>11. CASE Confirm
  BY <1>3, <1>11, ConfirmMoves DEF Confirm, cluster
<1>12. CASE ClusterSteps
  <2>1. UNCHANGED <<bot, disk, day>>
    BY <1>12 DEF ClusterSteps, botVars
  <2>2. CASE EmptyBlock
    BY <2>1, <2>2, EmptyBlockFits
  <2>3. ASSUME NEW i \in Own, Executes(i)
        PROVE  MakerInv'
    BY <2>1, <2>3, BlockFits DEF Own
  <2>4. QED
    BY <1>12, <2>2, <2>3 DEF ClusterSteps
<1>13. CASE Midnight
  <2>1. UNCHANGED <<height, txs, bot, disk>> /\ day' = day + 1
    BY <1>13 DEF Midnight, cluster
  <2>2. \A state : StateFits(height, txs, day, state) => StateFits(height, txs, day + 1, state)
    <3>1. ASSUME NEW state, StateFits(height, txs, day, state)
          PROVE  state.day <= day + 1
      <4>1. state.day \in Nat /\ state.day <= day
        BY <3>1 DEF StateFits, MakerStates
      <4>2. QED
        BY <4>1, <1>1
    <3>2. QED
      BY <3>1 DEF StateFits
  <2>3. MakerFits(height, txs, day + 1, bot, disk)
    BY <2>2, <1>1 DEF MakerFits
  <2>4. QED
    BY <2>1, <2>3 DEF MakerInv
<1>14. CASE UNCHANGED makerVars
  BY <1>14 DEF makerVars, cluster, botVars, MakerInv
<1>15. QED
  BY <1>5, <1>6, <1>7, <1>8, <1>9, <1>10, <1>11, <1>12, <1>13, <1>14 DEF MakerNext

\* The journal of the market maker tells the truth wherever it is read, in memory and in
\* the state file: everything sent but the journalled transaction has landed by the last
\* slot of the State or never will, and it is charged and latched.
THEOREM MakerInvariant == MakerSpec => []MakerInv
BY MakerInitial, MakerStep, PTL DEF MakerSpec

\* The market maker never has more open orders than its ladder has levels, although it
\* sends again after a crash, a lost answer or a failed save (execution.ts:
\* reconcilePending() settles the journalled transaction before anything is planned).
THEOREM LadderStaysBounded == MakerSpec => []LadderBounded
<1>1. MakerInv => LadderBounded
  <2>1. ASSUME MakerInv
        PROVE  LadderBounded
    <3>1. TxsFit(height, txs) /\ LadderFits(height, txs)
      BY <2>1 DEF MakerInv, MakerFits
    <3>2. Open(height) = LadderBy(txs, height)
      BY <3>1, OpenIsLadder
    <3>3. QED
      BY <3>1, <3>2 DEF LadderBounded, LadderFits
  <2>2. QED
    BY <2>1
<1>2. QED
  BY <1>1, MakerInvariant, PTL

\* What landed of the transactions of the day in the state file is charged in that file,
\* whichever save failed and wherever the process died (execution.ts: send() charges
\* the State and saves it before it broadcasts).
THEOREM SpendStaysCharged == MakerSpec => []SpendCharged
<1>1. MakerInv => SpendCharged
  <2>1. ASSUME MakerInv
        PROVE  SpendCharged
    <3> DEFINE landed == {i \in Own : txs[i].body.day = disk.day /\ txs[i].slot > 0}
    <3>1. TxsFit(height, txs) /\ StateFits(height, txs, day, disk)
      BY <2>1 DEF MakerInv, MakerFits
    <3>2. Own = DOMAIN txs /\ txs \in Seq(MakerTxs) /\ disk \in MakerStates
      BY <3>1, OpenIsLadder DEF TxsFit, StateFits
    <3>3. landed \subseteq ChargedTo(txs, disk) /\ ChargedTo(txs, disk) \subseteq DOMAIN txs
      BY <3>1, <3>2 DEF ChargedTo, TxsFit
    <3> HIDE DEF landed
    <3>4. Cardinality(landed) <= Cardinality(ChargedTo(txs, disk))
      BY <3>2, <3>3, SmallerTxSet
    <3>5. Cardinality(landed) \in Nat /\ Cardinality(ChargedTo(txs, disk)) \in Nat
      BY <3>2, <3>3, TxSetFinite
    <3>6. Cardinality(ChargedTo(txs, disk)) <= disk.spent /\ disk.spent \in Nat
      BY <3>1, <3>2 DEF StateFits, MakerStates
    <3>7. Cardinality(landed) <= disk.spent
      BY <3>4, <3>5, <3>6
    <3>8. QED
      BY <3>7 DEF SpendCharged, landed
  <2>2. QED
    BY <2>1
<1>2. QED
  BY <1>1, MakerInvariant, PTL

\* The market maker funds its market at most once (engine.ts: that it has started is in the
\* state file before there is a funding transaction to broadcast).
THEOREM FundedAtMostOnce == MakerSpec => []FundedOnce
<1>1. MakerInv => FundedOnce
  <2>1. ASSUME MakerInv
        PROVE  FundedOnce
    <3> DEFINE funds == {i \in Own : txs[i].body.kind = "fund" /\ txs[i].sent}
    <3>1. TxsFit(height, txs) /\ FundsOnce(txs)
      BY <2>1 DEF MakerInv, MakerFits
    <3>2. Own = DOMAIN txs
      BY <3>1, OpenIsLadder
    <3>3. \A i, j \in funds : i = j
      BY <3>1, <3>2 DEF FundsOnce, FundTxs
    <3> HIDE DEF funds
    <3>4. ASSUME funds = {}
          PROVE  Cardinality(funds) = 0
      BY <3>4, FS_EmptySet
    <3>5. ASSUME funds # {}
          PROVE  Cardinality(funds) = 1
      <4>1. PICK x \in funds : TRUE
        BY <3>5
      <4>2. funds = {x}
        BY <4>1, <3>3
      <4>3. QED
        BY <4>2, FS_Singleton
    <3>6. Cardinality(funds) <= 1
      BY <3>4, <3>5
    <3>7. QED
      BY <3>6 DEF FundedOnce, funds
  <2>2. QED
    BY <2>1
<1>2. QED
  BY <1>1, MakerInvariant, PTL

-----------------------------------------------------------------------------
(* Delegated orders: what the variables hold.                              *)

OrderTxs == [body : [order : Orders, seen : Nat], valid : Nat, sent : BOOLEAN, slot : Nat, ok : BOOLEAN]
RequestStates ==
    [at : {"asked", "plan", "simulate", "replan", "status", "send", "confirm"} \cup Ended,
     row : Nat, seen : Nat, replans : Nat]

\* A row is of a transaction that places its order.
RowOf(ts, o, i) == i \in DOMAIN ts /\ ts[i].body.order = o

PlacedBy(h, ts, o) == \E i \in DOMAIN ts : ts[i].slot \in 1..h /\ ts[i].ok /\ ts[i].body.order = o

RequestFits(h, ts, r, q) ==
    /\ q \in RequestStates
    /\ q.at \in {"status", "send", "confirm"} => RowOf(ts, OrderOf(r), q.row)
    /\ q.at = "placed" => PlacedBy(h, ts, OrderOf(r))

JournalFits(ts, o, i) == i \in Nat /\ (i # Unwritten => RowOf(ts, o, i))

SubmitFits(h, ts, reqs, rows, holder) ==
    /\ h \in Nat /\ ts \in Seq(OrderTxs)
    /\ reqs \in [Requests -> RequestStates]
    /\ \A r \in Requests : RequestFits(h, ts, r, reqs[r])
    /\ rows \in [Orders -> Nat]
    /\ \A o \in Orders : JournalFits(ts, o, rows[o])
    /\ holder \in Requests \cup {Nobody}

SubmitInv == SubmitFits(height, txs, requests, journal, lock)

\* Nothing that was executed is undone, and no transaction changes what it places.
Grows(h, ts, h1, ts1) ==
    \A i \in DOMAIN ts :
        /\ i \in DOMAIN ts1 /\ ts1[i].body = ts[i].body
        /\ ts[i].slot \in 1..h /\ ts[i].ok => ts1[i].slot \in 1..h1 /\ ts1[i].ok

LEMMA GrownFits ==
    ASSUME NEW h, NEW ts, NEW h1, NEW ts1, Grows(h, ts, h1, ts1)
    PROVE  /\ \A r, q : RequestFits(h, ts, r, q) => RequestFits(h1, ts1, r, q)
           /\ \A o, i : JournalFits(ts, o, i) => JournalFits(ts1, o, i)
<1>1. \A o, i : RowOf(ts, o, i) => RowOf(ts1, o, i)
  BY DEF Grows, RowOf
<1>2. \A o : PlacedBy(h, ts, o) => PlacedBy(h1, ts1, o)
  BY DEF Grows, PlacedBy
<1>3. QED
  BY <1>1, <1>2 DEF RequestFits, JournalFits

\* A step of one request: its record, and the row of its order.
RequestStep(r, q) ==
    /\ height' \in Nat /\ txs' \in Seq(OrderTxs)
    /\ Grows(height, txs, height', txs')
    /\ requests' = [requests EXCEPT ![r] = q]
    /\ RequestFits(height', txs', r, q)
    /\ \/ journal' = journal
       \/ \E i : journal' = [journal EXCEPT ![OrderOf(r)] = i] /\ JournalFits(txs', OrderOf(r), i)
    /\ lock' \in {lock, r, Nobody}

LEMMA RequestStepFits ==
    ASSUME SubmitInv, NEW r \in Requests, NEW q, RequestStep(r, q)
    PROVE  SubmitInv'
<1>1. /\ requests \in [Requests -> RequestStates] /\ journal \in [Orders -> Nat]
      /\ lock \in Requests \cup {Nobody}
      /\ \A x \in Requests : RequestFits(height, txs, x, requests[x])
      /\ \A o \in Orders : JournalFits(txs, o, journal[o])
  BY DEF SubmitInv, SubmitFits
<1>2. OrderOf(r) \in Orders
  BY DEF Orders
<1>3. /\ \A x \in Requests : RequestFits(height', txs', x, requests[x])
      /\ \A o \in Orders : JournalFits(txs', o, journal[o])
  BY <1>1, GrownFits DEF RequestStep
<1>4. /\ q \in RequestStates /\ RequestFits(height', txs', r, q)
      /\ requests' = [requests EXCEPT ![r] = q]
  BY DEF RequestStep, RequestFits
<1>5. requests' \in [Requests -> RequestStates] /\ \A x \in Requests : RequestFits(height', txs', x, requests'[x])
  BY <1>1, <1>3, <1>4
<1>6. journal' \in [Orders -> Nat] /\ \A o \in Orders : JournalFits(txs', o, journal'[o])
  <2>1. CASE journal' = journal
    BY <2>1, <1>1, <1>3
  <2>2. ASSUME NEW i, journal' = [journal EXCEPT ![OrderOf(r)] = i], JournalFits(txs', OrderOf(r), i)
        PROVE  journal' \in [Orders -> Nat] /\ \A o \in Orders : JournalFits(txs', o, journal'[o])
    <3>1. i \in Nat
      BY <2>2 DEF JournalFits
    <3>2. QED
      BY <3>1, <2>2, <1>1, <1>2, <1>3
  <2>3. QED
    BY <2>1, <2>2 DEF RequestStep
<1>7. lock' \in Requests \cup {Nobody}
  BY <1>1 DEF RequestStep
<1>8. QED
  BY <1>5, <1>6, <1>7 DEF SubmitInv, SubmitFits, RequestStep

LEMMA ClusterStepFits ==
    ASSUME SubmitInv, height' \in Nat, txs' \in Seq(OrderTxs),
           Grows(height, txs, height', txs'), UNCHANGED <<requests, journal, lock>>
    PROVE  SubmitInv'
BY GrownFits DEF SubmitInv, SubmitFits

LEMMA SameGrows ==
    ASSUME UNCHANGED cluster, SubmitInv
    PROVE  height' \in Nat /\ txs' \in Seq(OrderTxs) /\ Grows(height, txs, height', txs')
BY DEF cluster, Grows, SubmitInv, SubmitFits

\* An answer that is not a placement asks for nothing.
LEMMA RefusedFits ==
    ASSUME NEW h, NEW ts, NEW r, NEW q \in RequestStates,
           NEW at \in {"plan", "simulate", "replan", "failed", "expired"}
    PROVE  RequestFits(h, ts, r, [q EXCEPT !.at = at])
BY DEF RequestFits, RequestStates, Ended

LEMMA RollbackStep ==
    ASSUME SubmitInv, NEW r \in Requests, NEW at \in {"failed", "expired"}, Rollback(r, at),
           height' \in Nat, txs' \in Seq(OrderTxs), Grows(height, txs, height', txs')
    PROVE  SubmitInv'
<1> DEFINE q == [requests[r] EXCEPT !.at = at]
<1>1. requests[r] \in RequestStates
  BY DEF SubmitInv, SubmitFits
<1>2. RequestFits(height', txs', r, q)
  BY <1>1, RefusedFits
<1>3. /\ requests' = [requests EXCEPT ![r] = q]
      /\ journal' = journal /\ lock' \in {lock, r, Nobody}
  BY DEF Rollback
<1> HIDE DEF q
<1>4. RequestStep(r, q)
  BY <1>2, <1>3 DEF RequestStep
<1>5. QED
  BY <1>4, RequestStepFits

LEMMA LockFits ==
    ASSUME SubmitInv, NEW r \in Requests, Lock(r)
    PROVE  SubmitInv'
<1> DEFINE row == journal[OrderOf(r)]
           q == [requests[r] EXCEPT !.row = row,
                                    !.at = IF row = Unwritten THEN "plan" ELSE "status"]
<1>1. requests[r] \in RequestStates /\ JournalFits(txs, OrderOf(r), row)
  BY DEF SubmitInv, SubmitFits, Orders
<1>2. row \in Nat /\ (row # Unwritten => RowOf(txs, OrderOf(r), row))
  BY <1>1 DEF JournalFits
<1>3. UNCHANGED cluster /\ lock' = r /\ journal' = journal
  BY DEF Lock
<1>4. requests' = [requests EXCEPT ![r] = q]
  BY DEF Lock
<1> HIDE DEF row
<1>5. /\ q \in RequestStates /\ q.row = row
      /\ q.at = IF row = Unwritten THEN "plan" ELSE "status"
  BY <1>1, <1>2 DEF RequestStates, Ended
<1> HIDE DEF q
<1>6. RequestFits(height, txs, r, q)
  BY <1>2, <1>5 DEF RequestFits
<1>7. height' = height /\ txs' = txs
  BY <1>3 DEF cluster
<1>8. RequestStep(r, q)
  BY <1>3, <1>4, <1>6, <1>7, SameGrows DEF RequestStep
<1>9. QED
  BY <1>8, RequestStepFits

\* A snapshot of the index is of a block.
LEMMA LaggingBlocks ==
    ASSUME NEW s \in Nat, height \in Nat
    PROVE  Lagging(s) \subseteq Nat
BY DEF Lagging

LEMMA PlanFits ==
    ASSUME SubmitInv, NEW r \in Requests, PlanOrder(r) \/ WaitForIndexedSlot(r)
    PROVE  SubmitInv'
<1>1. requests[r] \in RequestStates /\ height \in Nat
  BY DEF SubmitInv, SubmitFits
<1>2. UNCHANGED cluster
  BY DEF PlanOrder, WaitForIndexedSlot
<1>3. height' \in Nat /\ txs' \in Seq(OrderTxs) /\ Grows(height, txs, height', txs')
  BY <1>2, SameGrows
<1>4. ASSUME NEW s \in Nat, Still,
             requests' = [requests EXCEPT ![r].seen = s, ![r].at = "simulate"]
      PROVE  SubmitInv'
  <2> DEFINE q == [requests[r] EXCEPT !.seen = s, !.at = "simulate"]
  <2>1. q \in RequestStates /\ q.at = "simulate"
    BY <1>1 DEF RequestStates
  <2>2. requests' = [requests EXCEPT ![r] = q]
    BY <1>4
  <2> HIDE DEF q
  <2>3. RequestFits(height', txs', r, q)
    BY <2>1 DEF RequestFits
  <2>4. RequestStep(r, q)
    BY <2>2, <2>3, <1>3, <1>4 DEF RequestStep, Still
  <2>5. QED
    BY <2>4, RequestStepFits
<1>5. CASE PlanOrder(r)
  <2>1. PICK s \in Lagging(0) : requests' = [requests EXCEPT ![r].seen = s, ![r].at = "simulate"]
    BY <1>5 DEF PlanOrder
  <2>2. s \in Nat
    BY <2>1, <1>1, LaggingBlocks
  <2>3. QED
    BY <2>1, <2>2, <1>4, <1>5 DEF PlanOrder
<1>6. CASE WaitForIndexedSlot(r)
  <2>1. requests[r].seen \in Nat
    BY <1>1 DEF RequestStates
  <2>2. \A s \in Lagging(requests[r].seen) : s \in Nat
    BY <2>1, <1>1, LaggingBlocks
  <2>3. CASE Rollback(r, "failed")
    BY <2>3, <1>3, RollbackStep
  <2>4. QED
    BY <2>2, <2>3, <1>4, <1>6 DEF WaitForIndexedSlot
<1>7. QED
  BY <1>5, <1>6

LEMMA SimulateFits ==
    ASSUME SubmitInv, NEW r \in Requests, Simulate(r)
    PROVE  SubmitInv'
<1> DEFINE old == requests[r]
<1>1. /\ requests[r] \in RequestStates /\ height \in Nat /\ txs \in Seq(OrderTxs)
      /\ OrderOf(r) \in Orders
  BY DEF SubmitInv, SubmitFits, Orders
<1>2. height' = height
  BY DEF Simulate, Rollback
<1>3. Final..height \subseteq Nat
  BY <1>1, ClusterAssumption DEF Final
<1>4. PICK s \in Final..height :
        \/ Rollback(r, "failed") /\ UNCHANGED txs
        \/ /\ requests' = [requests EXCEPT ![r].at = "replan", ![r].replans = @ + 1,
                                           ![r].seen = ReplanFloor(s)]
           /\ Still /\ UNCHANGED txs
        \/ /\ txs' = Append(txs, Signed([order |-> OrderOf(r), seen |-> requests[r].seen]))
           /\ requests' = [requests EXCEPT ![r].row = Len(txs) + 1, ![r].at = "status"]
           /\ Still
  BY DEF Simulate
<1>5. CASE Rollback(r, "failed") /\ UNCHANGED txs
  BY <1>5, <1>2, SameGrows, RollbackStep DEF cluster
<1>6. CASE /\ requests' = [requests EXCEPT ![r].at = "replan", ![r].replans = @ + 1,
                                           ![r].seen = ReplanFloor(s)]
           /\ Still /\ UNCHANGED txs
  <2> DEFINE q == [requests[r] EXCEPT !.at = "replan", !.replans = @ + 1, !.seen = ReplanFloor(s)]
  <2>1. requests[r].replans + 1 \in Nat /\ ReplanFloor(s) \in Nat
    BY <1>1, <1>3 DEF RequestStates, ReplanFloor
  <2>2. q \in RequestStates /\ q.at = "replan"
    BY <1>1, <2>1 DEF RequestStates
  <2>3. requests' = [requests EXCEPT ![r] = q]
    BY <1>6
  <2> HIDE DEF q
  <2>4. RequestFits(height', txs', r, q)
    BY <2>2 DEF RequestFits
  <2>5. RequestStep(r, q)
    BY <2>3, <2>4, <1>2, <1>6, SameGrows DEF RequestStep, Still, cluster
  <2>6. QED
    BY <2>5, RequestStepFits
<1>7. CASE /\ txs' = Append(txs, Signed([order |-> OrderOf(r), seen |-> requests[r].seen]))
           /\ requests' = [requests EXCEPT ![r].row = Len(txs) + 1, ![r].at = "status"]
           /\ Still
  <2> DEFINE tx == Signed([order |-> OrderOf(r), seen |-> requests[r].seen])
             n == Len(txs) + 1
             q == [requests[r] EXCEPT !.row = n, !.at = "status"]
  <2>1. requests[r].seen \in Nat /\ n \in Nat
    BY <1>1 DEF RequestStates
  <2>2. tx \in OrderTxs /\ tx.body.order = OrderOf(r)
    BY <1>1, <2>1, ClusterAssumption DEF Signed, OrderTxs
  <2>3. q \in RequestStates /\ q.row = n /\ q.at = "status"
    BY <1>1, <2>1 DEF RequestStates
  <2>4. txs' = Append(txs, tx) /\ requests' = [requests EXCEPT ![r] = q]
    BY <1>7
  <2> HIDE DEF tx, q
  <2>5. /\ txs' \in Seq(OrderTxs) /\ n \in DOMAIN txs' /\ txs'[n] = tx
        /\ \A i \in DOMAIN txs : i \in DOMAIN txs' /\ txs'[i] = txs[i]
    BY <2>2, <2>4, <1>1
  <2> HIDE DEF n
  <2>6. Grows(height, txs, height', txs')
    BY <2>5, <1>2 DEF Grows
  <2>7. RowOf(txs', OrderOf(r), n)
    BY <2>2, <2>5 DEF RowOf
  <2>8. RequestFits(height', txs', r, q)
    BY <2>3, <2>7 DEF RequestFits
  <2>9. RequestStep(r, q)
    BY <2>4, <2>5, <2>6, <2>8, <1>1, <1>2, <1>7 DEF RequestStep, Still
  <2>10. QED
    BY <2>9, RequestStepFits
<1>8. QED
  BY <1>4, <1>5, <1>6, <1>7

\* The commit of a request whose transaction has placed its order.
LEMMA CommitStep ==
    ASSUME SubmitInv, NEW r \in Requests, requests[r].at \in {"status", "confirm"},
           UNCHANGED cluster, NEW s \in Nat, s <= height,
           Landed(requests[r].row, s), txs[requests[r].row].ok, Commit(r, "placed")
    PROVE  SubmitInv'
<1> DEFINE i == requests[r].row
           q == [requests[r] EXCEPT !.at = "placed"]
<1>1. /\ requests[r] \in RequestStates /\ height \in Nat /\ txs \in Seq(OrderTxs)
      /\ RequestFits(height, txs, r, requests[r])
  BY DEF SubmitInv, SubmitFits
<1>2. RowOf(txs, OrderOf(r), i) /\ i \in Nat
  BY <1>1 DEF RequestFits, RequestStates
<1>3. i \in DOMAIN txs /\ txs[i].slot \in 1..height /\ txs[i].ok /\ txs[i].body.order = OrderOf(r)
  BY <1>1, <1>2 DEF RowOf, Landed
<1>4. PlacedBy(height, txs, OrderOf(r))
  BY <1>3 DEF PlacedBy
<1>5. q \in RequestStates /\ q.at = "placed"
  BY <1>1 DEF RequestStates, Ended
<1>6. /\ requests' = [requests EXCEPT ![r] = q] /\ lock' = Nobody
      /\ journal' = [journal EXCEPT ![OrderOf(r)] = i]
  BY DEF Commit
<1> HIDE DEF q, i
<1>7. RequestFits(height, txs, r, q) /\ JournalFits(txs, OrderOf(r), i)
  BY <1>2, <1>4, <1>5 DEF RequestFits, JournalFits
<1>8. height' = height /\ txs' = txs
  BY DEF cluster
<1>9. RequestStep(r, q)
  BY <1>6, <1>7, <1>8, SameGrows DEF RequestStep
<1>10. QED
  BY <1>9, RequestStepFits

LEMMA StatusFits ==
    ASSUME SubmitInv, NEW r \in Requests, Status(r) \/ ConfirmOrder(r)
    PROVE  SubmitInv'
<1> DEFINE i == requests[r].row
<1>1. /\ requests[r] \in RequestStates /\ height \in Nat /\ txs \in Seq(OrderTxs)
      /\ RequestFits(height, txs, r, requests[r])
  BY DEF SubmitInv, SubmitFits
<1>2. UNCHANGED cluster
  BY DEF Status, ConfirmOrder
<1>3. height' \in Nat /\ txs' \in Seq(OrderTxs) /\ Grows(height, txs, height', txs')
  BY <1>2, SameGrows
<1>4. \A at \in {"failed", "expired"} : Rollback(r, at) => SubmitInv'
  BY <1>3, RollbackStep
<1>5. ASSUME NEW s \in Nat, s <= height, requests[r].at \in {"status", "confirm"},
             Landed(i, s), txs[i].ok, Commit(r, "placed")
      PROVE  SubmitInv'
  BY <1>2, <1>5, CommitStep
<1>6. ASSUME requests[r].at = "status", Moves(r, "send"), Still
      PROVE  SubmitInv'
  <2> DEFINE q == [requests[r] EXCEPT !.at = "send"]
  <2>1. q \in RequestStates /\ q.at = "send" /\ q.row = i
    BY <1>1 DEF RequestStates
  <2>2. requests' = [requests EXCEPT ![r] = q]
    BY <1>6 DEF Moves
  <2>3. RowOf(txs, OrderOf(r), i)
    BY <1>1, <1>6 DEF RequestFits
  <2> HIDE DEF q
  <2>4. RequestFits(height, txs, r, q)
    BY <2>1, <2>3 DEF RequestFits
  <2>5. RequestStep(r, q)
    BY <2>2, <2>4, <1>2, <1>3, <1>6 DEF RequestStep, Still, cluster
  <2>6. QED
    BY <2>5, RequestStepFits
<1>7. CASE Status(r)
  <2>1. PICK s \in Final..height :
           \/ /\ Landed(i, s)
              /\ IF txs[i].ok THEN Commit(r, "placed") ELSE Rollback(r, "failed")
           \/ Rollback(r, "expired")
           \/ Moves(r, "send") /\ Still
    BY <1>7 DEF Status
  <2>2. s \in Nat /\ s <= height
    BY <1>1, ClusterAssumption DEF Final
  <2>3. requests[r].at = "status"
    BY <1>7 DEF Status
  <2>4. QED
    BY <2>1, <2>2, <2>3, <1>4, <1>5, <1>6
<1>8. CASE ConfirmOrder(r)
  <2>1. height <= height
    BY <1>1
  <2>2. QED
    BY <2>1, <1>1, <1>4, <1>5, <1>8 DEF ConfirmOrder
<1>9. QED
  BY <1>7, <1>8

LEMMA SendOrderFits ==
    ASSUME SubmitInv, NEW r \in Requests, SendOrder(r)
    PROVE  SubmitInv'
<1> DEFINE i == requests[r].row
<1>1. /\ requests[r] \in RequestStates /\ height \in Nat /\ txs \in Seq(OrderTxs)
      /\ RequestFits(height, txs, r, requests[r]) /\ requests[r].at = "send"
  BY DEF SubmitInv, SubmitFits, SendOrder
<1>2. height' = height
  BY DEF SendOrder
<1>3. RowOf(txs, OrderOf(r), i)
  BY <1>1 DEF RequestFits
<1>4. CASE Rollback(r, "failed") /\ UNCHANGED txs
  BY <1>2, <1>4, SameGrows, RollbackStep DEF cluster
<1>5. CASE Submitted(i) /\ ((Moves(r, "confirm") /\ Still) \/ Rollback(r, "failed"))
  <2> DEFINE tx == [txs[i] EXCEPT !.sent = TRUE]
             q == [requests[r] EXCEPT !.at = "confirm"]
  <2>1. i \in DOMAIN txs
    BY <1>3 DEF RowOf
  <2>2. txs[i] \in OrderTxs
    BY <1>1, <2>1
  <2>3. tx \in OrderTxs /\ tx.body = txs[i].body /\ tx.slot = txs[i].slot /\ tx.ok = txs[i].ok
    BY <2>2 DEF OrderTxs
  <2>4. txs' = [txs EXCEPT ![i] = tx]
    BY <1>5 DEF Submitted
  <2>5. q \in RequestStates /\ q.at = "confirm" /\ q.row = i
    BY <1>1 DEF RequestStates
  <2>6. Moves(r, "confirm") => requests' = [requests EXCEPT ![r] = q]
    BY DEF Moves
  <2> HIDE DEF tx, q, i
  <2>7. /\ txs' \in Seq(OrderTxs) /\ DOMAIN txs' = DOMAIN txs /\ txs'[i] = tx
        /\ \A j \in DOMAIN txs : j # i => txs'[j] = txs[j]
    BY <1>1, <2>1, <2>3, <2>4
  <2>8. \A j \in DOMAIN txs : txs'[j].body = txs[j].body /\ txs'[j].slot = txs[j].slot /\ txs'[j].ok = txs[j].ok
    BY <2>3, <2>7
  <2>9. Grows(height, txs, height', txs')
    BY <2>7, <2>8, <1>2 DEF Grows
  <2>10. CASE Rollback(r, "failed")
    BY <2>7, <2>9, <2>10, <1>1, <1>2, RollbackStep
  <2>11. CASE Moves(r, "confirm") /\ Still
    <3>1. RowOf(txs', OrderOf(r), i)
      BY <1>3, <2>7, <2>8 DEF RowOf, i
    <3>2. RequestFits(height', txs', r, q)
      BY <2>5, <3>1 DEF RequestFits
    <3>3. RequestStep(r, q)
      BY <3>2, <2>6, <2>7, <2>9, <2>11, <1>1, <1>2 DEF RequestStep, Still
    <3>4. QED
      BY <3>3, RequestStepFits
  <2>12. QED
    BY <1>5, <2>10, <2>11
<1>6. QED
  BY <1>4, <1>5 DEF SendOrder

LEMMA ApiCrashFits ==
    ASSUME SubmitInv, ApiCrash
    PROVE  SubmitInv'
<1>1. lock \in Requests
  BY DEF SubmitInv, SubmitFits, ApiCrash
<1>2. Rollback(lock, "failed") /\ UNCHANGED cluster
  BY DEF ApiCrash
<1>3. QED
  BY <1>1, <1>2, SameGrows, RollbackStep

LEMMA OrderBlocksFit ==
    ASSUME SubmitInv, OrderBlock \/ OtherBlock
    PROVE  SubmitInv'
<1>1. height \in Nat /\ txs \in Seq(OrderTxs) /\ height + 1 \in Nat
  BY DEF SubmitInv, SubmitFits
<1>2. UNCHANGED <<requests, lock, journal>>
  BY DEF OrderBlock, OtherBlock
<1>3. CASE OtherBlock
  <2>1. height' = height + 1 /\ txs' = txs
    BY <1>3 DEF OtherBlock, EmptyBlock
  <2>2. \A n \in Int : n \in 1..height => n \in 1..(height + 1)
    BY <1>1
  <2>3. ASSUME NEW i \in DOMAIN txs
        PROVE  txs[i].slot \in 1..height => txs[i].slot \in 1..(height + 1)
    <3>1. txs[i] \in OrderTxs
      BY <1>1
    <3>2. QED
      BY <3>1, <2>2 DEF OrderTxs
  <2>4. Grows(height, txs, height', txs')
    BY <2>1, <2>3 DEF Grows
  <2>5. QED
    BY <2>1, <2>4, <1>1, <1>2, ClusterStepFits
<1>4. ASSUME NEW i \in DOMAIN txs, NEW ok \in BOOLEAN, Block(i, ok)
      PROVE  SubmitInv'
  <2> DEFINE tx == [txs[i] EXCEPT !.slot = height + 1, !.ok = ok]
  <2>1. txs[i] \in OrderTxs
    BY <1>1
  <2>2. tx \in OrderTxs /\ tx.body = txs[i].body
    BY <2>1, <1>1 DEF OrderTxs
  <2>3. height' = height + 1 /\ txs' = [txs EXCEPT ![i] = tx] /\ txs[i].slot = 0
    BY <1>4 DEF Block
  <2> HIDE DEF tx
  <2>4. /\ txs' \in Seq(OrderTxs) /\ DOMAIN txs' = DOMAIN txs /\ txs'[i] = tx
        /\ \A j \in DOMAIN txs : j # i => txs'[j] = txs[j]
    BY <1>1, <2>2, <2>3
  <2>5. ASSUME NEW j \in DOMAIN txs
        PROVE  /\ txs'[j].body = txs[j].body
               /\ txs[j].slot \in 1..height /\ txs[j].ok => txs'[j].slot \in 1..(height + 1) /\ txs'[j].ok
    <3>1. txs[j] \in OrderTxs
      BY <1>1
    <3>2. txs[j].slot \in Nat
      BY <3>1 DEF OrderTxs
    <3>3. CASE j = i
      BY <3>3, <2>2, <2>3, <2>4
    <3>4. CASE j # i
      <4>1. txs'[j] = txs[j]
        BY <3>4, <2>4
      <4>2. txs[j].slot \in 1..height => txs[j].slot \in 1..(height + 1)
        BY <3>2, <1>1
      <4>3. QED
        BY <4>1, <4>2
    <3>5. QED
      BY <3>3, <3>4
  <2>6. Grows(height, txs, height', txs')
    BY <2>3, <2>4, <2>5 DEF Grows
  <2>7. QED
    BY <2>3, <2>4, <2>6, <1>1, <1>2, ClusterStepFits
<1>5. CASE OrderBlock
  <2>1. PICK i \in DOMAIN txs :
          Block(i, ~Placed(txs[i].body.order, height) /\ ~Stale(txs[i].body.seen, height))
    BY <1>5 DEF OrderBlock
  <2>2. QED
    BY <2>1, <1>4
<1>6. QED
  BY <1>3, <1>5

LEMMA SubmitInitial ==
    ASSUME SubmitInit
    PROVE  SubmitInv
<1>1. height = 1 /\ txs = <<>> /\ lock = Nobody
  BY DEF SubmitInit, ClusterInit
<1>2. requests = [r \in Requests |-> [at |-> "asked", row |-> Unwritten, seen |-> 0, replans |-> 0]]
  BY DEF SubmitInit
<1>3. journal = [o \in Orders |-> Unwritten]
  BY DEF SubmitInit
<1>4. \A r \in Requests : requests[r] \in RequestStates /\ requests[r].at = "asked"
  BY <1>2 DEF RequestStates, Unwritten
<1>5. requests \in [Requests -> RequestStates]
  BY <1>2 DEF RequestStates, Unwritten
<1>6. \A r \in Requests : RequestFits(height, txs, r, requests[r])
  BY <1>4 DEF RequestFits
<1>7. journal \in [Orders -> Nat] /\ \A o \in Orders : JournalFits(txs, o, journal[o])
  BY <1>3 DEF JournalFits, Unwritten
<1>8. height \in Nat /\ txs \in Seq(OrderTxs)
  BY <1>1
<1>9. QED
  BY <1>1, <1>5, <1>6, <1>7, <1>8 DEF SubmitInv, SubmitFits

LEMMA SubmitStep ==
    ASSUME SubmitInv, [SubmitNext]_submitVars
    PROVE  SubmitInv'
<1>1. ASSUME NEW r \in Requests, Lock(r) \/ Handles(r)
      PROVE  SubmitInv'
  BY <1>1, LockFits, PlanFits, SimulateFits, StatusFits, SendOrderFits DEF Handles
<1>2. CASE UNCHANGED submitVars
  BY <1>2 DEF submitVars, cluster, apiVars, SubmitInv
<1>3. QED
  BY <1>1, <1>2, ApiCrashFits, OrderBlocksFit DEF SubmitNext

\* A row names a transaction of its order, whoever holds the lock and whatever has failed.
THEOREM SubmitInvariant == SubmitSpec => []SubmitInv
BY SubmitInitial, SubmitStep, PTL DEF SubmitSpec

\* A request that has answered that its order is placed was right, whatever answers were
\* lost on the way: the transaction it has seen land is one of its order, and what has
\* landed in a confirmed block does not go away (delegated-order submission).
THEOREM PlacedStaysPlaced == SubmitSpec => []PlacedIsPlaced
<1>1. SubmitInv => PlacedIsPlaced
  BY DEF SubmitInv, SubmitFits, RequestFits, PlacedBy, PlacedIsPlaced, Placed, Executed, Landed
<1>2. QED
  BY <1>1, SubmitInvariant, PTL

-----------------------------------------------------------------------------
(* The lookup-table keeper: what its variables hold.                       *)

LookupTables == [entries : Seq(Nat), active : BOOLEAN]
Rooms == UNION {[S -> Int] : S \in SUBSET Nat}
PassStates ==
    [at : {"idle", "tables", "extend", "register"}, missing : SUBSET Nat, room : Rooms,
     budget : Nat, sends : Int, extended : Nat, created : BOOLEAN]
KeeperStates == [running : BOOLEAN, day : Nat, spent : Nat, known : SUBSET Nat]

\* The entries of the active tables of a registry.
Stored(tbls, reg) ==
    {x \in Nat : \E t \in reg :
        tbls[t].active /\ \E i \in DOMAIN tbls[t].entries : tbls[t].entries[i] = x}

StoredOnce(tbls, reg, dt) ==
    \A t, u \in reg : tbls[t].active /\ tbls[u].active =>
        \A i \in DOMAIN tbls[t].entries, j \in DOMAIN tbls[u].entries :
            tbls[t].entries[i] = tbls[u].entries[j] /\ tbls[t].entries[i] \notin dt
                => t = u /\ i = j

TablesFit(tbls, reg) == tbls \in Seq(LookupTables) /\ reg \subseteq DOMAIN tbls

\* What may land yet is of the registry; an entry that no plan has missed is in no table
\* and under way once.
LateFits(tbls, reg, lt, dt) ==
    /\ \A x \in lt : x.table \in reg /\ x.entry \in Nat
    /\ \A x \in lt : x.entry \notin dt => x.entry \notin Stored(tbls, reg)
    /\ \A x, y \in lt : x.entry \notin dt /\ x.entry = y.entry => x = y

\* What a plan goes by: the entries that it misses and finds in a table after all, and all
\* that is under way, are doubted.
MissingFits(tbls, reg, lt, dt, missing) ==
    /\ \A a \in missing : a \in Stored(tbls, reg) => a \in dt
    /\ \A x \in lt : x.entry \in dt

\* A pass under way is the one the keeper waits for, and its budget is what the day leaves.
PassFits(tbls, reg, lt, dt, k, pass) ==
    /\ pass \in PassStates
    /\ pass.at # "idle" => k.running /\ k.spent + pass.budget = DayBudget + pass.extended
    /\ pass.at \in {"extend", "register"} => MissingFits(tbls, reg, lt, dt, pass.missing)
    /\ pass.at = "extend" => DOMAIN pass.room \subseteq reg
    /\ pass.at = "register" =>
         Len(tbls) > 0 /\ Len(tbls) \notin reg /\ tbls[Len(tbls)].entries = <<>>

KeeperFits(w, tbls, reg, ps, k, lt, dt) ==
    /\ w \subseteq Nat
    /\ TablesFit(tbls, reg) /\ StoredOnce(tbls, reg, dt) /\ LateFits(tbls, reg, lt, dt)
    /\ k \in KeeperStates /\ k.spent <= DayBudget
    /\ DOMAIN ps = Passes /\ ps = [p \in Passes |-> ps[p]]
    /\ \A p \in Passes : PassFits(tbls, reg, lt, dt, k, ps[p])
    /\ \A p, q \in Passes : ps[p].at # "idle" /\ ps[q].at # "idle" => p = q

KeeperInv ==
    /\ KeeperFits(wanted, tables, registry, passes, keeper, late, doubted)
    /\ calendar \in {0, 1}

-----------------------------------------------------------------------------
LEMMA LeastIsMember ==
    ASSUME NEW S, S \subseteq Nat, S # {}
    PROVE  Least(S) \in S /\ \A y \in S : Least(S) <= y
<1> DEFINE below == OpToRel(<, Nat)
<1>1. PICK x \in S : \A y \in S : <<y, x>> \notin below
  <2> HIDE DEF below
  <2>1. IsWellFoundedOn(below, Nat)
    BY NatLessThanWellFounded DEF below
  <2>2. QED
    BY <2>1, WFMin
<1>2. ASSUME NEW y \in S
      PROVE  x <= y
  <2>1. x \in Nat /\ y \in Nat
    OBVIOUS
  <2>2. ~(y < x)
    BY <1>1, <2>1 DEF OpToRel
  <2>3. QED
    BY <2>1, <2>2
<1>3. QED
  BY <1>2 DEF Least

LEMMA PresentIsStored ==
    ASSUME TablesFit(tables, registry)
    PROVE  Present = Stored(tables, registry)
<1>1. \A t \in registry : tables[t] \in LookupTables
  BY DEF TablesFit
<1>2. ASSUME NEW t \in registry, NEW i \in DOMAIN tables[t].entries
      PROVE  tables[t].entries[i] \in Nat
  BY <1>1 DEF LookupTables
<1>3. QED
  BY <1>2 DEF Present, Held, ToSet, Stored

\* A node shows tables of entries, whether it lags or not.
LEMMA ViewsFit ==
    ASSUME TablesFit(tables, registry), NEW view \in Views \cup {tables}
    PROVE  /\ \A t \in registry : view[t].entries \in Seq(Nat)
           /\ Held(view) \in SUBSET Nat
<1>1. ASSUME NEW t \in registry PROVE view[t].entries \in Seq(Nat)
  <2>1. tables[t] \in LookupTables
    BY DEF TablesFit
  <2>2. tables[t].entries \in Seq(Nat)
    BY <2>1 DEF LookupTables
  <2>3. CASE view \in Views
    <3>1. view[t] \in Earlier(t)
      BY <2>3 DEF Views
    <3>2. PICK n \in 0 .. Len(tables[t].entries), a \in BOOLEAN :
             view[t] = [entries |-> SubSeq(tables[t].entries, 1, n), active |-> a]
      BY <3>1 DEF Earlier
    <3>3. SubSeq(tables[t].entries, 1, n) \in Seq(Nat)
      BY <2>2
    <3>4. QED
      BY <3>2, <3>3
  <2>4. QED
    BY <2>2, <2>3
<1>2. ASSUME NEW t \in registry, NEW x \in ToSet(view[t].entries) PROVE x \in Nat
  BY <1>1 DEF ToSet
<1>3. QED
  BY <1>1, <1>2 DEF Held

LEMMA StoredNat ==
    ASSUME NEW tbls, NEW reg
    PROVE  Stored(tbls, reg) \subseteq Nat
BY DEF Stored

LEMMA IdlePass ==
    ASSUME NEW tbls, NEW reg, NEW lt, NEW dt, NEW k
    PROVE  PassFits(tbls, reg, lt, dt, k, NoPass) /\ NoPass.at = "idle"
<1>1. <<>> \in [{} -> Int]
  OBVIOUS
<1>2. {} \in SUBSET Nat
  OBVIOUS
<1>3. <<>> \in Rooms
  BY <1>1, <1>2 DEF Rooms
<1>4. NoPass \in PassStates /\ NoPass.at = "idle"
  BY <1>3 DEF NoPass, PassStates
<1>5. QED
  BY <1>4 DEF PassFits

\* An idle pass fits whatever the others do.
LEMMA IdleFits ==
    ASSUME NEW tbls, NEW reg, NEW lt, NEW dt, NEW k, NEW pass \in PassStates, pass.at = "idle"
    PROVE  PassFits(tbls, reg, lt, dt, k, pass)
BY DEF PassFits

\* The step of one pass, while the others are idle.
PassMoves(p, q) ==
    /\ \A r \in Passes : r # p => passes[r].at = "idle"
    /\ passes' = [passes EXCEPT ![p] = q]
    /\ TablesFit(tables', registry') /\ StoredOnce(tables', registry', doubted')
    /\ LateFits(tables', registry', late', doubted')
    /\ keeper' \in KeeperStates /\ keeper'.spent <= DayBudget
    /\ PassFits(tables', registry', late', doubted', keeper', q)
    /\ UNCHANGED <<wanted, calendar>>

LEMMA PassMovesFit ==
    ASSUME KeeperInv, NEW p \in Passes, NEW q, PassMoves(p, q)
    PROVE  KeeperInv'
<1>1. /\ DOMAIN passes = Passes /\ passes = [r \in Passes |-> passes[r]]
      /\ \A r \in Passes : passes[r] \in PassStates
      /\ wanted \subseteq Nat /\ calendar \in {0, 1}
  BY DEF KeeperInv, KeeperFits, PassFits
<1>2. passes' = [passes EXCEPT ![p] = q] /\ UNCHANGED <<wanted, calendar>>
  BY DEF PassMoves
<1>3. /\ DOMAIN passes' = Passes /\ passes' = [r \in Passes |-> passes'[r]]
      /\ passes'[p] = q /\ \A r \in Passes : r # p => passes'[r] = passes[r]
  BY <1>1, <1>2
<1>4. \A r \in Passes : r # p => passes'[r].at = "idle"
  BY <1>3 DEF PassMoves
<1>5. \A r \in Passes : PassFits(tables', registry', late', doubted', keeper', passes'[r])
  BY <1>1, <1>3, <1>4, IdleFits DEF PassMoves
<1>6. KeeperFits(wanted', tables', registry', passes', keeper', late', doubted')
  BY <1>1, <1>2, <1>3, <1>4, <1>5 DEF KeeperFits, PassMoves
<1>7. QED
  BY <1>1, <1>2, <1>6 DEF KeeperInv

\* What holds where a pass is under way.
LEMMA UnderWay ==
    ASSUME KeeperInv, NEW p \in Passes, passes[p].at # "idle"
    PROVE  /\ \A r \in Passes : r # p => passes[r].at = "idle"
           /\ PassFits(tables, registry, late, doubted, keeper, passes[p]) /\ passes[p] \in PassStates
           /\ TablesFit(tables, registry) /\ StoredOnce(tables, registry, doubted)
           /\ LateFits(tables, registry, late, doubted)
           /\ keeper \in KeeperStates /\ keeper.spent <= DayBudget /\ keeper.running
           /\ keeper.spent + passes[p].budget = DayBudget + passes[p].extended
BY DEF KeeperInv, KeeperFits, PassFits

LEMMA KeeperChanges ==
    ASSUME NEW k \in KeeperStates
    PROVE  /\ Idle(k) \in KeeperStates /\ Idle(k).spent = k.spent
           /\ Unread(k) \in KeeperStates /\ Unread(k).spent = k.spent
           /\ Unread(k).running = k.running
<1>1. {0} \in SUBSET Nat
  OBVIOUS
<1>2. QED
  BY <1>1 DEF Idle, Unread, Unknown, KeeperStates

\* A pass ends, whatever it has done to the tables.
LEMMA EndsFits ==
    ASSUME KeeperInv, NEW p \in Passes, passes[p].at # "idle", Ends(p),
           keeper' \in {Idle(keeper), Idle(Unread(keeper))},
           TablesFit(tables', registry'), StoredOnce(tables', registry', doubted'),
           LateFits(tables', registry', late', doubted'), UNCHANGED <<wanted, calendar>>
    PROVE  KeeperInv'
<1>1. \A r \in Passes : r # p => passes[r].at = "idle"
  BY UnderWay
<1>2. keeper \in KeeperStates /\ keeper.spent <= DayBudget
  BY UnderWay
<1>3. keeper' \in KeeperStates /\ keeper'.spent = keeper.spent
  BY <1>2, KeeperChanges
<1>4. PassFits(tables', registry', late', doubted', keeper', NoPass)
  BY IdlePass
<1>5. PassMoves(p, NoPass)
  BY <1>1, <1>2, <1>3, <1>4 DEF PassMoves, Ends
<1>6. QED
  BY <1>5, PassMovesFit

\* An entry that no table holds, or that is doubted, is appended to an active one.
Adds(tbls, t, a) == [tbls EXCEPT ![t].entries = Append(@, a)]

LEMMA AddedTables ==
    ASSUME NEW tbls, NEW reg, NEW dt, TablesFit(tbls, reg), StoredOnce(tbls, reg, dt),
           NEW t \in reg, NEW a \in Nat, tbls[t].active, a \in Stored(tbls, reg) => a \in dt
    PROVE  /\ TablesFit(Adds(tbls, t, a), reg) /\ StoredOnce(Adds(tbls, t, a), reg, dt)
           /\ Stored(Adds(tbls, t, a), reg) \subseteq Stored(tbls, reg) \cup {a}
           /\ DOMAIN Adds(tbls, t, a) = DOMAIN tbls
           /\ \A u \in DOMAIN tbls : u # t => Adds(tbls, t, a)[u] = tbls[u]
<1> DEFINE new == Adds(tbls, t, a)
           table == [tbls[t] EXCEPT !.entries = Append(tbls[t].entries, a)]
           n == Len(tbls[t].entries) + 1
<1>1. tbls \in Seq(LookupTables) /\ reg \subseteq DOMAIN tbls /\ t \in DOMAIN tbls
  BY DEF TablesFit
<1>2. \A u \in reg : tbls[u] \in LookupTables
  BY <1>1
<1>3. tbls[t].entries \in Seq(Nat)
  BY <1>2 DEF LookupTables
<1>4. /\ Append(tbls[t].entries, a) \in Seq(Nat)
      /\ DOMAIN Append(tbls[t].entries, a) = DOMAIN tbls[t].entries \cup {n}
      /\ Append(tbls[t].entries, a)[n] = a /\ n \notin DOMAIN tbls[t].entries
      /\ \A i \in DOMAIN tbls[t].entries : Append(tbls[t].entries, a)[i] = tbls[t].entries[i]
  <2> DEFINE entries == tbls[t].entries
  <2>1. entries \in Seq(Nat) /\ DOMAIN entries = 1 .. Len(entries) /\ Len(entries) \in Nat
    BY <1>3
  <2> HIDE DEF entries
  <2>2. Append(entries, a) \in Seq(Nat) /\ DOMAIN Append(entries, a) = 1 .. Len(entries) + 1
    BY <2>1
  <2>3. /\ Append(entries, a)[Len(entries) + 1] = a
        /\ \A i \in 1 .. Len(entries) : Append(entries, a)[i] = entries[i]
    BY <2>1
  <2>4. 1 .. Len(entries) + 1 = (1 .. Len(entries)) \cup {Len(entries) + 1}
    BY <2>1
  <2>5. QED
    BY <2>1, <2>2, <2>3, <2>4 DEF entries
<1>5. table \in LookupTables /\ table.entries = Append(tbls[t].entries, a) /\ table.active = tbls[t].active
  BY <1>2, <1>4 DEF LookupTables
<1>6. new = [tbls EXCEPT ![t] = table]
  BY DEF Adds
<1>7. \A u \in reg : \A i \in DOMAIN tbls[u].entries :
         tbls[u].active => tbls[u].entries[i] # a \/ a \in dt
  <2>1. \A u \in reg : \A i \in DOMAIN tbls[u].entries : tbls[u].entries[i] \in Nat
    BY <1>2 DEF LookupTables
  <2>2. QED
    BY <2>1 DEF Stored
<1> HIDE DEF new, table, n
<1>8. /\ new \in Seq(LookupTables) /\ DOMAIN new = DOMAIN tbls /\ new[t] = table
      /\ \A u \in DOMAIN tbls : u # t => new[u] = tbls[u]
  BY <1>1, <1>5, <1>6
<1>9. TablesFit(new, reg)
  BY <1>1, <1>8 DEF TablesFit
<1>10. \A u \in reg : new[u].active = tbls[u].active
  BY <1>1, <1>5, <1>8
<1>11. ASSUME NEW u \in reg, NEW i \in DOMAIN new[u].entries
       PROVE  \/ u = t /\ i = n /\ new[u].entries[i] = a
              \/ i \in DOMAIN tbls[u].entries /\ new[u].entries[i] = tbls[u].entries[i]
  <2>1. CASE u = t
    BY <2>1, <1>4, <1>5, <1>8, <1>11
  <2>2. CASE u # t
    <3>1. new[u] = tbls[u]
      BY <2>2, <1>1, <1>8
    <3>2. QED
      BY <3>1, <1>11
  <2>3. QED
    BY <2>1, <2>2
<1>12. StoredOnce(new, reg, dt)
  <2>1. ASSUME NEW u \in reg, NEW v \in reg, new[u].active, new[v].active,
               NEW i \in DOMAIN new[u].entries, NEW j \in DOMAIN new[v].entries,
               new[u].entries[i] = new[v].entries[j], new[u].entries[i] \notin dt
        PROVE  u = v /\ i = j
    <3>1. tbls[u].active /\ tbls[v].active
      BY <2>1, <1>10
    <3>2. CASE u = t /\ i = n /\ new[u].entries[i] = a
      <4>1. ~(j \in DOMAIN tbls[v].entries /\ new[v].entries[j] = tbls[v].entries[j])
        BY <3>1, <3>2, <2>1, <1>7
      <4>2. v = t /\ j = n
        BY <4>1, <2>1, <1>11
      <4>3. QED
        BY <3>2, <4>2
    <3>3. CASE i \in DOMAIN tbls[u].entries /\ new[u].entries[i] = tbls[u].entries[i]
      <4>1. new[v].entries[j] # a
        BY <3>1, <3>3, <2>1, <1>7
      <4>2. j \in DOMAIN tbls[v].entries /\ new[v].entries[j] = tbls[v].entries[j]
        BY <4>1, <2>1, <1>11
      <4>3. tbls[u].entries[i] = tbls[v].entries[j] /\ tbls[u].entries[i] \notin dt
        BY <3>3, <4>2, <2>1
      <4>4. i \in DOMAIN tbls[u].entries /\ j \in DOMAIN tbls[v].entries
        BY <3>3, <4>2
      <4>5. QED
        BY <2>1, <3>1, <4>3, <4>4, <1>1 DEF StoredOnce
    <3>4. QED
      BY <3>2, <3>3, <2>1, <1>11
  <2>2. QED
    BY <2>1 DEF StoredOnce
<1>13. Stored(new, reg) \subseteq Stored(tbls, reg) \cup {a}
  <2>1. ASSUME NEW x \in Stored(new, reg), x # a
        PROVE  x \in Stored(tbls, reg)
    <3>1. PICK u \in reg : new[u].active /\ \E i \in DOMAIN new[u].entries : new[u].entries[i] = x
      BY <2>1 DEF Stored
    <3>2. PICK i \in DOMAIN new[u].entries : new[u].entries[i] = x
      BY <3>1
    <3>3. i \in DOMAIN tbls[u].entries /\ tbls[u].entries[i] = x
      BY <3>2, <2>1, <1>11
    <3>4. tbls[u].active /\ x \in Nat
      BY <3>1, <1>10, <2>1 DEF Stored
    <3>5. QED
      BY <3>3, <3>4 DEF Stored
  <2>2. QED
    BY <2>1
<1>14. QED
  BY <1>8, <1>9, <1>12, <1>13 DEF new

\* What is doubted stays so, and may be stored twice.
LEMMA DoubtMore ==
    ASSUME NEW tbls, NEW reg, NEW dt, NEW more, StoredOnce(tbls, reg, dt), dt \subseteq more
    PROVE  StoredOnce(tbls, reg, more)
BY DEF StoredOnce

LEMMA SyncFits ==
    ASSUME KeeperInv, NEW p \in Passes, Sync(p)
    PROVE  KeeperInv'
<1> DEFINE spent == IF calendar # keeper.day THEN 0 ELSE keeper.spent
           k == [keeper EXCEPT !.running = TRUE, !.day = calendar, !.spent = spent]
           q == [NoPass EXCEPT !.at = "tables", !.missing = wanted,
                               !.budget = DayBudget - spent, !.sends = MaxSends]
<1>1. /\ TablesFit(tables, registry) /\ StoredOnce(tables, registry, doubted)
      /\ LateFits(tables, registry, late, doubted)
      /\ keeper \in KeeperStates /\ keeper.spent <= DayBudget /\ calendar \in {0, 1}
      /\ wanted \subseteq Nat
      /\ \A r \in Passes : PassFits(tables, registry, late, doubted, keeper, passes[r])
      /\ DOMAIN passes = Passes /\ passes = [r \in Passes |-> passes[r]]
  BY DEF KeeperInv, KeeperFits
<1>2. \A r \in Passes : passes[r].at = "idle" /\ passes[r] \in PassStates
  BY <1>1 DEF PassFits, Sync, Running
<1>3. DayBudget \in Nat /\ MaxSends \in Nat
  BY KeeperAssumption
<1>4. spent \in Nat /\ spent <= DayBudget /\ DayBudget - spent \in Nat
  BY <1>1, <1>3 DEF KeeperStates
<1> HIDE DEF spent
<1>5. k \in KeeperStates /\ k.spent = spent /\ k.running
  <2>1. calendar \in Nat
    BY <1>1
  <2>2. QED
    BY <1>1, <1>4, <2>1 DEF KeeperStates
<1>6. /\ UNCHANGED <<wanted, tables, registry, calendar, late, doubted>>
      /\ \/ keeper' = Idle(k) /\ UNCHANGED passes
         \/ keeper' = k /\ passes' = [passes EXCEPT ![p] = q]
  BY DEF Sync, spent
<1>7. NoPass \in PassStates
  BY IdlePass DEF PassFits
<1>8. /\ q \in PassStates /\ q.at = "tables" /\ q.budget = DayBudget - spent /\ q.extended = 0
  <2>1. wanted \in SUBSET Nat /\ MaxSends \in Int
    BY <1>1, <1>3
  <2>2. NoPass.extended = 0
    BY DEF NoPass
  <2>3. QED
    BY <2>1, <2>2, <1>4, <1>7 DEF PassStates
<1>9. k.spent + q.budget = DayBudget + q.extended
  BY <1>3, <1>4, <1>5, <1>8
<1> HIDE DEF k, q
<1>10. CASE keeper' = Idle(k) /\ UNCHANGED passes
  <2>1. keeper' \in KeeperStates /\ keeper'.spent = spent
    BY <1>5, <1>10, KeeperChanges
  <2>2. \A r \in Passes : PassFits(tables, registry, late, doubted, keeper', passes[r])
    BY <1>2, IdleFits
  <2>3. KeeperFits(wanted, tables, registry, passes, keeper', late, doubted)
    BY <1>1, <1>2, <1>4, <2>1, <2>2 DEF KeeperFits
  <2>4. QED
    BY <2>3, <1>1, <1>6, <1>10 DEF KeeperInv
<1>11. CASE keeper' = k /\ passes' = [passes EXCEPT ![p] = q]
  <2>1. PassFits(tables, registry, late, doubted, k, q)
    BY <1>5, <1>8, <1>9 DEF PassFits
  <2>2. PassMoves(p, q)
    BY <2>1, <1>1, <1>2, <1>4, <1>5, <1>6, <1>11 DEF PassMoves
  <2>3. QED
    BY <2>2, PassMovesFit
<1>12. QED
  BY <1>6, <1>10, <1>11

LEMMA ReadFits ==
    ASSUME KeeperInv, NEW p \in Passes, ReadTables(p)
    PROVE  KeeperInv'
<1>0. passes[p].at = "tables" /\ UNCHANGED <<wanted, tables, registry, calendar, late>>
  BY DEF ReadTables
<1>1. /\ \A r \in Passes : r # p => passes[r].at = "idle"
      /\ passes[p] \in PassStates
      /\ TablesFit(tables, registry) /\ StoredOnce(tables, registry, doubted)
      /\ LateFits(tables, registry, late, doubted)
      /\ keeper \in KeeperStates /\ keeper.spent <= DayBudget /\ keeper.running
      /\ keeper.spent + passes[p].budget = DayBudget + passes[p].extended
  BY <1>0, UnderWay
<1>2. CASE Ends(p) /\ keeper' = Idle(keeper) /\ UNCHANGED doubted
  BY <1>0, <1>1, <1>2, EndsFits
<1>3. ASSUME NEW view \in Views \cup {tables}, Reads(p, view)
      PROVE  KeeperInv'
  <2> DEFINE held == Held(view)
             room == [t \in registry |-> IF view[t].active THEN Room - Len(view[t].entries) ELSE 0]
             q == [passes[p] EXCEPT !.at = "extend", !.missing = @ \ held, !.room = room]
  <2>1. held \in SUBSET Nat /\ \A t \in registry : view[t].entries \in Seq(Nat)
    BY <1>1, ViewsFit
  <2>2. /\ keeper' = [keeper EXCEPT !.known = held]
        /\ passes' = [passes EXCEPT ![p] = q]
        /\ doubted' = doubted \cup (Present \ held) \cup {x.entry : x \in late}
    BY <1>3 DEF Reads
  <2>3. room \in Rooms /\ DOMAIN room = registry
    <3>1. registry \in SUBSET Nat
      BY <1>1 DEF TablesFit
    <3>2. \A t \in registry : Len(view[t].entries) \in Nat
      BY <2>1
    <3>3. room \in [registry -> Int]
      BY <3>2, KeeperAssumption
    <3>4. QED
      BY <3>1, <3>3 DEF Rooms
  <2> HIDE DEF room, held
  <2>4. Present = Stored(tables, registry)
    BY <1>1, PresentIsStored
  <2>5. passes[p].missing \in SUBSET Nat
    BY <1>1 DEF PassStates
  <2>6. /\ q \in PassStates /\ q.at = "extend" /\ q.missing = passes[p].missing \ held
        /\ q.room = room /\ q.budget = passes[p].budget /\ q.extended = passes[p].extended
    BY <1>1, <2>3, <2>5 DEF PassStates
  <2>7. keeper' \in KeeperStates /\ keeper'.spent = keeper.spent /\ keeper'.running
    BY <1>1, <2>1, <2>2 DEF KeeperStates
  <2> HIDE DEF q
  <2>8. doubted \subseteq doubted' /\ \A x \in late : x.entry \in doubted'
    BY <2>2
  <2>9. MissingFits(tables, registry, late, doubted', q.missing)
    BY <2>2, <2>4, <2>6, <2>8 DEF MissingFits
  <2>10. PassFits(tables, registry, late, doubted', keeper', q)
    BY <1>1, <2>3, <2>6, <2>7, <2>9 DEF PassFits
  <2>11. StoredOnce(tables, registry, doubted')
    BY <1>1, <2>8, DoubtMore
  <2>12. LateFits(tables, registry, late, doubted')
    BY <1>1, <2>8 DEF LateFits
  <2>13. PassMoves(p, q)
    BY <2>2, <2>7, <2>10, <2>11, <2>12, <1>0, <1>1 DEF PassMoves
  <2>14. QED
    BY <2>13, PassMovesFit
<1>4. QED
  BY <1>2, <1>3 DEF ReadTables

LEMMA ExtendFits ==
    ASSUME KeeperInv, NEW p \in Passes, Extend(p)
    PROVE  KeeperInv'
<1> DEFINE pass == passes[p]
<1>0. /\ pass.at = "extend" /\ pass.missing # {} /\ Planned(pass) # {}
      /\ pass.extended < pass.budget
      /\ UNCHANGED <<wanted, registry, calendar, doubted>>
  BY DEF Extend
<1>1. /\ \A r \in Passes : r # p => passes[r].at = "idle"
      /\ pass \in PassStates /\ PassFits(tables, registry, late, doubted, keeper, pass)
      /\ TablesFit(tables, registry) /\ StoredOnce(tables, registry, doubted)
      /\ LateFits(tables, registry, late, doubted)
      /\ keeper \in KeeperStates /\ keeper.spent <= DayBudget /\ keeper.running
      /\ keeper.spent + pass.budget = DayBudget + pass.extended
  BY <1>0, UnderWay
<1>2. /\ pass.missing \in SUBSET Nat /\ pass.room \in Rooms /\ pass.budget \in Nat
      /\ pass.extended \in Nat /\ pass.sends \in Int
  BY <1>1 DEF PassStates
<1>3. /\ \A x \in pass.missing : x \in Stored(tables, registry) => x \in doubted
      /\ \A x \in late : x.entry \in doubted
      /\ DOMAIN pass.room \subseteq registry
  BY <1>0, <1>1 DEF PassFits, MissingFits
<1>4. registry \subseteq Nat
  BY <1>1 DEF TablesFit
<1>5. PICK t \in {Least(Planned(pass))}, a \in {Least(pass.missing)} :
         \/ /\ Extendable(t) /\ Smooth /\ Extended(t, a) /\ UNCHANGED late
            /\ keeper' = [Unread(keeper) EXCEPT !.spent = @ + 1]
            /\ passes' = [passes EXCEPT ![p].missing = @ \ {a}, ![p].room[t] = @ - 1,
                                        ![p].sends = @ - 1, ![p].extended = @ + 1]
         \/ /\ \/ ~Extendable(t) /\ Smooth /\ UNCHANGED late
               \/ Trip /\ late' \in {late, late \cup {[table |-> t, entry |-> a, send |-> trips]}}
            /\ UNCHANGED tables
            /\ keeper' = Idle(Unread(keeper)) /\ Ends(p)
  BY Zenon DEF Extend
<1>6. a \in pass.missing /\ a \in Nat /\ (a \in Stored(tables, registry) => a \in doubted)
  BY <1>0, <1>2, <1>3, <1>5, LeastIsMember
<1>7. t \in registry /\ t \in DOMAIN pass.room /\ t \in Nat
  <2>1. Planned(pass) \subseteq DOMAIN pass.room
    BY DEF Planned
  <2>2. Planned(pass) \subseteq Nat
    BY <2>1, <1>3, <1>4
  <2>3. t \in Planned(pass)
    BY <2>2, <1>0, <1>5, LeastIsMember
  <2>4. QED
    BY <2>1, <2>3, <1>3, <1>4
<1>8. ASSUME Extendable(t)
      PROVE  /\ TablesFit(Adds(tables, t, a), registry)
             /\ StoredOnce(Adds(tables, t, a), registry, doubted)
             /\ Stored(Adds(tables, t, a), registry) \subseteq Stored(tables, registry) \cup {a}
  <2>1. tables[t].active
    BY <1>8 DEF Extendable
  <2>2. QED
    BY <2>1, <1>1, <1>6, <1>7, AddedTables
<1>9. CASE /\ late' \in {late, late \cup {[table |-> t, entry |-> a, send |-> trips]}}
           /\ UNCHANGED tables
           /\ keeper' = Idle(Unread(keeper)) /\ Ends(p)
  <2> DEFINE sent == [table |-> t, entry |-> a, send |-> trips]
  <2>1. sent.table = t /\ sent.entry = a
    OBVIOUS
  <2> HIDE DEF sent
  <2>2. \A x \in late' : x \in late \/ x = sent
    BY <1>9 DEF sent
  <2>3. \A x \in late' : x.table \in registry /\ x.entry \in Nat
    BY <2>1, <2>2, <1>1, <1>6, <1>7 DEF LateFits
  <2>4. \A x \in late' : x.entry \notin doubted => x = sent
    BY <2>2, <1>3
  <2>5. LateFits(tables, registry, late', doubted)
    BY <2>1, <2>3, <2>4, <1>6 DEF LateFits
  <2>6. QED
    BY <2>5, <1>0, <1>1, <1>9, EndsFits
<1>10. CASE /\ Extendable(t)
            /\ tables' = Adds(tables, t, a) /\ UNCHANGED late
            /\ keeper' = [Unread(keeper) EXCEPT !.spent = @ + 1]
            /\ passes' = [passes EXCEPT ![p].missing = @ \ {a}, ![p].room[t] = @ - 1,
                                        ![p].sends = @ - 1, ![p].extended = @ + 1]
  <2> DEFINE room == [pass.room EXCEPT ![t] = @ - 1]
             q == [pass EXCEPT !.missing = pass.missing \ {a}, !.room = room,
                               !.sends = pass.sends - 1, !.extended = pass.extended + 1]
  <2>1. room \in Rooms /\ DOMAIN room = DOMAIN pass.room
    <3>1. PICK S \in SUBSET Nat : pass.room \in [S -> Int]
      BY <1>2 DEF Rooms
    <3>2. room \in [S -> Int]
      BY <3>1, <1>7
    <3>3. QED
      BY <3>1, <3>2 DEF Rooms
  <2>2. passes' = [passes EXCEPT ![p] = q]
    BY <1>10
  <2> HIDE DEF room
  <2>3. pass.sends - 1 \in Int /\ pass.extended + 1 \in Nat /\ pass.missing \ {a} \in SUBSET Nat
    BY <1>2
  <2>4. /\ q \in PassStates /\ q.at = "extend" /\ q.missing = pass.missing \ {a} /\ q.room = room
        /\ q.budget = pass.budget /\ q.extended = pass.extended + 1
    BY <1>0, <1>1, <2>1, <2>3 DEF PassStates
  <2>5. /\ Unread(keeper) \in KeeperStates /\ Unread(keeper).spent = keeper.spent
        /\ Unread(keeper).running = keeper.running
    BY <1>1, KeeperChanges
  <2>6. keeper.spent \in Nat /\ keeper.spent + 1 \in Nat
    BY <1>1 DEF KeeperStates
  <2>7. keeper' \in KeeperStates /\ keeper'.spent = keeper.spent + 1 /\ keeper'.running
    BY <2>5, <2>6, <1>1, <1>10 DEF KeeperStates
  <2> HIDE DEF q
  <2>8. keeper'.spent <= DayBudget /\ keeper'.spent + q.budget = DayBudget + q.extended
    BY <2>4, <2>6, <2>7, <1>0, <1>1, <1>2, KeeperAssumption
  <2>9. MissingFits(tables', registry', late', doubted', q.missing)
    <3>1. \A x \in q.missing : x \in Stored(tables', registry') => x \in doubted
      BY <2>4, <1>0, <1>3, <1>8, <1>10
    <3>2. QED
      BY <3>1, <1>0, <1>3, <1>10 DEF MissingFits
  <2>13. LateFits(tables', registry', late', doubted')
    BY <1>0, <1>1, <1>3, <1>10 DEF LateFits
  <2>10. PassFits(tables', registry', late', doubted', keeper', q)
    BY <2>1, <2>4, <2>7, <2>8, <2>9, <1>0, <1>3 DEF PassFits
  <2>11. PassMoves(p, q)
    BY <2>2, <2>7, <2>8, <2>10, <2>13, <1>0, <1>1, <1>8, <1>10 DEF PassMoves
  <2>12. QED
    BY <2>11, PassMovesFit
<1>11. CASE /\ Extendable(t) /\ Smooth /\ Extended(t, a) /\ UNCHANGED late
            /\ keeper' = [Unread(keeper) EXCEPT !.spent = @ + 1]
            /\ passes' = [passes EXCEPT ![p].missing = @ \ {a}, ![p].room[t] = @ - 1,
                                        ![p].sends = @ - 1, ![p].extended = @ + 1]
  <2>1. tables' = Adds(tables, t, a)
    BY <1>11 DEF Extended, Adds
  <2>2. QED
    BY <2>1, <1>10, <1>11
<1>12. QED
  BY <1>5, <1>9, <1>11

LEMMA FinishFits ==
    ASSUME KeeperInv, NEW p \in Passes, Finish(p)
    PROVE  KeeperInv'
<1>1. /\ passes[p].at = "extend" /\ Ends(p) /\ keeper' = Idle(keeper)
      /\ UNCHANGED <<wanted, tables, registry, calendar, late, doubted>>
  BY DEF Finish
<1>2. /\ TablesFit(tables, registry) /\ StoredOnce(tables, registry, doubted)
      /\ LateFits(tables, registry, late, doubted)
  BY <1>1, UnderWay
<1>3. QED
  BY <1>1, <1>2, EndsFits

\* A new table is empty, and not in the registry yet.
LEMMA NewTableFits ==
    ASSUME TablesFit(tables, registry), StoredOnce(tables, registry, doubted)
    PROVE  /\ TablesFit(NewTable, registry) /\ StoredOnce(NewTable, registry, doubted)
           /\ Stored(NewTable, registry) = Stored(tables, registry)
           /\ Len(NewTable) > 0 /\ Len(NewTable) \notin registry
           /\ NewTable[Len(NewTable)].entries = <<>>
<1>1. [entries |-> <<>>, active |-> TRUE] \in LookupTables
  BY DEF LookupTables
<1>2. tables \in Seq(LookupTables) /\ registry \subseteq DOMAIN tables
  BY DEF TablesFit
<1>3. /\ NewTable \in Seq(LookupTables) /\ Len(NewTable) = Len(tables) + 1
      /\ NewTable[Len(tables) + 1] = [entries |-> <<>>, active |-> TRUE]
      /\ \A t \in DOMAIN tables : t \in DOMAIN NewTable /\ NewTable[t] = tables[t]
  BY <1>1, <1>2 DEF NewTable
<1>4. Len(tables) \in Nat
  BY <1>2
<1>5. TablesFit(NewTable, registry)
  BY <1>2, <1>3 DEF TablesFit
<1>6. \A t \in registry : NewTable[t] = tables[t]
  BY <1>2, <1>3
<1>7. StoredOnce(NewTable, registry, doubted)
  BY <1>6 DEF StoredOnce
<1>8. Stored(NewTable, registry) = Stored(tables, registry)
  BY <1>6 DEF Stored
<1>9. Len(NewTable) > 0 /\ NewTable[Len(NewTable)].entries = <<>> /\ Len(NewTable) \notin registry
  <2>1. Len(tables) + 1 \notin DOMAIN tables
    BY <1>2, <1>4
  <2>2. QED
    BY <2>1, <1>2, <1>3, <1>4
<1>10. QED
  BY <1>5, <1>7, <1>8, <1>9

LEMMA CreateFits ==
    ASSUME KeeperInv, NEW p \in Passes, CreateTable(p)
    PROVE  KeeperInv'
<1> DEFINE pass == passes[p]
<1>0. pass.at = "extend" /\ UNCHANGED <<wanted, registry, calendar, late, doubted>>
  BY DEF CreateTable
<1>1. /\ \A r \in Passes : r # p => passes[r].at = "idle"
      /\ pass \in PassStates /\ PassFits(tables, registry, late, doubted, keeper, pass)
      /\ TablesFit(tables, registry) /\ StoredOnce(tables, registry, doubted)
      /\ LateFits(tables, registry, late, doubted)
      /\ keeper \in KeeperStates /\ keeper.spent <= DayBudget /\ keeper.running
      /\ keeper.spent + pass.budget = DayBudget + pass.extended
  BY <1>0, UnderWay
<1>2. tables' \in {tables, NewTable}
  BY DEF CreateTable
<1>3. /\ TablesFit(tables', registry') /\ StoredOnce(tables', registry', doubted')
      /\ Stored(tables', registry') = Stored(tables, registry)
  BY <1>0, <1>1, <1>2, NewTableFits
<1>7. LateFits(tables', registry', late', doubted')
  BY <1>0, <1>1, <1>3 DEF LateFits
<1>4. CASE keeper' = Idle(Unread(keeper)) /\ Ends(p)
  BY <1>0, <1>3, <1>4, <1>7, EndsFits
<1>5. CASE /\ tables' = NewTable
           /\ passes' = [passes EXCEPT ![p].at = "register"]
           /\ keeper' = Unread(keeper)
  <2> DEFINE q == [pass EXCEPT !.at = "register"]
  <2>1. /\ q \in PassStates /\ q.at = "register" /\ q.missing = pass.missing
        /\ q.budget = pass.budget /\ q.extended = pass.extended
    BY <1>1 DEF PassStates
  <2>2. passes' = [passes EXCEPT ![p] = q]
    BY <1>5
  <2>3. keeper' \in KeeperStates /\ keeper'.spent = keeper.spent /\ keeper'.running
    BY <1>1, <1>5, KeeperChanges
  <2> HIDE DEF q
  <2>4. MissingFits(tables', registry', late', doubted', q.missing)
    <3>1. MissingFits(tables, registry, late, doubted, pass.missing)
      BY <1>0, <1>1 DEF PassFits
    <3>2. QED
      BY <3>1, <2>1, <1>0, <1>3 DEF MissingFits
  <2>5. Len(tables') > 0 /\ Len(tables') \notin registry' /\ tables'[Len(tables')].entries = <<>>
    BY <1>0, <1>1, <1>5, NewTableFits
  <2>6. keeper'.spent + q.budget = DayBudget + q.extended
    BY <2>1, <2>3, <1>1
  <2>7. PassFits(tables', registry', late', doubted', keeper', q)
    BY <2>1, <2>3, <2>4, <2>5, <2>6 DEF PassFits
  <2>8. PassMoves(p, q)
    BY <2>2, <2>3, <2>7, <1>0, <1>1, <1>3, <1>7 DEF PassMoves
  <2>9. QED
    BY <2>8, PassMovesFit
<1>6. QED
  BY <1>4, <1>5 DEF CreateTable

LEMMA RegisterFits ==
    ASSUME KeeperInv, NEW p \in Passes, RegisterTable(p)
    PROVE  KeeperInv'
<1> DEFINE pass == passes[p]
           n == Len(tables)
<1>0. pass.at = "register" /\ UNCHANGED <<wanted, tables, calendar, late, doubted>>
  BY DEF RegisterTable
<1>1. /\ \A r \in Passes : r # p => passes[r].at = "idle"
      /\ pass \in PassStates /\ PassFits(tables, registry, late, doubted, keeper, pass)
      /\ TablesFit(tables, registry) /\ StoredOnce(tables, registry, doubted)
      /\ LateFits(tables, registry, late, doubted)
      /\ keeper \in KeeperStates /\ keeper.spent <= DayBudget /\ keeper.running
      /\ keeper.spent + pass.budget = DayBudget + pass.extended
  BY <1>0, UnderWay
<1>2. CASE UNCHANGED registry /\ keeper' = Idle(keeper) /\ Ends(p)
  <2>1. /\ TablesFit(tables', registry') /\ StoredOnce(tables', registry', doubted')
        /\ LateFits(tables', registry', late', doubted')
    BY <1>0, <1>1, <1>2
  <2>2. QED
    BY <2>1, <1>0, <1>2, EndsFits
<1>3. n > 0 /\ tables[n].entries = <<>> /\ MissingFits(tables, registry, late, doubted, pass.missing)
  BY <1>0, <1>1 DEF PassFits
<1>4. n \in DOMAIN tables /\ n \in Nat /\ DOMAIN tables[n].entries = {}
  <2>1. tables \in Seq(LookupTables)
    BY <1>1 DEF TablesFit
  <2>2. QED
    BY <2>1, <1>3
<1> HIDE DEF n
<1>5. TablesFit(tables, registry \cup {n})
  BY <1>1, <1>4 DEF TablesFit
<1>6. StoredOnce(tables, registry \cup {n}, doubted)
  BY <1>1, <1>4 DEF StoredOnce
<1>7. Stored(tables, registry \cup {n}) = Stored(tables, registry)
  BY <1>4 DEF Stored
<1>10. /\ MissingFits(tables, registry \cup {n}, late, doubted, pass.missing)
       /\ LateFits(tables, registry \cup {n}, late, doubted)
  BY <1>1, <1>3, <1>7 DEF MissingFits, LateFits
<1>8. CASE /\ registry' = registry \cup {n}
           /\ passes' = [passes EXCEPT ![p].at = "extend", ![p].sends = @ - 1, ![p].created = TRUE,
                                      ![p].room = [t \in {n} |-> Room]]
           /\ UNCHANGED keeper
  <2> DEFINE room == [t \in {n} |-> Room]
             q == [pass EXCEPT !.at = "extend", !.sends = pass.sends - 1, !.created = TRUE, !.room = room]
  <2>1. room \in Rooms /\ DOMAIN room = {n}
    <3>1. {n} \in SUBSET Nat /\ room \in [{n} -> Int]
      BY <1>4, KeeperAssumption
    <3>2. QED
      BY <3>1 DEF Rooms
  <2>2. passes' = [passes EXCEPT ![p] = q]
    BY <1>8
  <2> HIDE DEF room
  <2>3. pass.sends - 1 \in Int
    BY <1>1 DEF PassStates
  <2>4. /\ q \in PassStates /\ q.at = "extend" /\ q.missing = pass.missing /\ q.room = room
        /\ q.budget = pass.budget /\ q.extended = pass.extended
    BY <1>1, <2>1, <2>3 DEF PassStates
  <2> HIDE DEF q
  <2>5. keeper.spent + q.budget = DayBudget + q.extended
    BY <2>4, <1>1
  <2>6. PassFits(tables, registry \cup {n}, late, doubted, keeper, q)
    BY <2>1, <2>4, <2>5, <1>1, <1>10 DEF PassFits
  <2>7. PassMoves(p, q)
    BY <2>2, <2>6, <1>0, <1>1, <1>5, <1>6, <1>8, <1>10 DEF PassMoves
  <2>8. QED
    BY <2>7, PassMovesFit
<1>9. QED
  BY <1>2, <1>8 DEF RegisterTable, n

LEMMA DeactivateFits ==
    ASSUME KeeperInv, Deactivate
    PROVE  KeeperInv'
<1>1. /\ wanted \subseteq Nat /\ calendar \in {0, 1}
      /\ TablesFit(tables, registry) /\ StoredOnce(tables, registry, doubted)
      /\ LateFits(tables, registry, late, doubted)
      /\ keeper \in KeeperStates /\ keeper.spent <= DayBudget
      /\ DOMAIN passes = Passes /\ passes = [p \in Passes |-> passes[p]]
      /\ \A p \in Passes : PassFits(tables, registry, late, doubted, keeper, passes[p])
      /\ \A p, q \in Passes : passes[p].at # "idle" /\ passes[q].at # "idle" => p = q
  BY DEF KeeperInv, KeeperFits
<1>2. UNCHANGED <<wanted, registry, passes, keeper, calendar, late, doubted>>
  BY DEF Deactivate
<1>3. PICK t \in DOMAIN tables : tables' = [tables EXCEPT ![t].active = FALSE]
  BY DEF Deactivate
<1> DEFINE table == [tables[t] EXCEPT !.active = FALSE]
           new == [tables EXCEPT ![t] = table]
<1>4. tables \in Seq(LookupTables) /\ registry \subseteq DOMAIN tables
  BY <1>1 DEF TablesFit
<1>5. tables[t] \in LookupTables
  BY <1>4
<1>6. table \in LookupTables /\ table.entries = tables[t].entries /\ ~table.active
  BY <1>5 DEF LookupTables
<1>7. tables' = new
  BY <1>3
<1> HIDE DEF table
<1>8. /\ new \in Seq(LookupTables) /\ DOMAIN new = DOMAIN tables /\ Len(new) = Len(tables)
      /\ new[t] = table /\ \A u \in DOMAIN tables : u # t => new[u] = tables[u]
  BY <1>4, <1>6
<1> HIDE DEF new
<1>9. \A u \in DOMAIN tables : new[u].entries = tables[u].entries /\ (new[u].active => tables[u].active)
  BY <1>6, <1>8
<1>10. TablesFit(new, registry)
  BY <1>4, <1>8 DEF TablesFit
<1>11. \A u \in registry : new[u].entries = tables[u].entries /\ (new[u].active => tables[u].active)
  BY <1>4, <1>9
<1>12. StoredOnce(new, registry, doubted)
  BY <1>1, <1>11 DEF StoredOnce
<1>13. Stored(new, registry) \subseteq Stored(tables, registry)
  BY <1>11 DEF Stored
<1>14. Len(tables) > 0 => Len(tables) \in DOMAIN tables
  BY <1>4
<1>15. ASSUME NEW p \in Passes
       PROVE  PassFits(new, registry, late, doubted, keeper, passes[p])
  <2>1. PassFits(tables, registry, late, doubted, keeper, passes[p])
    BY <1>1
  <2>2. MissingFits(tables, registry, late, doubted, passes[p].missing) =>
          MissingFits(new, registry, late, doubted, passes[p].missing)
    BY <1>13 DEF MissingFits
  <2>3. Len(tables) > 0 /\ tables[Len(tables)].entries = <<>> =>
          Len(new) = Len(tables) /\ new[Len(new)].entries = <<>>
    BY <1>8, <1>9, <1>14
  <2>4. QED
    BY <2>1, <2>2, <2>3 DEF PassFits
<1>18. LateFits(new, registry, late, doubted)
  BY <1>1, <1>13 DEF LateFits
<1>16. KeeperFits(wanted, new, registry, passes, keeper, late, doubted)
  BY <1>1, <1>10, <1>12, <1>15, <1>18 DEF KeeperFits
<1>17. QED
  BY <1>1, <1>2, <1>7, <1>16 DEF KeeperInv

\* An extension that nobody waits for lands: if a pass is under way it is doubted.
LEMMA SettlesFit ==
    ASSUME KeeperInv, Settles
    PROVE  KeeperInv'
<1>1. /\ wanted \subseteq Nat /\ calendar \in {0, 1}
      /\ TablesFit(tables, registry) /\ StoredOnce(tables, registry, doubted)
      /\ LateFits(tables, registry, late, doubted)
      /\ keeper \in KeeperStates /\ keeper.spent <= DayBudget
      /\ DOMAIN passes = Passes /\ passes = [p \in Passes |-> passes[p]]
      /\ \A p \in Passes : PassFits(tables, registry, late, doubted, keeper, passes[p])
      /\ \A p, q \in Passes : passes[p].at # "idle" /\ passes[q].at # "idle" => p = q
  BY DEF KeeperInv, KeeperFits
<1>2. UNCHANGED <<wanted, registry, passes, keeper, calendar, doubted>>
  BY DEF Settles
<1>3. PICK x \in late :
         /\ late' = late \ {x}
         /\ \/ Extendable(x.table) /\ Extended(x.table, x.entry)
            \/ UNCHANGED tables
  BY Zenon DEF Settles
<1> DEFINE new == Adds(tables, x.table, x.entry)
           rest == late \ {x}
<1>4. x.table \in registry /\ x.entry \in Nat
      /\ (x.entry \in Stored(tables, registry) => x.entry \in doubted)
  BY <1>1 DEF LateFits
<1>5. CASE UNCHANGED tables
  <2>1. LateFits(tables, registry, rest, doubted)
    BY <1>1 DEF LateFits
  <2>2. \A p \in Passes : PassFits(tables, registry, rest, doubted, keeper, passes[p])
    BY <1>1 DEF PassFits, MissingFits
  <2>3. KeeperFits(wanted, tables, registry, passes, keeper, rest, doubted)
    BY <1>1, <2>1, <2>2 DEF KeeperFits
  <2>4. QED
    BY <1>1, <1>2, <1>3, <1>5, <2>3 DEF KeeperInv
<1>6. CASE Extendable(x.table) /\ Extended(x.table, x.entry)
  <2>1. tables' = new /\ tables[x.table].active
    BY <1>6 DEF Extendable, Extended, Adds
  <2>2. /\ TablesFit(new, registry) /\ StoredOnce(new, registry, doubted)
        /\ Stored(new, registry) \subseteq Stored(tables, registry) \cup {x.entry}
        /\ DOMAIN new = DOMAIN tables
        /\ \A u \in DOMAIN tables : u # x.table => new[u] = tables[u]
    BY <1>1, <1>4, <2>1, AddedTables
  <2>3. Len(new) = Len(tables) /\ (Len(tables) > 0 => Len(tables) \in DOMAIN tables)
    <3>1. tables \in Seq(LookupTables) /\ new \in Seq(LookupTables)
      BY <1>1, <2>2 DEF TablesFit
    <3> HIDE DEF new
    <3>2. QED
      BY <3>1, <2>2
  <2> HIDE DEF new
  <2>4. LateFits(new, registry, rest, doubted)
    <3>1. ASSUME NEW y \in rest, y.entry \notin doubted
          PROVE  y.entry \notin Stored(new, registry)
      <4>1. y \in late /\ y # x
        BY <3>1
      <4>2. y.entry \notin Stored(tables, registry) /\ y.entry # x.entry
        BY <4>1, <3>1, <1>1 DEF LateFits
      <4>3. QED
        BY <4>2, <2>2
    <3>2. QED
      BY <3>1, <1>1 DEF LateFits
  <2>5. ASSUME NEW p \in Passes
        PROVE  PassFits(new, registry, rest, doubted, keeper, passes[p])
    <3>1. PassFits(tables, registry, late, doubted, keeper, passes[p])
      BY <1>1
    <3>2. MissingFits(tables, registry, late, doubted, passes[p].missing) =>
            MissingFits(new, registry, rest, doubted, passes[p].missing)
      BY <2>2 DEF MissingFits
    <3>3. Len(tables) > 0 /\ Len(tables) \notin registry /\ tables[Len(tables)].entries = <<>> =>
            Len(new) = Len(tables) /\ new[Len(new)].entries = <<>>
      BY <1>4, <2>2, <2>3
    <3>4. QED
      BY <3>1, <3>2, <3>3 DEF PassFits
  <2>6. KeeperFits(wanted, new, registry, passes, keeper, rest, doubted)
    BY <1>1, <2>2, <2>4, <2>5 DEF KeeperFits
  <2>7. QED
    BY <1>1, <1>2, <1>3, <2>1, <2>6 DEF KeeperInv
<1>7. QED
  BY <1>3, <1>5, <1>6

LEMMA RestartFits ==
    ASSUME KeeperInv, Restart
    PROVE  KeeperInv'
<1>1. /\ wanted \subseteq Nat /\ calendar \in {0, 1}
      /\ TablesFit(tables, registry) /\ StoredOnce(tables, registry, doubted)
      /\ LateFits(tables, registry, late, doubted)
  BY DEF KeeperInv, KeeperFits
<1>2. /\ UNCHANGED <<wanted, tables, registry, calendar, late, doubted>>
      /\ passes' = [p \in Passes |-> NoPass] /\ keeper' = NewKeeper
  BY DEF Restart
<1>3. {0} \in SUBSET Nat
  OBVIOUS
<1>4. NewKeeper \in KeeperStates /\ NewKeeper.spent = 0
  BY <1>3 DEF NewKeeper, KeeperStates, Unknown
<1>5. \A p \in Passes : PassFits(tables, registry, late, doubted, NewKeeper, passes'[p]) /\ passes'[p].at = "idle"
  BY <1>2, IdlePass
<1>6. DOMAIN passes' = Passes /\ passes' = [p \in Passes |-> passes'[p]]
  BY <1>2
<1>7. KeeperFits(wanted, tables, registry, passes', NewKeeper, late, doubted)
  BY <1>1, <1>4, <1>5, <1>6, KeeperAssumption DEF KeeperFits
<1>8. QED
  BY <1>1, <1>2, <1>7 DEF KeeperInv

LEMMA KeeperInitial ==
    ASSUME KeeperInit
    PROVE  KeeperInv
<1>1. /\ wanted = {} /\ tables = <<>> /\ registry = {} /\ calendar = 0
      /\ passes = [p \in Passes |-> NoPass] /\ keeper = NewKeeper /\ late = {}
  BY DEF KeeperInit
<1>2. {0} \in SUBSET Nat
  OBVIOUS
<1>3. NewKeeper \in KeeperStates /\ NewKeeper.spent = 0
  BY <1>2 DEF NewKeeper, KeeperStates, Unknown
<1>4. /\ TablesFit(tables, registry) /\ StoredOnce(tables, registry, doubted)
      /\ LateFits(tables, registry, late, doubted)
  BY <1>1 DEF TablesFit, StoredOnce, LateFits
<1>5. \A p \in Passes : PassFits(tables, registry, late, doubted, NewKeeper, passes[p]) /\ passes[p].at = "idle"
  BY <1>1, IdlePass
<1>6. DOMAIN passes = Passes /\ passes = [p \in Passes |-> passes[p]]
  BY <1>1
<1>7. KeeperFits(wanted, tables, registry, passes, NewKeeper, late, doubted)
  BY <1>1, <1>3, <1>4, <1>5, <1>6, KeeperAssumption DEF KeeperFits
<1>8. QED
  BY <1>1, <1>7 DEF KeeperInv

LEMMA KeeperStep ==
    ASSUME KeeperInv, [KeeperNext]_keeperVars
    PROVE  KeeperInv'
<1>1. ASSUME NEW p \in Passes, PassSteps(p)
      PROVE  KeeperInv'
  BY <1>1, SyncFits, ReadFits, ExtendFits, FinishFits, CreateFits, RegisterFits DEF PassSteps
<1>2. CASE Want
  <2>1. wanted' \subseteq Nat
    <3>1. wanted \subseteq Nat
      BY DEF KeeperInv, KeeperFits
    <3>2. PICK a \in (1..Entries) \ wanted : wanted' = wanted \cup {a}
      BY <1>2 DEF Want
    <3>3. a \in Nat
      BY <3>2, KeeperAssumption
    <3>4. QED
      BY <3>1, <3>2, <3>3
  <2>2. UNCHANGED <<tables, registry, passes, keeper, calendar, late, doubted>>
    BY <1>2 DEF Want
  <2>3. QED
    BY <2>1, <2>2 DEF KeeperInv, KeeperFits
<1>3. CASE Age
  <2>1. /\ keeper' = Unread(keeper)
        /\ UNCHANGED <<wanted, tables, registry, passes, calendar, late, doubted>>
    BY <1>3 DEF Age
  <2>2. keeper \in KeeperStates /\ keeper.spent <= DayBudget
    BY DEF KeeperInv, KeeperFits
  <2>3. /\ keeper' \in KeeperStates /\ keeper'.spent = keeper.spent
        /\ keeper'.running = keeper.running
    BY <2>1, <2>2, KeeperChanges
  <2>4. \A p \in Passes : PassFits(tables, registry, late, doubted, keeper', passes[p])
    BY <2>3 DEF KeeperInv, KeeperFits, PassFits
  <2>5. KeeperFits(wanted, tables, registry, passes, keeper', late, doubted)
    BY <2>2, <2>3, <2>4 DEF KeeperInv, KeeperFits
  <2>6. QED
    BY <2>1, <2>5 DEF KeeperInv
<1>4. CASE NextDay
  <2>1. calendar' \in {0, 1} /\ UNCHANGED <<wanted, tables, registry, passes, keeper, late, doubted>>
    BY <1>4 DEF NextDay, KeeperInv
  <2>2. QED
    BY <2>1 DEF KeeperInv, KeeperFits
<1>5. CASE UNCHANGED keeperVars
  BY <1>5 DEF keeperVars, KeeperInv
<1>6. QED
  BY <1>1, <1>2, <1>3, <1>4, <1>5, SettlesFit, DeactivateFits, RestartFits DEF KeeperNext

\* One pass is under way at most; what it still lacks is in no table and under way nowhere,
\* or doubted, and the budget it may spend with what it has spent is what the day allows.
THEOREM KeeperInvariant == KeeperSpec => []KeeperInv
BY KeeperInitial, KeeperStep, PTL DEF KeeperSpec

\* No address is twice in the active tables of the registry unless a plan was made while
\* the extension that carries it was unanswered, or on tables that a lagging node showed
\* without it; and what one process has seen answered on a day is within its budget
\* (lookup-table keeper: one pass at a time, planned on the tables read).
THEOREM PaidAtMostOnce == KeeperSpec => []PaidOnce
<1>1. KeeperInv => PaidOnce
  BY DEF KeeperInv, KeeperFits, StoredOnce, PaidOnce, Kept
<1>2. QED
  BY <1>1, KeeperInvariant, PTL

-----------------------------------------------------------------------------
(* The index service: which slots the cursor may pass.                     *)

WorkerStates ==
    [at : Starting \cup {"down", "idle", "replay", "stream", "archive", "audit", "persist", "fail"},
     slot : Nat, txs : SUBSET Nat]

\* What the queue must continue: the batch, as long as it is not durable, or the cursor.
Frontier(w, cursor) ==
    IF w.at \in {"backfill", "replay", "stream"} /\ cursor < w.slot THEN w.slot ELSE cursor

\* Every slot between two, the second included, is one of a set.
Covers(slots, from, to) == \A s \in Nat : from < s /\ s <= to => s \in slots

\* The queue is in order, and ends where the reports end unless the live index has just
\* started over.
Ordered(q, base, final) ==
    q # <<>> =>
        /\ Last(q) = final \/ base = final
        /\ Last(q) <= final
        /\ \A s \in ToSet(q) : s <= Last(q)

\* What was reported past a slot since the live index started is in the queue.
Waits(q, slot, base, final) ==
    \A s \in Nat : slot < s /\ base < s /\ s <= final => s \in ToSet(q)

\* What the cursor has passed is stored or was skipped; while the stream has no gap the
\* queue goes on where the batch or the cursor ends, and a batch of the stream goes on
\* where the cursor ends, but for slots that a replay has skipped.
IndexFits(hd, lv, w, q, gp, d, sk) ==
    /\ hd \in [confirmed : Nat, final : Nat]
    /\ lv \in [up : BOOLEAN, base : Nat, confirmed : Nat, final : Nat]
    /\ w \in WorkerStates /\ q \in Seq(Nat)
    /\ gp \in BOOLEAN
    /\ d \in [cursor : Int, events : SUBSET Int, slot : Int, healthy : BOOLEAN]
    /\ sk \in SUBSET Int
    /\ d.cursor >= NoCursor /\ Covers(d.events \cup sk, 0, d.cursor)
    /\ lv.up => w.at # "down"
    /\ w.at = "down" => q = <<>> /\ ~gp
    /\ w.at = "fail" => gp
    /\ lv.final <= hd.final
    /\ Ordered(q, lv.base, lv.final)
    /\ w.at \notin {"down", "idle"} => Waits(q, w.slot, lv.base, lv.final)
    /\ w.at # "down" /\ ~gp => Covers(ToSet(q) \cup sk, Frontier(w, d.cursor), lv.final)
    /\ w.at = "stream" => Covers(w.txs \cup sk, d.cursor, w.slot)

IndexInv == IndexFits(head, live, worker, queue, gap, db, skipped)

LEMMA LastSlotOf ==
    ASSUME NEW q \in Seq(Nat), q # <<>>
    PROVE  Last(q) \in Nat
BY DEF Last

LEMMA SlotsOf ==
    ASSUME NEW q \in Seq(Nat)
    PROVE  ToSet(q) \in SUBSET Nat
BY DEF ToSet

LEMMA NothingQueued == ToSet(<<>>) = {}
BY DEF ToSet

LEMMA QueuedSlots ==
    ASSUME NEW q \in Seq(Nat), NEW s \in Nat
    PROVE  /\ Append(q, s) \in Seq(Nat) /\ Append(q, s) # <<>> /\ Last(Append(q, s)) = s
           /\ ToSet(Append(q, s)) = ToSet(q) \cup {s}
<1>0. Append(q, s) # <<>>
  OBVIOUS
<1>1. /\ Append(q, s) \in Seq(Nat) /\ Len(Append(q, s)) = Len(q) + 1
      /\ Append(q, s)[Len(q) + 1] = s
      /\ DOMAIN Append(q, s) = DOMAIN q \cup {Len(q) + 1}
      /\ \A i \in DOMAIN q : Append(q, s)[i] = q[i] /\ i # Len(q) + 1
  OBVIOUS
<1>2. Last(Append(q, s)) = s
  BY <1>1 DEF Last
<1>3. ToSet(Append(q, s)) = ToSet(q) \cup {s}
  BY <1>1 DEF ToSet
<1>4. QED
  BY <1>0, <1>1, <1>2, <1>3

LEMMA CoversLess ==
    ASSUME NEW slots, NEW from \in Int, NEW later \in Int, NEW to, from <= later,
           Covers(slots, from, to)
    PROVE  Covers(slots, later, to)
<1>1. ASSUME NEW s \in Nat, later < s
      PROVE  from < s
  BY <1>1
<1>2. QED
  BY <1>1 DEF Covers

LEMMA CoversMore ==
    ASSUME NEW slots, NEW more, NEW from, NEW to, Covers(slots, from, to),
           \A s \in slots : s \in more
    PROVE  Covers(more, from, to)
BY DEF Covers

\* One more slot is reported.
LEMMA CoversNext ==
    ASSUME NEW slots, NEW more, NEW from, NEW final \in Nat, Covers(slots, from, final),
           \A s \in slots : s \in more, final + 1 \in more
    PROVE  Covers(more, from, final + 1)
<1>1. \A s \in Nat : s <= final + 1 => s <= final \/ s = final + 1
  OBVIOUS
<1>2. QED
  BY <1>1 DEF Covers

LEMMA ReportOrdered ==
    ASSUME NEW q \in Seq(Nat), NEW base, NEW final \in Nat, Ordered(q, base, final)
    PROVE  Ordered(Append(q, final + 1), base, final + 1)
<1> DEFINE new == final + 1
           more == Append(q, new)
<1>1. new \in Nat /\ more # <<>> /\ Last(more) = new /\ ToSet(more) = ToSet(q) \cup {new}
  BY QueuedSlots
<1>2. ASSUME NEW s \in ToSet(q) PROVE s <= new
  <2>1. q # <<>>
    BY NothingQueued
  <2>2. s \in Nat /\ Last(q) \in Nat
    BY <2>1, SlotsOf, LastSlotOf
  <2>3. s <= Last(q) /\ Last(q) <= final
    BY <2>1 DEF Ordered
  <2>4. QED
    BY <2>2, <2>3
<1>3. new <= new
  BY <1>1
<1> HIDE DEF new, more
<1>4. Ordered(more, base, new)
  BY <1>1, <1>2, <1>3 DEF Ordered
<1>5. QED
  BY <1>4 DEF new, more

LEMMA ReportWaits ==
    ASSUME NEW q \in Seq(Nat), NEW slot, NEW base, NEW final \in Nat, Waits(q, slot, base, final)
    PROVE  Waits(Append(q, final + 1), slot, base, final + 1)
<1>1. ToSet(Append(q, final + 1)) = ToSet(q) \cup {final + 1}
  BY QueuedSlots
<1>2. \A s \in Nat : s <= final + 1 => s <= final \/ s = final + 1
  OBVIOUS
<1>3. QED
  BY <1>1, <1>2 DEF Waits

\* work(): what the worker takes is a batch of the queue, or nothing.
LEMMA TakenFits ==
    ASSUME NEW hd, NEW lv, NEW q \in Seq(Nat), NEW d, NEW sk,
           hd \in [confirmed : Nat, final : Nat],
           lv \in [up : BOOLEAN, base : Nat, confirmed : Nat, final : Nat],
           d \in [cursor : Int, events : SUBSET Int, slot : Int, healthy : BOOLEAN],
           sk \in SUBSET Int, d.cursor >= NoCursor, Covers(d.events \cup sk, 0, d.cursor),
           gap \in BOOLEAN, lv.final <= hd.final, Ordered(q, lv.base, lv.final),
           ~gap => Covers(ToSet(q) \cup sk, d.cursor, lv.final)
    PROVE  IndexFits(hd, lv, Taken(q), <<>>, gap, d, sk)
<1>1. <<>> \in Seq(Nat) /\ ToSet(<<>>) = {} /\ Ordered(<<>>, lv.base, lv.final)
  BY NothingQueued DEF Ordered
<1>2. CASE q = <<>>
  <2>1. Taken(q) = [Off EXCEPT !.at = "idle"]
    BY <1>2 DEF Taken
  <2>2. Taken(q) \in WorkerStates /\ Taken(q).at = "idle"
    BY <2>1 DEF Off, WorkerStates
  <2>3. Frontier(Taken(q), d.cursor) = d.cursor
    BY <2>2 DEF Frontier
  <2>4. ~gap => Covers(ToSet(<<>>) \cup sk, Frontier(Taken(q), d.cursor), lv.final)
    BY <1>2, <2>3
  <2>5. QED
    BY <1>1, <2>2, <2>4 DEF IndexFits
<1>3. CASE q # <<>>
  <2> DEFINE w == Taken(q)
             end == Last(q)
  <2>1. w = [at |-> IF gap THEN "replay" ELSE "stream", slot |-> end, txs |-> ToSet(q)]
    BY <1>3 DEF Taken
  <2>2. end \in Nat /\ ToSet(q) \in SUBSET Nat
    BY <1>3, SlotsOf, LastSlotOf
  <2>3. w \in WorkerStates /\ w.slot = end /\ w.txs = ToSet(q) /\ w.at \in {"replay", "stream"}
        /\ (w.at = "stream" => ~gap)
    BY <1>3, <2>1, <2>2 DEF WorkerStates
  <2>4. /\ end = lv.final \/ lv.base = lv.final
        /\ end <= lv.final
        /\ \A s \in ToSet(q) : s <= end
    BY <1>3 DEF Ordered
  <2> HIDE DEF w, end
  <2>5. lv.final \in Nat /\ d.cursor \in Int
    OBVIOUS
  <2>6. Waits(<<>>, w.slot, lv.base, lv.final)
    <3>1. \A s \in Nat : ~(lv.final < s /\ s <= lv.final)
      BY <2>5
    <3>2. QED
      BY <3>1, <2>3, <2>4 DEF Waits
  <2>7. ASSUME ~gap
        PROVE  /\ Covers(ToSet(<<>>) \cup sk, Frontier(w, d.cursor), lv.final)
               /\ Covers(w.txs \cup sk, d.cursor, w.slot)
    <3>1. Covers(ToSet(q) \cup sk, d.cursor, lv.final)
      BY <2>7
    <3>2. /\ Frontier(w, d.cursor) \in Int
          /\ d.cursor <= Frontier(w, d.cursor) /\ end <= Frontier(w, d.cursor)
      BY <2>2, <2>3, <2>5 DEF Frontier
    <3>3. ASSUME NEW s \in Nat, Frontier(w, d.cursor) < s, s <= lv.final
          PROVE  s \in ToSet(<<>>) \cup sk
      <4>1. d.cursor < s /\ end < s
        BY <2>2, <2>5, <3>2, <3>3
      <4>2. s \notin ToSet(q)
        <5>1. ~(s <= end)
          BY <2>2, <4>1
        <5>2. QED
          BY <5>1, <2>4
      <4>3. QED
        BY <3>1, <3>3, <4>1, <4>2 DEF Covers
    <3>4. \A s \in Nat : s <= end => s <= lv.final
      BY <2>2, <2>4, <2>5
    <3>5. QED
      BY <2>3, <3>1, <3>3, <3>4 DEF Covers
  <2>8. IndexFits(hd, lv, w, <<>>, gap, d, sk)
    BY <1>1, <2>3, <2>6, <2>7 DEF IndexFits
  <2>9. QED
    BY <2>8 DEF w
<1>4. QED
  BY <1>2, <1>3

\* The facts of IndexFits, for a step that leaves some of the variables alone.
LEMMA IndexFacts ==
    ASSUME IndexInv
    PROVE  /\ head \in [confirmed : Nat, final : Nat]
           /\ live \in [up : BOOLEAN, base : Nat, confirmed : Nat, final : Nat]
           /\ worker \in WorkerStates /\ queue \in Seq(Nat) /\ gap \in BOOLEAN
           /\ db \in [cursor : Int, events : SUBSET Int, slot : Int, healthy : BOOLEAN]
           /\ skipped \in SUBSET Int
           /\ db.cursor >= NoCursor /\ Covers(db.events \cup skipped, 0, db.cursor)
           /\ live.up => worker.at # "down"
           /\ worker.at = "down" => queue = <<>> /\ ~gap
           /\ worker.at = "fail" => gap
           /\ live.final <= head.final
           /\ Ordered(queue, live.base, live.final)
           /\ worker.at \notin {"down", "idle"} => Waits(queue, worker.slot, live.base, live.final)
           /\ worker.at # "down" /\ ~gap =>
                Covers(ToSet(queue) \cup skipped, Frontier(worker, db.cursor), live.final)
           /\ worker.at = "stream" => Covers(worker.txs \cup skipped, db.cursor, worker.slot)
BY DEF IndexInv, IndexFits

\* The worker moves on without touching the history.
LEMMA MovesFit ==
    ASSUME IndexInv, NEW at, WorkerMoves(at),
           worker.at \notin {"down", "idle", "backfill", "replay", "stream"},
           at \in {"first audit", "first persist", "audit", "persist"},
           UNCHANGED <<head, live, queue, gap, db, skipped>>
    PROVE  IndexInv'
<1>1. worker \in WorkerStates
  BY IndexFacts
<1>2. worker' \in WorkerStates /\ worker'.at = at /\ worker'.slot = worker.slot
  BY <1>1 DEF WorkerMoves, WorkerStates, Starting
<1>3. Frontier(worker', db.cursor) = Frontier(worker, db.cursor)
  BY <1>2 DEF Frontier
<1>4. IndexFits(head, live, worker', queue, gap, db, skipped)
  BY <1>2, <1>3, IndexFacts DEF IndexFits
<1>5. QED
  BY <1>4 DEF IndexInv

\* The worker takes the queue when the history is where the cursor says.
LEMMA TakesFit ==
    ASSUME IndexInv, worker' = Taken(queue), queue' = <<>>,
           worker.at \notin {"down", "backfill", "replay", "stream"},
           db' \in [cursor : Int, events : SUBSET Int, slot : Int, healthy : BOOLEAN],
           db'.cursor = db.cursor, db'.events = db.events,
           UNCHANGED <<head, live, gap, skipped>>
    PROVE  IndexInv'
<1>1. Frontier(worker, db.cursor) = db.cursor
  BY DEF Frontier
<1>2. ~gap => Covers(ToSet(queue) \cup skipped, db'.cursor, live.final)
  BY <1>1, IndexFacts
<1>3. IndexFits(head, live, Taken(queue), <<>>, gap, db', skipped)
  BY <1>2, IndexFacts, TakenFits
<1>4. QED
  BY <1>3 DEF IndexInv

LEMMA StartFits ==
    ASSUME IndexInv, StartService
    PROVE  IndexInv'
<1>1. /\ worker.at = "down" /\ UNCHANGED <<head, queue, gap, db, skipped>>
      /\ live' = [up |-> TRUE, base |-> head.final, confirmed |-> head.final, final |-> head.final]
      /\ worker' = [Off EXCEPT !.at = "backfill", !.slot = head.final]
  BY DEF StartService
<1>2. head.final \in Nat /\ queue = <<>> /\ ~gap /\ db.cursor \in Int
  BY <1>1, IndexFacts
<1>3. {} \in SUBSET Nat
  OBVIOUS
<1>4. /\ worker' \in WorkerStates /\ worker'.at = "backfill" /\ worker'.slot = head.final
      /\ live' \in [up : BOOLEAN, base : Nat, confirmed : Nat, final : Nat]
      /\ live'.final = head.final /\ live'.base = head.final
  BY <1>1, <1>2, <1>3 DEF Off, WorkerStates, Starting
<1>5. \A s \in Nat : ~(head.final < s /\ s <= head.final)
  BY <1>2
<1>6. Covers(ToSet(queue) \cup skipped, Frontier(worker', db.cursor), live'.final)
  <2>1. Frontier(worker', db.cursor) \in Int /\ head.final <= Frontier(worker', db.cursor)
    BY <1>2, <1>4 DEF Frontier
  <2>2. Covers(ToSet(queue) \cup skipped, head.final, live'.final)
    BY <1>4, <1>5 DEF Covers
  <2>3. head.final \in Int
    BY <1>2
  <2>4. QED
    BY <2>1, <2>2, <2>3, CoversLess
<1>7. Waits(queue, worker'.slot, live'.base, live'.final)
  BY <1>4, <1>5 DEF Waits
<1>8. Ordered(queue, live'.base, live'.final) /\ live'.final <= head.final
  BY <1>2, <1>4 DEF Ordered
<1>9. IndexFits(head, live', worker', queue, gap, db, skipped)
  BY <1>2, <1>4, <1>6, <1>7, <1>8, IndexFacts DEF IndexFits
<1>10. QED
  BY <1>1, <1>9 DEF IndexInv

LEMMA DiesFits ==
    ASSUME IndexInv, Dies, UNCHANGED <<head, db, skipped>>
    PROVE  IndexInv'
<1>1. /\ worker' = Off /\ live' = [live EXCEPT !.up = FALSE] /\ queue' = <<>> /\ gap' = FALSE
  BY DEF Dies
<1>2. {} \in SUBSET Nat /\ <<>> \in Seq(Nat)
  OBVIOUS
<1>3. Off \in WorkerStates /\ Off.at = "down"
  BY <1>2 DEF Off, WorkerStates
<1>4. /\ live' \in [up : BOOLEAN, base : Nat, confirmed : Nat, final : Nat] /\ ~live'.up
      /\ live'.final = live.final
  BY <1>1, IndexFacts
<1>5. Ordered(<<>>, live'.base, live'.final)
  BY DEF Ordered
<1>6. IndexFits(head, live', Off, <<>>, FALSE, db, skipped)
  BY <1>2, <1>3, <1>4, <1>5, IndexFacts DEF IndexFits
<1>7. QED
  BY <1>1, <1>6 DEF IndexInv

LEMMA OnFinalizedFits ==
    ASSUME IndexInv, OnFinalized
    PROVE  IndexInv'
<1> DEFINE next == live.final + 1
           q == Append(queue, next)
<1>1. /\ UNCHANGED <<head, gap, db, skipped>> /\ live.up /\ live.final < head.final
      /\ live' = [live EXCEPT !.final = @ + 1]
      /\ \/ Drains /\ worker' = Taken(q) /\ queue' = <<>>
         \/ ~Drains /\ queue' = q /\ UNCHANGED worker
  BY DEF OnFinalized
<1>2. live.final \in Nat /\ next \in Nat /\ worker.at # "down" /\ head.final \in Nat
  BY <1>1, IndexFacts
<1>3. /\ live' \in [up : BOOLEAN, base : Nat, confirmed : Nat, final : Nat]
      /\ live'.final = next /\ live'.base = live.base
  BY <1>1, <1>2, IndexFacts
<1>4. next <= head.final
  BY <1>1, <1>2
<1>5. q \in Seq(Nat) /\ ToSet(q) = ToSet(queue) \cup {next} /\ Ordered(q, live'.base, next)
  BY <1>2, <1>3, IndexFacts, QueuedSlots, ReportOrdered
<1>6. ASSUME NEW from, Covers(ToSet(queue) \cup skipped, from, live.final)
      PROVE  Covers(ToSet(q) \cup skipped, from, next)
  <2>1. \A s \in ToSet(queue) \cup skipped : s \in ToSet(q) \cup skipped
    BY <1>5
  <2>2. next \in ToSet(q) \cup skipped
    BY <1>5
  <2> HIDE DEF q
  <2>3. QED
    BY <2>1, <2>2, <1>2, <1>6, CoversNext
<1>7. ASSUME NEW slot, Waits(queue, slot, live.base, live.final)
      PROVE  Waits(q, slot, live'.base, next)
  BY <1>2, <1>3, <1>7, IndexFacts, ReportWaits
<1> HIDE DEF q, next
<1>8. CASE Drains /\ worker' = Taken(q) /\ queue' = <<>>
  <2>1. Frontier(worker, db.cursor) = db.cursor /\ worker.at = "idle"
    BY <1>8 DEF Frontier, Drains
  <2>2. ~gap => Covers(ToSet(q) \cup skipped, db.cursor, next)
    BY <2>1, <1>6, IndexFacts
  <2>3. IndexFits(head, live', Taken(q), <<>>, gap, db, skipped)
    BY <2>2, <1>3, <1>4, <1>5, IndexFacts, TakenFits
  <2>4. QED
    BY <2>3, <1>1, <1>8 DEF IndexInv
<1>9. CASE ~Drains /\ queue' = q /\ UNCHANGED worker
  <2>1. worker.at # "down" /\ ~gap =>
          Covers(ToSet(q) \cup skipped, Frontier(worker, db.cursor), next)
    BY <1>6, IndexFacts
  <2>2. worker.at \notin {"down", "idle"} => Waits(q, worker.slot, live'.base, next)
    BY <1>7, IndexFacts
  <2>3. IndexFits(head, live', worker, q, gap, db, skipped)
    BY <2>1, <2>2, <1>2, <1>3, <1>4, <1>5, IndexFacts DEF IndexFits
  <2>4. QED
    BY <2>3, <1>1, <1>9 DEF IndexInv
<1>10. QED
  BY <1>1, <1>8, <1>9

LEMMA StartsOverFits ==
    ASSUME IndexInv, StartsOver
    PROVE  IndexInv'
<1>1. /\ worker.at # "down" /\ gap' = TRUE
      /\ live' = [up |-> TRUE, base |-> head.final, confirmed |-> head.final, final |-> head.final]
      /\ UNCHANGED <<head, worker, queue, db, skipped>>
  BY DEF StartsOver
<1>2. head.final \in Nat /\ live.final \in Nat /\ live.final <= head.final /\ queue \in Seq(Nat)
  BY IndexFacts
<1>3. /\ live' \in [up : BOOLEAN, base : Nat, confirmed : Nat, final : Nat]
      /\ live'.final = head.final /\ live'.base = head.final
  BY <1>1, <1>2
<1>4. Ordered(queue, live'.base, live'.final)
  <2>1. ASSUME queue # <<>>
        PROVE  Last(queue) <= head.final /\ \A s \in ToSet(queue) : s <= Last(queue)
    <3>1. Last(queue) \in Nat /\ Last(queue) <= live.final /\ \A s \in ToSet(queue) : s <= Last(queue)
      BY <1>2, <2>1, IndexFacts, LastSlotOf DEF Ordered
    <3>2. QED
      BY <3>1, <1>2
  <2>2. QED
    BY <2>1, <1>3 DEF Ordered
<1>5. Waits(queue, worker.slot, live'.base, live'.final)
  <2>1. \A s \in Nat : ~(head.final < s /\ s <= head.final)
    BY <1>2
  <2>2. QED
    BY <2>1, <1>3 DEF Waits
<1>6. live'.final <= head.final
  BY <1>2, <1>3
<1>7. IndexFits(head, live', worker, queue, TRUE, db, skipped)
  BY <1>1, <1>3, <1>4, <1>5, <1>6, IndexFacts DEF IndexFits
<1>8. QED
  BY <1>1, <1>7 DEF IndexInv

LEMMA ThrowsFits ==
    ASSUME IndexInv, Throws, worker.at \in {"replay", "stream", "archive", "audit", "persist"},
           UNCHANGED <<head, live, queue, db, skipped>>
    PROVE  IndexInv'
<1>1. worker \in WorkerStates
  BY IndexFacts
<1>2. worker' \in WorkerStates /\ worker'.at = "fail" /\ worker'.slot = worker.slot
  BY <1>1 DEF Throws, WorkerMoves, WorkerStates
<1>3. gap' = TRUE
  BY DEF Throws, GapAfterFailure
<1>4. IndexFits(head, live, worker', queue, TRUE, db, skipped)
  BY <1>2, IndexFacts DEF IndexFits
<1>5. QED
  BY <1>3, <1>4 DEF IndexInv

\* The history once a batch that ends at a slot is durable: nothing is lost, and what the
\* cursor has passed is stored or was skipped.
Advanced(slot) ==
    /\ db' \in [cursor : Int, events : SUBSET Int, slot : Int, healthy : BOOLEAN]
    /\ skipped' \in SUBSET Int
    /\ db'.cursor >= NoCursor /\ slot <= db'.cursor /\ db.cursor <= db'.cursor
    /\ db.events \subseteq db'.events /\ skipped \subseteq skipped'
    /\ Covers(db'.events \cup skipped', 0, db'.cursor)

LEMMA ReplayedFits ==
    ASSUME IndexInv, NEW slot \in Nat, NEW jumped \in SUBSET Int, Replayed(slot, jumped)
    PROVE  Advanced(slot) /\ jumped \subseteq skipped'
<1> DEFINE from == ReplayFrom(db.cursor)
           due == from..slot
<1>1. /\ db \in [cursor : Int, events : SUBSET Int, slot : Int, healthy : BOOLEAN]
      /\ db.cursor \in Int /\ db.cursor >= NoCursor /\ db.events \in SUBSET Int
      /\ skipped \in SUBSET Int /\ Covers(db.events \cup skipped, 0, db.cursor)
  BY IndexFacts
<1>2. CASE db.cursor > slot
  <2>1. db' = db /\ skipped' = skipped \cup jumped
    BY <1>2 DEF Replayed
  <2>2. Covers(db.events \cup skipped', 0, db.cursor)
    BY <1>1, <2>1 DEF Covers
  <2>3. slot <= db.cursor /\ db.cursor <= db.cursor
    BY <1>1, <1>2
  <2>4. QED
    BY <2>1, <2>2, <2>3, <1>1 DEF Advanced
<1>3. CASE ~(db.cursor > slot)
  <2>1. from \in Int /\ (db.cursor = NoCursor => from = 1) /\ (db.cursor # NoCursor => from = db.cursor)
    BY <1>1 DEF ReplayFrom
  <2>2. PICK listed \in Listed(due, slot) :
           /\ db' = [db EXCEPT !.cursor = slot, !.events = db.events \cup listed]
           /\ skipped' = skipped \cup jumped \cup (due \ (db.events \cup listed))
    BY <1>3 DEF Replayed
  <2>3. due \in SUBSET Int
    BY <2>1
  <2>4. listed \in SUBSET due
    <3>1. PICK seen : listed = {s \in due : s <= seen}
      BY DEF Listed
    <3> HIDE DEF due
    <3>2. QED
      BY <3>1
  <2>5. ASSUME NEW s \in Nat, 0 < s, s <= slot
        PROVE  s \in db.events \cup skipped \/ s \in due
    <3>1. CASE s <= db.cursor
      BY <3>1, <2>5, <1>1 DEF Covers
    <3>2. CASE ~(s <= db.cursor)
      BY <3>2, <2>1, <2>5, <1>1 DEF NoCursor
    <3>3. QED
      BY <3>1, <3>2
  <2> HIDE DEF due
  <2>6. db.events \cup listed \in SUBSET Int /\ slot \in Int
    <3>1. \A s \in db.events \cup listed : s \in Int
      BY <1>1, <2>3, <2>4
    <3>2. slot \in Int
      OBVIOUS
    <3>3. QED
      BY <3>1, <3>2
  <2>7. /\ db' \in [cursor : Int, events : SUBSET Int, slot : Int, healthy : BOOLEAN]
        /\ db'.cursor = slot /\ db'.events = db.events \cup listed
    BY <2>6, <2>2, <1>1
  <2>8. slot >= NoCursor /\ db.cursor <= slot /\ slot <= slot
    BY <1>1, <1>3 DEF NoCursor
  <2>9. skipped' \in SUBSET Int /\ skipped \subseteq skipped' /\ jumped \subseteq skipped'
    BY <1>1, <2>2, <2>3
  <2>10. Covers(db'.events \cup skipped', 0, slot)
    BY <2>2, <2>5, <2>7 DEF Covers
  <2>11. QED
    BY <2>7, <2>8, <2>9, <2>10 DEF Advanced
<1>4. QED
  BY <1>2, <1>3

LEMMA StreamedFits ==
    ASSUME IndexInv, NEW slot \in Nat, NEW slots \in SUBSET Nat, Streamed(slot, slots),
           Covers(slots \cup skipped, db.cursor, slot), UNCHANGED skipped
    PROVE  Advanced(slot)
<1>1. /\ db \in [cursor : Int, events : SUBSET Int, slot : Int, healthy : BOOLEAN]
      /\ db.cursor \in Int /\ db.cursor >= NoCursor /\ db.events \in SUBSET Int
      /\ skipped \in SUBSET Int /\ Covers(db.events \cup skipped, 0, db.cursor)
  BY IndexFacts
<1>2. CASE db.cursor >= slot
  <2>1. db' = db
    BY <1>2 DEF Streamed
  <2>2. slot <= db.cursor /\ db.cursor <= db.cursor
    BY <1>1, <1>2
  <2>3. QED
    BY <2>1, <2>2, <1>1 DEF Advanced
<1>3. CASE ~(db.cursor >= slot)
  <2>1. db' = [db EXCEPT !.cursor = slot, !.events = db.events \cup slots]
    BY <1>3 DEF Streamed
  <2>2. slot \in Int /\ db.events \cup slots \in SUBSET Int
    <3>1. slot \in Int /\ \A s \in slots : s \in Int
      OBVIOUS
    <3>2. QED
      BY <3>1, <1>1
  <2>3. /\ db' \in [cursor : Int, events : SUBSET Int, slot : Int, healthy : BOOLEAN]
        /\ db'.cursor = slot /\ db'.events = db.events \cup slots
    BY <2>1, <2>2, <1>1
  <2>4. ASSUME NEW s \in Nat, 0 < s, s <= slot
        PROVE  s \in (db.events \cup slots) \cup skipped
    <3>1. CASE s <= db.cursor
      BY <3>1, <2>4, <1>1 DEF Covers
    <3>2. CASE db.cursor < s
      BY <3>2, <2>4 DEF Covers
    <3>3. QED
      BY <3>1, <3>2, <1>1
  <2>5. slot >= NoCursor /\ db.cursor <= slot /\ slot <= slot
    BY <1>1, <1>3 DEF NoCursor
  <2>6. Covers(db'.events \cup skipped', 0, slot)
    BY <2>3, <2>4 DEF Covers
  <2>7. QED
    BY <2>3, <2>5, <2>6, <1>1 DEF Advanced
<1>4. QED
  BY <1>2, <1>3

LEMMA WorkerSlots ==
    ASSUME NEW w \in WorkerStates
    PROVE  w.slot \in Int
<1>1. w.slot \in Nat
  BY DEF WorkerStates
<1>2. QED
  BY <1>1

\* A batch that has become durable: the queue goes on where the cursor is now.
LEMMA DurableFits ==
    ASSUME IndexInv, NEW at \in {"first archive", "archive"}, WorkerMoves(at),
           worker.at \in {"backfill", "replay", "stream"}, Advanced(worker.slot),
           gap' \in BOOLEAN,
           ~gap' => Covers(ToSet(queue) \cup skipped', Frontier(worker, db.cursor), live.final),
           UNCHANGED <<head, live, queue>>
    PROVE  IndexInv'
<1>1. worker \in WorkerStates /\ worker.slot \in Int /\ db.cursor \in Int /\ db'.cursor \in Int
      /\ worker.slot <= db'.cursor /\ db.cursor <= db'.cursor
  <2>1. worker \in WorkerStates /\ db.cursor \in Int
    BY IndexFacts
  <2>2. QED
    BY <2>1, WorkerSlots DEF Advanced
<1>2. worker' \in WorkerStates /\ worker'.at = at /\ worker'.slot = worker.slot
  BY <1>1 DEF WorkerMoves, WorkerStates, Starting
<1>3. Frontier(worker, db.cursor) \in Int /\ Frontier(worker, db.cursor) <= db'.cursor
  BY <1>1 DEF Frontier
<1>4. Frontier(worker', db'.cursor) = db'.cursor
  BY <1>2 DEF Frontier
<1>5. ASSUME ~gap'
      PROVE  Covers(ToSet(queue) \cup skipped', db'.cursor, live.final)
  BY <1>1, <1>3, <1>5, CoversLess
<1>6. worker'.at \notin {"down", "idle", "fail", "stream"}
  BY <1>2
<1>7. Waits(queue, worker'.slot, live.base, live.final)
  BY <1>2, IndexFacts
<1>8. IndexFits(head, live, worker', queue, gap', db', skipped')
  BY <1>2, <1>4, <1>5, <1>6, <1>7, IndexFacts DEF IndexFits, Advanced
<1>9. QED
  BY <1>8 DEF IndexInv

\* A replay closes the gap: what was reported past its end is in the queue, and what was
\* never reported is skipped.
LEMMA GapCloses ==
    ASSUME NEW q, NEW slot \in Int, NEW base \in Nat, NEW final, NEW given, NEW from \in Int,
           Waits(q, slot, base, final), slot <= from,
           ((slot + 1)..base) \ ToSet(q) \subseteq given
    PROVE  Covers(ToSet(q) \cup given, from, final)
<1>1. ASSUME NEW s \in Nat, from < s, s <= final
      PROVE  s \in ToSet(q) \cup given
  <2>1. slot < s /\ (base < s \/ s \in (slot + 1)..base)
    BY <1>1
  <2>2. QED
    BY <2>1, <1>1 DEF Waits
<1>2. QED
  BY <1>1 DEF Covers

LEMMA HistoryFits ==
    ASSUME IndexInv, Backfill \/ History
    PROVE  IndexInv' /\ Advanced(worker.slot)
<1>1. /\ worker.slot \in Nat /\ worker.txs \in SUBSET Nat /\ gap \in BOOLEAN
      /\ worker.slot \in Int /\ live.base \in Nat /\ db.cursor \in Int
  BY IndexFacts DEF WorkerStates
<1>2. CASE Backfill
  <2>1. /\ worker.at = "backfill" /\ Replayed(worker.slot, {}) /\ WorkerMoves("first archive")
        /\ UNCHANGED <<head, live, queue, gap>>
    BY <1>2 DEF Backfill
  <2>2. Advanced(worker.slot)
    <3>1. {} \in SUBSET Int
      OBVIOUS
    <3>2. QED
      BY <3>1, <2>1, <1>1, ReplayedFits
  <2>3. ~gap' => Covers(ToSet(queue) \cup skipped', Frontier(worker, db.cursor), live.final)
    <3>1. \A s \in ToSet(queue) \cup skipped : s \in ToSet(queue) \cup skipped'
      BY <2>2 DEF Advanced
    <3>2. QED
      BY <3>1, <2>1, IndexFacts, CoversMore
  <2>4. QED
    BY <2>1, <2>2, <2>3, <1>1, DurableFits
<1>3. CASE History
  <2>1. WorkerMoves("archive") /\ UNCHANGED <<head, live, queue>>
    BY <1>3 DEF History
  <2>2. CASE worker.at = "replay" /\ Replayed(worker.slot, JumpedOver) /\ gap' = FALSE
    <3>1. JumpedOver \in SUBSET Int
      BY <1>1 DEF JumpedOver
    <3>2. Advanced(worker.slot) /\ JumpedOver \subseteq skipped'
      BY <3>1, <2>2, <1>1, ReplayedFits
    <3>3. Frontier(worker, db.cursor) \in Int /\ worker.slot <= Frontier(worker, db.cursor)
      BY <2>2, <1>1 DEF Frontier
    <3>4. Waits(queue, worker.slot, live.base, live.final)
      BY <2>2, IndexFacts
    <3>5. Covers(ToSet(queue) \cup skipped', Frontier(worker, db.cursor), live.final)
      BY <3>2, <3>3, <3>4, <1>1, GapCloses DEF JumpedOver
    <3>6. QED
      BY <3>2, <3>5, <2>1, <2>2, DurableFits
  <2>3. CASE /\ worker.at = "stream" /\ Streamed(worker.slot, worker.txs)
             /\ UNCHANGED <<gap, skipped>>
    <3>1. Covers(worker.txs \cup skipped, db.cursor, worker.slot)
      BY <2>3, IndexFacts
    <3>2. Advanced(worker.slot)
      BY <3>1, <2>3, <1>1, StreamedFits
    <3>3. ~gap' => Covers(ToSet(queue) \cup skipped', Frontier(worker, db.cursor), live.final)
      BY <2>3, IndexFacts
    <3>4. QED
      BY <3>2, <3>3, <2>1, <2>3, <1>1, DurableFits
  <2>4. QED
    BY <2>2, <2>3, <1>3 DEF History
<1>4. QED
  BY <1>2, <1>3

LEMMA IndexInitial ==
    ASSUME IndexInit
    PROVE  IndexInv
<1>1. /\ head = [confirmed |-> 0, final |-> 0]
      /\ live = [up |-> FALSE, base |-> 0, confirmed |-> 0, final |-> 0]
      /\ worker = Off /\ queue = <<>> /\ gap = FALSE
      /\ db = [cursor |-> NoCursor, events |-> {}, slot |-> -1, healthy |-> TRUE]
      /\ skipped = {}
  BY DEF IndexInit
<1>2. {} \in SUBSET Nat /\ {} \in SUBSET Int /\ <<>> \in Seq(Nat)
  OBVIOUS
<1>3. worker \in WorkerStates /\ worker.at = "down"
  BY <1>1, <1>2 DEF Off, WorkerStates
<1>4. /\ db \in [cursor : Int, events : SUBSET Int, slot : Int, healthy : BOOLEAN]
      /\ db.cursor = -1
  BY <1>1, <1>2 DEF NoCursor
<1>5. db.cursor >= NoCursor /\ \A s \in Nat : ~(0 < s /\ s <= db.cursor)
  BY <1>4 DEF NoCursor
<1>6. /\ head \in [confirmed : Nat, final : Nat]
      /\ live \in [up : BOOLEAN, base : Nat, confirmed : Nat, final : Nat] /\ ~live.up
      /\ live.final <= head.final
  BY <1>1
<1>7. Covers(db.events \cup skipped, 0, db.cursor) /\ Ordered(queue, live.base, live.final)
  BY <1>1, <1>5 DEF Covers, Ordered
<1>8. QED
  BY <1>1, <1>2, <1>3, <1>4, <1>5, <1>6, <1>7 DEF IndexInv, IndexFits

LEMMA IndexStep ==
    ASSUME IndexInv, [IndexNext]_serviceVars
    PROVE  IndexInv'
<1>1. CASE StartService
  BY <1>1, StartFits
<1>2. CASE ServiceCrash
  BY <1>2, DiesFits DEF ServiceCrash
<1>3. CASE OnConfirmed \/ LosesStream
  <2>1. /\ UNCHANGED <<head, worker, queue, gap, db, skipped>>
        /\ \/ live' = [live EXCEPT !.confirmed = @ + 1]
           \/ live' = [live EXCEPT !.up = FALSE]
    BY <1>3 DEF OnConfirmed, LosesStream
  <2>2. live \in [up : BOOLEAN, base : Nat, confirmed : Nat, final : Nat] /\ live.confirmed + 1 \in Nat
    BY IndexFacts
  <2>3. /\ live' \in [up : BOOLEAN, base : Nat, confirmed : Nat, final : Nat]
        /\ live'.final = live.final /\ live'.base = live.base /\ (live'.up => live.up)
    BY <2>1, <2>2
  <2>4. IndexFits(head, live', worker, queue, gap, db, skipped)
    BY <2>3, IndexFacts DEF IndexFits
  <2>5. QED
    BY <2>1, <2>4 DEF IndexInv
<1>4. CASE OnFinalized
  BY <1>4, OnFinalizedFits
<1>5. CASE StartsOver
  BY <1>5, StartsOverFits
<1>6. CASE Backfill \/ History
  BY <1>6, HistoryFits
<1>7. CASE RefreshArchival
  <2>1. /\ UNCHANGED <<head, live, queue, gap, db, skipped>>
        /\ \/ worker.at = "archive" /\ WorkerMoves("audit")
           \/ worker.at = "first archive" /\ WorkerMoves("first audit")
    BY <1>7 DEF RefreshArchival
  <2>2. QED
    BY <2>1, MovesFit
<1>8. CASE Audit
  <2>1. CASE /\ worker.at = "audit" /\ WorkerMoves("persist")
             /\ UNCHANGED <<head, live, queue, gap, db, skipped>>
    BY <2>1, MovesFit
  <2>2. CASE /\ worker.at = "first audit" /\ WorkerMoves("first persist")
             /\ UNCHANGED <<head, live, queue, gap, db, skipped>>
    BY <2>2, MovesFit
  <2>3. CASE /\ worker.at = "audit" /\ worker' = Taken(queue) /\ queue' = <<>>
             /\ UNCHANGED <<head, live, gap, db, skipped>>
    BY <2>3, IndexFacts, TakesFit
  <2>4. QED
    BY <2>1, <2>2, <2>3, <1>8 DEF Audit
<1>9. CASE Persist
  <2>1. /\ worker.at \in {"persist", "first persist"} /\ Written
        /\ worker' = Taken(queue) /\ queue' = <<>> /\ UNCHANGED <<head, live, gap, skipped>>
    BY <1>9 DEF Persist
  <2>2. db \in [cursor : Int, events : SUBSET Int, slot : Int, healthy : BOOLEAN] /\ worker.slot \in Int
    BY IndexFacts DEF WorkerStates
  <2>3. /\ db' \in [cursor : Int, events : SUBSET Int, slot : Int, healthy : BOOLEAN]
        /\ db'.cursor = db.cursor /\ db'.events = db.events
    BY <2>1, <2>2 DEF Written
  <2>4. QED
    BY <2>1, <2>3, TakesFit
<1>10. CASE FailSnapshot
  <2>1. /\ worker.at = "fail" /\ worker' = Taken(queue) /\ queue' = <<>>
        /\ UNCHANGED <<head, live, gap, skipped>>
        /\ \/ db' = [db EXCEPT !.healthy = @ /\ db.slot > worker.slot]
           \/ UNCHANGED db
    BY <1>10 DEF FailSnapshot
  <2>2. db \in [cursor : Int, events : SUBSET Int, slot : Int, healthy : BOOLEAN]
    BY IndexFacts
  <2>3. (db.healthy /\ db.slot > worker.slot) \in BOOLEAN
    OBVIOUS
  <2>4. /\ db' \in [cursor : Int, events : SUBSET Int, slot : Int, healthy : BOOLEAN]
        /\ db'.cursor = db.cursor /\ db'.events = db.events
    BY <2>1, <2>2, <2>3
  <2>5. QED
    BY <2>1, <2>4, TakesFit
<1>11. CASE CallFails
  <2>1. UNCHANGED <<head, db, skipped>>
    BY <1>11 DEF CallFails
  <2>2. CASE Dies
    BY <2>1, <2>2, DiesFits
  <2>3. CASE /\ worker.at \in {"replay", "stream", "archive", "audit", "persist"} /\ Throws
             /\ UNCHANGED <<live, queue, tail>>
    BY <2>1, <2>3, ThrowsFits
  <2>4. QED
    BY <2>2, <2>3, <1>11 DEF CallFails
<1>12. CASE Confirms \/ Finalizes
  <2>1. /\ UNCHANGED <<live, worker, queue, gap, db, skipped>>
        /\ \/ head' = [head EXCEPT !.confirmed = @ + 1]
           \/ head' = [head EXCEPT !.final = @ + 1]
    BY <1>12 DEF Confirms, Finalizes
  <2>2. head' \in [confirmed : Nat, final : Nat] /\ live.final <= head'.final
    <3>1. head \in [confirmed : Nat, final : Nat] /\ head.confirmed + 1 \in Nat /\ head.final + 1 \in Nat
          /\ live.final \in Nat /\ live.final <= head.final
      BY IndexFacts
    <3>2. QED
      BY <3>1, <2>1
  <2>3. IndexFits(head', live, worker, queue, gap, db, skipped)
    BY <2>2, IndexFacts DEF IndexFits
  <2>4. QED
    BY <2>1, <2>3 DEF IndexInv
<1>13. CASE UNCHANGED serviceVars
  BY <1>13 DEF serviceVars, IndexInv
<1>14. QED
  BY <1>1, <1>2, <1>3, <1>4, <1>5, <1>6, <1>7, <1>8, <1>9, <1>10, <1>11, <1>12, <1>13
     DEF IndexNext, Works

\* While the stream has no gap the queue goes on where the batch that is being made durable
\* ends, or the cursor; and what the cursor has passed is stored or was skipped by a replay.
THEOREM IndexInvariant == IndexSpec => []IndexInv
<1>1. IndexInv /\ [IndexNext]_serviceVars => IndexInv'
  BY IndexStep
<1>2. QED
  BY <1>1, IndexInitial, PTL DEF IndexSpec

-----------------------------------------------------------------------------
(* The tail of trades.                                                     *)

(* Where all that is kept from some position on is kept, it stands at the  *)
(* same distance from the end.                                             *)
LEMMA NthFromEnd ==
    ASSUME NEW n \in Nat, NEW K \in SUBSET (1 .. n), NEW i \in K, i .. n \subseteq K
    PROVE  /\ Cardinality(K) \in Nat /\ Cardinality(K) - (n - i) \in 1 .. Cardinality(K)
           /\ Nth(K, Cardinality(K) - (n - i)) = i
<1> DEFINE below(x) == {y \in K : y <= x}
           above == (i + 1) .. n
           c == Cardinality(K)
<1>1. i \in Nat /\ i >= 1 /\ i <= n /\ \A y \in K : y \in Nat /\ y <= n
  OBVIOUS
<1>2. IsFiniteSet(K) /\ c \in Nat
  <2>1. IsFiniteSet(1 .. n)
    BY FS_Interval
  <2>2. IsFiniteSet(K)
    BY <2>1, FS_Subset
  <2>3. QED
    BY <2>2, FS_CardinalityType
<1>3. \A x : IsFiniteSet(below(x)) /\ Cardinality(below(x)) \in Nat /\ below(x) \in SUBSET K
  <2>1. ASSUME NEW x PROVE below(x) \in SUBSET K /\ IsFiniteSet(below(x))
    <3>1. below(x) \in SUBSET K
      OBVIOUS
    <3> HIDE DEF below
    <3>2. QED
      BY <1>2, <3>1, FS_Subset
  <2> HIDE DEF below
  <2>2. QED
    BY <2>1, FS_CardinalityType
<1>4. IsFiniteSet(above) /\ Cardinality(above) = n - i
  <2>1. i + 1 \in Int /\ n \in Int
    BY <1>1
  <2>2. IsFiniteSet(above) /\ Cardinality(above) = IF i + 1 > n THEN 0 ELSE n - (i + 1) + 1
    BY <2>1, FS_Interval
  <2>3. QED
    BY <1>1, <2>2
<1>5. K = below(i) \cup above /\ below(i) \cap above = {}
  <2>1. above \subseteq K
    BY <1>1
  <2>2. \A y \in K : y <= i \/ y \in above
    BY <1>1
  <2>3. \A y \in above : ~(y <= i)
    BY <1>1
  <2> HIDE DEF above
  <2>4. QED
    BY <2>1, <2>2, <2>3
<1>6. i \in below(i)
  BY <1>1
<1>7. ASSUME NEW x \in K, x < i PROVE i \notin below(x) /\ below(x) \in SUBSET below(i)
  <2>1. x \in Nat /\ \A y \in K : y <= x => y <= i
    BY <1>1, <1>7
  <2>2. ~(i <= x)
    BY <1>1, <1>7, <2>1
  <2>3. QED
    BY <2>1, <2>2
<1>8. ASSUME NEW x \in K, i < x PROVE x \in below(x) /\ x \notin below(i) /\ below(i) \in SUBSET below(x)
  <2>1. x \in Nat /\ \A y \in K : y <= i => y <= x
    BY <1>1, <1>8
  <2>2. ~(x <= i) /\ x <= x
    BY <1>1, <1>8, <2>1
  <2>3. QED
    BY <2>1, <2>2
<1> HIDE DEF below, above
<1>9. c = Cardinality(below(i)) + (n - i)
  <2>1. c = Cardinality(below(i)) + Cardinality(above) - Cardinality(below(i) \cap above)
    BY <1>3, <1>4, <1>5, FS_Union
  <2>2. Cardinality(below(i) \cap above) = 0
    BY <1>5, FS_EmptySet
  <2>3. QED
    BY <1>1, <1>3, <1>4, <2>1, <2>2
<1>10. Cardinality(below(i)) >= 1
  <2>1. Cardinality(below(i)) # 0
    BY <1>3, <1>6, FS_EmptySet
  <2>2. QED
    BY <1>3, <2>1
<1>11. ASSUME NEW x \in K, Cardinality(below(x)) = Cardinality(below(i)) PROVE x = i
  <2>1. CASE x < i
    <3>1. below(x) = below(i)
      BY <1>3, <1>7, <1>11, <2>1, FS_Subset
    <3>2. QED
      BY <1>6, <1>7, <2>1, <3>1
  <2>2. CASE i < x
    <3>1. below(i) = below(x)
      BY <1>3, <1>8, <1>11, <2>2, FS_Subset
    <3>2. QED
      BY <1>8, <2>2, <3>1
  <2>3. QED
    BY <1>1, <2>1, <2>2
<1>12. c - (n - i) = Cardinality(below(i))
  BY <1>1, <1>2, <1>3, <1>9
<1> DEFINE j == Cardinality(below(i))
<1>13. Nth(K, j) = i
  <2>1. Nth(K, j) = CHOOSE x \in K : Cardinality(below(x)) = j
    BY DEF Nth, below
  <2>2. \A x \in K : Cardinality(below(x)) = j <=> x = i
    BY <1>11
  <2> HIDE DEF j
  <2>3. QED
    BY <2>1, <2>2
<1>14. j \in 1 .. c
  BY <1>1, <1>2, <1>3, <1>9, <1>10
<1>15. QED
  BY <1>2, <1>12, <1>13, <1>14

\* What a tail holds past position p: in order, and without one that may still be missed,
\* the newest trades reported since the index started at base.
Recent(trades, p, base, confirmed, events) ==
    /\ p \in 0 .. Len(trades)
    /\ \A i \in (p + 1) .. Len(trades) :
         trades[i] \in Nat /\ base < trades[i] /\ trades[i] + (Len(trades) - i) <= confirmed
    /\ \A i, j \in (p + 1) .. Len(trades) : i < j => trades[i] < trades[j]
    /\ \A t \in Nat : base < t /\ t <= confirmed /\ t > confirmed - TradeTail =>
         t \in events \/ \E i \in (p + 1) .. Len(trades) : trades[i] = t

(* Since the live index is up, the tail misses nothing that history does   *)
(* not have and no replay skipped.                                         *)
TailInv ==
    /\ \E S : tail \in Seq(S)
    /\ live.base <= live.confirmed
    /\ live.up => \E p : Recent(tail, p, live.base, live.confirmed, db.events \cup skipped)

LEMMA RecentLater ==
    ASSUME NEW trades, NEW p, NEW base, NEW confirmed, NEW events, NEW more,
           Recent(trades, p, base, confirmed, events), \A t \in Nat : t \in events => t \in more
    PROVE  Recent(trades, p, base, confirmed, more)
BY DEF Recent

LEMMA RecentNone ==
    ASSUME NEW S, NEW trades \in Seq(S), NEW base \in Nat, NEW events
    PROVE  Recent(trades, Len(trades), base, base, events)
<1>1. Len(trades) \in Nat /\ (Len(trades) + 1) .. Len(trades) = {}
  OBVIOUS
<1>2. \A t \in Nat : ~(base < t /\ t <= base)
  OBVIOUS
<1>3. QED
  BY <1>1, <1>2 DEF Recent

\* A slot is confirmed: its trade is the newest.
LEMMA RecentAppended ==
    ASSUME NEW S, NEW trades \in Seq(S), NEW p, NEW base \in Nat, NEW confirmed \in Nat, NEW events,
           base <= confirmed, Recent(trades, p, base, confirmed, events)
    PROVE  Recent(Append(trades, confirmed + 1), p, base, confirmed + 1, events)
<1> DEFINE n == Len(trades)
           new == confirmed + 1
           more == Append(trades, new)
<1>1. /\ n \in Nat /\ new \in Nat /\ Len(more) = n + 1 /\ more[n + 1] = new
      /\ \A i \in 1 .. n : more[i] = trades[i]
  OBVIOUS
<1> HIDE DEF more
<1>2. /\ p \in 0 .. n
      /\ \A i \in (p + 1) .. n : trades[i] \in Nat /\ base < trades[i] /\ trades[i] + (n - i) <= confirmed
      /\ \A i, j \in (p + 1) .. n : i < j => trades[i] < trades[j]
  BY DEF Recent
<1>3. \A i \in (p + 1) .. (n + 1) : i = n + 1 \/ (i \in (p + 1) .. n /\ i \in 1 .. n)
  BY <1>1, <1>2
<1>4. n + 1 \in (p + 1) .. (n + 1) /\ \A i \in (p + 1) .. n : i \in (p + 1) .. (n + 1) /\ i \in 1 .. n
  BY <1>1, <1>2
<1> DEFINE last == n + 1
<1> HIDE DEF n
<1>5. /\ last \in Nat /\ last = n + 1 /\ p \in 0 .. last /\ Len(more) = last /\ more[last] = new
      /\ last \in (p + 1) .. last
      /\ \A i \in (p + 1) .. last : i = last \/ (i \in (p + 1) .. n /\ i \in 1 .. n)
      /\ \A i \in (p + 1) .. n : i \in (p + 1) .. last /\ i \in 1 .. n
  BY <1>1, <1>2, <1>3, <1>4
<1> HIDE DEF last
<1>6. ASSUME NEW i \in (p + 1) .. last
      PROVE  more[i] \in Nat /\ base < more[i] /\ more[i] + (last - i) <= new
  <2>1. CASE i = last
    BY <1>1, <1>5, <2>1
  <2>2. CASE i \in (p + 1) .. n /\ i \in 1 .. n
    <3>1. /\ more[i] = trades[i] /\ trades[i] \in Nat /\ base < trades[i]
          /\ trades[i] + (n - i) <= confirmed
      BY <1>1, <1>2, <2>2
    <3>2. QED
      BY <1>1, <1>5, <2>2, <3>1
  <2>3. QED
    BY <1>5, <2>1, <2>2
<1>7. ASSUME NEW i \in (p + 1) .. last, NEW j \in (p + 1) .. last, i < j
      PROVE  more[i] < more[j]
  <2>1. i \in (p + 1) .. n /\ i \in 1 .. n
    BY <1>1, <1>2, <1>5, <1>7
  <2>2. more[i] = trades[i] /\ trades[i] \in Nat /\ trades[i] + (n - i) <= confirmed
    BY <1>1, <1>2, <2>1
  <2>3. CASE j = last
    BY <1>1, <1>5, <2>1, <2>2, <2>3
  <2>4. CASE j \in (p + 1) .. n /\ j \in 1 .. n
    BY <1>1, <1>2, <1>7, <2>1, <2>2, <2>4
  <2>5. QED
    BY <1>5, <2>3, <2>4
<1>8. ASSUME NEW t \in Nat, base < t, t <= new, t > new - TradeTail
      PROVE  t \in events \/ \E i \in (p + 1) .. last : more[i] = t
  <2>1. CASE t = new
    BY <1>1, <1>5, <2>1
  <2>2. CASE t <= confirmed
    <3>1. t > confirmed - TradeTail
      BY <1>8, IndexAssumption
    <3>2. t \in events \/ \E i \in (p + 1) .. n : trades[i] = t
      BY <1>8, <2>2, <3>1 DEF Recent, n
    <3>3. QED
      BY <1>1, <1>5, <3>2
  <2>3. QED
    BY <1>8, <2>1, <2>2
<1> HIDE DEF new
<1>9. \A i \in (p + 1) .. last : more[i] \in Nat /\ base < more[i] /\ more[i] + (last - i) <= new
  BY <1>6
<1>10. \A i, j \in (p + 1) .. last : i < j => more[i] < more[j]
  BY <1>7
<1>11. \A t \in Nat : base < t /\ t <= new /\ t > new - TradeTail =>
         t \in events \/ \E i \in (p + 1) .. last : more[i] = t
  BY <1>8
<1>12. Recent(more, p, base, new, events)
  BY <1>5, <1>9, <1>10, <1>11 DEF Recent
<1>13. QED
  BY <1>12 DEF new, more

\* A tail that is too long loses its oldest trade, which is not among the newest.
LEMMA RecentDropped ==
    ASSUME NEW S, NEW trades \in Seq(S), NEW p, NEW base \in Nat, NEW confirmed \in Nat, NEW events,
           Len(trades) > TradeTail, Recent(trades, p, base, confirmed, events)
    PROVE  Tail(trades) \in Seq(S) /\ \E q : Recent(Tail(trades), q, base, confirmed, events)
<1> DEFINE n == Len(trades)
           rest == Tail(trades)
           q == IF p = 0 THEN 0 ELSE p - 1
<1>1. n \in Nat /\ TradeTail \in Nat /\ n >= 1
  BY IndexAssumption
<1>2. rest \in Seq(S) /\ Len(rest) = n - 1 /\ \A i \in 1 .. n - 1 : rest[i] = trades[i + 1]
  BY <1>1
<1> HIDE DEF rest
<1>3. /\ p \in 0 .. n
      /\ \A i \in (p + 1) .. n : trades[i] \in Nat /\ base < trades[i] /\ trades[i] + (n - i) <= confirmed
      /\ \A i, j \in (p + 1) .. n : i < j => trades[i] < trades[j]
  BY DEF Recent
<1>4. q \in 0 .. n - 1 /\ \A i \in (q + 1) .. n - 1 : i \in 1 .. n - 1 /\ i + 1 \in (p + 1) .. n
  BY <1>1, <1>3
<1>5. \A i \in (p + 1) .. n : i - 1 \in (q + 1) .. n - 1 \/ (p = 0 /\ i = 1)
  BY <1>1, <1>3
<1>14. Len(trades) = n
  OBVIOUS
<1> HIDE DEF n, q
<1>6. ASSUME NEW i \in (q + 1) .. n - 1
      PROVE  rest[i] \in Nat /\ base < rest[i] /\ rest[i] + (n - 1 - i) <= confirmed
  <2>1. rest[i] = trades[i + 1] /\ i \in Int /\ i + 1 \in (p + 1) .. n
    BY <1>2, <1>4
  <2>2. trades[i + 1] \in Nat /\ base < trades[i + 1] /\ trades[i + 1] + (n - (i + 1)) <= confirmed
    BY <1>3, <2>1
  <2>3. QED
    BY <1>1, <2>1, <2>2
<1>7. ASSUME NEW i \in (q + 1) .. n - 1, NEW j \in (q + 1) .. n - 1, i < j
      PROVE  rest[i] < rest[j]
  <2>1. /\ rest[i] = trades[i + 1] /\ rest[j] = trades[j + 1] /\ i + 1 < j + 1
        /\ i + 1 \in (p + 1) .. n /\ j + 1 \in (p + 1) .. n
    BY <1>2, <1>4, <1>7
  <2>2. QED
    BY <1>3, <2>1
<1>8. ASSUME NEW t \in Nat, base < t, t <= confirmed, t > confirmed - TradeTail
      PROVE  t \in events \/ \E i \in (q + 1) .. n - 1 : rest[i] = t
  <2>1. CASE t \in events
    BY <2>1
  <2>2. CASE t \notin events
    <3>1. PICK i \in (p + 1) .. n : trades[i] = t
      BY <1>8, <1>14, <2>2 DEF Recent
    <3>2. CASE i - 1 \in (q + 1) .. n - 1
      <4>1. rest[i - 1] = trades[i] /\ i \in Int
        <5>1. i - 1 \in 1 .. n - 1 /\ (i - 1) + 1 = i
          BY <1>4, <3>2
        <5>2. QED
          BY <1>2, <5>1
      <4>2. QED
        BY <3>1, <3>2, <4>1
    <3>3. CASE p = 0 /\ i = 1
      <4>1. t + (n - 1) <= confirmed
        BY <1>3, <3>1, <3>3
      <4>2. QED
        BY <1>1, <1>8, <1>14, <4>1
    <3>4. QED
      BY <1>5, <3>2, <3>3
  <2>3. QED
    BY <2>1, <2>2
<1>9. Recent(rest, q, base, confirmed, events)
  BY <1>2, <1>4, <1>6, <1>7, <1>8 DEF Recent
<1>10. QED
  BY <1>2, <1>9 DEF rest

\* What is kept of a tail is a sequence, whatever it holds.
LEMMA KeptIsTail ==
    ASSUME NEW S, NEW trades \in Seq(S), NEW slot
    PROVE  \E T : KeptTail(trades, slot) \in Seq(T)
<1> DEFINE K == {i \in DOMAIN trades : trades[i] > slot}
           c == Cardinality(K)
           T == {trades[Nth(K, j)] : j \in 1 .. c}
<1>1. DOMAIN trades = 1 .. Len(trades) /\ Len(trades) \in Nat
  OBVIOUS
<1>2. IsFiniteSet(1 .. Len(trades)) /\ K \in SUBSET (1 .. Len(trades))
  BY <1>1, FS_Interval
<1> HIDE DEF K
<1>3. c \in Nat
  BY <1>2, FS_Subset, FS_CardinalityType
<1>4. KeptTail(trades, slot) = [j \in 1 .. c |-> trades[Nth(K, j)]]
  BY DEF KeptTail, K
<1>5. \A j \in 1 .. c : trades[Nth(K, j)] \in T
  OBVIOUS
<1> HIDE DEF c, T
<1>6. KeptTail(trades, slot) \in Seq(T)
  BY <1>3, <1>4, <1>5
<1>7. QED
  BY <1>6

\* A tail that leaves out what is durable keeps the others, at the same distance from
\* the end.
LEMMA RecentKept ==
    ASSUME NEW S, NEW trades \in Seq(S), NEW p, NEW base \in Nat, NEW confirmed \in Nat, NEW events,
           Recent(trades, p, base, confirmed, events), NEW slot \in Nat,
           \A t \in Nat : 1 <= t /\ t <= slot => t \in events
    PROVE  /\ \E T : KeptTail(trades, slot) \in Seq(T)
           /\ \E q : Recent(KeptTail(trades, slot), q, base, confirmed, events)
<1> DEFINE n == Len(trades)
           K == {i \in DOMAIN trades : trades[i] > slot}
           c == Cardinality(K)
           rest == KeptTail(trades, slot)
           first == {i \in (p + 1) .. (n + 1) : i = n + 1 \/ trades[i] > slot}
           m == Least(first)
<1>1. n \in Nat /\ DOMAIN trades = 1 .. n /\ Len(trades) = n
  OBVIOUS
<1>2. /\ p \in 0 .. n
      /\ \A i \in (p + 1) .. n : trades[i] \in Nat /\ base < trades[i] /\ trades[i] + (n - i) <= confirmed
      /\ \A i, j \in (p + 1) .. n : i < j => trades[i] < trades[j]
  BY DEF Recent
<1>3. IsFiniteSet(K) /\ c \in Nat
  <2>1. IsFiniteSet(1 .. n)
    BY <1>1, FS_Interval
  <2>2. K \in SUBSET (1 .. n)
    BY <1>1
  <2> HIDE DEF K, n
  <2>3. IsFiniteSet(K)
    BY <2>1, <2>2, FS_Subset
  <2>4. QED
    BY <2>3, FS_CardinalityType
<1>4. rest = [j \in 1 .. c |-> trades[Nth(K, j)]]
  BY DEF KeptTail
<1>5. K \subseteq 1 .. n
  BY <1>1
<1>6. m \in first /\ \A i \in first : m <= i
  <2>1. first \subseteq Nat
    BY <1>1, <1>2
  <2>2. n + 1 \in first
    BY <1>1, <1>2
  <2> HIDE DEF first
  <2>3. QED
    BY <2>1, <2>2, LeastIsMember
<1>7. m \in (p + 1) .. (n + 1) /\ m \in Nat
  BY <1>1, <1>2, <1>6
<1>8. \A i \in (p + 1) .. n : i < m => trades[i] <= slot
  <2>1. SUFFICES ASSUME NEW i \in (p + 1) .. n, i < m, ~(trades[i] <= slot) PROVE FALSE
    OBVIOUS
  <2>2. trades[i] > slot /\ i \in (p + 1) .. (n + 1)
    BY <1>1, <1>2, <2>1
  <2>3. i \in first
    BY <2>2
  <2> HIDE DEF m, first
  <2>4. QED
    BY <1>1, <1>2, <1>6, <1>7, <2>1, <2>3
<1>9. \A i \in m .. n : i \in (p + 1) .. n /\ i \in K
  <2>1. SUFFICES ASSUME NEW i \in m .. n PROVE i \in (p + 1) .. n /\ trades[i] > slot /\ i \in 1 .. n
    BY <1>1
  <2> HIDE DEF m
  <2>2. m <= n /\ i \in (p + 1) .. n /\ m \in (p + 1) .. n /\ i \in 1 .. n
    BY <1>1, <1>2, <1>7, <2>1
  <2>3. trades[m] > slot /\ trades[m] \in Nat /\ trades[i] \in Nat
    BY <1>1, <1>2, <1>6, <1>7, <2>2
  <2>4. i = m \/ trades[m] < trades[i]
    BY <1>2, <1>7, <2>1, <2>2
  <2>5. QED
    BY <2>2, <2>3, <2>4
<1> DEFINE q == c - (n - m + 1)
<1> HIDE DEF n, K, rest, first, m
(* Position i of the tail becomes i - (n - c). *)
<1>10. ASSUME NEW i \in m .. n
       PROVE  /\ c - (n - i) \in 1 .. c /\ Nth(K, c - (n - i)) = i
              /\ rest[c - (n - i)] = trades[i]
  <2>1. i .. n \subseteq K /\ i \in K
    BY <1>1, <1>7, <1>9, <1>10
  <2>2. c - (n - i) \in 1 .. c /\ Nth(K, c - (n - i)) = i
    BY <1>1, <1>5, <2>1, NthFromEnd
  <2>3. QED
    BY <1>4, <2>2
<1>11. rest \in Seq({rest[j] : j \in 1 .. c}) /\ Len(rest) = c
  <2> DEFINE T == {rest[j] : j \in 1 .. c}
  <2>1. DOMAIN rest = 1 .. c /\ \A j \in 1 .. c : rest[j] \in T
    BY <1>4
  <2> HIDE DEF T
  <2>2. rest \in [1 .. c -> T]
    BY <1>4, <2>1
  <2>3. rest \in Seq(T) /\ Len(rest) = c
    BY <1>3, <2>2
  <2>4. QED
    BY <2>3 DEF T
<1>12. q \in 0 .. c
  <2>1. CASE m = n + 1
    BY <1>1, <1>3, <1>7, <2>1
  <2>2. CASE m <= n
    <3>1. m \in m .. n
      BY <1>1, <1>7, <2>2
    <3>2. c - (n - m) \in 1 .. c
      BY <1>10, <3>1
    <3>3. QED
      BY <1>1, <1>3, <1>7, <3>2
  <2>3. QED
    BY <1>1, <1>7, <2>1, <2>2
<1> HIDE DEF c
<1>13. \A j \in (q + 1) .. c : j + (n - c) \in m .. n /\ c - (n - (j + (n - c))) = j
  BY <1>1, <1>3, <1>7, <1>12
<1>14. \A i \in m .. n : c - (n - i) \in (q + 1) .. c
  BY <1>1, <1>3, <1>7, <1>12
<1>15. \A j \in (q + 1) .. c : rest[j] = trades[j + (n - c)] /\ j + (n - c) \in (p + 1) .. n
  <2>1. ASSUME NEW j \in (q + 1) .. c PROVE rest[j] = trades[j + (n - c)] /\ j + (n - c) \in (p + 1) .. n
    <3> DEFINE i == j + (n - c)
    <3>1. i \in m .. n /\ c - (n - i) = j
      BY <1>13
    <3> HIDE DEF i
    <3>2. rest[j] = trades[i] /\ i \in (p + 1) .. n
      BY <1>9, <1>10, <3>1
    <3>3. QED
      BY <3>2 DEF i
  <2>2. QED
    BY <2>1
<1> HIDE DEF q
<1>20. q \in Int /\ c \in Nat /\ n \in Nat
  BY <1>1, <1>3, <1>12
<1>16. ASSUME NEW j \in (q + 1) .. c
       PROVE  rest[j] \in Nat /\ base < rest[j] /\ rest[j] + (c - j) <= confirmed
  <2> DEFINE i == j + (n - c)
  <2>1. rest[j] = trades[i] /\ i \in (p + 1) .. n /\ n - i = c - j
    BY <1>15, <1>20
  <2> HIDE DEF i
  <2>2. trades[i] \in Nat /\ base < trades[i] /\ trades[i] + (n - i) <= confirmed
    BY <1>2, <2>1
  <2>3. QED
    BY <2>1, <2>2
<1>17. ASSUME NEW i \in (q + 1) .. c, NEW j \in (q + 1) .. c, i < j
       PROVE  rest[i] < rest[j]
  <2> DEFINE a == i + (n - c)
             b == j + (n - c)
  <2>1. /\ rest[i] = trades[a] /\ rest[j] = trades[b] /\ a < b
        /\ a \in (p + 1) .. n /\ b \in (p + 1) .. n
    BY <1>15, <1>17, <1>20
  <2> HIDE DEF a, b
  <2>2. QED
    BY <1>2, <2>1
<1>18. ASSUME NEW t \in Nat, base < t, t <= confirmed, t > confirmed - TradeTail
       PROVE  t \in events \/ \E j \in (q + 1) .. c : rest[j] = t
  <2>1. SUFFICES ASSUME t \notin events PROVE \E j \in (q + 1) .. c : rest[j] = t
    OBVIOUS
  <2>2. PICK i \in (p + 1) .. n : trades[i] = t
    BY <1>1, <1>18, <2>1 DEF Recent
  <2>3. t > slot
    BY <1>18, <2>1
  <2>4. i \in m .. n
    BY <1>2, <1>7, <1>8, <1>20, <2>2, <2>3
  <2>5. QED
    BY <1>10, <1>14, <2>2, <2>4
<1>19. Recent(rest, q, base, confirmed, events)
  BY <1>11, <1>12, <1>16, <1>17, <1>18 DEF Recent
<1>21. QED
  BY <1>11, <1>19 DEF rest

\* What a step leaves of TailInv when the live index stays up on the same slots.
LEMMA TailFits ==
    ASSUME NEW S, tail' \in Seq(S), live'.base <= live'.confirmed,
           live'.up => \E p : Recent(tail', p, live'.base, live'.confirmed, db'.events \cup skipped')
    PROVE  TailInv'
BY DEF TailInv

\* What is stored or skipped only grows while a batch becomes durable, and reaches its end.
LEMMA EventsGrow ==
    ASSUME IndexInv, Backfill \/ History
    PROVE  /\ \A t \in Nat : t \in db.events \cup skipped => t \in db'.events \cup skipped'
           /\ worker.slot \in Nat
           /\ \A t \in Nat : 1 <= t /\ t <= worker.slot => t \in db'.events \cup skipped'
<1>1. worker.slot \in Nat
  BY IndexFacts DEF WorkerStates
<1>2. /\ Covers(db'.events \cup skipped', 0, db'.cursor)
      /\ db'.cursor \in Int /\ worker.slot <= db'.cursor
      /\ db.events \subseteq db'.events /\ skipped \subseteq skipped'
  BY HistoryFits DEF Advanced
<1>3. \A t \in Nat : 1 <= t /\ t <= worker.slot => 0 < t /\ t <= db'.cursor
  BY <1>1, <1>2
<1>4. QED
  BY <1>1, <1>2, <1>3 DEF Covers

LEMMA ConfirmedTail ==
    ASSUME IndexInv, TailInv, OnConfirmed
    PROVE  TailInv'
<1> DEFINE next == live.confirmed + 1
           shown == Append(tail, next)
<1>1. /\ live.up /\ live' = [live EXCEPT !.confirmed = @ + 1] /\ UNCHANGED <<db, skipped>>
      /\ tail' = IF Len(shown) > TradeTail THEN Tail(shown) ELSE shown
  BY DEF OnConfirmed
<1>2. live \in [up : BOOLEAN, base : Nat, confirmed : Nat, final : Nat]
  BY IndexFacts
<1>3. live.base \in Nat /\ live.confirmed \in Nat /\ next \in Nat /\ live.base <= live.confirmed
  BY <1>2 DEF TailInv
<1>4. live'.base = live.base /\ live'.confirmed = next /\ live'.base <= live'.confirmed
  BY <1>1, <1>2, <1>3
<1>5. PICK S : tail \in Seq(S)
  BY DEF TailInv
<1>6. PICK p : Recent(tail, p, live.base, live.confirmed, db.events \cup skipped)
  BY <1>1 DEF TailInv
<1>7. Recent(shown, p, live.base, next, db.events \cup skipped)
  BY <1>3, <1>5, <1>6, RecentAppended
<1>8. shown \in Seq(S \cup {next})
  <2>1. tail \in Seq(S \cup {next}) /\ next \in S \cup {next}
    BY <1>5
  <2> HIDE DEF next
  <2>2. QED
    BY <2>1
<1> HIDE DEF next, shown
<1>9. CASE Len(shown) > TradeTail
  <2>1. Tail(shown) \in Seq(S \cup {next}) /\ \E q : Recent(Tail(shown), q, live.base, next, db.events \cup skipped)
    BY <1>3, <1>7, <1>8, <1>9, RecentDropped
  <2>2. QED
    BY <1>1, <1>4, <1>9, <2>1, TailFits
<1>10. CASE ~(Len(shown) > TradeTail)
  BY <1>1, <1>4, <1>7, <1>8, <1>10, TailFits
<1>11. QED
  BY <1>9, <1>10

LEMMA HistoryTail ==
    ASSUME IndexInv, TailInv, Backfill \/ History
    PROVE  TailInv'
<1>1. UNCHANGED live /\ (UNCHANGED tail \/ tail' = KeptTail(tail, worker.slot))
  BY DEF Backfill, History
<1>2. live.base \in Nat /\ live.confirmed \in Nat /\ live.base <= live.confirmed
  BY IndexFacts DEF TailInv
<1>3. /\ \A t \in Nat : t \in db.events \cup skipped => t \in db'.events \cup skipped'
      /\ worker.slot \in Nat
      /\ \A t \in Nat : 1 <= t /\ t <= worker.slot => t \in db'.events \cup skipped'
  BY EventsGrow
<1>4. PICK S : tail \in Seq(S)
  BY DEF TailInv
<1>5. ASSUME live.up
      PROVE  \E p : Recent(tail, p, live.base, live.confirmed, db'.events \cup skipped')
  BY <1>3, <1>5, RecentLater DEF TailInv
<1>6. CASE UNCHANGED tail
  BY <1>1, <1>2, <1>4, <1>5, <1>6, TailFits
<1>7. CASE tail' = KeptTail(tail, worker.slot)
  <2>1. CASE live.up
    <3>1. PICK p : Recent(tail, p, live.base, live.confirmed, db'.events \cup skipped')
      BY <1>5, <2>1
    <3>2. /\ \E T : KeptTail(tail, worker.slot) \in Seq(T)
          /\ \E q : Recent(KeptTail(tail, worker.slot), q, live.base, live.confirmed, db'.events \cup skipped')
      BY <1>2, <1>3, <1>4, <3>1, RecentKept
    <3>3. QED
      BY <1>1, <1>2, <1>7, <3>2, TailFits
  <2>2. CASE ~live.up
    <3>1. \E T : KeptTail(tail, worker.slot) \in Seq(T)
      BY <1>4, KeptIsTail
    <3>2. QED
      BY <1>1, <1>2, <1>7, <2>2, <3>1, TailFits
  <2>3. QED
    BY <2>1, <2>2
<1>8. QED
  BY <1>1, <1>6, <1>7

LEMMA TailStep ==
    ASSUME IndexInv, TailInv, [IndexNext]_serviceVars
    PROVE  TailInv'
<1>1. live \in [up : BOOLEAN, base : Nat, confirmed : Nat, final : Nat] /\ head.final \in Nat
      /\ db \in [cursor : Int, events : SUBSET Int, slot : Int, healthy : BOOLEAN]
  BY IndexFacts
<1>2. PICK S : tail \in Seq(S)
  BY DEF TailInv
<1>3. live.base <= live.confirmed
  BY DEF TailInv
<1>4. ASSUME UNCHANGED tail, live'.base = live.base, live'.confirmed = live.confirmed,
             live'.up => live.up, db'.events = db.events, skipped' = skipped
      PROVE  TailInv'
  BY <1>2, <1>3, <1>4, TailFits DEF TailInv
<1>5. CASE StartService \/ StartsOver
  <2>1. /\ UNCHANGED <<tail, db, skipped>>
        /\ live' = [up |-> TRUE, base |-> head.final, confirmed |-> head.final, final |-> head.final]
    BY <1>5 DEF StartService, StartsOver
  <2>2. live'.base = head.final /\ live'.confirmed = head.final /\ live'.base <= live'.confirmed
    BY <1>1, <2>1
  <2>3. Recent(tail, Len(tail), head.final, head.final, db.events \cup skipped)
    BY <1>1, <1>2, RecentNone
  <2>4. QED
    BY <1>2, <2>1, <2>2, <2>3, TailFits
<1>6. CASE Dies
  <2>1. tail' = <<>> /\ live' = [live EXCEPT !.up = FALSE]
    BY <1>6 DEF Dies
  <2>2. tail' \in Seq({}) /\ ~live'.up /\ live'.base <= live'.confirmed
    BY <1>1, <1>3, <2>1
  <2>3. QED
    BY <2>2, TailFits
<1>7. CASE OnConfirmed
  BY <1>7, ConfirmedTail
<1>8. CASE OnFinalized
  <2>1. live' = [live EXCEPT !.final = @ + 1] /\ UNCHANGED <<tail, db, skipped>>
    BY <1>8 DEF OnFinalized
  <2>2. QED
    BY <1>1, <1>4, <2>1
<1>9. CASE LosesStream
  <2>1. live' = [live EXCEPT !.up = FALSE] /\ UNCHANGED <<tail, db, skipped>>
    BY <1>9 DEF LosesStream
  <2>2. QED
    BY <1>1, <1>4, <2>1
<1>10. CASE Backfill \/ History
  BY <1>10, HistoryTail
<1>11. CASE Persist
  <2>1. UNCHANGED <<tail, live, skipped>> /\ Written
    BY <1>11 DEF Persist
  <2>2. db'.events = db.events
    BY <1>1, <2>1 DEF Written
  <2>3. QED
    BY <1>4, <2>1, <2>2
<1>12. CASE FailSnapshot
  <2>1. UNCHANGED <<tail, live, skipped>> /\ (UNCHANGED db \/ db' = [db EXCEPT !.healthy = @ /\ db.slot > worker.slot])
    BY <1>12 DEF FailSnapshot
  <2>2. db'.events = db.events
    BY <1>1, <2>1
  <2>3. QED
    BY <1>4, <2>1, <2>2
<1>13. CASE UNCHANGED <<tail, live, db, skipped>>
  BY <1>4, <1>13
<1>14. RefreshArchival \/ Audit \/ Confirms \/ Finalizes \/ UNCHANGED serviceVars => UNCHANGED <<tail, live, db, skipped>>
  BY DEF RefreshArchival, Audit, Confirms, Finalizes, serviceVars
<1>15. ServiceCrash \/ CallFails => Dies \/ UNCHANGED <<tail, live, db, skipped>>
  BY DEF ServiceCrash, CallFails
<1>16. QED
  BY <1>5, <1>6, <1>7, <1>8, <1>9, <1>10, <1>11, <1>12, <1>13, <1>14, <1>15 DEF IndexNext, Works

LEMMA TailInitial ==
    ASSUME IndexInit
    PROVE  TailInv
<1>1. live = [up |-> FALSE, base |-> 0, confirmed |-> 0, final |-> 0] /\ tail = <<>>
  BY DEF IndexInit
<1>2. tail \in Seq({}) /\ ~live.up /\ live.base <= live.confirmed
  BY <1>1
<1>3. QED
  BY <1>2 DEF TailInv

LEMMA TailKeepsTrades ==
    ASSUME IndexInv, TailInv
    PROVE  TradesKept
<1>1. SUFFICES ASSUME NEW t \in 1..live.confirmed, live.up, t > live.base, t > live.confirmed - TradeTail
               PROVE  t \in ToSet(tail) \cup db.events \cup skipped
  BY DEF TradesKept
<1>2. live.base \in Nat /\ live.confirmed \in Nat
  BY IndexFacts
<1>3. PICK p : Recent(tail, p, live.base, live.confirmed, db.events \cup skipped)
  BY <1>1 DEF TailInv
<1>4. PICK S : tail \in Seq(S)
  BY DEF TailInv
<1>5. t \in Nat /\ live.base < t /\ t <= live.confirmed
  BY <1>1, <1>2
<1>6. t \in (db.events \cup skipped) \/ \E i \in (p + 1) .. Len(tail) : tail[i] = t
  BY <1>1, <1>3, <1>5 DEF Recent
<1>7. \A i \in (p + 1) .. Len(tail) : i \in DOMAIN tail
  BY <1>3, <1>4 DEF Recent
<1>8. QED
  BY <1>6, <1>7 DEF ToSet

\* A trade among the newest TradeTail that readers have been shown since the live index
\* started is in the tail in memory or in the history of the database, and so does not
\* disappear between the two, unless a replay skipped its slot (service.ts).
THEOREM ShownTradesStay == IndexSpec => []TradesKept
<1> DEFINE Inv == IndexInv /\ TailInv
<1>1. IndexInit => Inv
  BY IndexInitial, TailInitial
<1>2. Inv /\ [IndexNext]_serviceVars => Inv'
  BY IndexStep, TailStep
<1>3. Inv => TradesKept
  BY TailKeepsTrades
<1>4. QED
  BY <1>1, <1>2, <1>3, PTL DEF IndexSpec

-----------------------------------------------------------------------------
(* The durable history, which the service implements.                      *)

\* Nothing is queued, taken or stored past what is finalized: a batch holds nothing past its
\* end, and what is stored is not past the cursor.
Within(hd, w, q, d) ==
    /\ w.slot <= hd.final /\ d.cursor <= hd.final
    /\ \A s \in ToSet(q) : 1 <= s
    /\ \A s \in w.txs : 1 <= s /\ s <= w.slot
    /\ \A s \in d.events : 0 <= s /\ s <= d.cursor

WithinInv == Within(head, worker, queue, db)

LEMMA WithinFacts ==
    ASSUME WithinInv
    PROVE  /\ worker.slot <= head.final /\ db.cursor <= head.final
           /\ \A s \in ToSet(queue) : 1 <= s
           /\ \A s \in worker.txs : 1 <= s /\ s <= worker.slot
           /\ \A s \in db.events : 0 <= s /\ s <= db.cursor
BY DEF WithinInv, Within

LEMMA NumbersOf ==
    ASSUME IndexInv
    PROVE  /\ head.final \in Int /\ 0 <= head.final /\ live.final \in Int /\ 0 <= live.final
           /\ live.final <= head.final
           /\ worker.slot \in Int /\ 0 <= worker.slot /\ worker.slot \in Nat
           /\ worker.txs \in SUBSET Nat /\ db.cursor \in Int /\ db.events \in SUBSET Int
           /\ queue \in Seq(Nat)
<1>1. /\ head \in [confirmed : Nat, final : Nat]
      /\ live \in [up : BOOLEAN, base : Nat, confirmed : Nat, final : Nat]
      /\ worker \in WorkerStates /\ queue \in Seq(Nat)
      /\ db \in [cursor : Int, events : SUBSET Int, slot : Int, healthy : BOOLEAN]
      /\ live.final <= head.final
  BY IndexFacts
<1>2. head.final \in Nat /\ live.final \in Nat /\ worker.slot \in Nat /\ worker.txs \in SUBSET Nat
  BY <1>1 DEF WorkerStates
<1>3. QED
  BY <1>1, <1>2

\* What a pass takes does not reach past the reports.
LEMMA TakenWithin ==
    ASSUME NEW q \in Seq(Nat), NEW base, NEW final \in Nat, NEW limit \in Nat, final <= limit,
           Ordered(q, base, final), \A s \in ToSet(q) : 1 <= s
    PROVE  /\ Taken(q).slot <= limit
           /\ \A s \in Taken(q).txs : 1 <= s /\ s <= Taken(q).slot
<1>1. CASE q = <<>>
  <2>1. Taken(q) = [Off EXCEPT !.at = "idle"]
    BY <1>1 DEF Taken
  <2>2. Taken(q).slot = 0 /\ Taken(q).txs = {}
    BY <2>1 DEF Off
  <2>3. QED
    BY <2>2
<1>2. CASE q # <<>>
  <2> DEFINE end == Last(q)
  <2>1. Taken(q).slot = end /\ Taken(q).txs = ToSet(q)
    BY <1>2 DEF Taken
  <2>2. end <= final /\ \A s \in ToSet(q) : s <= end
    BY <1>2 DEF Ordered
  <2>3. end \in Nat
    BY <1>2, LastSlotOf
  <2> HIDE DEF end
  <2>4. end <= limit
    BY <2>2, <2>3
  <2>5. QED
    BY <2>1, <2>2, <2>4
<1>3. QED
  BY <1>1, <1>2

\* The worker takes the queue and what is stored stays.
LEMMA TakingWithin ==
    ASSUME IndexInv, WithinInv, worker' = Taken(queue), queue' = <<>>,
           db'.cursor = db.cursor, db'.events = db.events, UNCHANGED head
    PROVE  WithinInv'
<1>1. /\ live.final \in Nat /\ head.final \in Nat /\ live.final <= head.final
      /\ queue \in Seq(Nat) /\ Ordered(queue, live.base, live.final)
  BY IndexFacts
<1>2. /\ Taken(queue).slot <= head.final
      /\ \A s \in Taken(queue).txs : 1 <= s /\ s <= Taken(queue).slot
  BY <1>1, WithinFacts, TakenWithin
<1>3. Within(head, Taken(queue), <<>>, db')
  BY <1>2, WithinFacts, NothingQueued DEF Within
<1>4. QED
  BY <1>3 DEF WithinInv

\* The database after a batch: the cursor is where it was or at the end of the batch, and
\* the events reach no further than it.
Recorded(slot) ==
    /\ db'.cursor = db.cursor \/ db'.cursor = slot
    /\ \A s \in db'.events : 0 <= s /\ s <= db'.cursor

LEMMA ReplayedStored ==
    ASSUME IndexInv, WithinInv, NEW slot \in Nat, NEW jumped, Replayed(slot, jumped)
    PROVE  Recorded(slot)
<1>1. /\ db.cursor \in Int /\ db.cursor >= -1 /\ db.events \in SUBSET Int
      /\ \A s \in db.events : 0 <= s /\ s <= db.cursor
  BY NumbersOf, IndexFacts, WithinFacts DEF NoCursor
<1>2. CASE db.cursor > slot
  <2>1. db' = db
    BY <1>2 DEF Replayed
  <2>2. QED
    BY <2>1, <1>1 DEF Recorded
<1>3. CASE ~(db.cursor > slot)
  <2> DEFINE from == ReplayFrom(db.cursor)
             due == from..slot
  <2>1. from \in Int /\ 0 <= from
    BY <1>1 DEF ReplayFrom, NoCursor
  <2>2. PICK listed \in Listed(due, slot) :
           db' = [db EXCEPT !.cursor = slot, !.events = db.events \cup listed]
    BY <1>3 DEF Replayed
  <2>3. PICK seen : listed = {s \in due : s <= seen}
    BY DEF Listed
  <2>4. \A s \in listed : s \in from..slot
    BY <2>3
  <2>5. db'.cursor = slot /\ db'.events = db.events \cup listed
    <3>1. db \in [cursor : Int, events : SUBSET Int, slot : Int, healthy : BOOLEAN]
      BY IndexFacts
    <3> HIDE DEF due, from
    <3>2. QED
      BY <3>1, <2>2
  <2>6. db.cursor <= slot
    BY <1>1, <1>3
  <2>7. ASSUME NEW s \in db.events
        PROVE  0 <= s /\ s <= slot
    <3>1. s \in Int /\ 0 <= s /\ s <= db.cursor
      BY <1>1
    <3>2. QED
      BY <3>1, <2>6, <1>1
  <2> HIDE DEF from, due
  <2>8. ASSUME NEW s \in from..slot
        PROVE  0 <= s /\ s <= slot
    BY <2>1
  <2>9. QED
    BY <2>4, <2>5, <2>7, <2>8 DEF Recorded
<1>4. QED
  BY <1>2, <1>3

LEMMA StreamedStored ==
    ASSUME IndexInv, WithinInv, Streamed(worker.slot, worker.txs)
    PROVE  Recorded(worker.slot)
<1>1. /\ db.cursor \in Int /\ db.events \in SUBSET Int /\ worker.slot \in Int
      /\ worker.txs \in SUBSET Nat
      /\ \A s \in db.events : 0 <= s /\ s <= db.cursor
      /\ \A s \in worker.txs : 1 <= s /\ s <= worker.slot
  BY NumbersOf, WithinFacts
<1>2. CASE db.cursor >= worker.slot
  <2>1. db' = db
    BY <1>2 DEF Streamed
  <2>2. QED
    BY <2>1, <1>1 DEF Recorded
<1>3. CASE ~(db.cursor >= worker.slot)
  <2>1. db' = [db EXCEPT !.cursor = worker.slot, !.events = db.events \cup worker.txs]
    BY <1>3 DEF Streamed
  <2>2. db'.cursor = worker.slot /\ db'.events = db.events \cup worker.txs
    <3>1. db \in [cursor : Int, events : SUBSET Int, slot : Int, healthy : BOOLEAN]
      BY IndexFacts
    <3>2. QED
      BY <3>1, <2>1
  <2>3. db.cursor <= worker.slot
    BY <1>1, <1>3
  <2>4. ASSUME NEW s \in db.events
        PROVE  0 <= s /\ s <= worker.slot
    <3>1. s \in Int /\ 0 <= s /\ s <= db.cursor
      BY <1>1
    <3>2. QED
      BY <3>1, <2>3, <1>1
  <2>5. ASSUME NEW s \in worker.txs
        PROVE  0 <= s /\ s <= worker.slot
    <3>1. s \in Nat /\ s <= worker.slot
      BY <1>1
    <3>2. QED
      BY <3>1
  <2>6. QED
    BY <2>2, <2>4, <2>5 DEF Recorded
<1>4. QED
  BY <1>2, <1>3

\* A batch becomes durable: nothing else changes but where the worker is.
LEMMA BatchStored ==
    ASSUME IndexInv, WithinInv, Backfill \/ History
    PROVE  /\ Recorded(worker.slot) /\ UNCHANGED <<head, live, queue>>
           /\ worker'.slot = worker.slot /\ worker'.txs = worker.txs
<1>1. worker \in WorkerStates /\ worker.slot \in Nat
  BY IndexFacts, NumbersOf
<1>2. (\E jumped : Replayed(worker.slot, jumped)) \/ Streamed(worker.slot, worker.txs)
  BY DEF Backfill, History
<1>3. UNCHANGED <<head, live, queue>> /\ \E at \in {"first archive", "archive"} : WorkerMoves(at)
  BY DEF Backfill, History
<1>4. worker'.slot = worker.slot /\ worker'.txs = worker.txs
  BY <1>1, <1>3 DEF WorkerMoves, WorkerStates
<1>5. QED
  BY <1>1, <1>2, <1>3, <1>4, ReplayedStored, StreamedStored

LEMMA BatchWithin ==
    ASSUME IndexInv, WithinInv, Backfill \/ History
    PROVE  WithinInv'
<1>1. /\ Recorded(worker.slot) /\ UNCHANGED <<head, live, queue>>
      /\ worker'.slot = worker.slot /\ worker'.txs = worker.txs
  BY BatchStored
<1>2. db'.cursor <= head.final
  BY <1>1, WithinFacts DEF Recorded
<1>3. Within(head, worker', queue, db')
  BY <1>1, <1>2, WithinFacts DEF Within, Recorded
<1>4. QED
  BY <1>1, <1>3 DEF WithinInv

LEMMA ReportWithin ==
    ASSUME IndexInv, WithinInv, OnFinalized
    PROVE  WithinInv'
<1> DEFINE next == live.final + 1
           q == Append(queue, next)
<1>1. /\ UNCHANGED <<head, db>> /\ live.final < head.final
      /\ \/ worker' = Taken(q) /\ queue' = <<>>
         \/ queue' = q /\ UNCHANGED worker
  BY DEF OnFinalized
<1>2. /\ live.final \in Nat /\ head.final \in Nat /\ queue \in Seq(Nat)
      /\ Ordered(queue, live.base, live.final)
  BY IndexFacts
<1>3. next \in Nat /\ next <= head.final /\ 1 <= next
  BY <1>1, <1>2
<1>4. q \in Seq(Nat) /\ ToSet(q) = ToSet(queue) \cup {next} /\ Ordered(q, live.base, next)
  BY <1>2, <1>3, QueuedSlots, ReportOrdered
<1> HIDE DEF q, next
<1>5. \A s \in ToSet(q) : 1 <= s
  BY <1>3, <1>4, WithinFacts
<1>6. CASE worker' = Taken(q) /\ queue' = <<>>
  <2>1. /\ Taken(q).slot <= head.final
        /\ \A s \in Taken(q).txs : 1 <= s /\ s <= Taken(q).slot
    BY <1>2, <1>3, <1>4, <1>5, TakenWithin
  <2>2. Within(head, Taken(q), <<>>, db)
    BY <2>1, WithinFacts, NothingQueued DEF Within
  <2>3. QED
    BY <2>2, <1>1, <1>6 DEF WithinInv
<1>7. CASE queue' = q /\ UNCHANGED worker
  <2>1. Within(head, worker, q, db)
    BY <1>5, WithinFacts DEF Within
  <2>2. QED
    BY <2>1, <1>1, <1>7 DEF WithinInv
<1>8. QED
  BY <1>1, <1>6, <1>7

LEMMA WithinStep ==
    ASSUME IndexInv, WithinInv, [IndexNext]_serviceVars
    PROVE  WithinInv'
<1>0. /\ head \in [confirmed : Nat, final : Nat]
      /\ worker \in WorkerStates
      /\ db \in [cursor : Int, events : SUBSET Int, slot : Int, healthy : BOOLEAN]
      /\ head.final \in Int /\ 0 <= head.final
  BY IndexFacts, NumbersOf
<1>1. ASSUME UNCHANGED <<head, queue>>, worker'.slot = worker.slot,
             worker'.txs = worker.txs, db'.cursor = db.cursor, db'.events = db.events
      PROVE  WithinInv'
  <2>1. Within(head, worker', queue, db')
    BY <1>1, WithinFacts DEF Within
  <2>2. QED
    BY <1>1, <2>1 DEF WithinInv
<1>2. CASE StartService
  <2>1. /\ UNCHANGED <<head, queue, db>> /\ worker.at = "down"
        /\ worker' = [Off EXCEPT !.at = "backfill", !.slot = head.final]
    BY <1>2 DEF StartService
  <2>2. worker'.slot = head.final /\ worker'.txs = {} /\ head.final <= head.final
    BY <1>0, <2>1 DEF Off
  <2>3. Within(head, worker', queue, db)
    BY <2>2, WithinFacts DEF Within
  <2>4. QED
    BY <2>1, <2>3 DEF WithinInv
<1>3. CASE StartsOver \/ OnConfirmed \/ LosesStream
  BY <1>1, <1>3 DEF StartsOver, OnConfirmed, LosesStream
<1>4. CASE Dies /\ UNCHANGED <<head, db>>
  <2>1. worker' = Off /\ queue' = <<>>
    BY <1>4 DEF Dies
  <2>2. Off.slot = 0 /\ Off.txs = {}
    BY DEF Off
  <2>3. Within(head, Off, <<>>, db)
    BY <1>0, <2>2, WithinFacts, NothingQueued DEF Within
  <2>4. QED
    BY <1>4, <2>1, <2>3 DEF WithinInv
<1>5. CASE OnFinalized
  BY <1>5, ReportWithin
<1>6. CASE Backfill \/ History
  BY <1>6, BatchWithin
<1>7. ASSUME NEW at, WorkerMoves(at), UNCHANGED <<head, queue, db>>
      PROVE  WithinInv'
  <2>1. worker'.slot = worker.slot /\ worker'.txs = worker.txs
    BY <1>0, <1>7 DEF WorkerMoves, WorkerStates
  <2>2. QED
    BY <1>1, <1>7, <2>1
<1>8. CASE RefreshArchival
  BY <1>7, <1>8 DEF RefreshArchival
<1>9. CASE Audit
  <2>1. CASE worker' = Taken(queue) /\ queue' = <<>> /\ UNCHANGED <<head, db>>
    BY <2>1, TakingWithin
  <2>2. CASE WorkerMoves("persist") /\ UNCHANGED <<head, queue, db>>
    BY <2>2, <1>7
  <2>3. CASE WorkerMoves("first persist") /\ UNCHANGED <<head, queue, db>>
    BY <2>3, <1>7
  <2>4. QED
    BY <2>1, <2>2, <2>3, <1>9 DEF Audit
<1>10. CASE Persist
  <2>1. Written /\ worker' = Taken(queue) /\ queue' = <<>> /\ UNCHANGED head
    BY <1>10 DEF Persist
  <2>2. db'.cursor = db.cursor /\ db'.events = db.events
    BY <1>0, <2>1 DEF Written
  <2>3. QED
    BY <2>1, <2>2, TakingWithin
<1>11. CASE FailSnapshot
  <2>1. /\ worker' = Taken(queue) /\ queue' = <<>> /\ UNCHANGED head
        /\ UNCHANGED db \/ db' = [db EXCEPT !.healthy = @ /\ db.slot > worker.slot]
    BY <1>11 DEF FailSnapshot
  <2>2. db'.cursor = db.cursor /\ db'.events = db.events
    BY <1>0, <2>1
  <2>3. QED
    BY <2>1, <2>2, TakingWithin
<1>12. CASE Throws /\ UNCHANGED <<head, queue, db>>
  BY <1>7, <1>12 DEF Throws
<1>13. CASE Confirms \/ Finalizes
  <2>1. /\ UNCHANGED <<worker, queue, db>>
        /\ \/ head' = [head EXCEPT !.confirmed = @ + 1]
           \/ head' = [head EXCEPT !.final = @ + 1]
    BY <1>13 DEF Confirms, Finalizes
  <2>2. head'.final = head.final \/ head'.final = head.final + 1
    BY <1>0, <2>1
  <2>3. head'.final \in Int /\ head.final <= head'.final
    BY <1>0, <2>2
  <2>4. ASSUME NEW n \in Int, n <= head.final
        PROVE  n <= head'.final
    BY <1>0, <2>3, <2>4
  <2>5. worker.slot <= head'.final /\ db.cursor <= head'.final
    BY <2>4, WithinFacts, NumbersOf
  <2>6. Within(head', worker, queue, db)
    BY <2>5, WithinFacts DEF Within
  <2>7. QED
    BY <2>1, <2>6 DEF WithinInv
<1>14. CASE UNCHANGED serviceVars
  BY <1>1, <1>14 DEF serviceVars
<1>15. ServiceCrash => Dies /\ UNCHANGED <<head, db>>
  BY DEF ServiceCrash
<1>16. CallFails => \/ Dies /\ UNCHANGED <<head, db>>
                    \/ Throws /\ UNCHANGED <<head, queue, db>>
  BY DEF CallFails
<1>17. QED
  BY <1>2, <1>3, <1>4, <1>5, <1>6, <1>8, <1>9, <1>10, <1>11, <1>12, <1>13, <1>14, <1>15, <1>16
     DEF IndexNext, Works

LEMMA WithinInitial ==
    ASSUME IndexInit
    PROVE  WithinInv
<1>1. /\ head.final = 0 /\ worker = Off /\ queue = <<>>
      /\ db.cursor = -1 /\ db.events = {}
  BY DEF IndexInit, NoCursor
<1>2. Off.slot = 0 /\ Off.txs = {}
  BY DEF Off
<1>3. QED
  BY <1>1, <1>2, NothingQueued DEF WithinInv, Within

\* What is stored is what the cursor says, but for what was skipped.
LEMMA StoredExactly ==
    ASSUME NEW hd, NEW lv, NEW w, NEW q, NEW gp, NEW d, NEW sk,
           IndexFits(hd, lv, w, q, gp, d, sk), Within(hd, w, q, d)
    PROVE  Durable!Accounted(d.cursor, d.events \ {0}, sk)
<1>1. /\ d \in [cursor : Int, events : SUBSET Int, slot : Int, healthy : BOOLEAN]
      /\ Covers(d.events \cup sk, 0, d.cursor)
      /\ \A s \in d.events : 0 <= s /\ s <= d.cursor
  BY DEF IndexFits, Within
<1>2. d.cursor \in Int /\ d.events \in SUBSET Int
  BY <1>1
<1>3. ASSUME NEW s \in d.events \ {0}
      PROVE  s \in 1 .. d.cursor
  <2>1. s \in Int /\ 0 <= s /\ s <= d.cursor /\ s # 0
    BY <1>1, <1>2
  <2>2. QED
    BY <2>1, <1>2
<1>4. ASSUME NEW s \in (1 .. d.cursor) \ (d.events \ {0})
      PROVE  s \in sk
  <2>1. s \in Nat /\ 0 < s /\ s <= d.cursor /\ s # 0
    BY <1>2
  <2>2. QED
    BY <2>1, <1>1 DEF Covers
<1>5. QED
  BY <1>3, <1>4 DEF Durable!Accounted

\* No step moves the chain and the history at once, and neither goes back.
LEMMA HistoryMoves ==
    ASSUME IndexInv, [IndexNext]_serviceVars
    PROVE  \/ head'.final = head.final /\ db'.cursor = db.cursor /\ db'.events = db.events
              /\ UNCHANGED skipped
           \/ head'.final = head.final /\ db.cursor <= db'.cursor
              /\ db.events \subseteq db'.events /\ skipped \subseteq skipped'
           \/ head'.final > head.final /\ db'.cursor = db.cursor /\ db'.events = db.events
              /\ UNCHANGED skipped
<1>0. /\ head \in [confirmed : Nat, final : Nat] /\ head.final \in Int
      /\ db \in [cursor : Int, events : SUBSET Int, slot : Int, healthy : BOOLEAN]
  BY IndexFacts, NumbersOf
<1>1. CASE Backfill \/ History
  <2>1. Advanced(worker.slot) /\ UNCHANGED head
    BY <1>1, HistoryFits DEF Backfill, History
  <2>2. QED
    BY <2>1 DEF Advanced
<1>2. CASE Persist
  <2>1. Written /\ UNCHANGED <<head, skipped>>
    BY <1>2 DEF Persist
  <2>2. QED
    BY <1>0, <2>1 DEF Written
<1>3. CASE FailSnapshot
  <2>1. /\ UNCHANGED <<head, skipped>>
        /\ UNCHANGED db \/ db' = [db EXCEPT !.healthy = @ /\ db.slot > worker.slot]
    BY <1>3 DEF FailSnapshot
  <2>2. QED
    BY <1>0, <2>1
<1>4. CASE Confirms \/ Finalizes
  <2>1. /\ UNCHANGED <<db, skipped>>
        /\ \/ head' = [head EXCEPT !.confirmed = @ + 1]
           \/ head' = [head EXCEPT !.final = @ + 1]
    BY <1>4 DEF Confirms, Finalizes
  <2>2. head'.final = head.final \/ head'.final = head.final + 1
    BY <1>0, <2>1
  <2>3. QED
    BY <1>0, <2>1, <2>2
<1>5. CASE UNCHANGED <<head, db, skipped>>
  BY <1>5
<1>6. \/ StartService \/ ServiceCrash \/ OnConfirmed \/ OnFinalized \/ LosesStream \/ StartsOver
      \/ RefreshArchival \/ Audit \/ CallFails \/ UNCHANGED serviceVars
      => UNCHANGED <<head, db, skipped>>
  BY DEF StartService, ServiceCrash, OnConfirmed, OnFinalized, LosesStream, StartsOver,
         RefreshArchival, Audit, CallFails, serviceVars
<1>7. QED
  BY <1>1, <1>2, <1>3, <1>4, <1>5, <1>6 DEF IndexNext, Works

\* A step of the service is a step of the durable history, or none.
LEMMA HistoryStep ==
    ASSUME IndexInv, IndexInv', WithinInv, WithinInv', [IndexNext]_serviceVars
    PROVE  [Durable!Grow \/ Durable!Record]_(Durable!history)
<1>1. Durable!Accounted(db'.cursor, db'.events \ {0}, skipped')
  BY StoredExactly DEF IndexInv, WithinInv
<1>2. db'.cursor <= head'.final
  BY DEF WithinInv, Within
<1>3. CASE head'.final = head.final /\ db'.cursor = db.cursor /\ db'.events = db.events
           /\ UNCHANGED skipped
  BY <1>3 DEF Durable!history
<1>4. CASE head'.final = head.final /\ db.cursor <= db'.cursor
           /\ db.events \subseteq db'.events /\ skipped \subseteq skipped'
  <2>1. db.events \ {0} \subseteq db'.events \ {0}
    BY <1>4
  <2>2. Durable!Record
    BY <1>1, <1>2, <1>4, <2>1 DEF Durable!Record
  <2>3. QED
    BY <2>2
<1>5. CASE head'.final > head.final /\ db'.cursor = db.cursor /\ db'.events = db.events
           /\ UNCHANGED skipped
  BY <1>5 DEF Durable!Grow
<1>6. QED
  BY <1>3, <1>4, <1>5, HistoryMoves

LEMMA HistoryInitial ==
    ASSUME IndexInit
    PROVE  Durable!HistoryInit
<1>1. IndexInv /\ WithinInv
  BY IndexInitial, WithinInitial
<1>2. Durable!Accounted(db.cursor, db.events \ {0}, skipped)
  BY <1>1, StoredExactly DEF IndexInv, WithinInv
<1>3. head.final \in Nat /\ db.cursor \in -1 .. head.final
  BY DEF IndexInit, NoCursor
<1>4. QED
  BY <1>2, <1>3 DEF Durable!HistoryInit

\* What the service stores (replayHistory() and persistStreamedHistory() of service.ts) is
\* at every moment the finalized history up to the cursor, but for slots that a replay of a
\* lagging node or after a jump of the stream has skipped; it never goes back.  No batch of
\* the stream, failed call or restart loses anything: the indexer implements DurableHistory.
THEOREM HistoryIsExact == IndexSpec => ExactHistory
<1> DEFINE Inv == IndexInv /\ WithinInv
<1>1. IndexInit => Inv /\ Durable!HistoryInit
  BY IndexInitial, WithinInitial, HistoryInitial
<1>2. Inv /\ [IndexNext]_serviceVars => Inv'
  BY IndexStep, WithinStep
<1>3. Inv /\ Inv' /\ [IndexNext]_serviceVars => [Durable!Grow \/ Durable!Record]_(Durable!history)
  BY HistoryStep
<1> HIDE DEF Inv
<1>4. QED
  BY <1>1, <1>2, <1>3, PTL DEF IndexSpec, ExactHistory, Durable!HistorySpec
=============================================================================
