------------------------ MODULE TradingBotEntryProofs ------------------------
(***************************************************************************)
(* When the loop may open a position: the cap, the halted day, the books   *)
(* of the day and the flip run's bounds, for every value of the constants  *)
(* but those that a theorem names.  Each is decided on a number the tick   *)
(* took several awaits earlier, and each has an invariant that says what   *)
(* the number is still worth when it is used.                              *)
(***************************************************************************)
EXTENDS TradingBotBookProofs, SumProofs

---------------------------------------------------------------------------
(* The cap.  From the listing to the entry nothing but the loop opens bot  *)
(* positions or makes a row, so that the open positions the bot knows can  *)
(* only have become fewer: CapInv.                                         *)

\* Where the loop holds a count of the open positions.
Counting == {"manage", "outcomes", "flip", "ending", "entry"}

CapInv ==
    /\ \A i \in Ids : pos[i].st = "unused" <=> pos[i].by = "nobody"
    /\ pc \in Counting => Cardinality(KnownOpen) <= count

---------------------------------------------------------------------------
(* Unless the loop's order executes, no bot position appears.              *)

NoNewBot ==
    \A i \in Ids :
        /\ pos'[i].st = "open" /\ pos'[i].by = "bot" => pos[i].st = "open" /\ pos[i].by = "bot"
        /\ pos'[i].st = "unused" => pos[i].st = "unused" /\ pos'[i].by = pos[i].by
        /\ pos[i].st = "unused" /\ pos'[i].by = "bot" => pos[i].by = "bot"
        /\ pos'[i].st # "unused" /\ pos'[i].by = "nobody" => pos[i].st # "unused" /\ pos[i].by = "nobody"

LEMMA OnlyOrdersAddBots == ASSUME TypeInv, [Next]_vars PROVE Ordered \/ NoNewBot
<1>1. pos \in [Ids -> Positions]
  BY DEF TypeInv, TypeOK, BrokerTypeOK
<1>2. CASE Closes
  <2>1. PICK i \in Ids, pnl \in Int : ClosePosition(i, pnl)
    BY <1>2 DEF Closes
  <2> DEFINE new == [pos[i] EXCEPT !.st = "closed", !.stop = NoStop, !.given = NoStop, !.pnl = pnl]
  <2>2. pos[i].st = "open" /\ pos' = [pos EXCEPT ![i] = new]
    BY <2>1 DEF ClosePosition, IsOpen
  <2>3. new.st = "closed" /\ new.by = pos[i].by
    BY <1>1 DEF Positions
  <2> HIDE DEF new
  <2> QED BY <1>1, <2>2, <2>3 DEF NoNewBot
<1>3. CASE Moves
  BY <1>3, MovesKeepLives DEF NoNewBot
<1>4. CASE OpensOtherwise
  BY <1>1, <1>4 DEF OpensOtherwise, OpenPosition, NoNewBot, Positions
<1>5. CASE UNCHANGED pos
  BY <1>5 DEF NoNewBot
<1> QED BY <1>2, <1>3, <1>4, <1>5, PosSteps DEF PosStep

---------------------------------------------------------------------------
(* What a step does to the count.                                          *)

\* The loop's count is fresh, kept, or no longer looked at.
CountStep ==
    \/ pc' \notin Counting
    \/ pc \in Counting /\ count' = count
    \/ count' = Cardinality(Listing) /\ UNCHANGED pos

LEMMA CountSteps == ASSUME [Next]_vars PROVE CountStep
<1>1. CASE Loop
  <2>1. CASE TickStart \/ TickPaused \/ TickFails \/ Restart
    BY <2>1 DEF TickStart, TickPaused, TickFails, Restart, Raise, GoTo, loopVars, CountStep, Counting
  <2>2. CASE ReconcileStep
    BY <2>2 DEF ReconcileStep, ReconcileList, ReconcileRows, ReconcileDone, ReconcileClose,
                ReconcileLookupFails, ReconcileHistoryLags, ReconcileAdopt, Raise, GoTo,
                CountStep, Counting
  <2>3. CASE BreakerStep
    BY <2>3 DEF BreakerStep, BreakerSelect, BreakerInsert, BreakerReselect, BreakerReinsert,
                BreakerInsertConflicts, Raise, GoTo, CountStep, Counting
  <2>4. CASE ManageStep
    BY <2>4 DEF ManageStep, FetchPositions, ManageDone, OutcomesDone, ManageRefused, ManageClose,
                ManageCloseUnconfirmed, ManageMove, ApplyOutcome, Managed, Raise, GoTo,
                CountStep, Counting, brokerVars
  <2>5. CASE EntryStep
    BY <2>5 DEF EntryStep, FlipJudged, FlipEnds, FlipGoesOn, NoEntry, PlaceOrderLate, RecordTrade, Persist,
                PlaceOrder, PlaceOrderLost, Raise, GoTo, CountStep, Counting, frame
  <2> QED BY <1>1, <2>1, <2>2, <2>3, <2>4, <2>5 DEF Loop, TickStep
<1>2. CASE Dies
  BY <1>2 DEF Dies, Crash, CountStep, Counting
<1>3. CASE Asks \/ Serves \/ Polls \/ Market \/ DayEnds \/ RequestFails \/ UNCHANGED vars
  BY <1>3 DEF Asks, Serves, Polls, Market, DayEnds, RequestFails, vars, loopVars, frame, CountStep
<1> QED BY <1>1, <1>2, <1>3 DEF Next

---------------------------------------------------------------------------
(* What a step does to the positions the bot knows.                        *)

LEMMA OnlyClosesNoFirst == ASSUME TypeInv, TypeInv', OnlyCloses PROVE NoFirstRow
<1>1. rows \in [Ids -> Seq(Rows)] /\ rows' \in [Ids -> Seq(Rows)]
  BY DEF TypeInv, TypeOK, DatabaseTypeOK
<1>2. ASSUME NEW i \in Ids, rows'[i] # <<>> PROVE rows[i] # <<>>
  <2>1. DOMAIN rows'[i] # {} /\ DOMAIN rows'[i] = DOMAIN rows[i]
    BY <1>1, <1>2, SomeRow DEF OnlyCloses
  <2> QED BY <2>1
<1> QED BY <1>2 DEF NoFirstRow

\* While the loop holds a count, no position gets its first row.
LEMMA CountingMakesNoRow == ASSUME TypeInv, [Next]_vars, pc' \in Counting PROVE NoFirstRow
<1>1. TypeInv'
  BY TypeInvNext
<1>2. \A o \in outcomes : o.id \in Ids /\ o.stop \in Stops
  BY LoopTypeParts DEF TypeInv, TypeOK, FrameTypeOK, Outcomes
<1>3. CASE UNCHANGED rows
  BY <1>3 DEF NoFirstRow
<1>4. ASSUME NEW o \in outcomes, ApplyOutcome(o) PROVE OnlyCloses
  <2>1. CASE UNCHANGED rows
    BY <2>1, SameOnlyCloses
  <2>2. CASE UpdateTradeStop(<<o.id, 1>>, o.stop)
    BY <1>2, <2>2, StopMovedOnlyCloses
  <2>3. CASE CloseTrade(<<o.id, 1>>)
    <3>1. <<o.id, 1>> \in Refs
      BY <1>2 DEF Refs
    <3> QED BY <2>3, <3>1, ClosedOnlyCloses
  <2> QED BY <1>4, <2>1, <2>2, <2>3 DEF ApplyOutcome, WriteOutcome
<1>5. CASE Loop
  <2>1. CASE TickStart \/ TickPaused \/ TickFails \/ Restart \/ BreakerStep
    BY <1>3, <2>1
       DEF TickStart, TickPaused, TickFails, Restart, BreakerStep, BreakerSelect, BreakerInsert,
           BreakerReselect, BreakerReinsert, BreakerInsertConflicts, tables
  <2>2. CASE ReconcileStep
    BY <2>2 DEF ReconcileStep, ReconcileList, ReconcileRows, ReconcileDone, ReconcileClose,
                ReconcileLookupFails, ReconcileHistoryLags, ReconcileAdopt, Raise, GoTo, Counting
  <2>3. CASE ManageStep /\ ~\E o \in outcomes : ApplyOutcome(o)
    BY <1>3, <2>3 DEF ManageStep, FetchPositions, ManageDone, OutcomesDone, ManageRefused,
                      ManageClose, ManageCloseUnconfirmed, ManageMove, Managed, tables
  <2>4. CASE EntryStep
    BY <1>3, <2>4 DEF EntryStep, FlipJudged, FlipEnds, FlipGoesOn, NoEntry, PlaceOrderLate,
                      RecordTrade, Persist, PlaceOrder, PlaceOrderLost, GoTo, Counting, tables
  <2> QED BY <1>1, <1>4, <1>5, <2>1, <2>2, <2>3, <2>4, OnlyClosesNoFirst DEF Loop, TickStep
<1>6. CASE Dies \/ Market \/ DayEnds \/ UNCHANGED vars
  BY <1>3, <1>6 DEF Dies, Crash, Market, DayEnds, vars, tables
<1>7. CASE Asks \/ Serves \/ Polls \/ RequestFails
  BY <1>1, <1>7, RequestsOnlyClose, OnlyClosesNoFirst
<1> QED BY <1>5, <1>6, <1>7 DEF Next

\* The bot knows open positions only, finitely many.
LEMMA KnownAreFew ==
    ASSUME TypeInv
    PROVE  /\ KnownOpen \subseteq OpenIds /\ IsFiniteSet(KnownOpen)
           /\ Cardinality(KnownOpen) \in Nat /\ Cardinality(Listing) \in Nat
           /\ Cardinality(KnownOpen) <= Cardinality(Listing)
<1>1. KnownOpen \subseteq OpenIds
  BY DEF KnownOpen, OpenBy
<1> QED BY <1>1, ListingSize, FS_Subset, FS_CardinalityType

---------------------------------------------------------------------------

LEMMA CapInvInit == Init => CapInv
  BY DEF Init, BrokerInit, LoopInit, CapInv, Counting

LEMMA CapInvNext == TypeInv /\ ClosedInv /\ CapInv /\ [Next]_vars => CapInv'
<1> SUFFICES ASSUME TypeInv, ClosedInv, CapInv, [Next]_vars PROVE CapInv'
  OBVIOUS
<1>1. CASE Ordered
  <2>1. PICK i \in Ids : PlaceOrder(i) \/ PlaceOrderLost(i)
    BY <1>1 DEF Ordered
  <2>2. pc' \notin Counting
    BY <2>1 DEF PlaceOrder, PlaceOrderLost, GoTo, Raise, Counting
  <2>3. pos' = [pos EXCEPT ![i] =
                  [st |-> "open", by |-> "bot", stop |-> 0, given |-> NoStop, pnl |-> 0]]
    BY <2>1 DEF PlaceOrder, PlaceOrderLost, OpenPosition
  <2> QED BY <2>2, <2>3 DEF CapInv, TypeInv, TypeOK, BrokerTypeOK
<1>2. CASE NoNewBot
  <2>1. \A i \in Ids : pos'[i].st = "unused" <=> pos'[i].by = "nobody"
    BY <1>2 DEF NoNewBot, CapInv
  <2>2. ASSUME pc' \in Counting PROVE Cardinality(KnownOpen') <= count'
    <3>1. TypeInv'
      BY TypeInvNext
    <3>2. CASE pc \in Counting /\ count' = count
      <4>1. ASSUME NEW i \in KnownOpen' PROVE i \in KnownOpen
        <5>1. i \in Ids /\ pos'[i].st = "open" /\ (pos'[i].by = "bot" \/ rows'[i] # <<>>)
          BY <4>1 DEF KnownOpen, OpenBy, OpenIds, IsOpen
        <5>2. CASE pos'[i].by = "bot"
          BY <1>2, <5>1, <5>2 DEF NoNewBot, KnownOpen, OpenBy, OpenIds, IsOpen
        <5>3. CASE rows'[i] # <<>>
          <6>1. rows[i] # <<>> /\ pos[i].st \notin {"unused", "closed"}
            BY <2>2, <5>1, <5>3, CountingMakesNoRow, LifeGoesOn DEF NoFirstRow, ClosedInv, Onward
          <6>2. pos[i].st = "open"
            BY <5>1, <6>1 DEF TypeInv, TypeOK, BrokerTypeOK, Positions
          <6> QED BY <5>1, <6>1, <6>2 DEF KnownOpen, OpenIds, IsOpen
        <5> QED BY <5>1, <5>2, <5>3
      <4>2. Cardinality(KnownOpen') <= Cardinality(KnownOpen)
        BY <4>1, KnownAreFew, FS_Subset
      <4>3. Cardinality(KnownOpen') \in Nat
        BY <4>1, KnownAreFew, FS_Subset, FS_CardinalityType
      <4>4. count \in Nat
        BY DEF TypeInv, TypeOK, LoopTypeOK
      <4> QED BY <3>2, <4>2, <4>3, <4>4, KnownAreFew DEF CapInv
    <3>3. CASE count' = Cardinality(Listing) /\ UNCHANGED pos
      <4>1. KnownOpen' \subseteq OpenIds
        BY <3>3 DEF KnownOpen, OpenBy, OpenIds, IsOpen
      <4> QED BY <3>3, <4>1, ListingSize, FS_Subset
    <3> QED BY <2>2, <3>2, <3>3, CountSteps DEF CountStep
  <2> QED BY <2>1, <2>2 DEF CapInv
<1> QED BY <1>1, <1>2, OnlyOrdersAddBots

\* A new bot position is the loop's order.
LEMMA EntersByOrder ==
    ASSUME TypeInv, CapInv, [Next]_vars, Enters
    PROVE  \E j \in Ids : PlaceOrder(j) \/ PlaceOrderLost(j)
<1>1. PICK i \in Ids : pos[i].st = "unused" /\ pos'[i].by = "bot"
  BY DEF Enters
<1>2. ~NoNewBot
  BY <1>1 DEF NoNewBot, CapInv
<1> QED BY <1>2, OnlyOrdersAddBots DEF Ordered

\* However stale its count and whichever answers were lost, whenever the loop
\* opens a position fewer positions than the cap it read are open and known to
\* the bot (engine/executor.py:42-44, risk/limits.py:1-2).
THEOREM EntriesStayWithinCap == Spec => EntryWithinCap
<1>1. TypeInv /\ CapInv /\ [Next]_vars => [Enters => Cardinality(KnownOpen) < cfg.max]_vars
  <2> SUFFICES ASSUME TypeInv, CapInv, [Next]_vars, Enters
               PROVE  Cardinality(KnownOpen) < cfg.max
    OBVIOUS
  <2>1. pc = "entry" /\ count < cfg.max
    BY EntersByOrder DEF PlaceOrder, PlaceOrderLost, MayEnter, CanOpenNewPosition
  <2>2. Cardinality(KnownOpen) <= count
    BY <2>1 DEF CapInv, Counting
  <2>3. Cardinality(KnownOpen) \in Nat /\ count \in Nat /\ cfg.max \in Nat
    BY KnownAreFew DEF TypeInv, TypeOK, LoopTypeOK, Configs
  <2> QED BY <2>1, <2>2, <2>3
<1> QED BY <1>1, TypeInvInit, TypeInvNext, ClosedInvInit, ClosedInvNext, CapInvInit, CapInvNext, PTL
    DEF Spec, EntryWithinCap

---------------------------------------------------------------------------
(* The halt.  The process's date must be UTC's here: were it not, a tick   *)
(* would find the row of one day, start the snapshot of another afresh,    *)
(* and overwrite the first with the second at its end.  The halt lives in  *)
(* two places, the table and the tick's snapshot, and the end of the tick  *)
(* overwrites the first with the second.  HaltInv says that the snapshot   *)
(* in hand is of the row's day and never behind the row it will overwrite. *)

HaltInv ==
    /\ \A d \in Days : breaker[d].halted => breaker[d].made
    /\ pc \in Loading => breaker[rowDay].made /\ (breaker[rowDay].halted => snap.halted)
    /\ pc \notin {"renew", "reinsert"}
    /\ pc = "insert" => snap.day = rowDay

---------------------------------------------------------------------------
(* What a step does to the breaker rows.                                   *)

BreakerStays ==
    \A d \in Days : breaker[d].made => breaker'[d] = breaker[d]

BreakerStaysConsistent ==
    \A d \in Days :
        /\ breaker'[d].halted => breaker'[d].made
        /\ breaker'[d] = breaker[d] \/ breaker'[d].pnl = 0

LEMMA InsertStays ==
    ASSUME DatabaseTypeOK, HaltInv, NEW d \in Days, NEW equity, InsertBreakerRow(d, equity)
    PROVE  BreakerStays /\ BreakerStaysConsistent
<1>1. ~breaker[d].made
  BY DEF InsertBreakerRow, HasBreakerRow
<1>2. breaker' = [breaker EXCEPT ![d] =
                    [made |-> TRUE, start |-> equity, pnl |-> 0, halted |-> FALSE]]
  BY DEF InsertBreakerRow
<1> QED BY <1>1, <1>2 DEF BreakerStays, BreakerStaysConsistent, DatabaseTypeOK, HaltInv

LEMMA SameStays ==
    ASSUME HaltInv, UNCHANGED breaker
    PROVE  BreakerStays /\ BreakerStaysConsistent
  BY DEF BreakerStays, BreakerStaysConsistent, HaltInv

\* Nothing but the end of a tick changes a row that is there.
LEMMA BreakerSteps ==
    ASSUME TypeInv, HaltInv, [Next]_vars, ~Persist
    PROVE  BreakerStays /\ BreakerStaysConsistent
<1>1. DatabaseTypeOK /\ rowDay \in Days /\ poll \in SUBSET Days
  BY DEF TypeInv, TypeOK, LoopTypeOK, HandlersTypeOK
<1>2. CASE BreakerInsert \/ BreakerReinsert
  BY <1>1, <1>2, InsertStays DEF BreakerInsert, BreakerReinsert
<1>3. ASSUME NEW d \in poll, PollInsert(d) PROVE BreakerStays /\ BreakerStaysConsistent
  BY <1>1, <1>3, InsertStays DEF PollInsert
<1>4. CASE Loop /\ ~BreakerInsert /\ ~BreakerReinsert
  <2>1. CASE TickStart \/ TickPaused \/ TickFails \/ Restart
    BY <2>1, SameStays DEF TickStart, TickPaused, TickFails, Restart, tables
  <2>2. CASE ReconcileStep
    BY <2>2, SameStays
       DEF ReconcileStep, ReconcileList, ReconcileRows, ReconcileDone, ReconcileClose,
           ReconcileLookupFails, ReconcileHistoryLags, ReconcileAdopt, tables
  <2>3. CASE BreakerStep
    BY <1>4, <2>3, SameStays
       DEF BreakerStep, BreakerSelect, BreakerReselect, BreakerInsertConflicts, tables
  <2>4. CASE ManageStep
    BY <2>4, SameStays
       DEF ManageStep, FetchPositions, ManageDone, OutcomesDone, ManageRefused, ManageClose,
           ManageCloseUnconfirmed, ManageMove, ApplyOutcome, Managed, tables
  <2>5. CASE EntryStep
    BY <2>5, SameStays
       DEF EntryStep, FlipJudged, FlipEnds, FlipGoesOn, NoEntry, PlaceOrderLate, RecordTrade,
           PlaceOrder, PlaceOrderLost, tables
  <2> QED BY <1>4, <2>1, <2>2, <2>3, <2>4, <2>5 DEF Loop, TickStep
<1>5. CASE Dies
  BY <1>5, SameStays DEF Dies, Crash, tables
<1>6. CASE Asks
  BY <1>6, SameStays
     DEF Asks, Pause, Resume, RequestLive, RevertPractice, UpdateFlipConfig, UpdateRiskConfig,
         KillPause, SetConfig, TelegramClose, CloseStep
<1>7. CASE Serves
  BY <1>3, <1>7, SameStays
     DEF Serves, KillList, KillDone, KillRefused, KillClose, KillCommit, KillStep,
         TelegramCommit, CloseStep, PollConflicts
<1>8. CASE RequestFails
  BY <1>8, SameStays DEF RequestFails, KillAborts, KillCloseFails, KillStep, TelegramAborts, CloseStep
<1>9. CASE Polls \/ Market \/ DayEnds \/ UNCHANGED vars
  BY <1>9, SameStays DEF Polls, PollSelect, Market, DayEnds, vars, tables
<1> QED BY <1>2, <1>4, <1>5, <1>6, <1>7, <1>8, <1>9 DEF Next

---------------------------------------------------------------------------
(* What a step does to the snapshot.                                       *)

SnapStep ==
    \/ pc' \notin Loading
    \/ pc \in Loading /\ rowDay' = rowDay /\ (snap.halted => snap'.halted)
    \/ LoadsBreaker

LEMMA RecordKeepsHalt ==
    ASSUME NEW s \in Snapshots, NEW pnl, NEW pct, s.halted
    PROVE  RecordPnl(s, pnl, pct).halted
  BY DEF RecordPnl, Snapshots

LEMMA SnapSteps == ASSUME TypeInv, [Next]_vars PROVE SnapStep
<1>1. snap \in Snapshots
  BY LoopTypeParts DEF TypeInv, TypeOK, FrameTypeOK
<1>2. CASE Loop
  <2>1. CASE TickStart \/ TickPaused \/ TickFails \/ Restart
    BY <2>1 DEF TickStart, TickPaused, TickFails, Restart, Raise, GoTo, loopVars, SnapStep, Loading
  <2>2. CASE ReconcileStep
    BY <2>2 DEF ReconcileStep, ReconcileList, ReconcileRows, ReconcileDone, ReconcileClose,
                ReconcileLookupFails, ReconcileHistoryLags, ReconcileAdopt, Raise, GoTo,
                SnapStep, Loading
  <2>3. CASE BreakerStep
    BY <2>3 DEF BreakerStep, LoadsBreaker, BreakerInsertConflicts, Raise, SnapStep, Loading
  <2>4. ASSUME NEW o \in outcomes, ApplyOutcome(o) PROVE SnapStep
    <3>1. CASE Len(rows[o.id]) > 1
      BY <2>4, <3>1 DEF ApplyOutcome, Raise, SnapStep, Loading
    <3>2. CASE ~(Len(rows[o.id]) > 1)
      <4>1. pc = "outcomes" /\ WriteOutcome(o) /\ rowDay' = rowDay
        BY <2>4, <3>2 DEF ApplyOutcome
      <4>2. snap.halted => snap'.halted
        BY <1>1, <4>1, RecordKeepsHalt DEF WriteOutcome
      <4> QED BY <4>1, <4>2 DEF SnapStep, Loading
    <3> QED BY <3>1, <3>2
  <2>5. CASE ManageStep
    BY <2>4, <2>5 DEF ManageStep, FetchPositions, ManageDone, OutcomesDone, ManageRefused,
                ManageClose, ManageCloseUnconfirmed, ManageMove, Managed, Raise, GoTo,
                SnapStep, Loading
  <2>6. CASE EntryStep
    BY <2>6 DEF EntryStep, FlipJudged, FlipEnds, FlipGoesOn, NoEntry, PlaceOrderLate, RecordTrade, Persist,
                PlaceOrder, PlaceOrderLost, Raise, GoTo, SnapStep, Loading, frame
  <2> QED BY <1>2, <2>1, <2>2, <2>3, <2>5, <2>6 DEF Loop, TickStep
<1>3. CASE Dies
  BY <1>3 DEF Dies, Crash, SnapStep, Loading
<1>4. CASE Asks \/ Serves \/ Polls \/ Market \/ DayEnds \/ RequestFails \/ UNCHANGED vars
  BY <1>4 DEF Asks, Serves, Polls, Market, DayEnds, RequestFails, vars, loopVars, frame, SnapStep
<1> QED BY <1>2, <1>3, <1>4 DEF Next

\* A row that is loaded keeps its halt in the snapshot.
LEMMA LoadedKeepsHalt ==
    ASSUME DatabaseTypeOK, FrameTypeOK, NEW d \in Days, breaker[d].halted
    PROVE  Loaded(SnapshotOf(d)).halted
<1>1. SnapshotOf(d) \in Snapshots /\ SnapshotOf(d).halted
  BY SnapshotOfType DEF SnapshotOf
<1> QED BY <1>1, RecordKeepsHalt DEF Loaded

---------------------------------------------------------------------------
(* How the row gets loaded where the clocks agree: it is found, or made,   *)
(* and is of the day of the snapshot.                                      *)

RowFound ==
    /\ pc = "account" /\ pc' = "fetch"
    /\ HasBreakerRow(localDay) /\ UNCHANGED breaker
    /\ rowDay' = localDay /\ snap' = Loaded(SnapshotOf(localDay))

RowMissing ==
    /\ pc = "account" /\ pc' = "insert"
    /\ UNCHANGED breaker
    /\ rowDay' = localDay /\ snap'.day = localDay

RowMade ==
    /\ pc = "insert" /\ pc' = "fetch"
    /\ InsertBreakerRow(rowDay, snap.start)
    /\ rowDay' = rowDay /\ snap' = Loaded(StartNewDay(rowDay, snap.start))

LEMMA LoadSteps ==
    ASSUME ~ClockSkew, TypeInv, HaltInv, LoadsBreaker
    PROVE  RowFound \/ RowMissing \/ RowMade
<1>1. ~BreakerReselect /\ ~BreakerReinsert
  BY DEF HaltInv, BreakerReselect, BreakerReinsert
<1>2. CASE BreakerSelect
  <2>1. utcDay = localDay
    BY DEF TypeInv, ClocksAgree
  <2>2. ~IsNewTradingDay(SnapshotOf(localDay), utcDay)
    BY <2>1 DEF IsNewTradingDay, SnapshotOf
  <2> QED BY <1>2, <2>1, <2>2
          DEF BreakerSelect, RowFound, RowMissing, GoTo, StartNewDay, tables
<1>3. CASE BreakerInsert
  <2>1. pc = "insert" /\ snap.day = rowDay
    BY <1>3 DEF BreakerInsert, HaltInv
  <2>2. ~IsNewTradingDay(StartNewDay(rowDay, snap.start), snap.day)
    BY <2>1 DEF IsNewTradingDay, StartNewDay
  <2> QED BY <1>3, <2>2 DEF BreakerInsert, RowMade, GoTo
<1> QED BY <1>1, <1>2, <1>3 DEF LoadsBreaker

---------------------------------------------------------------------------

LEMMA HaltInvInit == Init => HaltInv
<1> SUFFICES ASSUME Init PROVE HaltInv
  OBVIOUS
<1>1. \A d \in Days : breaker[d].halted = FALSE
  BY DEF Init, DatabaseInit, NoBreakerRow
<1> QED BY <1>1 DEF Init, LoopInit, HaltInv, Loading

\* The day of the snapshot, while the row is made.
LEMMA MakingDay ==
    ASSUME ~ClockSkew, TypeInv, HaltInv, [Next]_vars
    PROVE  pc' \notin {"renew", "reinsert"} /\ (pc' = "insert" => snap'.day = rowDay')
<1>1. CASE LoadsBreaker
  BY <1>1, LoadSteps DEF RowFound, RowMissing, RowMade
<1>2. CASE ~Adds
  BY <1>2, LedgerSteps DEF Keeps, Forgets, Making, HaltInv
<1>3. CASE \E r \in lost : ReconcileClose(r)
  BY <1>3 DEF ReconcileClose, GoTo
<1>4. CASE \E o \in outcomes : ApplyOutcome(o)
  BY <1>4 DEF ApplyOutcome, Raise, GoTo
<1>5. CASE Persist
  BY <1>5 DEF Persist
<1> QED BY <1>1, <1>2, <1>3, <1>4, <1>5 DEF Adds

LEMMA HaltInvNext == ASSUME ~ClockSkew PROVE TypeInv /\ HaltInv /\ [Next]_vars => HaltInv'
<1> SUFFICES ASSUME TypeInv, HaltInv, [Next]_vars PROVE HaltInv'
  OBVIOUS
<1>1. DatabaseTypeOK /\ FrameTypeOK /\ rowDay \in Days /\ localDay \in Days
  BY LoopTypeParts DEF TypeInv, TypeOK, FrameTypeOK, DatabaseTypeOK
<1>2. CASE Persist
  <2>1. pc' \notin Loading
    BY <1>2 DEF Persist, Loading
  <2>2. breaker' = [breaker EXCEPT ![rowDay].pnl = snap.pnl, ![rowDay].halted = snap.halted]
    BY <1>2 DEF Persist, UpdateBreakerRow
  <2>3. breaker[rowDay].made
    BY <1>2 DEF Persist, HaltInv, Loading
  <2>4. \A d \in Days : breaker'[d].halted => breaker'[d].made
    BY <1>1, <2>2, <2>3 DEF HaltInv, DatabaseTypeOK, BreakerRows
  <2> QED BY <2>1, <2>4, MakingDay DEF HaltInv
<1>3. CASE ~Persist
  <2>1. BreakerStays /\ BreakerStaysConsistent
    BY <1>3, BreakerSteps
  <2>2. pc' \in Loading => breaker'[rowDay'].made /\ (breaker'[rowDay'].halted => snap'.halted)
    <3>1. CASE pc \in Loading /\ rowDay' = rowDay /\ (snap.halted => snap'.halted)
      BY <1>1, <2>1, <3>1 DEF HaltInv, BreakerStays
    <3>2. CASE RowMade
      <4>1. breaker' = [breaker EXCEPT ![rowDay] =
                          [made |-> TRUE, start |-> snap.start, pnl |-> 0, halted |-> FALSE]]
        BY <3>2 DEF RowMade, InsertBreakerRow
      <4>2. rowDay' = rowDay
        BY <3>2 DEF RowMade
      <4> QED BY <1>1, <4>1, <4>2 DEF DatabaseTypeOK
    <3>3. CASE RowFound
      <4>1. breaker[localDay].halted => snap'.halted
        BY <1>1, <3>3, LoadedKeepsHalt DEF RowFound
      <4> QED BY <3>3, <4>1 DEF RowFound, HasBreakerRow
    <3>4. CASE RowMissing
      BY <3>4 DEF RowMissing, Loading
    <3> QED BY <3>1, <3>2, <3>3, <3>4, SnapSteps, LoadSteps DEF SnapStep
  <2> QED BY <2>1, <2>2, MakingDay DEF HaltInv, BreakerStaysConsistent
<1> QED BY <1>2, <1>3

\* Where the process's date is UTC's, no tick, poll, failure or restart lifts
\* a day's halt (risk/circuit_breaker.py:30-31, engine/trading_loop.py:218-226).
THEOREM HaltStays == ASSUME ~ClockSkew PROVE Spec => HaltIsLatched
<1>1. TypeInv /\ HaltInv /\ [Next]_vars
        => [\A d \in Days : breaker[d].halted => breaker'[d].halted]_vars
  <2> SUFFICES ASSUME TypeInv, HaltInv, [Next]_vars, NEW d \in Days, breaker[d].halted
               PROVE  breaker'[d].halted
    OBVIOUS
  <2>1. CASE Persist
    <3>1. breaker' = [breaker EXCEPT ![rowDay].pnl = snap.pnl, ![rowDay].halted = snap.halted]
      BY <2>1 DEF Persist, UpdateBreakerRow
    <3>2. breaker[rowDay].halted => snap.halted
      BY <2>1 DEF Persist, HaltInv, Loading
    <3> QED BY <3>1, <3>2 DEF TypeInv, TypeOK, DatabaseTypeOK, BreakerRows
  <2>2. CASE ~Persist
    BY <2>2, BreakerSteps DEF BreakerStays, HaltInv
  <2> QED BY <2>1, <2>2
<1> QED BY <1>1, TypeInvInit, TypeInvNext, HaltInvInit, HaltInvNext, PTL DEF Spec, HaltIsLatched

---------------------------------------------------------------------------
(* The sums.  A breaker row is the sum over the positions booked on its    *)
(* day, what reconcile found the sum over those to be booked, and from     *)
(* where the row is loaded the snapshot is the sum over both.              *)

LEMMA PnlOfType == ASSUME TypeInv, NEW S \in SUBSET Ids PROVE PnlOf(S) \in Int /\ IsFiniteSet(S)
<1> DEFINE f == [i \in S |-> pos[i].pnl]
<1>1. IsFiniteSet(S) /\ DOMAIN f = S
  BY BrokerAssumption, FS_Subset
<1>2. \A i \in S : f[i] \in Int
  BY DEF TypeInv, TypeOK, BrokerTypeOK, Positions
<1> HIDE DEF f
<1>3. SumFunction(f) \in Int
  BY <1>1, <1>2, TotalType
<1> QED BY <1>1, <1>3 DEF PnlOf, f

LEMMA PnlOfNone == PnlOf({}) = 0
<1> DEFINE f == [i \in {} |-> pos[i].pnl]
<1>1. DOMAIN f = {}
  OBVIOUS
<1> HIDE DEF f
<1>2. SumFunction(f) = 0
  BY <1>1, TotalOfNone
<1> QED BY <1>2 DEF PnlOf, f

LEMMA PnlOfBoth ==
    ASSUME TypeInv, NEW S \in SUBSET Ids, NEW R \in SUBSET Ids, S \cap R = {}
    PROVE  PnlOf(S \cup R) = PnlOf(S) + PnlOf(R)
<1> DEFINE f == [i \in S \cup R |-> pos[i].pnl]
           g == [i \in S |-> pos[i].pnl]
           h == [i \in R |-> pos[i].pnl]
<1>1. /\ DOMAIN f = S \cup R /\ DOMAIN g = S /\ DOMAIN h = R
      /\ \A x \in S : f[x] = g[x]
      /\ \A x \in R : f[x] = h[x]
  OBVIOUS
<1>2. IsFiniteSet(S) /\ IsFiniteSet(R)
  BY PnlOfType
<1>3. \A i \in S \cup R : f[i] \in Int
  BY DEF TypeInv, TypeOK, BrokerTypeOK, Positions
<1> HIDE DEF f, g, h
<1>4. SumFunction(f) = SumFunction(g) + SumFunction(h)
  BY <1>1, <1>2, <1>3, TotalSplits
<1> QED BY <1>4 DEF PnlOf, f, g, h

LEMMA PnlOfOne == ASSUME TypeInv, NEW i \in Ids PROVE PnlOf({i}) = pos[i].pnl
<1> DEFINE f == [j \in {i} |-> pos[j].pnl]
           g == [j \in {} |-> pos[j].pnl]
<1>1. DOMAIN f = DOMAIN g \cup {i} /\ DOMAIN g = {} /\ f[i] = pos[i].pnl
  OBVIOUS
<1>2. pos[i].pnl \in Int
  BY DEF TypeInv, TypeOK, BrokerTypeOK, Positions
<1> HIDE DEF f, g
<1>3. IsFiniteSet({})
  BY FS_EmptySet
<1>4. SumFunction(f) = SumFunction(g) + f[i]
  BY <1>1, <1>2, <1>3, TotalGrows
<1>5. SumFunction(g) = 0
  BY <1>1, TotalOfNone
<1> QED BY <1>1, <1>2, <1>4, <1>5 DEF PnlOf, f

\* A PnL once realised stays what it is.
PnlsHold == \A i \in Ids : pos[i].st = "closed" => pos'[i].pnl = pos[i].pnl

LEMMA PnlSteps == ASSUME TypeInv, [Next]_vars PROVE PnlsHold
<1>1. pos \in [Ids -> Positions]
  BY DEF TypeInv, TypeOK, BrokerTypeOK
<1>2. CASE Ordered
  BY <1>1, <1>2 DEF Ordered, PlaceOrder, PlaceOrderLost, OpenPosition, PnlsHold, Positions
<1>3. CASE Closes
  <2>1. PICK i \in Ids, pnl \in Int : ClosePosition(i, pnl)
    BY <1>3 DEF Closes
  <2>2. pos[i].st = "open"
        /\ pos' = [pos EXCEPT ![i] = [@ EXCEPT !.st = "closed", !.stop = NoStop, !.given = NoStop, !.pnl = pnl]]
    BY <2>1 DEF ClosePosition, IsOpen
  <2> QED BY <1>1, <2>2 DEF PnlsHold
<1>4. CASE Moves
  BY <1>4, MovesKeepLives DEF PnlsHold
<1>5. CASE OpensOtherwise
  BY <1>1, <1>5 DEF OpensOtherwise, OpenPosition, PnlsHold, Positions
<1>6. CASE UNCHANGED pos
  BY <1>6 DEF PnlsHold
<1> QED BY <1>2, <1>3, <1>4, <1>5, <1>6, PosSteps DEF PosStep

NextPnlOf(S) == SumFunction([i \in S |-> pos'[i].pnl])

LEMMA SumsHold ==
    ASSUME TypeInv, BookInv, PnlsHold, NEW S \in SUBSET Ids, \A i \in S : Counted(i)
    PROVE  NextPnlOf(S) = PnlOf(S)
<1> DEFINE f == [i \in S |-> pos'[i].pnl]
           g == [i \in S |-> pos[i].pnl]
<1>1. DOMAIN f = S /\ DOMAIN g = S /\ IsFiniteSet(S)
  BY PnlOfType
<1>2. \A i \in S : f[i] = g[i]
  BY DEF BookInv, Settled, PnlsHold
<1> HIDE DEF f, g
<1>3. SumFunction(f) = SumFunction(g)
  BY <1>1, <1>2, TotalSame
<1> QED BY <1>3 DEF NextPnlOf, PnlOf, f, g

SumInv ==
    /\ \A d \in Days : breaker[d].pnl = PnlOf(booked[d])
    /\ \A d \in Days : ~breaker[d].made => booked[d] = {}
    /\ pc \notin Loading => sum = PnlOf(credit)
    /\ pc \in Loading => snap.pnl = PnlOf(booked[rowDay] \cup credit)

LEMMA SumTypes ==
    ASSUME TypeInv
    PROVE  /\ pos \in [Ids -> Positions] /\ breaker \in [Days -> BreakerRows]
           /\ booked \in [Days -> SUBSET Ids] /\ credit \in SUBSET Ids
           /\ rowDay \in Days /\ snap \in Snapshots /\ sum \in Int /\ cfg \in Configs
  BY LoopTypeParts DEF TypeInv, TypeOK, BrokerTypeOK, DatabaseTypeOK, FrameTypeOK, ControlTypeOK

\* A breaker row that is not the loop's to write keeps its PnL.
LEMMA RowsKeepPnl ==
    ASSUME TypeInv, BookInv, HaltInv, SumInv, [Next]_vars, ~Persist
    PROVE  \A d \in Days : breaker'[d].pnl = breaker[d].pnl /\ (breaker[d].made => breaker'[d].made)
<1> SUFFICES ASSUME NEW d \in Days
             PROVE  breaker'[d].pnl = breaker[d].pnl /\ (breaker[d].made => breaker'[d].made)
  OBVIOUS
<1>1. BreakerStays /\ BreakerStaysConsistent
  BY BreakerSteps
<1>2. CASE breaker[d].made
  BY <1>1, <1>2 DEF BreakerStays
<1>3. CASE ~breaker[d].made
  <2>1. breaker[d].pnl = 0
    BY <1>3, PnlOfNone DEF SumInv
  <2> QED BY <1>1, <1>3, <2>1 DEF BreakerStaysConsistent
<1> QED BY <1>2, <1>3

\* The part of SumInv about the table, where nothing is booked.
LEMMA BooksKept ==
    ASSUME TypeInv, BookInv, HaltInv, SumInv, [Next]_vars, ~Persist, UNCHANGED booked
    PROVE  /\ \A d \in Days : breaker'[d].pnl = NextPnlOf(booked[d])
           /\ \A d \in Days : ~breaker'[d].made => booked[d] = {}
<1>1. PnlsHold
  BY PnlSteps
<1>2. ASSUME NEW d \in Days PROVE NextPnlOf(booked[d]) = PnlOf(booked[d])
  <2> DEFINE S == booked[d]
  <2>1. S \in SUBSET Ids /\ \A i \in S : Counted(i)
    BY SumTypes DEF Counted
  <2> HIDE DEF S
  <2>2. NextPnlOf(S) = PnlOf(S)
    BY <1>1, <2>1, SumsHold
  <2> QED BY <2>2 DEF S
<1> QED BY <1>2, RowsKeepPnl DEF SumInv

\* The sums over a set that is in the books stay, whatever the step.
LEMMA BookedSums ==
    ASSUME TypeInv, BookInv, [Next]_vars
    PROVE  /\ NextPnlOf(credit) = PnlOf(credit)
           /\ \A d \in Days : NextPnlOf(booked[d] \cup credit) = PnlOf(booked[d] \cup credit)
<1>1. PnlsHold
  BY PnlSteps
<1>2. NextPnlOf(credit) = PnlOf(credit)
  <2> DEFINE S == credit
  <2>1. S \in SUBSET Ids /\ \A i \in S : Counted(i)
    BY SumTypes DEF Counted
  <2> HIDE DEF S
  <2>2. NextPnlOf(S) = PnlOf(S)
    BY <1>1, <2>1, SumsHold
  <2> QED BY <2>2 DEF S
<1>3. ASSUME NEW d \in Days PROVE NextPnlOf(booked[d] \cup credit) = PnlOf(booked[d] \cup credit)
  <2> DEFINE S == booked[d] \cup credit
  <2>1. S \in SUBSET Ids /\ \A i \in S : Counted(i)
    BY SumTypes DEF Counted
  <2> HIDE DEF S
  <2>2. NextPnlOf(S) = PnlOf(S)
    BY <1>1, <2>1, SumsHold
  <2> QED BY <2>2 DEF S
<1> QED BY <1>2, <1>3

\* Where the broker does nothing, a sum is what it was.
LEMMA SumsStand == ASSUME UNCHANGED pos, NEW S PROVE NextPnlOf(S) = PnlOf(S)
  BY DEF NextPnlOf, PnlOf

LEMMA NextPnlOfNone == ASSUME NEW S, S = {} PROVE NextPnlOf(S) = 0
<1> DEFINE f == [i \in S |-> pos'[i].pnl]
<1>1. DOMAIN f = {}
  OBVIOUS
<1> HIDE DEF f
<1>2. SumFunction(f) = 0
  BY <1>1, TotalOfNone
<1> QED BY <1>2 DEF NextPnlOf, f

\* One more position, which is not in the sum yet.
LEMMA PnlOfOneMore ==
    ASSUME TypeInv, NEW S \in SUBSET Ids, NEW i \in Ids, i \notin S
    PROVE  PnlOf(S \cup {i}) = PnlOf(S) + pos[i].pnl
<1> DEFINE R == {i}
<1>1. R \in SUBSET Ids /\ S \cap R = {}
  OBVIOUS
<1>2. PnlOf(R) = pos[i].pnl
  BY PnlOfOne
<1> HIDE DEF R
<1>3. PnlOf(S \cup R) = PnlOf(S) + PnlOf(R)
  BY <1>1, PnlOfBoth
<1> QED BY <1>2, <1>3 DEF R

\* What SumInv says of the next state, with the sums written out.
LEMMA SumInvIsNext ==
    ASSUME \A d \in Days : breaker'[d].pnl = NextPnlOf(booked'[d]),
           \A d \in Days : ~breaker'[d].made => booked'[d] = {},
           pc' \notin Loading => sum' = NextPnlOf(credit'),
           pc' \in Loading => snap'.pnl = NextPnlOf(booked'[rowDay'] \cup credit')
    PROVE  SumInv'
  BY DEF SumInv, PnlOf, NextPnlOf, Loading

LEMMA KeepsKeepsSums ==
    ASSUME TypeInv, BookInv, HaltInv, SumInv, [Next]_vars, ~Persist, Keeps
    PROVE  SumInv'
<1>1. /\ \A d \in Days : breaker'[d].pnl = NextPnlOf(booked[d])
      /\ \A d \in Days : ~breaker'[d].made => booked[d] = {}
      /\ rowDay \in Days
  BY BooksKept, SumTypes DEF Keeps
<1>2. pc' \notin Loading => sum' = NextPnlOf(credit')
  BY BookedSums DEF Keeps, SumInv
<1>3. pc' \in Loading => snap'.pnl = NextPnlOf(booked'[rowDay'] \cup credit')
  BY <1>1, BookedSums DEF Keeps, SumInv
<1>4. UNCHANGED booked
  BY DEF Keeps
<1> QED BY <1>1, <1>2, <1>3, <1>4, SumInvIsNext

LEMMA ForgetsKeepsSums ==
    ASSUME TypeInv, BookInv, HaltInv, SumInv, [Next]_vars, ~Persist, Forgets
    PROVE  SumInv'
<1>1. /\ \A d \in Days : breaker'[d].pnl = NextPnlOf(booked[d])
      /\ \A d \in Days : ~breaker'[d].made => booked[d] = {}
  BY BooksKept DEF Forgets
<1>2. sum' = NextPnlOf(credit')
  BY NextPnlOfNone DEF Forgets
<1>3. UNCHANGED booked /\ credit' = {} /\ pc' \notin Loading
  BY DEF Forgets
<1> QED BY <1>1, <1>2, <1>3, SumInvIsNext

LEMMA CloseKeepsSums ==
    ASSUME TypeInv, BookInv, HaltInv, OnceInv, SumInv, [Next]_vars,
           NEW r \in lost, ReconcileClose(r)
    PROVE  SumInv'
<1> DEFINE i == r[1]
<1>1. /\ pc = "reconcile" /\ pc' = "reconcile" /\ pc \notin Loading /\ ~Persist
      /\ sum' = sum + pos[i].pnl /\ credit' = credit \cup {i}
      /\ UNCHANGED <<pos, booked>>
  BY DEF ReconcileClose, GoTo, Loading, Persist, brokerVars
<1>2. i \in Ids /\ credit \in SUBSET Ids
  BY LoopTypeParts, SumTypes DEF TypeInv, TypeOK, FrameTypeOK, Refs
<1>3. i \notin credit /\ \A d \in Days : i \notin booked[d]
  BY <1>1 DEF OnceInv, Counted
<1>4. /\ \A d \in Days : breaker'[d].pnl = NextPnlOf(booked[d])
      /\ \A d \in Days : ~breaker'[d].made => booked[d] = {}
  BY <1>1, BooksKept
<1>5. sum' = NextPnlOf(credit')
  <2>1. PnlOf(credit \cup {i}) = PnlOf(credit) + pos[i].pnl
    BY <1>2, <1>3, PnlOfOneMore
  <2>2. sum = PnlOf(credit)
    BY <1>1 DEF SumInv
  <2>3. NextPnlOf(credit') = PnlOf(credit \cup {i})
    BY <1>1, SumsStand
  <2> QED BY <1>1, <2>1, <2>2, <2>3
<1>6. pc' \notin Loading /\ UNCHANGED booked
  BY <1>1
<1> HIDE DEF i
<1> QED BY <1>4, <1>5, <1>6, SumInvIsNext

LEMMA LoadedAdds ==
    ASSUME TypeInv, NEW s \in Snapshots
    PROVE  Loaded(s).pnl = s.pnl + sum
<1>1. s.pnl \in Int /\ sum \in Int
  BY SumTypes DEF Snapshots
<1>2. CASE sum = 0
  BY <1>1, <1>2 DEF Loaded
<1>3. CASE sum # 0
  BY <1>1, <1>3 DEF Loaded, RecordPnl, Snapshots
<1> QED BY <1>2, <1>3

LEMMA FoundKeepsSums ==
    ASSUME TypeInv, BookInv, HaltInv, ApartInv, SumInv, [Next]_vars,
           RowFound \/ RowMissing, UNCHANGED <<pos, booked, credit, sum>>
    PROVE  SumInv'
<1>1. pc = "account" /\ rowDay' = localDay /\ pc \notin Loading /\ ~Persist
  BY DEF RowFound, RowMissing, Loading, Persist
<1>2. localDay \in Days
  BY DEF TypeInv, TypeOK, DatabaseTypeOK
<1>3. /\ \A d \in Days : breaker'[d].pnl = NextPnlOf(booked[d])
      /\ \A d \in Days : ~breaker'[d].made => booked[d] = {}
  BY <1>1, BooksKept
<1>4. sum' = NextPnlOf(credit')
  BY <1>1, SumsStand DEF SumInv
<1>5. ASSUME pc' \in Loading PROVE snap'.pnl = NextPnlOf(booked'[rowDay'] \cup credit')
  <2> DEFINE S == booked[localDay]
  <2>1. snap' = Loaded(SnapshotOf(localDay))
    BY <1>5 DEF RowFound, RowMissing, Loading
  <2>2. SnapshotOf(localDay) \in Snapshots
    BY <1>2, SnapshotOfType DEF TypeInv, TypeOK
  <2>3. snap'.pnl = SnapshotOf(localDay).pnl + sum
    BY <2>1, <2>2, LoadedAdds
  <2>4. S \in SUBSET Ids /\ credit \in SUBSET Ids /\ S \cap credit = {}
    BY <1>2, SumTypes DEF ApartInv
  <2>5. SnapshotOf(localDay).pnl = PnlOf(S) /\ sum = PnlOf(credit)
    BY <1>1, <1>2 DEF SumInv, SnapshotOf
  <2>6. booked'[rowDay'] \cup credit' = S \cup credit
    BY <1>1
  <2> HIDE DEF S
  <2>7. PnlOf(S \cup credit) = PnlOf(S) + PnlOf(credit)
    BY <2>4, PnlOfBoth
  <2>8. NextPnlOf(S \cup credit) = PnlOf(S \cup credit)
    BY SumsStand
  <2> QED BY <2>3, <2>5, <2>6, <2>7, <2>8
<1>6. UNCHANGED booked
  OBVIOUS
<1> QED BY <1>3, <1>4, <1>5, <1>6, SumInvIsNext

LEMMA MadeKeepsSums ==
    ASSUME TypeInv, BookInv, HaltInv, SumInv, [Next]_vars,
           RowMade, UNCHANGED <<pos, booked, credit>>
    PROVE  SumInv'
<1>1. /\ ~breaker[rowDay].made /\ rowDay' = rowDay
      /\ pc \notin Loading /\ pc' \in Loading /\ ~Persist
      /\ snap' = Loaded(StartNewDay(rowDay, snap.start))
  BY DEF RowMade, InsertBreakerRow, HasBreakerRow, Loading, Persist
<1>2. /\ \A d \in Days : breaker'[d].pnl = NextPnlOf(booked[d])
      /\ \A d \in Days : ~breaker'[d].made => booked[d] = {}
  BY <1>1, BooksKept
<1>3. snap'.pnl = NextPnlOf(booked'[rowDay'] \cup credit')
  <2> DEFINE s == StartNewDay(rowDay, snap.start)
  <2>1. s \in Snapshots /\ s.pnl = 0
    BY SumTypes DEF StartNewDay, Snapshots
  <2>2. sum = PnlOf(credit) /\ booked[rowDay] = {} /\ sum \in Int
    BY <1>1, SumTypes DEF SumInv
  <2>3. snap' = Loaded(s)
    BY <1>1
  <2> HIDE DEF s
  <2>4. snap'.pnl = s.pnl + sum
    BY <2>1, <2>3, LoadedAdds
  <2>5. booked'[rowDay'] \cup credit' = credit
    BY <1>1, <2>2
  <2>6. NextPnlOf(credit) = PnlOf(credit)
    BY SumsStand
  <2>7. snap'.pnl = PnlOf(credit)
    BY <2>1, <2>2, <2>4
  <2> QED BY <2>5, <2>6, <2>7
<1>4. UNCHANGED booked
  OBVIOUS
<1> QED BY <1>1, <1>2, <1>3, <1>4, SumInvIsNext

LEMMA LoadKeepsSums ==
    ASSUME ~ClockSkew, TypeInv, BookInv, HaltInv, ApartInv, SumInv, [Next]_vars, LoadsBreaker
    PROVE  SumInv'
<1>1. UNCHANGED <<pos, booked, credit, sum>>
  BY DEF LoadsBreaker, BreakerSelect, BreakerInsert, BreakerReselect, BreakerReinsert, GoTo, brokerVars
<1> QED BY <1>1, LoadSteps, FoundKeepsSums, MadeKeepsSums

LEMMA OutcomeKeepsSums ==
    ASSUME TypeInv, BookInv, HaltInv, OnceInv, SumInv, [Next]_vars,
           NEW o \in outcomes, ApplyOutcome(o)
    PROVE  SumInv'
<1>1. pc = "outcomes" /\ ~Persist /\ ~o.applied /\ UNCHANGED pos
  BY DEF ApplyOutcome, Persist, brokerVars
<1>2. CASE Len(rows[o.id]) > 1
  <2>1. Forgets
    BY <1>2, RaiseForgets DEF ApplyOutcome
  <2> QED BY <1>1, <2>1, ForgetsKeepsSums
<1>3. CASE ~(Len(rows[o.id]) > 1) /\ UNCHANGED <<snap, credit>>
  <2>1. Keeps
    BY <1>1, <1>3 DEF ApplyOutcome, GoTo, Keeps, Loading
  <2> QED BY <1>1, <2>1, KeepsKeepsSums
<1>4. CASE ~(Len(rows[o.id]) > 1) /\ ~UNCHANGED <<snap, credit>>
  <2> DEFINE i == o.id
             S == booked[rowDay] \cup credit
  <2>1. /\ o.kind = "close" /\ pc' = "outcomes" /\ UNCHANGED <<booked, rowDay>>
        /\ snap' = RecordPnl(snap, pos[i].pnl, cfg.pct)
        /\ credit' = credit \cup {i}
    BY <1>4 DEF ApplyOutcome, WriteOutcome, GoTo
  <2>2. /\ i \in Ids /\ S \in SUBSET Ids
        /\ snap \in Snapshots /\ pos[i].pnl \in Int
    BY LoopTypeParts, SumTypes DEF TypeInv, TypeOK, FrameTypeOK, Outcomes, Positions
  <2>3. i \notin credit /\ \A d \in Days : i \notin booked[d]
    BY <1>1, <2>1 DEF OnceInv, Counted
  <2>4. /\ \A d \in Days : breaker'[d].pnl = NextPnlOf(booked[d])
        /\ \A d \in Days : ~breaker'[d].made => booked[d] = {}
    BY <1>1, <2>1, BooksKept
  <2>5. snap'.pnl = NextPnlOf(booked'[rowDay'] \cup credit')
    <3>1. snap'.pnl = snap.pnl + pos[i].pnl /\ snap.pnl = PnlOf(S)
      BY <1>1, <2>1, <2>2 DEF RecordPnl, Snapshots, SumInv, Loading
    <3>2. booked'[rowDay'] \cup credit' = S \cup {i} /\ i \notin S
      BY <2>1, <2>3, SumTypes
    <3> HIDE DEF S, i
    <3>3. PnlOf(S \cup {i}) = PnlOf(S) + pos[i].pnl
      BY <2>2, <3>2, PnlOfOneMore
    <3>4. NextPnlOf(S \cup {i}) = PnlOf(S \cup {i})
      BY <1>1, SumsStand
    <3> QED BY <3>1, <3>2, <3>3, <3>4
  <2>6. pc' \in Loading /\ UNCHANGED booked
    BY <2>1 DEF Loading
  <2> HIDE DEF i, S
  <2> QED BY <2>4, <2>5, <2>6, SumInvIsNext
<1> QED BY <1>2, <1>3, <1>4

\* The row takes the snapshot's total, and the books what was in hand.
LEMMA PersistKeepsSums ==
    ASSUME TypeInv, HaltInv, SumInv, Persist
    PROVE  SumInv'
<1>1. /\ pc = "persist" /\ pc' = "idle" /\ sum' = 0 /\ credit' = {} /\ UNCHANGED pos
      /\ breaker' = [breaker EXCEPT ![rowDay].pnl = snap.pnl, ![rowDay].halted = snap.halted]
      /\ booked' = [booked EXCEPT ![rowDay] = @ \cup credit]
  BY DEF Persist, UpdateBreakerRow, Forget, brokerVars
<1>2. /\ rowDay \in Days /\ breaker \in [Days -> BreakerRows]
      /\ booked \in [Days -> SUBSET Ids]
  BY SumTypes
<1>3. snap.pnl = PnlOf(booked[rowDay] \cup credit) /\ breaker[rowDay].made
  BY <1>1 DEF SumInv, HaltInv, Loading
<1>4. ASSUME NEW d \in Days PROVE breaker'[d].pnl = NextPnlOf(booked'[d])
  <2> DEFINE S == booked'[d]
  <2>1. breaker'[d].pnl = PnlOf(S)
    <3>1. CASE d = rowDay
      BY <1>1, <1>2, <1>3, <3>1 DEF BreakerRows
    <3>2. CASE d # rowDay
      BY <1>1, <1>2, <3>2 DEF SumInv
    <3> QED BY <3>1, <3>2
  <2> HIDE DEF S
  <2>2. NextPnlOf(S) = PnlOf(S)
    BY <1>1, SumsStand
  <2> QED BY <2>1, <2>2 DEF S
<1>5. ASSUME NEW d \in Days, ~breaker'[d].made PROVE booked'[d] = {}
  <2>1. d # rowDay /\ ~breaker[d].made
    BY <1>1, <1>2, <1>3, <1>5 DEF BreakerRows
  <2> QED BY <1>1, <1>2, <2>1 DEF SumInv
<1>6. sum' = NextPnlOf(credit')
  BY <1>1, NextPnlOfNone
<1>7. pc' \notin Loading
  BY <1>1 DEF Loading
<1> QED BY <1>4, <1>5, <1>6, <1>7, SumInvIsNext

LEMMA SumInvInit == Init => SumInv
<1> SUFFICES ASSUME Init PROVE SumInv
  OBVIOUS
<1>1. /\ \A d \in Days : breaker[d].pnl = 0 /\ booked[d] = {}
      /\ credit = {} /\ sum = 0 /\ pc = "down"
  BY DEF Init, LoopInit, DatabaseInit, NoBreakerRow
<1>2. /\ \A d \in Days : PnlOf(booked[d]) = 0
      /\ PnlOf(credit) = 0
  BY <1>1, PnlOfNone
<1> QED BY <1>1, <1>2 DEF SumInv, Loading

LEMMA SumInvNext ==
    ASSUME ~ClockSkew
    PROVE  TypeInv /\ BookInv /\ HaltInv /\ OnceInv /\ ApartInv /\ SumInv /\ [Next]_vars => SumInv'
<1> SUFFICES ASSUME TypeInv, BookInv, HaltInv, OnceInv, ApartInv, SumInv, [Next]_vars
             PROVE  SumInv'
  OBVIOUS
<1>1. CASE Persist
  BY <1>1, PersistKeepsSums
<1>2. CASE LoadsBreaker
  BY <1>2, LoadKeepsSums
<1>3. ASSUME NEW r \in lost, ReconcileClose(r) PROVE SumInv'
  BY <1>3, CloseKeepsSums
<1>4. ASSUME NEW o \in outcomes, ApplyOutcome(o) PROVE SumInv'
  BY <1>4, OutcomeKeepsSums
<1>5. CASE ~Adds
  BY <1>5, LedgerSteps, KeepsKeepsSums, ForgetsKeepsSums DEF Adds
<1> QED BY <1>1, <1>2, <1>3, <1>4, <1>5 DEF Adds

\* Where the process's date is UTC's, a day's row is the sum over the closed
\* positions booked on it, and no position is booked on two days, whatever was
\* retried, abandoned or found twice (engine/trading_loop.py:182-226).
THEOREM BooksAreExact == ASSUME ~ClockSkew PROVE Spec => []NothingBookedTwice
<1>1. ApartInv /\ SumInv => NothingBookedTwice
  BY DEF ApartInv, SumInv, NothingBookedTwice
<1>2. TypeInv /\ ClosedInv /\ BookInv /\ HaltInv /\ OnceInv /\ ApartInv /\ SumInv /\ [Next]_vars
        => TypeInv' /\ ClosedInv' /\ BookInv' /\ HaltInv' /\ OnceInv' /\ ApartInv' /\ SumInv'
  BY TypeInvNext, ClosedInvNext, BookInvNext, HaltInvNext, OnceInvNext, ApartInvNext, SumInvNext
<1>3. Init => TypeInv /\ ClosedInv /\ BookInv /\ HaltInv /\ OnceInv /\ ApartInv /\ SumInv
  BY TypeInvInit, ClosedInvInit, BookInvInit, HaltInvInit, OnceInvInit, ApartInvInit, SumInvInit
<1> QED BY <1>1, <1>2, <1>3, PTL DEF Spec

---------------------------------------------------------------------------
(* The limit.  A halt is decided where a PnL is recorded and never again:  *)
(* a lower percentage saved during the day halts nothing until the next    *)
(* close, so the limit is the tick's only while the percentage stays.      *)

Percentages == {c.pct : c \in InitConfigs \cup RiskConfigs}

OnePercentage == \A p, q \in Percentages : p = q

\* A total that was recorded and is at the limit.
Halts(start, pnl, pct) == pnl # 0 /\ LimitReached(start, pnl, pct)

LimitInv ==
    /\ booting => pc \in {"listing", "rows", "reconcile"}
    /\ config.pct \in Percentages
    /\ pc \in Ticking /\ ~booting => cfg.pct \in Percentages
    /\ \A d \in Days, p \in Percentages :
         Halts(breaker[d].start, breaker[d].pnl, p) => breaker[d].halted
    /\ pc \in Loading =>
         /\ snap.start = breaker[rowDay].start
         /\ Halts(snap.start, snap.pnl, cfg.pct) => snap.halted

\* The percentage a tick works with is one that was saved.
PercentStep ==
    /\ booting' => pc' \in {"listing", "rows", "reconcile"}
    /\ config'.pct \in Percentages
    /\ pc' \in Ticking /\ ~booting' => cfg'.pct \in Percentages

LEMMA PercentSteps == ASSUME TypeInv, LimitInv, [Next]_vars PROVE PercentStep
<1>1. /\ booting => pc \in {"listing", "rows", "reconcile"}
      /\ config.pct \in Percentages
      /\ pc \in Ticking /\ ~booting => cfg.pct \in Percentages
      /\ config \in Configs /\ booting \in BOOLEAN
  BY DEF LimitInv, TypeInv, TypeOK, DatabaseTypeOK, LoopTypeOK
<1>2. CASE Loop
  <2>1. CASE TickFails \/ BreakerInsertConflicts \/ PlaceOrderLate
    <3>1. booting' = FALSE /\ pc' \notin Ticking /\ UNCHANGED config
      BY <2>1 DEF TickFails, BreakerInsertConflicts, PlaceOrderLate, Raise, Ticking, tables
    <3> QED BY <1>1, <3>1 DEF PercentStep
  <2>2. CASE TickStart \/ TickPaused \/ Restart
    BY <1>1, <2>2
       DEF TickStart, TickPaused, Restart, GoTo, loopVars, process, tables, PercentStep, Ticking, frame
  <2>3. CASE ReconcileStep
    <3>1. CASE ReconcileList \/ ReconcileRows \/ ReconcileDone
      BY <1>1, <3>1
         DEF ReconcileList, ReconcileRows, ReconcileDone, GoTo, process, tables, PercentStep,
             Ticking, frame
    <3>2. ASSUME NEW r \in lost, ReconcileClose(r) \/ ReconcileLookupFails(r) PROVE PercentStep
      BY <1>1, <3>2 DEF ReconcileClose, ReconcileLookupFails, GoTo, process, PercentStep
    <3>3. ASSUME NEW r \in lost, ReconcileHistoryLags(r) PROVE PercentStep
      BY <1>1, <3>3 DEF ReconcileHistoryLags, Raise, Ticking, PercentStep
    <3>4. ASSUME NEW e \in found, ReconcileAdopt(e) PROVE PercentStep
      BY <1>1, <3>4 DEF ReconcileAdopt, GoTo, process, PercentStep
    <3> QED BY <2>3, <3>1, <3>2, <3>3, <3>4 DEF ReconcileStep
  <2>4. CASE BreakerSelect \/ BreakerInsert \/ BreakerReselect \/ BreakerReinsert
    BY <1>1, <2>4 DEF BreakerSelect, BreakerInsert, BreakerReselect, BreakerReinsert, GoTo, process,
                      tables, Ticking, PercentStep
  <2>5. CASE ManageStep
    <3>1. CASE FetchPositions \/ ManageDone \/ OutcomesDone
      BY <1>1, <3>1
         DEF FetchPositions, ManageDone, OutcomesDone, GoTo, process, tables, Ticking, PercentStep
    <3>2. ASSUME NEW e \in found, ManageRefused(e) PROVE PercentStep
      BY <1>1, <3>2 DEF ManageRefused, Raise, Ticking, tables, PercentStep
    <3>3. ASSUME NEW e \in found, NEW p \in Pnls, ManageClose(e, p) PROVE PercentStep
      BY <1>1, <3>3 DEF ManageClose, Managed, GoTo, process, tables, PercentStep
    <3>4. ASSUME NEW e \in found, NEW p \in Pnls, ManageCloseUnconfirmed(e, p) PROVE PercentStep
      BY <1>1, <3>4 DEF ManageCloseUnconfirmed, Raise, Ticking, tables, PercentStep
    <3>5. ASSUME NEW e \in found, NEW s \in 0 .. MaxStop, ManageMove(e, s) PROVE PercentStep
      BY <1>1, <3>5 DEF ManageMove, Managed, GoTo, process, tables, PercentStep
    <3>6. ASSUME NEW o \in outcomes, ApplyOutcome(o) PROVE PercentStep
      BY <1>1, <3>6 DEF ApplyOutcome, Raise, GoTo, process, Ticking, PercentStep
    <3> QED BY <2>5, <3>1, <3>2, <3>3, <3>4, <3>5, <3>6 DEF ManageStep
  <2>6. CASE EntryStep
    <3>1. CASE FlipEnds
      BY <1>1, <3>1 DEF FlipEnds, GoTo, process, frame, Ticking, PercentStep, Configs
    <3>2. CASE FlipJudged \/ FlipGoesOn \/ NoEntry \/ RecordTrade
      BY <1>1, <3>2 DEF FlipJudged, FlipGoesOn, NoEntry, RecordTrade, GoTo, process, frame, tables, Ticking, PercentStep
    <3>3. CASE Persist
      BY <1>1, <3>3 DEF Persist, process, Ticking, PercentStep
    <3>4. ASSUME NEW i \in Ids, PlaceOrder(i) PROVE PercentStep
      BY <1>1, <3>4 DEF PlaceOrder, GoTo, process, tables, Ticking, PercentStep
    <3>5. ASSUME NEW i \in Ids, PlaceOrderLost(i) PROVE PercentStep
      BY <1>1, <3>5 DEF PlaceOrderLost, Raise, Ticking, tables, PercentStep
    <3> QED BY <2>1, <2>6, <3>1, <3>2, <3>3, <3>4, <3>5 DEF EntryStep
  <2> QED BY <1>2, <2>1, <2>2, <2>3, <2>4, <2>5, <2>6 DEF Loop, TickStep, BreakerStep
<1>3. CASE Dies
  BY <1>1, <1>3 DEF Dies, Crash, tables, Ticking, PercentStep
<1>4. CASE Asks
  <2>1. UNCHANGED <<pc, booting, cfg>>
    BY <1>4 DEF Asks, loopVars, process, frame
  <2>2. config'.pct \in Percentages
    <3>1. CASE Pause \/ Resume \/ RequestLive(confirmed) \/ RevertPractice \/ KillPause \/ UpdateFlipConfig
      BY <1>1, <3>1 DEF Pause, Resume, RequestLive, RevertPractice, KillPause, UpdateFlipConfig,
                        SetConfig, Configs
    <3>2. CASE UpdateRiskConfig
      <4>1. PICK r \in RiskConfigs : config' = [config EXCEPT !.max = r.max, !.pct = r.pct]
        BY <3>2 DEF UpdateRiskConfig, SetConfig
      <4> QED BY <1>1, <4>1 DEF Configs, Percentages
    <3>3. ASSUME NEW r, NEW p, TelegramClose(r, p) PROVE config' = config
      BY <3>3 DEF TelegramClose, CloseStep
    <3> QED BY <1>1, <1>4, <3>1, <3>2, <3>3 DEF Asks
  <2> QED BY <1>1, <2>1, <2>2 DEF PercentStep
<1>5. CASE Serves \/ Polls \/ RequestFails \/ Market \/ DayEnds \/ UNCHANGED vars
  <2>1. UNCHANGED <<pc, booting, cfg>>
    BY <1>5 DEF Serves, Polls, RequestFails, Market, DayEnds, vars, loopVars, process, frame
  <2>2. config' = config
    <3>1. CASE Serves
      BY <3>1 DEF Serves, KillList, KillDone, KillRefused, KillClose, KillCommit, KillStep,
                  TelegramCommit, CloseStep, PollInsert, PollConflicts, PollStep
    <3>2. CASE RequestFails
      BY <3>2 DEF RequestFails, KillAborts, KillCloseFails, KillStep, TelegramAborts, CloseStep
    <3>3. CASE Polls \/ Market \/ DayEnds \/ UNCHANGED vars
      BY <3>3 DEF Polls, PollSelect, PollStep, Market, DayEnds, vars, tables
    <3> QED BY <1>5, <3>1, <3>2, <3>3
  <2> QED BY <1>1, <2>1, <2>2 DEF PercentStep
<1> QED BY <1>2, <1>3, <1>4, <1>5 DEF Next

\* A snapshot that is halted wherever its total is at the limit stays so.
AtLimit(s, pct) == Halts(s.start, s.pnl, pct) => s.halted

LEMMA RecordKeepsLimit ==
    ASSUME NEW s \in Snapshots, NEW pnl \in Int, NEW pct \in Int
    PROVE  RecordPnl(s, pnl, pct).start = s.start /\ AtLimit(RecordPnl(s, pnl, pct), pct)
<1> DEFINE total == s.pnl + pnl
<1>1. /\ RecordPnl(s, pnl, pct).start = s.start
      /\ RecordPnl(s, pnl, pct).pnl = total
      /\ RecordPnl(s, pnl, pct).halted = (s.halted \/ LimitReached(s.start, total, pct))
  BY DEF RecordPnl, Snapshots
<1> HIDE DEF total
<1> QED BY <1>1 DEF AtLimit, Halts

LEMMA LoadedKeepsLimit ==
    ASSUME TypeInv, NEW s \in Snapshots, AtLimit(s, cfg.pct)
    PROVE  Loaded(s).start = s.start /\ AtLimit(Loaded(s), cfg.pct)
<1>1. sum \in Int /\ cfg.pct \in Int
  BY SumTypes DEF Configs
<1> QED BY <1>1, RecordKeepsLimit DEF Loaded

\* The rows: one that is inserted has lost nothing, one that is persisted
\* takes over a snapshot that is at the limit only if it is halted.
LEMMA RowsKeepLimit ==
    ASSUME OnePercentage, TypeInv, HaltInv, LimitInv, [Next]_vars
    PROVE  \A d \in Days, p \in Percentages :
             Halts(breaker'[d].start, breaker'[d].pnl, p) => breaker'[d].halted
<1> SUFFICES ASSUME NEW d \in Days, NEW p \in Percentages,
                    Halts(breaker'[d].start, breaker'[d].pnl, p)
             PROVE  breaker'[d].halted
  OBVIOUS
<1>1. CASE ~Persist
  <2>1. breaker'[d] = breaker[d] \/ breaker'[d].pnl = 0
    BY <1>1, BreakerSteps DEF BreakerStaysConsistent
  <2> QED BY <2>1 DEF LimitInv, Halts
<1>2. CASE Persist
  <2>1. /\ pc = "persist"
        /\ breaker' = [breaker EXCEPT ![rowDay].pnl = snap.pnl, ![rowDay].halted = snap.halted]
    BY <1>2 DEF Persist, UpdateBreakerRow
  <2>2. cfg.pct = p
    BY <2>1 DEF LimitInv, Ticking, OnePercentage
  <2>3. CASE d = rowDay
    <3>1. /\ breaker'[d].start = snap.start
          /\ breaker'[d].pnl = snap.pnl
          /\ breaker'[d].halted = snap.halted
      BY <2>1, <2>3, SumTypes DEF BreakerRows, LimitInv, Loading
    <3> QED BY <2>1, <2>2, <3>1 DEF LimitInv, Loading
  <2>4. CASE d # rowDay
    BY <2>1, <2>4, SumTypes DEF LimitInv
  <2> QED BY <2>3, <2>4
<1> QED BY <1>1, <1>2

LEMMA SnapKeepsLimit ==
    ASSUME ~ClockSkew, OnePercentage, TypeInv, HaltInv, SumInv, LimitInv, [Next]_vars,
           pc' \in Loading
    PROVE  snap'.start = breaker'[rowDay'].start /\ AtLimit(snap', cfg'.pct)
<1>1. /\ snap \in Snapshots /\ cfg.pct \in Int /\ rowDay \in Days /\ localDay \in Days
      /\ breaker \in [Days -> BreakerRows]
  <2>1. cfg.pct \in Int
    BY SumTypes DEF Configs
  <2>2. localDay \in Days
    BY DEF TypeInv, TypeOK, DatabaseTypeOK
  <2> QED BY <2>1, <2>2, SumTypes
<1>2. CASE LoadsBreaker
  <2>1. UNCHANGED cfg
    BY <1>2 DEF LoadsBreaker, BreakerSelect, BreakerInsert, BreakerReselect, BreakerReinsert
  <2>2. CASE RowFound
    <3> DEFINE s == SnapshotOf(localDay)
    <3>1. pc = "account" /\ rowDay' = localDay /\ UNCHANGED breaker /\ snap' = Loaded(s)
      BY <2>2 DEF RowFound
    <3>2. s \in Snapshots /\ s.start = breaker[localDay].start
      BY <1>1, SnapshotOfType DEF TypeInv, TypeOK, SnapshotOf
    <3>3. AtLimit(s, cfg.pct)
      BY <1>1, <3>1 DEF AtLimit, SnapshotOf, LimitInv, Ticking
    <3> HIDE DEF s
    <3> QED BY <2>1, <3>1, <3>2, <3>3, LoadedKeepsLimit
  <2>3. CASE RowMade
    <3> DEFINE s == StartNewDay(rowDay, snap.start)
    <3>1. rowDay' = rowDay /\ snap' = Loaded(s) /\ breaker'[rowDay].start = snap.start
      BY <1>1, <2>3 DEF RowMade, InsertBreakerRow
    <3>2. s \in Snapshots /\ s.start = snap.start /\ AtLimit(s, cfg.pct)
      BY <1>1 DEF StartNewDay, Snapshots, AtLimit, Halts
    <3> HIDE DEF s
    <3> QED BY <2>1, <3>1, <3>2, LoadedKeepsLimit
  <2>4. ~RowMissing
    BY DEF RowMissing, Loading
  <2> QED BY <1>2, <2>2, <2>3, <2>4, LoadSteps
<1>4. ASSUME pc \in Loading, rowDay' = rowDay, ~Persist
      PROVE  breaker'[rowDay'].start = breaker[rowDay].start /\ cfg'.pct = cfg.pct
  <2>1. breaker[rowDay].made /\ cfg.pct \in Percentages
    BY <1>4 DEF HaltInv, LimitInv, Loading, Ticking
  <2>2. breaker'[rowDay] = breaker[rowDay]
    BY <1>1, <1>4, <2>1, BreakerSteps DEF BreakerStays
  <2>3. cfg'.pct \in Percentages
    BY PercentSteps DEF PercentStep, Loading, Ticking
  <2> QED BY <1>4, <2>1, <2>2, <2>3 DEF OnePercentage
<1>5. ASSUME NEW o \in outcomes, ApplyOutcome(o)
      PROVE  snap'.start = breaker'[rowDay'].start /\ AtLimit(snap', cfg'.pct)
  <2>1. /\ pc = "outcomes" /\ rowDay' = rowDay /\ o.id \in Ids
        /\ \/ UNCHANGED snap
           \/ snap' = RecordPnl(snap, pos[o.id].pnl, cfg.pct)
    BY <1>5, LoopTypeParts
       DEF ApplyOutcome, WriteOutcome, Raise, Loading, TypeInv, TypeOK, FrameTypeOK, Outcomes
  <2>2. pos[o.id].pnl \in Int
    BY <2>1, SumTypes DEF Positions
  <2>3. pc \in Loading /\ ~Persist /\ snap.start = breaker[rowDay].start /\ AtLimit(snap, cfg.pct)
    BY <2>1 DEF Loading, Persist, LimitInv, AtLimit
  <2>4. breaker'[rowDay'].start = breaker[rowDay].start /\ cfg'.pct = cfg.pct
    BY <1>4, <2>1, <2>3
  <2> QED BY <1>1, <2>1, <2>2, <2>3, <2>4, RecordKeepsLimit
<1>6. CASE ~Adds
  <2>1. pc \in Loading /\ ~Persist /\ UNCHANGED <<snap, rowDay>>
    BY <1>6, LedgerSteps DEF Keeps, Forgets, Adds
  <2>2. breaker'[rowDay'].start = breaker[rowDay].start /\ cfg'.pct = cfg.pct
    BY <1>4, <2>1
  <2> QED BY <2>1, <2>2 DEF LimitInv, AtLimit
<1>7. ~Persist /\ \A r \in lost : ~ReconcileClose(r)
  BY DEF Persist, ReconcileClose, GoTo, Loading
<1> QED BY <1>2, <1>5, <1>6, <1>7 DEF Adds

LEMMA LimitInvInit == Init => LimitInv
<1> SUFFICES ASSUME Init PROVE LimitInv
  OBVIOUS
<1>1. /\ \A d \in Days : breaker[d].pnl = 0
      /\ config \in InitConfigs /\ booting = FALSE /\ pc = "down"
  BY DEF Init, LoopInit, DatabaseInit, NoBreakerRow
<1> QED BY <1>1 DEF LimitInv, Halts, Percentages, Ticking, Loading

LEMMA LimitInvNext ==
    ASSUME ~ClockSkew, OnePercentage
    PROVE  TypeInv /\ HaltInv /\ SumInv /\ LimitInv /\ [Next]_vars => LimitInv'
<1> SUFFICES ASSUME TypeInv, HaltInv, SumInv, LimitInv, [Next]_vars PROVE LimitInv'
  OBVIOUS
<1>1. PercentStep
  BY PercentSteps
<1>2. \A d \in Days, p \in Percentages :
        Halts(breaker'[d].start, breaker'[d].pnl, p) => breaker'[d].halted
  BY RowsKeepLimit
<1>3. pc' \in Loading => snap'.start = breaker'[rowDay'].start /\ AtLimit(snap', cfg'.pct)
  BY SnapKeepsLimit
<1> QED BY <1>1, <1>2, <1>3 DEF LimitInv, PercentStep, AtLimit, Halts

\* Unless the percentage changes during a day, no position is opened once the
\* losses on the books have reached the day's limit, those included that this
\* tick found and has not written anywhere yet (engine/executor.py:38-40,
\* risk/circuit_breaker.py:30-41).
THEOREM EntriesEndAtLimit ==
    ASSUME ~ClockSkew, OnePercentage
    PROVE  Spec => NoEntryPastLimit
<1> DEFINE Past == LET pnl == PnlOf(booked[rowDay] \cup credit)
                   IN  /\ ~breaker[rowDay].halted
                       /\ ~(pnl < 0 /\ LimitReached(breaker[rowDay].start, pnl, cfg.pct))
<1>1. TypeInv /\ CapInv /\ HaltInv /\ SumInv /\ LimitInv /\ [Next]_vars => [Enters => Past]_vars
  <2> SUFFICES ASSUME TypeInv, CapInv, HaltInv, SumInv, LimitInv, [Next]_vars, Enters
               PROVE  Past
    OBVIOUS
  <2>1. pc = "entry" /\ ~snap.halted
    BY EntersByOrder DEF PlaceOrder, PlaceOrderLost, MayEnter, IsHalted
  <2>2. /\ breaker[rowDay].halted => snap.halted
        /\ snap.pnl = PnlOf(booked[rowDay] \cup credit)
        /\ snap.start = breaker[rowDay].start
        /\ Halts(snap.start, snap.pnl, cfg.pct) => snap.halted
    BY <2>1 DEF HaltInv, SumInv, LimitInv, Loading
  <2> QED BY <2>1, <2>2 DEF Halts
<1>2. TypeInv /\ ClosedInv /\ BookInv /\ HaltInv /\ OnceInv /\ ApartInv /\ SumInv /\ [Next]_vars
        => TypeInv' /\ ClosedInv' /\ BookInv' /\ HaltInv' /\ OnceInv' /\ ApartInv' /\ SumInv'
  BY TypeInvNext, ClosedInvNext, BookInvNext, HaltInvNext, OnceInvNext, ApartInvNext, SumInvNext
<1>3. TypeInv /\ ClosedInv /\ CapInv /\ HaltInv /\ SumInv /\ LimitInv /\ [Next]_vars
        => CapInv' /\ LimitInv'
  BY CapInvNext, LimitInvNext
<1>4. Init => /\ TypeInv /\ ClosedInv /\ BookInv /\ HaltInv /\ OnceInv /\ ApartInv /\ SumInv
              /\ CapInv /\ LimitInv
  BY TypeInvInit, ClosedInvInit, BookInvInit, HaltInvInit, OnceInvInit, ApartInvInit, SumInvInit,
     CapInvInit, LimitInvInit
<1> QED BY <1>1, <1>2, <1>3, <1>4, PTL DEF Spec, NoEntryPastLimit

---------------------------------------------------------------------------
(* The flip run.  A count of none means that no position the bot knows is  *)
(* open, and, as long as the bot alone has opened any, none at all: the    *)
(* balance stands up to the entry.                                         *)

InBounds == cfg.bounds.floor < balance /\ balance < cfg.bounds.target

FlatInv ==
    /\ pc = "entry" /\ JudgesFlip /\ OnlyBotOpened => InBounds
    /\ pc = "ending" => JudgesFlip

\* A count of none.
LEMMA NoneKnown ==
    ASSUME TypeInv, CapInv, pc \in Counting, count = 0
    PROVE  KnownOpen = {} /\ (OnlyBotOpened => OpenIds = {})
<1>1. Cardinality(KnownOpen) = 0 /\ IsFiniteSet(KnownOpen)
  BY KnownAreFew DEF CapInv
<1>2. KnownOpen = {}
  BY <1>1, FS_EmptySet
<1>3. ASSUME OnlyBotOpened, NEW i \in OpenIds PROVE FALSE
  <2>1. i \in Ids /\ pos[i].st = "open" /\ pos[i].by \in {"nobody", "bot"}
    BY <1>3 DEF OnlyBotOpened, OpenIds, IsOpen
  <2>2. pos[i].by = "bot"
    BY <2>1 DEF CapInv
  <2> QED BY <1>2, <1>3, <2>2 DEF KnownOpen, OpenBy
<1> QED BY <1>2, <1>3

\* The entry, or the end of a run, is reached past the run's bounds only.
LEMMA EntrySteps ==
    ASSUME [Next]_vars, pc' \in {"entry", "ending"}
    PROVE  \/ FlipGoesOn /\ pc' = "entry"
           \/ FlipJudged /\ pc' = "ending"
           \/ UNCHANGED <<pc, cfg, count>>
<1>1. CASE Loop
  <2>1. CASE TickStart \/ TickPaused \/ TickFails \/ Restart
    BY <2>1 DEF TickStart, TickPaused, TickFails, Restart, Raise, GoTo, loopVars, frame
  <2>2. CASE ReconcileStep
    BY <2>2 DEF ReconcileStep, ReconcileList, ReconcileRows, ReconcileDone, ReconcileClose,
                ReconcileLookupFails, ReconcileHistoryLags, ReconcileAdopt, Raise, GoTo
  <2>3. CASE BreakerStep
    BY <2>3 DEF BreakerStep, BreakerSelect, BreakerInsert, BreakerReselect, BreakerReinsert,
                BreakerInsertConflicts, Raise, GoTo
  <2>4. CASE ManageStep
    BY <2>4 DEF ManageStep, FetchPositions, ManageDone, OutcomesDone, ManageRefused, ManageClose,
                ManageCloseUnconfirmed, ManageMove, ApplyOutcome, Managed, Raise, GoTo
  <2>5. CASE EntryStep
    BY <2>5 DEF EntryStep, FlipJudged, FlipGoesOn, FlipEnds, NoEntry, PlaceOrderLate, RecordTrade, Persist,
                PlaceOrder, PlaceOrderLost, Raise, GoTo
  <2> QED BY <1>1, <2>1, <2>2, <2>3, <2>4, <2>5 DEF Loop, TickStep
<1>2. CASE Dies
  BY <1>2 DEF Dies, Crash
<1>3. CASE Asks \/ Serves \/ Polls \/ Market \/ DayEnds \/ RequestFails \/ UNCHANGED vars
  BY <1>3 DEF Asks, Serves, Polls, Market, DayEnds, RequestFails, vars, loopVars, frame
<1> QED BY <1>1, <1>2, <1>3 DEF Next

\* Who opened a position is not forgotten.
LEMMA OpenersStay ==
    ASSUME TypeInv, CapInv, [Next]_vars, OnlyBotOpened'
    PROVE  OnlyBotOpened
<1>1. pos \in [Ids -> Positions]
  BY DEF TypeInv, TypeOK, BrokerTypeOK
<1>2. CASE Ordered
  BY <1>1, <1>2 DEF Ordered, PlaceOrder, PlaceOrderLost, OpenPosition, OnlyBotOpened, CapInv
<1>3. CASE Closes
  <2>1. PICK i \in Ids, pnl \in Int : ClosePosition(i, pnl)
    BY <1>3 DEF Closes
  <2>2. pos' = [pos EXCEPT ![i] = [@ EXCEPT !.st = "closed", !.stop = NoStop, !.given = NoStop, !.pnl = pnl]]
    BY <2>1 DEF ClosePosition
  <2>3. \A j \in Ids : pos'[j].by = pos[j].by
    BY <1>1, <2>2 DEF Positions
  <2> QED BY <2>3 DEF OnlyBotOpened
<1>4. CASE Moves
  BY <1>4, MovesKeepLives DEF OnlyBotOpened
<1>5. CASE OpensOtherwise
  BY <1>1, <1>5 DEF OpensOtherwise, OpenPosition, OnlyBotOpened, CapInv
<1>6. CASE UNCHANGED pos
  BY <1>6 DEF OnlyBotOpened
<1> QED BY <1>2, <1>3, <1>4, <1>5, <1>6, PosSteps DEF PosStep

\* A flat account stays flat, and its balance what it is, but for an order of
\* the loop, the owner or one that is late.
LEMMA FlatStays ==
    ASSUME TypeInv, OpenIds = {}, [Next]_vars, OnlyBotOpened'
    PROVE  Ordered \/ UNCHANGED <<pos, balance>>
<1>1. \A i \in Ids : ~IsOpen(i)
  BY DEF OpenIds
<1>2. ~Closes /\ ~Moves
  BY <1>1 DEF Closes, Moves, ClosePosition, ModifyStopLoss, MoveByHand
<1>3. ~OpensOtherwise
  BY DEF OpensOtherwise, OpenPosition, OnlyBotOpened, TypeInv, TypeOK, BrokerTypeOK
<1> QED BY <1>2, <1>3, PosSteps DEF PosStep

LEMMA FlatInvInit == Init => FlatInv
  BY DEF Init, LoopInit, FlatInv

LEMMA FlatInvNext == TypeInv /\ CapInv /\ FlatInv /\ [Next]_vars => FlatInv'
<1> SUFFICES ASSUME TypeInv, CapInv, FlatInv, [Next]_vars PROVE FlatInv'
  OBVIOUS
<1>1. ASSUME pc' = "entry", JudgesFlip', OnlyBotOpened' PROVE InBounds'
  <2>1. OnlyBotOpened /\ ~Ordered
    BY <1>1, OpenersStay DEF Ordered, PlaceOrder, PlaceOrderLost, GoTo, Raise
  <2>2. CASE UNCHANGED <<pc, cfg, count>>
    <3>1. JudgesFlip /\ InBounds /\ OpenIds = {}
      BY <1>1, <2>1, <2>2, NoneKnown DEF JudgesFlip, FlatInv, Counting
    <3>2. balance' = balance
      BY <1>1, <2>1, <3>1, FlatStays
    <3> QED BY <2>2, <3>1, <3>2 DEF InBounds
  <2>3. CASE FlipGoesOn
    <3>1. /\ pc = "flip" /\ UNCHANGED <<cfg, count, balance>>
          /\ JudgesFlip => \E equity \in Equities : ~FlipOver(equity)
      BY <2>3 DEF FlipGoesOn, frame, brokerVars
    <3>2. JudgesFlip /\ OpenIds = {}
      BY <1>1, <2>1, <3>1, NoneKnown DEF JudgesFlip, Counting
    <3>3. ~FlipOver(balance)
      BY <3>1, <3>2 DEF Equities
    <3>4. balance \in Int /\ cfg.bounds.floor \in Int /\ cfg.bounds.target \in Int
      BY SumTypes DEF TypeInv, TypeOK, BrokerTypeOK, Configs
    <3>5. InBounds
      BY <3>3, <3>4 DEF FlipOver, CheckFlipStatus, InBounds
    <3> QED BY <3>1, <3>5 DEF InBounds
  <2> QED BY <1>1, <2>2, <2>3, EntrySteps
<1>2. ASSUME pc' = "ending" PROVE JudgesFlip'
  <2>1. CASE UNCHANGED <<pc, cfg, count>>
    BY <1>2, <2>1 DEF JudgesFlip, FlatInv
  <2>2. CASE FlipJudged
    BY <2>2 DEF FlipJudged, JudgesFlip, frame
  <2> QED BY <1>2, <2>1, <2>2, EntrySteps
<1> QED BY <1>1, <1>2 DEF FlatInv

LEMMA FlipInvs == Spec => [](TypeInv /\ CapInv /\ FlatInv)
<1>1. TypeInv /\ ClosedInv /\ CapInv /\ FlatInv /\ [Next]_vars
        => TypeInv' /\ ClosedInv' /\ CapInv' /\ FlatInv'
  BY TypeInvNext, ClosedInvNext, CapInvNext, FlatInvNext
<1> QED BY <1>1, TypeInvInit, ClosedInvInit, CapInvInit, FlatInvInit, PTL DEF Spec

\* As long as the bot alone has opened positions, a flip run's tick that found
\* the account flat enters inside the bounds it read only, at the balance of
\* the moment it orders, some awaits later (engine/trading_loop.py:161-181).
THEOREM FlipEntriesInBounds == Spec => FlatFlipEntryInBounds
<1>1. TypeInv /\ CapInv /\ FlatInv /\ [Next]_vars
        => [Enters /\ JudgesFlip /\ OnlyBotOpened => InBounds]_vars
  <2> SUFFICES ASSUME TypeInv, CapInv, FlatInv, [Next]_vars, Enters, JudgesFlip, OnlyBotOpened
               PROVE  InBounds
    OBVIOUS
  <2>1. pc = "entry"
    BY EntersByOrder DEF PlaceOrder, PlaceOrderLost
  <2> QED BY <2>1 DEF FlatInv
<1> QED BY <1>1, FlipInvs, PTL DEF Spec, FlatFlipEntryInBounds, InBounds

\* Ending a flip run pauses the bot, and no position the bot opened or has a
\* row for is open then, although the positions were listed several awaits
\* earlier and the owner, late orders and requests have gone on since
\* (engine/trading_loop.py:161-177).
THEOREM FlipEndsStrandNothingKnown == Spec => FlipEndStrandsNothingKnown
<1>1. TypeInv /\ CapInv /\ FlatInv => [FlipEnds => KnownOpen = {}]_vars
  BY NoneKnown DEF FlatInv, FlipEnds, JudgesFlip, Counting
<1> QED BY <1>1, FlipInvs, PTL DEF Spec, FlipEndStrandsNothingKnown
=============================================================================
