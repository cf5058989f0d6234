-------------------------- MODULE TradingBotTypes --------------------------
(***************************************************************************)
(* TypeOK is an invariant of TradingBot, for every value of the constants. *)
(* It is not inductive alone: Midnight advances localDay under a guard on  *)
(* utcDay, so that localDay stays a day only because the two clocks agree  *)
(* unless ClockSkew lets them differ.  TypeInv adds that.                  *)
(*                                                                         *)
(* The proof goes by component.  Each action leaves most of the state      *)
(* alone; the lemmas below say so once for GoTo, Forget and Raise, with    *)
(* which nearly every action of the loop ends.                             *)
(*                                                                         *)
(* At the end, what the proofs that build on this one share: PosStep, the  *)
(* ways in which any step of the bot may change a position.                *)
(***************************************************************************)
EXTENDS TradingBot, FiniteSetTheorems, WellFoundedInduction, TLAPS

\* Unless the process's time zone differs from UTC, its date is UTC's.
ClocksAgree == ~ClockSkew => localDay = utcDay

TypeInv == TypeOK /\ ClocksAgree

Snapshots == [day : Days, start : Int, pnl : Int, halted : BOOLEAN]

\* The loop's local variables, apart from the rest of its state.
FrameTypeOK ==
    /\ cfg \in Configs
    /\ lost \in SUBSET Refs
    /\ found \in Listings
    /\ sum \in Int
    /\ snap \in Snapshots
    /\ rowDay \in Days
    /\ count \in Nat
    /\ outcomes \in SUBSET Outcomes
    /\ credit \in SUBSET Ids

\* The rest of it.
ControlTypeOK ==
    /\ pc \in Ticking \cup {"down", "failed", "idle"}
    /\ booting \in BOOLEAN
    /\ confirmed \in BOOLEAN
    /\ faults \in 0 .. MaxFaults
    /\ crashes \in 0 .. MaxCrashes
    /\ booked \in [Days -> SUBSET Ids]

LEMMA LoopTypeParts == LoopTypeOK <=> FrameTypeOK /\ ControlTypeOK
  BY DEF LoopTypeOK, FrameTypeOK, ControlTypeOK, Snapshots

LEMMA LoopTypePartsNext == LoopTypeOK' <=> FrameTypeOK' /\ ControlTypeOK'
  BY DEF LoopTypeOK, FrameTypeOK, ControlTypeOK, Snapshots

---------------------------------------------------------------------------
(* What is left alone keeps its type.                                      *)

LEMMA BrokerSame == ASSUME BrokerTypeOK, UNCHANGED brokerVars PROVE BrokerTypeOK'
  BY DEF BrokerTypeOK, brokerVars

LEMMA DatabaseSame ==
    ASSUME DatabaseTypeOK, UNCHANGED <<tables, clocks>>
    PROVE  DatabaseTypeOK'
  BY DEF DatabaseTypeOK, tables, clocks

LEMMA LoopSame == ASSUME LoopTypeOK, UNCHANGED loopVars PROVE LoopTypeOK'
  BY DEF LoopTypeOK, loopVars, process, frame, budget

LEMMA FrameSame == ASSUME FrameTypeOK, UNCHANGED frame PROVE FrameTypeOK'
  BY DEF FrameTypeOK, frame

LEMMA HandlersSame == ASSUME HandlersTypeOK, UNCHANGED handlerVars PROVE HandlersTypeOK'
  BY DEF HandlersTypeOK, handlerVars

---------------------------------------------------------------------------
(* The data the operations build.                                          *)

LEMMA DayOne == 1 \in Days
  BY DatabaseAssumption DEF Days

LEMMA StopZero == 0 \in Stops /\ NoStop \in Stops
  BY BrokerAssumption DEF Stops, NoStop

LEMMA StartNewDayType ==
    ASSUME NEW d \in Days, NEW equity \in Int
    PROVE  StartNewDay(d, equity) \in Snapshots
  BY DEF StartNewDay, Snapshots

LEMMA RecordPnlType ==
    ASSUME NEW s \in Snapshots, NEW pnl \in Int, NEW pct \in Int
    PROVE  RecordPnl(s, pnl, pct) \in Snapshots
<1> DEFINE total == s.pnl + pnl
           halted == s.halted \/ LimitReached(s.start, total, pct)
<1>1. halted \in BOOLEAN
  BY DEF Snapshots, LimitReached
<1>2. total \in Int
  BY DEF Snapshots
<1>3. RecordPnl(s, pnl, pct) = [s EXCEPT !.pnl = total, !.halted = halted]
  BY DEF RecordPnl
<1> HIDE DEF total, halted
<1> QED BY <1>1, <1>2, <1>3 DEF Snapshots

LEMMA SnapshotOfType ==
    ASSUME DatabaseTypeOK, NEW d \in Days
    PROVE  SnapshotOf(d) \in Snapshots
  BY DEF DatabaseTypeOK, SnapshotOf, Snapshots, BreakerRows

LEMMA LoadedType ==
    ASSUME FrameTypeOK, NEW s \in Snapshots
    PROVE  Loaded(s) \in Snapshots
<1>1. sum \in Int /\ cfg.pct \in Int
  BY DEF FrameTypeOK, Configs
<1> QED BY <1>1, RecordPnlType DEF Loaded

LEMMA EquitiesType == ASSUME BrokerTypeOK PROVE Equities \subseteq Int
  BY BrokerAssumption DEF BrokerTypeOK, Equities

LEMMA ListingType == ASSUME BrokerTypeOK PROVE Listing \in Listings
  BY DEF BrokerTypeOK, Listing, Listings, OpenIds, Positions

\* A listing has one entry per open position.
LEMMA ListingSize ==
    /\ IsFiniteSet(OpenIds)
    /\ IsFiniteSet(Listing)
    /\ Cardinality(Listing) = Cardinality(OpenIds)
    /\ Cardinality(Listing) \in Nat
<1> DEFINE entry == [i \in OpenIds |-> [id |-> i, stop |-> pos[i].stop]]
<1>1. IsFiniteSet(OpenIds)
  BY BrokerAssumption, FS_Subset DEF OpenIds
<1>2. entry \in Bijection(OpenIds, Listing)
  <2>1. entry \in [OpenIds -> Listing]
    BY DEF Listing
  <2>2. \A i, j \in OpenIds : entry[i] = entry[j] => i = j
    BY Zenon
  <2>3. \A e \in Listing : \E i \in OpenIds : entry[i] = e
    BY DEF Listing
  <2>4. entry \in Injection(OpenIds, Listing)
    <3> HIDE DEF entry
    <3>1. DOMAIN entry = OpenIds
      BY <2>1
    <3> QED BY <2>1, <2>2, <3>1, Zenon DEF Injection, IsInjective
  <2>5. entry \in Surjection(OpenIds, Listing)
    <3> HIDE DEF entry
    <3> QED BY <2>1, <2>3, Zenon DEF Surjection
  <2> QED BY <2>4, <2>5, Zenon DEF Bijection
<1>3. ExistsBijection(OpenIds, Listing)
  BY <1>2 DEF ExistsBijection
<1>4. IsFiniteSet(Listing) /\ Cardinality(Listing) = Cardinality(OpenIds)
  BY <1>1, <1>3, FS_Bijection
<1> QED BY <1>1, <1>4, FS_CardinalityType

\* A non-empty set of rows has a last one.
LEMMA LastOpenRowType ==
    ASSUME DatabaseTypeOK, NEW i \in KnownIds
    PROVE  <<i, LastOpenRow(i)>> \in Refs
<1> DEFINE n == Len(rows[i])
           back == {n - k : k \in OpenRows(i)}
<1>1. i \in Ids /\ OpenRows(i) # {}
  BY DEF KnownIds
<1>2. rows[i] \in Seq(Rows) /\ n \in Nat
  BY <1>1 DEF DatabaseTypeOK
<1>3. OpenRows(i) \subseteq 1 .. n
  BY <1>2 DEF OpenRows
<1>4. back \subseteq Nat /\ back # {}
  BY <1>1, <1>2, <1>3
<1>5. PICK m \in back : \A y \in back : ~(<<y, m>> \in OpToRel(<, Nat))
  <2> HIDE DEF back
  <2> QED BY <1>4, NatLessThanWellFounded, WFMin
<1>6. \A y \in back : m <= y
  <2> HIDE DEF back
  <2> SUFFICES ASSUME NEW y \in back, ~(m <= y) PROVE FALSE
    OBVIOUS
  <2>1. y \in Nat /\ m \in Nat /\ y < m
    BY <1>4
  <2>2. <<y, m>> \in OpToRel(<, Nat)
    BY <2>1 DEF OpToRel
  <2> QED BY <1>5, <2>2
<1>7. PICK k \in OpenRows(i) : m = n - k
  BY <1>5
<1>8. \A j \in OpenRows(i) : j <= k
  <2> SUFFICES ASSUME NEW j \in OpenRows(i) PROVE j <= k
    OBVIOUS
  <2>1. n - j \in back
    OBVIOUS
  <2>2. n - k <= n - j
    BY <2>1, <1>6, <1>7
  <2>3. j \in Nat /\ k \in Nat
    BY <1>3
  <2> QED BY <1>2, <2>2, <2>3
<1>9. LastOpenRow(i) \in OpenRows(i)
  BY <1>7, <1>8 DEF LastOpenRow
<1> QED BY <1>1, <1>2, <1>3, <1>9 DEF Refs

---------------------------------------------------------------------------
(* The endings that the loop's actions share.                              *)

LEMMA ForgetType == ASSUME Forget PROVE FrameTypeOK'
<1>1. NoConfig \in Configs
  BY DEF NoConfig, Configs
<1>2. StartNewDay(1, 0) \in Snapshots
  BY DayOne, StartNewDayType
<1> QED BY <1>1, <1>2, DayOne DEF Forget, FrameTypeOK, Listings

LEMMA FaultType == ASSUME ControlTypeOK, Fault PROVE faults' \in 0 .. MaxFaults
  BY TradingLoopAssumption DEF ControlTypeOK, Fault

LEMMA RaiseType ==
    ASSUME ControlTypeOK, Raise, faults' \in 0 .. MaxFaults
    PROVE  LoopTypeOK'
<1>1. FrameTypeOK'
  BY ForgetType DEF Raise
<1>2. ControlTypeOK'
  BY DEF Raise, ControlTypeOK
<1> QED BY <1>1, <1>2, LoopTypePartsNext

LEMMA GoToType ==
    ASSUME ControlTypeOK, NEW next \in Ticking, GoTo(next), FrameTypeOK'
    PROVE  LoopTypeOK'
<1>1. ControlTypeOK'
  BY DEF GoTo, ControlTypeOK, process, budget
<1> QED BY <1>1, LoopTypePartsNext

---------------------------------------------------------------------------
(* What the calls change.                                                  *)

LEMMA OpenPositionType ==
    ASSUME BrokerTypeOK, NEW i \in Ids, NEW who \in {"bot", "late", "owner"},
           NEW stop \in Stops, OpenPosition(i, who, stop), pending' \in Nat
    PROVE  BrokerTypeOK'
<1>1. [st |-> "open", by |-> who, stop |-> stop, given |-> NoStop, pnl |-> 0] \in Positions
  BY StopZero DEF Positions
<1> QED BY <1>1 DEF OpenPosition, BrokerTypeOK

LEMMA ClosePositionType ==
    ASSUME BrokerTypeOK, NEW i \in Ids, NEW pnl \in Int, ClosePosition(i, pnl)
    PROVE  BrokerTypeOK'
<1> DEFINE new == [pos[i] EXCEPT !.st = "closed", !.stop = NoStop, !.given = NoStop, !.pnl = pnl]
<1>1. new \in Positions
  BY StopZero DEF BrokerTypeOK, Positions
<1>2. pos' = [pos EXCEPT ![i] = new]
  BY DEF ClosePosition
<1> QED BY <1>1, <1>2 DEF ClosePosition, BrokerTypeOK

LEMMA ModifyStopLossType ==
    ASSUME BrokerTypeOK, NEW i \in Ids, NEW stop \in Stops, ModifyStopLoss(i, stop)
    PROVE  BrokerTypeOK'
<1> DEFINE new == [pos[i] EXCEPT !.stop = stop]
<1>1. new \in Positions
  BY DEF BrokerTypeOK, Positions
<1>2. pos' = [pos EXCEPT ![i] = new]
  BY DEF ModifyStopLoss
<1> QED BY <1>1, <1>2 DEF ModifyStopLoss, BrokerTypeOK

LEMMA MoveByHandType ==
    ASSUME BrokerTypeOK, NEW i \in Ids, NEW stop \in Stops, MoveByHand(i, stop)
    PROVE  BrokerTypeOK'
<1> DEFINE given == IF pos[i].stop > stop /\ pos[i].stop > pos[i].given THEN pos[i].stop ELSE pos[i].given
           new == [pos[i] EXCEPT !.stop = stop, !.given = given]
<1>1. new \in Positions
  BY DEF BrokerTypeOK, Positions
<1>2. pos' = [pos EXCEPT ![i] = new]
  BY DEF MoveByHand, BrokerTypeOK, Positions
<1> QED BY <1>1, <1>2 DEF MoveByHand, BrokerTypeOK

\* The writes to trades, with everything else in the tables left alone.
LEMMA RowsType ==
    ASSUME DatabaseTypeOK, rows' \in [Ids -> Seq(Rows)], UNCHANGED <<config, breaker, clocks>>
    PROVE  DatabaseTypeOK'
  BY DEF DatabaseTypeOK, clocks

LEMMA CreateTradeType ==
    ASSUME DatabaseTypeOK, NEW i \in Ids, NEW stop \in Stops, CreateTrade(i, stop)
    PROVE  rows' \in [Ids -> Seq(Rows)]
<1> DEFINE row == [status |-> "open", stop |-> stop]
<1>1. row \in Rows
  BY DEF Rows
<1>2. Append(rows[i], row) \in Seq(Rows)
  BY <1>1 DEF DatabaseTypeOK
<1>3. rows' = [rows EXCEPT ![i] = Append(rows[i], row)]
  BY DEF CreateTrade
<1> QED BY <1>2, <1>3 DEF DatabaseTypeOK

\* A row changed in place, whether or not it is there.
LEMMA RowChanged ==
    ASSUME DatabaseTypeOK, NEW i \in Ids, NEW k, NEW row,
           rows[i][k] \in Rows => row \in Rows,
           rows' = [rows EXCEPT ![i] = [rows[i] EXCEPT ![k] = row]]
    PROVE  rows' \in [Ids -> Seq(Rows)]
<1> DEFINE new == [rows[i] EXCEPT ![k] = row]
<1>1. rows[i] \in Seq(Rows)
  BY DEF DatabaseTypeOK
<1>2. CASE k \in DOMAIN rows[i]
  <2>1. new \in Seq(Rows)
    BY <1>1, <1>2
  <2> QED BY <2>1 DEF DatabaseTypeOK
<1>3. CASE k \notin DOMAIN rows[i]
  <2>1. new = rows[i]
    BY <1>1, <1>3
  <2>2. new \in Seq(Rows)
    BY <1>1, <2>1
  <2> QED BY <2>2 DEF DatabaseTypeOK
<1> QED BY <1>2, <1>3

LEMMA CloseTradeType ==
    ASSUME DatabaseTypeOK, NEW r \in Refs, CloseTrade(r)
    PROVE  rows' \in [Ids -> Seq(Rows)]
<1> DEFINE row == [rows[r[1]][r[2]] EXCEPT !.status = "closed"]
<1>1. r[1] \in Ids
  BY DEF Refs
<1>2. rows[r[1]][r[2]] \in Rows => row \in Rows
  BY DEF Rows
<1>3. rows' = [rows EXCEPT ![r[1]] = [rows[r[1]] EXCEPT ![r[2]] = row]]
  BY DEF CloseTrade
<1> HIDE DEF row
<1> QED BY <1>1, <1>2, <1>3, RowChanged

LEMMA UpdateTradeStopType ==
    ASSUME DatabaseTypeOK, NEW i \in Ids, NEW stop \in Stops, UpdateTradeStop(<<i, 1>>, stop)
    PROVE  rows' \in [Ids -> Seq(Rows)]
<1> DEFINE row == [rows[i][1] EXCEPT !.stop = stop]
<1>1. rows[i][1] \in Rows => row \in Rows
  BY DEF Rows
<1>2. rows' = [rows EXCEPT ![i] = [rows[i] EXCEPT ![1] = row]]
  BY DEF UpdateTradeStop
<1> HIDE DEF row
<1> QED BY <1>1, <1>2, RowChanged

\* The writes to circuit_breaker_state, with the other tables left alone.
LEMMA BreakerType ==
    ASSUME DatabaseTypeOK, NEW d \in Days, NEW row \in BreakerRows,
           breaker' = [breaker EXCEPT ![d] = row], UNCHANGED <<rows, config, clocks>>
    PROVE  DatabaseTypeOK'
  BY DEF DatabaseTypeOK, clocks

LEMMA InsertBreakerRowType ==
    ASSUME DatabaseTypeOK, NEW d \in Days, NEW equity \in Int,
           InsertBreakerRow(d, equity), UNCHANGED <<rows, config, clocks>>
    PROVE  DatabaseTypeOK'
<1> DEFINE row == [made |-> TRUE, start |-> equity, pnl |-> 0, halted |-> FALSE]
<1>1. row \in BreakerRows
  BY DEF BreakerRows
<1>2. breaker' = [breaker EXCEPT ![d] = row]
  BY DEF InsertBreakerRow
<1> HIDE DEF row
<1> QED BY <1>1, <1>2, BreakerType

LEMMA UpdateBreakerRowType ==
    ASSUME DatabaseTypeOK, NEW d \in Days, NEW s \in Snapshots,
           UpdateBreakerRow(d, s), UNCHANGED <<rows, config, clocks>>
    PROVE  DatabaseTypeOK'
<1> DEFINE row == [[breaker[d] EXCEPT !.pnl = s.pnl] EXCEPT !.halted = s.halted]
<1>1. row \in BreakerRows
  BY DEF DatabaseTypeOK, BreakerRows, Snapshots
<1>2. breaker' = [breaker EXCEPT ![d] = row]
  BY DEF UpdateBreakerRow, DatabaseTypeOK, BreakerRows
<1> HIDE DEF row
<1> QED BY <1>1, <1>2, BreakerType

LEMMA ConfigType ==
    ASSUME DatabaseTypeOK, config' \in Configs, UNCHANGED <<rows, breaker, clocks>>
    PROVE  DatabaseTypeOK'
  BY DEF DatabaseTypeOK, clocks

---------------------------------------------------------------------------
(* The actions of the loop.                                                *)

LEMMA ReconcileType ==
    ASSUME BrokerTypeOK, DatabaseTypeOK, FrameTypeOK, ControlTypeOK, ReconcileStep, UNCHANGED clocks
    PROVE  BrokerTypeOK' /\ DatabaseTypeOK' /\ LoopTypeOK'
<1>1. CASE ReconcileList
  <2>1. FrameTypeOK'
    BY <1>1, ListingType DEF ReconcileList, FrameTypeOK
  <2>2. LoopTypeOK'
    BY <1>1, <2>1, GoToType DEF ReconcileList, Ticking
  <2> QED BY <1>1, <2>2, BrokerSame, DatabaseSame DEF ReconcileList
<1>2. CASE ReconcileRows
  <2>1. ToClose \in SUBSET Refs
    BY LastOpenRowType DEF ToClose
  <2>2. ToAdopt \in Listings
    BY DEF FrameTypeOK, ToAdopt, Listings
  <2>3. FrameTypeOK'
    BY <1>2, <2>1, <2>2 DEF ReconcileRows, FrameTypeOK
  <2>4. LoopTypeOK'
    BY <1>2, <2>3, GoToType DEF ReconcileRows, Ticking
  <2> QED BY <1>2, <2>4, BrokerSame, DatabaseSame DEF ReconcileRows
<1>3. CASE ReconcileDone
  <2>1. FrameTypeOK'
    BY <1>3, ForgetType, FrameSame DEF ReconcileDone
  <2>2. ControlTypeOK'
    BY <1>3 DEF ReconcileDone, ControlTypeOK, budget, Ticking
  <2> QED BY <1>3, <2>1, <2>2, LoopTypePartsNext, BrokerSame, DatabaseSame DEF ReconcileDone
<1>4. ASSUME NEW r \in lost, ReconcileClose(r) PROVE BrokerTypeOK' /\ DatabaseTypeOK' /\ LoopTypeOK'
  <2>1. r \in Refs /\ r[1] \in Ids
    BY DEF FrameTypeOK, Refs
  <2>2. pos[r[1]].pnl \in Int
    BY <2>1 DEF BrokerTypeOK, Positions
  <2>3. FrameTypeOK'
    BY <1>4, <2>1, <2>2 DEF ReconcileClose, FrameTypeOK
  <2>4. LoopTypeOK'
    BY <1>4, <2>3, GoToType DEF ReconcileClose, Ticking
  <2>5. DatabaseTypeOK'
    BY <1>4, <2>1, CloseTradeType, RowsType DEF ReconcileClose
  <2> QED BY <1>4, <2>4, <2>5, BrokerSame DEF ReconcileClose
<1>5. ASSUME NEW r \in lost, ReconcileLookupFails(r) PROVE BrokerTypeOK' /\ DatabaseTypeOK' /\ LoopTypeOK'
  <2>1. r \in Refs
    BY DEF FrameTypeOK
  <2>2. FrameTypeOK'
    BY <1>5 DEF ReconcileLookupFails, FrameTypeOK
  <2>3. ControlTypeOK'
    BY <1>5, FaultType DEF ReconcileLookupFails, ControlTypeOK, process
  <2>4. DatabaseTypeOK'
    BY <1>5, <2>1, CloseTradeType, RowsType DEF ReconcileLookupFails
  <2> QED BY <1>5, <2>2, <2>3, <2>4, LoopTypePartsNext, BrokerSame DEF ReconcileLookupFails
<1>6. ASSUME NEW r \in lost, ReconcileHistoryLags(r) PROVE BrokerTypeOK' /\ DatabaseTypeOK' /\ LoopTypeOK'
  <2>1. r \in Refs
    BY DEF FrameTypeOK
  <2>2. faults' \in 0 .. MaxFaults
    BY <1>6, FaultType DEF ReconcileHistoryLags, ControlTypeOK
  <2>3. LoopTypeOK'
    BY <1>6, <2>2, RaiseType DEF ReconcileHistoryLags
  <2>4. DatabaseTypeOK'
    BY <1>6, <2>1, CloseTradeType, RowsType DEF ReconcileHistoryLags
  <2> QED BY <1>6, <2>3, <2>4, BrokerSame DEF ReconcileHistoryLags
<1>7. ASSUME NEW e \in found, ReconcileAdopt(e) PROVE BrokerTypeOK' /\ DatabaseTypeOK' /\ LoopTypeOK'
  <2>1. e.id \in Ids /\ e.stop \in Stops
    BY DEF FrameTypeOK, Listings
  <2>2. FrameTypeOK'
    BY <1>7 DEF ReconcileAdopt, FrameTypeOK, Listings
  <2>3. LoopTypeOK'
    BY <1>7, <2>2, GoToType DEF ReconcileAdopt, Ticking
  <2>4. DatabaseTypeOK'
    BY <1>7, <2>1, CreateTradeType, RowsType DEF ReconcileAdopt
  <2> QED BY <1>7, <2>3, <2>4, BrokerSame DEF ReconcileAdopt
<1> QED BY <1>1, <1>2, <1>3, <1>4, <1>5, <1>6, <1>7 DEF ReconcileStep

LEMMA BreakerStepType ==
    ASSUME BrokerTypeOK, DatabaseTypeOK, FrameTypeOK, ControlTypeOK, BreakerStep, UNCHANGED clocks
    PROVE  BrokerTypeOK' /\ DatabaseTypeOK' /\ LoopTypeOK'
<1>1. CASE BreakerSelect
  <2>1. localDay \in Days /\ utcDay \in Days
    BY DEF DatabaseTypeOK
  <2>2. PICK equity \in Equities :
          \/ snap' = StartNewDay(utcDay, equity) /\ (GoTo("insert") \/ GoTo("renew"))
          \/ snap' = Loaded(SnapshotOf(localDay)) /\ GoTo("fetch")
    BY <1>1 DEF BreakerSelect
  <2>3. equity \in Int
    BY EquitiesType
  <2>4. snap' \in Snapshots
    BY <2>1, <2>2, <2>3, SnapshotOfType, LoadedType, StartNewDayType
  <2>5. FrameTypeOK'
    BY <1>1, <2>1, <2>4 DEF BreakerSelect, FrameTypeOK
  <2>6. LoopTypeOK'
    BY <2>2, <2>5, GoToType DEF Ticking
  <2> QED BY <1>1, <2>6, BrokerSame, DatabaseSame DEF BreakerSelect
<1>2. CASE BreakerInsert \/ BreakerReinsert
  <2>1. rowDay \in Days /\ snap.start \in Int
    BY DEF FrameTypeOK, Snapshots
  <2>2. snap \in Snapshots /\ StartNewDay(rowDay, snap.start) \in Snapshots
    BY <2>1, StartNewDayType DEF FrameTypeOK
  <2>3. snap' \in Snapshots
    BY <1>2, <2>2, LoadedType DEF BreakerInsert, BreakerReinsert
  <2>4. FrameTypeOK'
    BY <1>2, <2>3 DEF BreakerInsert, BreakerReinsert, FrameTypeOK
  <2>5. LoopTypeOK'
    BY <1>2, <2>4, GoToType DEF BreakerInsert, BreakerReinsert, Ticking
  <2>6. DatabaseTypeOK'
    BY <1>2, <2>1, InsertBreakerRowType DEF BreakerInsert, BreakerReinsert
  <2> QED BY <1>2, <2>5, <2>6, BrokerSame DEF BreakerInsert, BreakerReinsert
<1>3. CASE BreakerReselect
  <2>1. localDay \in Days /\ snap \in Snapshots
    BY DEF DatabaseTypeOK, FrameTypeOK
  <2>2. snap' \in Snapshots
    BY <1>3, <2>1, LoadedType DEF BreakerReselect
  <2>3. FrameTypeOK'
    BY <1>3, <2>1, <2>2 DEF BreakerReselect, FrameTypeOK
  <2>4. LoopTypeOK'
    BY <1>3, <2>3, GoToType DEF BreakerReselect, Ticking
  <2> QED BY <1>3, <2>4, BrokerSame, DatabaseSame DEF BreakerReselect
<1>4. CASE BreakerInsertConflicts
  <2>1. LoopTypeOK'
    BY <1>4, RaiseType DEF BreakerInsertConflicts, ControlTypeOK
  <2> QED BY <1>4, <2>1, BrokerSame, DatabaseSame DEF BreakerInsertConflicts
<1> QED BY <1>1, <1>2, <1>3, <1>4 DEF BreakerStep

LEMMA ManagedType ==
    ASSUME FrameTypeOK, ControlTypeOK, NEW e \in found, NEW stop \in Stops,
           NEW kind \in {"move", "close"}, Managed(e, stop, kind)
    PROVE  LoopTypeOK'
<1>1. e.id \in Ids
  BY DEF FrameTypeOK, Listings
<1>2. [id |-> e.id, stop |-> stop, kind |-> kind, applied |-> FALSE] \in Outcomes
  BY <1>1 DEF Outcomes
<1>3. FrameTypeOK'
  BY <1>2 DEF Managed, FrameTypeOK, Listings
<1> QED BY <1>3, GoToType DEF Managed, Ticking

LEMMA ApplyOutcomeType ==
    ASSUME BrokerTypeOK, DatabaseTypeOK, FrameTypeOK, ControlTypeOK, UNCHANGED clocks,
           NEW o \in outcomes, ApplyOutcome(o)
    PROVE  DatabaseTypeOK' /\ LoopTypeOK'
<1>1. o \in Outcomes /\ o.id \in Ids /\ o.stop \in Stops /\ o.kind \in {"move", "close"}
  BY DEF FrameTypeOK, Outcomes
<1>2. rows[o.id] \in Seq(Rows)
  BY <1>1 DEF DatabaseTypeOK
<1>3. CASE Len(rows[o.id]) > 1
  <2>1. LoopTypeOK'
    BY <1>3, RaiseType DEF ApplyOutcome, ControlTypeOK
  <2> QED BY <1>3, <2>1, DatabaseSame DEF ApplyOutcome, tables
<1>4. CASE ~(Len(rows[o.id]) > 1)
  <2>1. /\ outcomes' = (outcomes \ {o}) \cup {[o EXCEPT !.applied = TRUE]}
        /\ WriteOutcome(o)
        /\ GoTo("outcomes")
        /\ UNCHANGED <<cfg, lost, found, sum, rowDay, count, config, breaker>>
    BY <1>4 DEF ApplyOutcome
  <2>2. outcomes' \in SUBSET Outcomes
    BY <2>1, <1>1 DEF FrameTypeOK, Outcomes
  <2>3. rows' \in [Ids -> Seq(Rows)] /\ snap' \in Snapshots /\ credit' \in SUBSET Ids
    <3>1. CASE rows[o.id] = <<>>
      BY <3>1, <2>1 DEF WriteOutcome, DatabaseTypeOK, FrameTypeOK
    <3>2. CASE rows[o.id] # <<>> /\ o.kind = "move"
      <4>1. UpdateTradeStop(<<o.id, 1>>, o.stop) /\ UNCHANGED <<snap, credit>>
        BY <3>2, <2>1, <1>2 DEF WriteOutcome
      <4> QED BY <4>1, <1>1, UpdateTradeStopType DEF FrameTypeOK
    <3>3. CASE rows[o.id] # <<>> /\ o.kind = "close"
      <4>1. /\ CloseTrade(<<o.id, 1>>)
            /\ snap' = RecordPnl(snap, pos[o.id].pnl, cfg.pct)
            /\ credit' = credit \cup {o.id}
        BY <3>3, <2>1, <1>2 DEF WriteOutcome
      <4>2. <<o.id, 1>> \in Refs
        BY <1>1 DEF Refs
      <4>3. pos[o.id].pnl \in Int /\ cfg.pct \in Int
        BY <1>1 DEF BrokerTypeOK, Positions, FrameTypeOK, Configs
      <4>4. snap' \in Snapshots
        BY <4>1, <4>3, RecordPnlType DEF FrameTypeOK
      <4> QED BY <4>1, <4>2, <4>4, <1>1, CloseTradeType DEF FrameTypeOK
    <3> QED BY <3>1, <3>2, <3>3, <1>1
  <2>4. FrameTypeOK'
    BY <2>1, <2>2, <2>3 DEF FrameTypeOK
  <2>5. LoopTypeOK'
    BY <2>1, <2>4, GoToType DEF Ticking
  <2> QED BY <2>1, <2>3, <2>5, RowsType
<1> QED BY <1>3, <1>4

LEMMA ManageType ==
    ASSUME BrokerTypeOK, DatabaseTypeOK, FrameTypeOK, ControlTypeOK, ManageStep, UNCHANGED clocks
    PROVE  BrokerTypeOK' /\ DatabaseTypeOK' /\ LoopTypeOK'
<1>1. CASE FetchPositions
  <2>1. FrameTypeOK'
    BY <1>1, ListingType, ListingSize DEF FetchPositions, FrameTypeOK
  <2>2. LoopTypeOK'
    BY <1>1, <2>1, GoToType DEF FetchPositions, Ticking
  <2> QED BY <1>1, <2>2, BrokerSame, DatabaseSame DEF FetchPositions
<1>2. CASE ManageDone
  <2>1. FrameTypeOK'
    BY <1>2 DEF ManageDone, FrameTypeOK, Listings
  <2>2. LoopTypeOK'
    BY <1>2, <2>1, GoToType DEF ManageDone, Ticking
  <2> QED BY <1>2, <2>2, BrokerSame, DatabaseSame DEF ManageDone
<1>3. CASE OutcomesDone
  <2>1. FrameTypeOK'
    BY <1>3, ListingSize DEF OutcomesDone, FrameTypeOK
  <2>2. LoopTypeOK'
    BY <1>3, <2>1, GoToType DEF OutcomesDone, Ticking
  <2> QED BY <1>3, <2>2, BrokerSame, DatabaseSame DEF OutcomesDone
<1>4. ASSUME NEW e \in found, ManageRefused(e) PROVE BrokerTypeOK' /\ DatabaseTypeOK' /\ LoopTypeOK'
  <2>1. LoopTypeOK'
    BY <1>4, RaiseType DEF ManageRefused, ControlTypeOK
  <2> QED BY <1>4, <2>1, BrokerSame, DatabaseSame DEF ManageRefused
<1>5. ASSUME NEW e \in found, NEW p \in Pnls, ManageClose(e, p)
      PROVE BrokerTypeOK' /\ DatabaseTypeOK' /\ LoopTypeOK'
  <2>1. e.id \in Ids /\ e.stop \in Stops /\ p \in Int
    BY BrokerAssumption DEF FrameTypeOK, Listings
  <2>2. LoopTypeOK'
    BY <1>5, <2>1, ManagedType DEF ManageClose
  <2> QED BY <1>5, <2>1, <2>2, ClosePositionType, DatabaseSame DEF ManageClose, Managed
<1>6. ASSUME NEW e \in found, NEW p \in Pnls, ManageCloseUnconfirmed(e, p)
      PROVE BrokerTypeOK' /\ DatabaseTypeOK' /\ LoopTypeOK'
  <2>1. e.id \in Ids /\ p \in Int
    BY BrokerAssumption DEF FrameTypeOK, Listings
  <2>2. LoopTypeOK'
    BY <1>6, FaultType, RaiseType DEF ManageCloseUnconfirmed
  <2> QED BY <1>6, <2>1, <2>2, ClosePositionType, DatabaseSame DEF ManageCloseUnconfirmed
<1>7. ASSUME NEW e \in found, NEW s \in 0 .. MaxStop, ManageMove(e, s)
      PROVE BrokerTypeOK' /\ DatabaseTypeOK' /\ LoopTypeOK'
  <2>1. e.id \in Ids /\ s \in Stops
    BY BrokerAssumption DEF FrameTypeOK, Listings, Stops, NoStop
  <2>2. LoopTypeOK'
    BY <1>7, <2>1, ManagedType DEF ManageMove
  <2> QED BY <1>7, <2>1, <2>2, ModifyStopLossType, DatabaseSame DEF ManageMove, Managed
<1>8. ASSUME NEW o \in outcomes, ApplyOutcome(o) PROVE BrokerTypeOK' /\ DatabaseTypeOK' /\ LoopTypeOK'
  BY <1>8, ApplyOutcomeType, BrokerSame DEF ApplyOutcome
<1> QED BY <1>1, <1>2, <1>3, <1>4, <1>5, <1>6, <1>7, <1>8 DEF ManageStep

LEMMA EntryType ==
    ASSUME BrokerTypeOK, DatabaseTypeOK, FrameTypeOK, ControlTypeOK, EntryStep, UNCHANGED clocks
    PROVE  BrokerTypeOK' /\ DatabaseTypeOK' /\ LoopTypeOK'
<1>1. CASE FlipEnds
  <2>1. config' \in Configs
    BY <1>1 DEF FlipEnds, DatabaseTypeOK, Configs
  <2>2. LoopTypeOK'
    BY <1>1, FrameSame, GoToType DEF FlipEnds, Ticking
  <2> QED BY <1>1, <2>1, <2>2, BrokerSame, ConfigType DEF FlipEnds
<1>2. CASE FlipJudged \/ FlipGoesOn
  <2>1. LoopTypeOK'
    BY <1>2, FrameSame, GoToType DEF FlipJudged, FlipGoesOn, Ticking
  <2> QED BY <1>2, <2>1, BrokerSame, DatabaseSame DEF FlipJudged, FlipGoesOn
<1>3. CASE NoEntry
  <2>1. LoopTypeOK'
    BY <1>3, FrameSame, GoToType DEF NoEntry, Ticking
  <2> QED BY <1>3, <2>1, BrokerSame, DatabaseSame DEF NoEntry
<1>4. CASE PlaceOrderLate
  <2>1. LoopTypeOK'
    BY <1>4, FaultType, RaiseType DEF PlaceOrderLate
  <2>2. BrokerTypeOK'
    BY <1>4 DEF PlaceOrderLate, BrokerTypeOK
  <2> QED BY <1>4, <2>1, <2>2, DatabaseSame DEF PlaceOrderLate
<1>5. CASE RecordTrade
  <2>1. PICK e \in found : CreateTrade(e.id, e.stop)
    BY <1>5 DEF RecordTrade
  <2>2. e.id \in Ids /\ e.stop \in Stops
    BY DEF FrameTypeOK, Listings
  <2>3. DatabaseTypeOK'
    BY <1>5, <2>1, <2>2, CreateTradeType, RowsType DEF RecordTrade
  <2>4. FrameTypeOK'
    BY <1>5 DEF RecordTrade, FrameTypeOK, Listings
  <2>5. LoopTypeOK'
    BY <1>5, <2>4, GoToType DEF RecordTrade, Ticking
  <2> QED BY <1>5, <2>3, <2>5, BrokerSame DEF RecordTrade
<1>6. CASE Persist
  <2>1. rowDay \in Days /\ snap \in Snapshots /\ credit \in SUBSET Ids
    BY DEF FrameTypeOK
  <2>2. DatabaseTypeOK'
    BY <1>6, <2>1, UpdateBreakerRowType DEF Persist
  <2>3. ControlTypeOK'
    BY <1>6, <2>1 DEF Persist, ControlTypeOK, process, budget
  <2>4. FrameTypeOK'
    BY <1>6, ForgetType DEF Persist
  <2> QED BY <1>6, <2>2, <2>3, <2>4, LoopTypePartsNext, BrokerSame DEF Persist
<1>7. ASSUME NEW i \in Ids, PlaceOrder(i) PROVE BrokerTypeOK' /\ DatabaseTypeOK' /\ LoopTypeOK'
  <2>1. BrokerTypeOK'
    <3>1. pending' \in Nat
      BY <1>7 DEF PlaceOrder, BrokerTypeOK
    <3> QED BY <1>7, <3>1, StopZero, OpenPositionType DEF PlaceOrder
  <2>2. FrameTypeOK'
    BY <1>7, StopZero DEF PlaceOrder, FrameTypeOK, Listings
  <2>3. LoopTypeOK'
    BY <1>7, <2>2, GoToType DEF PlaceOrder, Ticking
  <2> QED BY <1>7, <2>1, <2>3, DatabaseSame DEF PlaceOrder
<1>8. ASSUME NEW i \in Ids, PlaceOrderLost(i) PROVE BrokerTypeOK' /\ DatabaseTypeOK' /\ LoopTypeOK'
  <2>1. BrokerTypeOK'
    <3>1. pending' \in Nat
      BY <1>8 DEF PlaceOrderLost, BrokerTypeOK
    <3> QED BY <1>8, <3>1, StopZero, OpenPositionType DEF PlaceOrderLost
  <2>2. LoopTypeOK'
    BY <1>8, FaultType, RaiseType DEF PlaceOrderLost
  <2> QED BY <1>8, <2>1, <2>2, DatabaseSame DEF PlaceOrderLost
<1> QED BY <1>1, <1>2, <1>3, <1>4, <1>5, <1>6, <1>7, <1>8 DEF EntryStep

LEMMA LoopType ==
    ASSUME TypeOK, Loop
    PROVE  TypeOK'
<1>1. BrokerTypeOK /\ DatabaseTypeOK /\ FrameTypeOK /\ ControlTypeOK /\ HandlersTypeOK
  BY LoopTypeParts DEF TypeOK
<1>2. UNCHANGED clocks /\ HandlersTypeOK'
  BY <1>1, HandlersSame DEF Loop
<1>3. ASSUME BrokerTypeOK' /\ DatabaseTypeOK' /\ LoopTypeOK' PROVE TypeOK'
  BY <1>2, <1>3 DEF TypeOK
<1>4. CASE TickStart
  <2>1. FrameTypeOK'
    BY <1>1, <1>4 DEF TickStart, FrameTypeOK, DatabaseTypeOK
  <2>2. LoopTypeOK'
    BY <1>1, <1>4, <2>1, GoToType DEF TickStart, Ticking
  <2> QED BY <1>1, <1>2, <1>3, <1>4, <2>2, BrokerSame, DatabaseSame DEF TickStart
<1>5. CASE TickPaused
  <2>1. LoopTypeOK'
    BY <1>1, <1>5, LoopTypeParts, LoopSame DEF TickPaused
  <2> QED BY <1>1, <1>2, <1>3, <1>5, <2>1, BrokerSame, DatabaseSame DEF TickPaused
<1>6. CASE TickFails
  <2>1. LoopTypeOK'
    BY <1>1, <1>6, FaultType, RaiseType DEF TickFails
  <2> QED BY <1>1, <1>2, <1>3, <1>6, <2>1, BrokerSame, DatabaseSame DEF TickFails
<1>7. CASE Restart
  <2>1. ControlTypeOK'
    BY <1>1, <1>7, TradingLoopAssumption DEF Restart, ControlTypeOK, budget, Ticking
  <2>2. LoopTypeOK'
    BY <1>1, <1>7, <2>1, FrameSame, LoopTypePartsNext DEF Restart
  <2> QED BY <1>1, <1>2, <1>3, <1>7, <2>2, BrokerSame, DatabaseSame DEF Restart
<1>8. CASE ReconcileStep
  BY <1>1, <1>2, <1>3, <1>8, ReconcileType
<1>9. CASE BreakerStep
  BY <1>1, <1>2, <1>3, <1>9, BreakerStepType
<1>10. CASE ManageStep
  BY <1>1, <1>2, <1>3, <1>10, ManageType
<1>11. CASE EntryStep
  BY <1>1, <1>2, <1>3, <1>11, EntryType
<1> QED BY <1>4, <1>5, <1>6, <1>7, <1>8, <1>9, <1>10, <1>11 DEF Loop, TickStep

---------------------------------------------------------------------------
(* The requests.                                                           *)

LEMMA OpenTradesType == ASSUME DatabaseTypeOK PROVE OpenTrades \in SUBSET Refs
<1> SUFFICES ASSUME NEW i \in Ids, NEW k \in DOMAIN rows[i] PROVE <<i, k>> \in Refs
  BY DEF OpenTrades, Refs
<1>1. rows[i] \in Seq(Rows)
  BY DEF DatabaseTypeOK
<1> QED BY <1>1 DEF Refs

LEMMA RequestType ==
    ASSUME HandlersTypeOK, NEW kind, Request(kind)
    PROVE  requests' \in 0 .. MaxRequests
  BY HandlersAssumption DEF HandlersTypeOK, Request

\* A request that saves a configuration.
LEMMA SetConfigType ==
    ASSUME BrokerTypeOK, DatabaseTypeOK, HandlersTypeOK, UNCHANGED clocks,
           NEW kind, Request(kind), NEW new \in Configs, SetConfig(new), kill' \in KillStates
    PROVE  BrokerTypeOK' /\ DatabaseTypeOK' /\ HandlersTypeOK'
<1>1. HandlersTypeOK'
  BY RequestType DEF HandlersTypeOK, SetConfig
<1> QED BY <1>1, BrokerSame, ConfigType DEF SetConfig

LEMMA AsksType ==
    ASSUME BrokerTypeOK, DatabaseTypeOK, HandlersTypeOK, Asks
    PROVE  BrokerTypeOK' /\ DatabaseTypeOK' /\ HandlersTypeOK'
<1>1. UNCHANGED clocks /\ config \in Configs /\ kill \in KillStates /\ KillOff \in KillStates
  BY DEF Asks, DatabaseTypeOK, HandlersTypeOK, KillOff, KillStates
<1>2. CASE Pause
  <2>1. [config EXCEPT !.paused = TRUE] \in Configs
    BY <1>1 DEF Configs
  <2> QED BY <1>1, <1>2, <2>1, SetConfigType DEF Pause
<1>3. CASE Resume
  <2>1. [config EXCEPT !.paused = FALSE] \in Configs
    BY <1>1 DEF Configs
  <2>2. kill' \in KillStates
    BY <1>1, <1>3 DEF Resume
  <2> QED BY <1>1, <1>3, <2>1, <2>2, SetConfigType DEF Resume
<1>4. CASE RequestLive(confirmed)
  <2>1. [config EXCEPT !.mode = "live"] \in Configs
    BY <1>1 DEF Configs
  <2> QED BY <1>1, <1>4, <2>1, SetConfigType DEF RequestLive
<1>5. CASE RevertPractice
  <2>1. [config EXCEPT !.mode = "practice"] \in Configs
    BY <1>1 DEF Configs
  <2> QED BY <1>1, <1>5, <2>1, SetConfigType DEF RevertPractice
<1>6. CASE UpdateFlipConfig
  <2>1. PICK on \in BOOLEAN, b \in FlipBounds : SetConfig([config EXCEPT !.flip = on, !.bounds = b])
    BY <1>6 DEF UpdateFlipConfig
  <2>2. [config EXCEPT !.flip = on, !.bounds = b] \in Configs
    BY <1>1, DatabaseAssumption DEF Configs
  <2> QED BY <1>1, <1>6, <2>1, <2>2, SetConfigType DEF UpdateFlipConfig
<1>7. CASE UpdateRiskConfig
  <2>1. PICK r \in RiskConfigs : SetConfig([config EXCEPT !.max = r.max, !.pct = r.pct])
    BY <1>7 DEF UpdateRiskConfig
  <2>2. [config EXCEPT !.max = r.max, !.pct = r.pct] \in Configs
    BY <1>1, DatabaseAssumption DEF Configs
  <2> QED BY <1>1, <1>7, <2>1, <2>2, SetConfigType DEF UpdateRiskConfig
<1>8. CASE KillPause
  <2>1. [config EXCEPT !.paused = TRUE] \in Configs
    BY <1>1 DEF Configs
  <2>2. kill' \in KillStates
    BY <1>1, <1>8 DEF KillPause, KillStates
  <2> QED BY <1>1, <1>8, <2>1, <2>2, SetConfigType DEF KillPause
<1>9. ASSUME NEW r \in OpenTrades, NEW p \in Pnls, TelegramClose(r, p)
      PROVE BrokerTypeOK' /\ DatabaseTypeOK' /\ HandlersTypeOK'
  <2>1. r \in Refs /\ r[1] \in Ids /\ p \in Int
    BY OpenTradesType, BrokerAssumption DEF Refs
  <2>2. BrokerTypeOK'
    BY <1>9, <2>1, ClosePositionType DEF TelegramClose
  <2>3. DatabaseTypeOK'
    BY <1>1, <1>9, DatabaseSame DEF TelegramClose, CloseStep, tables
  <2>4. HandlersTypeOK'
    BY <1>9, <2>1, RequestType DEF TelegramClose, CloseStep, HandlersTypeOK
  <2> QED BY <2>2, <2>3, <2>4
<1> QED BY <1>2, <1>3, <1>4, <1>5, <1>6, <1>7, <1>8, <1>9 DEF Asks

\* A step of a kill switch leaves the rest of the handlers' state alone.
LEMMA KillStepType ==
    ASSUME HandlersTypeOK, NEW new \in KillStates, KillStep(new)
    PROVE  HandlersTypeOK'
  BY DEF KillStep, HandlersTypeOK

LEMMA KillType ==
    ASSUME BrokerTypeOK, DatabaseTypeOK, HandlersTypeOK, UNCHANGED clocks,
           \/ KillList \/ KillDone \/ KillAborts
           \/ \E r \in kill.todo : \/ KillRefused(r) \/ KillCloseFails(r)
                                   \/ \E p \in Pnls : KillClose(r, p)
           \/ \E r \in kill.committing : KillCommit(r)
    PROVE  BrokerTypeOK' /\ DatabaseTypeOK' /\ HandlersTypeOK'
<1>1. kill \in KillStates
  BY DEF HandlersTypeOK
<1>2. CASE KillList
  <2>1. [kill EXCEPT !.st = "close", !.todo = OpenTrades] \in KillStates
    BY <1>1, OpenTradesType DEF KillStates
  <2>2. HandlersTypeOK'
    BY <1>2, <2>1, KillStepType DEF KillList
  <2> QED BY <1>2, <2>2, BrokerSame, DatabaseSame DEF KillList, KillStep, tables
<1>3. CASE KillDone
  <2>1. KillOff \in KillStates /\ [kill EXCEPT !.st = "done"] \in KillStates
    BY <1>1 DEF KillStates, KillOff
  <2>2. HandlersTypeOK'
    BY <1>3, <2>1, KillStepType DEF KillDone
  <2> QED BY <1>3, <2>2, BrokerSame, DatabaseSame DEF KillDone, KillStep, tables
<1>4. CASE KillAborts
  <2>1. KillOff \in KillStates
    BY DEF KillStates, KillOff
  <2>2. HandlersTypeOK'
    BY <1>4, <2>1, KillStepType DEF KillAborts
  <2> QED BY <1>4, <2>2, BrokerSame, DatabaseSame DEF KillAborts, KillStep, tables
<1>5. ASSUME NEW r \in kill.todo PROVE
        /\ r \in Refs /\ r[1] \in Ids
        /\ [kill EXCEPT !.todo = @ \ {r}, !.failed = TRUE] \in KillStates
        /\ [kill EXCEPT !.todo = @ \ {r}, !.committing = {r}] \in KillStates
  BY <1>1 DEF KillStates, Refs
<1>6. ASSUME NEW r \in kill.todo, KillRefused(r) PROVE BrokerTypeOK' /\ DatabaseTypeOK' /\ HandlersTypeOK'
  <2>1. HandlersTypeOK'
    BY <1>5, <1>6, KillStepType DEF KillRefused
  <2> QED BY <1>6, <2>1, BrokerSame, DatabaseSame DEF KillRefused, KillStep, tables
<1>7. ASSUME NEW r \in kill.todo, KillCloseFails(r) PROVE BrokerTypeOK' /\ DatabaseTypeOK' /\ HandlersTypeOK'
  <2>1. HandlersTypeOK'
    BY <1>5, <1>7, KillStepType DEF KillCloseFails
  <2>2. BrokerTypeOK'
    BY <1>5, <1>7, BrokerSame, ClosePositionType, BrokerAssumption DEF KillCloseFails
  <2> QED BY <1>7, <2>1, <2>2, DatabaseSame DEF KillCloseFails, KillStep, tables
<1>8. ASSUME NEW r \in kill.todo, NEW p \in Pnls, KillClose(r, p)
      PROVE BrokerTypeOK' /\ DatabaseTypeOK' /\ HandlersTypeOK'
  <2>1. HandlersTypeOK'
    BY <1>5, <1>8, KillStepType DEF KillClose
  <2>2. BrokerTypeOK'
    BY <1>5, <1>8, ClosePositionType, BrokerAssumption DEF KillClose
  <2> QED BY <1>8, <2>1, <2>2, DatabaseSame DEF KillClose, KillStep, tables
<1>9. ASSUME NEW r \in kill.committing, KillCommit(r)
      PROVE BrokerTypeOK' /\ DatabaseTypeOK' /\ HandlersTypeOK'
  <2>1. r \in Refs /\ [kill EXCEPT !.committing = {}] \in KillStates
    BY <1>1 DEF KillStates
  <2>2. HandlersTypeOK'
    BY <1>9, <2>1, KillStepType DEF KillCommit
  <2>3. DatabaseTypeOK'
    BY <1>9, <2>1, CloseTradeType, RowsType DEF KillCommit, KillStep
  <2> QED BY <1>9, <2>2, <2>3, BrokerSame DEF KillCommit
<1> QED BY <1>2, <1>3, <1>4, <1>6, <1>7, <1>8, <1>9

LEMMA CommandType ==
    ASSUME BrokerTypeOK, DatabaseTypeOK, HandlersTypeOK, UNCHANGED clocks,
           \/ TelegramAborts \/ PollSelect
           \/ \E r \in closing : TelegramCommit(r)
           \/ \E d \in poll : PollInsert(d) \/ PollConflicts(d)
    PROVE  BrokerTypeOK' /\ DatabaseTypeOK' /\ HandlersTypeOK'
<1>1. CASE TelegramAborts
  <2>1. HandlersTypeOK'
    BY <1>1 DEF TelegramAborts, CloseStep, HandlersTypeOK
  <2> QED BY <1>1, <2>1, BrokerSame, DatabaseSame DEF TelegramAborts, CloseStep, tables
<1>2. CASE PollSelect
  <2>1. HandlersTypeOK'
    BY <1>2 DEF PollSelect, PollStep, HandlersTypeOK, DatabaseTypeOK
  <2> QED BY <1>2, <2>1, BrokerSame, DatabaseSame DEF PollSelect, PollStep, tables
<1>3. ASSUME NEW r \in closing, TelegramCommit(r) PROVE BrokerTypeOK' /\ DatabaseTypeOK' /\ HandlersTypeOK'
  <2>1. r \in Refs
    BY DEF HandlersTypeOK
  <2>2. HandlersTypeOK'
    BY <1>3 DEF TelegramCommit, CloseStep, HandlersTypeOK
  <2>3. DatabaseTypeOK'
    BY <1>3, <2>1, CloseTradeType, RowsType DEF TelegramCommit, CloseStep
  <2> QED BY <1>3, <2>2, <2>3, BrokerSame DEF TelegramCommit
<1>4. ASSUME NEW d \in poll, PollInsert(d) PROVE BrokerTypeOK' /\ DatabaseTypeOK' /\ HandlersTypeOK'
  <2>1. d \in Days
    BY DEF HandlersTypeOK
  <2>2. PICK equity \in Equities : InsertBreakerRow(d, equity)
    BY <1>4 DEF PollInsert
  <2>3. equity \in Int
    BY EquitiesType
  <2>4. DatabaseTypeOK'
    BY <1>4, <2>1, <2>2, <2>3, InsertBreakerRowType DEF PollInsert, PollStep
  <2>5. HandlersTypeOK'
    BY <1>4 DEF PollInsert, PollStep, HandlersTypeOK
  <2> QED BY <1>4, <2>4, <2>5, BrokerSame DEF PollInsert, PollStep
<1>5. ASSUME NEW d \in poll, PollConflicts(d) PROVE BrokerTypeOK' /\ DatabaseTypeOK' /\ HandlersTypeOK'
  <2>1. HandlersTypeOK'
    BY <1>5 DEF PollConflicts, PollStep, HandlersTypeOK
  <2> QED BY <1>5, <2>1, BrokerSame, DatabaseSame DEF PollConflicts, PollStep, tables
<1> QED BY <1>1, <1>2, <1>3, <1>4, <1>5

---------------------------------------------------------------------------
(* The market and the clocks.                                              *)

LEMMA BrokerNextType == ASSUME BrokerTypeOK, BrokerNext PROVE BrokerTypeOK'
<1>1. CASE ClosedAtBroker
  BY <1>1, ClosePositionType, BrokerAssumption DEF ClosedAtBroker
<1>2. CASE OwnerOpens
  <2>1. PICK i \in Ids, s \in {NoStop, 0} : OpenPosition(i, "owner", s) /\ UNCHANGED pending
    BY <1>2 DEF OwnerOpens
  <2>2. s \in Stops /\ pending' \in Nat
    BY <2>1, StopZero DEF BrokerTypeOK
  <2> QED BY <2>1, <2>2, OpenPositionType
<1>3. CASE OwnerMovesStop
  BY <1>3, MoveByHandType DEF OwnerMovesStop
<1>4. CASE LateFill
  <2>1. PICK i \in Ids : pending > 0 /\ pending' = pending - 1 /\ OpenPosition(i, "late", 0)
    BY <1>4 DEF LateFill
  <2>2. pending' \in Nat
    BY <2>1 DEF BrokerTypeOK
  <2> QED BY <2>1, <2>2, StopZero, OpenPositionType
<1> QED BY <1>1, <1>2, <1>3, <1>4 DEF BrokerNext

LEMMA MidnightType ==
    ASSUME DatabaseTypeOK, ClocksAgree, Midnight, UNCHANGED tables
    PROVE  DatabaseTypeOK' /\ ClocksAgree'
<1>1. utcDay \in Days /\ localDay \in Days /\ MaxDay \in Nat \ {0}
  BY DatabaseAssumption DEF DatabaseTypeOK
<1>2. utcDay' \in Days /\ localDay' \in Days /\ ClocksAgree'
  BY <1>1 DEF Midnight, Days, ClocksAgree
<1> QED BY <1>2 DEF DatabaseTypeOK, tables

---------------------------------------------------------------------------
(* The theorem.                                                            *)

LEMMA TypeInvInit == Init => TypeInv
<1> SUFFICES ASSUME Init PROVE TypeInv
  OBVIOUS
<1>1. BrokerTypeOK
  BY BrokerAssumption, StopZero DEF Init, BrokerInit, BrokerTypeOK, Positions
<1>2. DatabaseTypeOK /\ ClocksAgree
  BY DatabaseAssumption, DayOne
     DEF Init, DatabaseInit, DatabaseTypeOK, ClocksAgree, NoBreakerRow, BreakerRows, Configs
<1>3. FrameTypeOK
  BY DayOne, StartNewDayType DEF Init, LoopInit, FrameTypeOK, NoConfig, Configs, Listings
<1>4. ControlTypeOK
  <2>1. faults \in 0 .. MaxFaults /\ crashes \in 0 .. MaxCrashes
    BY TradingLoopAssumption DEF Init, LoopInit
  <2>2. /\ pc \in Ticking \cup {"down", "failed", "idle"}
        /\ booting \in BOOLEAN
        /\ confirmed \in BOOLEAN
        /\ booked \in [Days -> SUBSET Ids]
    BY DEF Init, LoopInit
  <2> QED BY <2>1, <2>2 DEF ControlTypeOK
<1>5. HandlersTypeOK
  BY HandlersAssumption DEF Init, HandlersInit, HandlersTypeOK, KillOff, KillStates
<1> QED BY <1>1, <1>2, <1>3, <1>4, <1>5, LoopTypeParts DEF TypeInv, TypeOK

LEMMA TypeInvNext == TypeInv /\ [Next]_vars => TypeInv'
<1> SUFFICES ASSUME TypeInv, [Next]_vars PROVE TypeInv'
  OBVIOUS
<1>1. BrokerTypeOK /\ DatabaseTypeOK /\ LoopTypeOK /\ HandlersTypeOK /\ ClocksAgree
  BY DEF TypeInv, TypeOK
<1>2. FrameTypeOK /\ ControlTypeOK
  BY <1>1, LoopTypeParts
<1>3. ASSUME BrokerTypeOK', DatabaseTypeOK', LoopTypeOK', HandlersTypeOK', UNCHANGED clocks
      PROVE  TypeInv'
  BY <1>1, <1>3 DEF TypeInv, TypeOK, ClocksAgree, clocks
<1>4. CASE Loop
  <2>1. TypeOK' /\ UNCHANGED clocks
    BY <1>4, LoopType DEF Loop, TypeInv
  <2> QED BY <1>3, <2>1 DEF TypeOK
<1>5. CASE Dies
  <2>1. ControlTypeOK'
    <3>1. crashes' \in 0 .. MaxCrashes
      BY <1>2, <1>5, TradingLoopAssumption DEF Dies, Crash, ControlTypeOK
    <3>2. /\ pc' = "down" /\ booting' = FALSE
          /\ UNCHANGED <<confirmed, faults, booked>>
      BY <1>5 DEF Dies, Crash
    <3> QED BY <1>2, <3>1, <3>2 DEF ControlTypeOK
  <2>2. LoopTypeOK'
    BY <1>5, <2>1, ForgetType, LoopTypePartsNext DEF Dies, Crash
  <2>3. HandlersTypeOK'
    BY <1>1, <1>5 DEF Dies, HandlersDie, HandlersTypeOK, KillOff, KillStates
  <2> QED BY <1>1, <1>3, <1>5, <2>2, <2>3, BrokerSame, DatabaseSame DEF Dies, Crash
<1>6. CASE Asks
  <2>1. BrokerTypeOK' /\ DatabaseTypeOK' /\ HandlersTypeOK'
    BY <1>1, <1>6, AsksType
  <2> QED BY <1>1, <1>3, <1>6, <2>1, LoopSame DEF Asks
<1>7. CASE Serves
  <2>1. UNCHANGED clocks
    BY <1>7 DEF Serves
  <2>2. BrokerTypeOK' /\ DatabaseTypeOK' /\ HandlersTypeOK'
    BY <1>1, <1>7, <2>1, KillType, CommandType DEF Serves
  <2> QED BY <1>1, <1>3, <1>7, <2>2, LoopSame DEF Serves
<1>8. CASE Polls
  <2>1. BrokerTypeOK' /\ DatabaseTypeOK' /\ HandlersTypeOK'
    BY <1>1, <1>8, CommandType DEF Polls
  <2> QED BY <1>1, <1>3, <1>8, <2>1, LoopSame DEF Polls
<1>9. CASE RequestFails
  <2>1. UNCHANGED clocks
    BY <1>9 DEF RequestFails
  <2>2. BrokerTypeOK' /\ DatabaseTypeOK' /\ HandlersTypeOK'
    BY <1>1, <1>9, <2>1, KillType, CommandType DEF RequestFails
  <2>3. LoopTypeOK'
    BY <1>2, <1>9, FaultType, FrameSame, LoopTypePartsNext DEF RequestFails, ControlTypeOK, process
  <2> QED BY <1>3, <1>9, <2>2, <2>3 DEF RequestFails
<1>10. CASE Market
  BY <1>1, <1>3, <1>10, BrokerNextType, DatabaseSame, LoopSame, HandlersSame DEF Market
<1>11. CASE DayEnds
  <2>1. DatabaseTypeOK' /\ ClocksAgree'
    BY <1>1, <1>11, MidnightType DEF DayEnds
  <2> QED BY <1>1, <1>11, <2>1, BrokerSame, LoopSame, HandlersSame DEF DayEnds, TypeInv, TypeOK
<1>12. CASE UNCHANGED vars
  BY <1>1, <1>3, <1>12, BrokerSame, DatabaseSame, LoopSame, HandlersSame DEF vars
<1> QED BY <1>4, <1>5, <1>6, <1>7, <1>8, <1>9, <1>10, <1>11, <1>12 DEF Next

\* Whatever calls fail, whenever the process dies and however requests, ticks
\* and the market interleave, every variable keeps its type: in particular the
\* rows an action writes to exist in a form the next one can read.
THEOREM TypeCorrect == Spec => []TypeOK
<1>1. TypeInv => TypeOK
  BY DEF TypeInv
<1> QED BY <1>1, TypeInvInit, TypeInvNext, PTL DEF Spec

\* The strengthening, for the proofs that need the clocks.
THEOREM TypeInvariant == Spec => []TypeInv
  BY TypeInvInit, TypeInvNext, PTL DEF Spec

---------------------------------------------------------------------------
(* What a step of the whole bot may do to the positions, in five shapes.   *)
(* The proofs about the cap and about the trades table start from here     *)
(* instead of going through every action again.                            *)

\* The loop's order executes, whether or not the answer comes back.
Ordered == \E i \in Ids : PlaceOrder(i) \/ PlaceOrderLost(i)

\* Somebody closes a position.
Closes == \E i \in Ids, pnl \in Int : ClosePosition(i, pnl)

\* The loop or the owner moves a stop.
Moves == \E i \in Ids, stop \in Stops : ModifyStopLoss(i, stop) \/ MoveByHand(i, stop)

\* The owner opens a position, or an order nobody waits for any more executes.
OpensOtherwise ==
    \E i \in Ids, who \in {"late", "owner"}, stop \in Stops :
        /\ OpenPosition(i, who, stop)
        /\ IF who = "owner" THEN MaxOwnerOpens > 0 ELSE pending > 0

PosStep == Ordered \/ Closes \/ Moves \/ OpensOtherwise \/ UNCHANGED <<pos, balance>>

LEMMA StaysIsPosStep == ASSUME UNCHANGED <<pos, balance>> PROVE PosStep
  BY DEF PosStep

LEMMA CloseIsPosStep ==
    ASSUME NEW i \in Ids, NEW pnl \in Pnls, ClosePosition(i, pnl)
    PROVE  PosStep
<1>1. pnl \in Int
  BY BrokerAssumption
<1> QED BY <1>1 DEF PosStep, Closes

LEMMA ModifyIsPosStep ==
    ASSUME NEW i \in Ids, NEW stop \in 0 .. MaxStop, ModifyStopLoss(i, stop)
    PROVE  PosStep
<1>1. stop \in Stops
  BY BrokerAssumption DEF Stops, NoStop
<1> QED BY <1>1 DEF PosStep, Moves

LEMMA OpenIsPosStep ==
    ASSUME NEW i \in Ids, NEW who \in {"late", "owner"}, NEW stop \in {NoStop, 0},
           OpenPosition(i, who, stop), IF who = "owner" THEN MaxOwnerOpens > 0 ELSE pending > 0
    PROVE  PosStep
<1>1. stop \in Stops
  BY StopZero
<1> QED BY <1>1 DEF PosStep, OpensOtherwise

\* One of the five shapes, whichever action it is.
LEMMA PosSteps == ASSUME TypeInv, [Next]_vars PROVE PosStep
<1>1. BrokerTypeOK
  BY DEF TypeInv, TypeOK
<1>2. FrameTypeOK
  BY LoopTypeParts DEF TypeInv, TypeOK
<1>3. \A r \in kill.todo : r[1] \in Ids
  BY DEF TypeInv, TypeOK, HandlersTypeOK, KillStates, Refs
<1>4. CASE Loop
  <2>1. CASE TickStart \/ TickPaused \/ TickFails \/ Restart
    BY <2>1, StaysIsPosStep DEF TickStart, TickPaused, TickFails, Restart, brokerVars
  <2>2. CASE ReconcileStep
    BY <2>2, StaysIsPosStep
       DEF ReconcileStep, ReconcileList, ReconcileRows, ReconcileDone, ReconcileClose,
           ReconcileLookupFails, ReconcileHistoryLags, ReconcileAdopt, brokerVars
  <2>3. CASE BreakerStep
    BY <2>3, StaysIsPosStep
       DEF BreakerStep, BreakerSelect, BreakerInsert, BreakerReselect, BreakerReinsert,
           BreakerInsertConflicts, brokerVars
  <2>4. CASE ManageStep
    <3>1. CASE FetchPositions \/ ManageDone \/ OutcomesDone
      BY <3>1, StaysIsPosStep DEF FetchPositions, ManageDone, OutcomesDone, brokerVars
    <3>2. ASSUME NEW e \in found, ManageRefused(e) PROVE PosStep
      BY <3>2, StaysIsPosStep DEF ManageRefused, brokerVars
    <3>3. ASSUME NEW e \in found PROVE e.id \in Ids
      BY <1>2 DEF FrameTypeOK, Listings
    <3>4. ASSUME NEW e \in found, NEW p \in Pnls, ManageClose(e, p) \/ ManageCloseUnconfirmed(e, p)
          PROVE  PosStep
      BY <1>1, <3>3, <3>4, CloseIsPosStep DEF ManageClose, ManageCloseUnconfirmed
    <3>5. ASSUME NEW e \in found, NEW s \in 0 .. MaxStop, ManageMove(e, s) PROVE PosStep
      BY <1>1, <3>3, <3>5, ModifyIsPosStep DEF ManageMove
    <3>6. ASSUME NEW o \in outcomes, ApplyOutcome(o) PROVE PosStep
      BY <3>6, StaysIsPosStep DEF ApplyOutcome, brokerVars
    <3> QED BY <2>4, <3>1, <3>2, <3>4, <3>5, <3>6 DEF ManageStep
  <2>5. CASE EntryStep
    <3>1. CASE FlipJudged \/ FlipEnds \/ FlipGoesOn \/ NoEntry \/ PlaceOrderLate \/ RecordTrade \/ Persist
      BY <3>1, StaysIsPosStep
         DEF FlipJudged, FlipEnds, FlipGoesOn, NoEntry, PlaceOrderLate, RecordTrade, Persist, brokerVars
    <3> QED BY <2>5, <3>1 DEF EntryStep, Ordered, PosStep
  <2> QED BY <1>4, <2>1, <2>2, <2>3, <2>4, <2>5 DEF Loop, TickStep
<1>5. CASE Dies
  BY <1>5, StaysIsPosStep DEF Dies, Crash, brokerVars
<1>6. CASE Asks
  <2>1. ASSUME NEW r \in OpenTrades, NEW p \in Pnls, TelegramClose(r, p) PROVE PosStep
    <3>1. r[1] \in Ids
      BY OpenTradesType DEF TypeInv, TypeOK, Refs
    <3> QED BY <1>1, <2>1, <3>1, CloseIsPosStep DEF TelegramClose
  <2>2. CASE Pause \/ Resume \/ RequestLive(confirmed) \/ RevertPractice
             \/ UpdateFlipConfig \/ UpdateRiskConfig \/ KillPause
    BY <2>2, StaysIsPosStep
       DEF Pause, Resume, RequestLive, RevertPractice, UpdateFlipConfig, UpdateRiskConfig,
           KillPause, SetConfig, brokerVars
  <2> QED BY <1>6, <2>1, <2>2 DEF Asks
<1>7. CASE Serves
  <2>1. ASSUME NEW r \in kill.todo, NEW p \in Pnls, KillClose(r, p) PROVE PosStep
    BY <1>1, <1>3, <2>1, CloseIsPosStep DEF KillClose
  <2>2. CASE \/ KillList \/ KillDone
             \/ \E r \in kill.todo : KillRefused(r)
             \/ \E r \in kill.committing : KillCommit(r)
             \/ \E r \in closing : TelegramCommit(r)
             \/ \E d \in poll : PollInsert(d) \/ PollConflicts(d)
    BY <2>2, StaysIsPosStep
       DEF KillList, KillDone, KillRefused, KillCommit, TelegramCommit, PollInsert,
           PollConflicts, PollStep, brokerVars
  <2> QED BY <1>7, <2>1, <2>2 DEF Serves
<1>8. CASE Polls
  BY <1>8, StaysIsPosStep DEF Polls, PollSelect, PollStep, brokerVars
<1>9. CASE RequestFails
  <2>1. ASSUME NEW r \in kill.todo, KillCloseFails(r) PROVE PosStep
    BY <1>1, <1>3, <2>1, CloseIsPosStep, StaysIsPosStep DEF KillCloseFails, brokerVars
  <2>2. CASE KillAborts \/ TelegramAborts
    BY <2>2, StaysIsPosStep DEF KillAborts, TelegramAborts, brokerVars
  <2> QED BY <1>9, <2>1, <2>2 DEF RequestFails
<1>10. CASE Market
  <2>1. CASE ClosedAtBroker
    BY <1>1, <2>1, CloseIsPosStep DEF ClosedAtBroker
  <2>2. CASE OwnerOpens
    <3>1. PICK i \in Ids, s \in {NoStop, 0} :
              /\ Cardinality({j \in Ids : pos[j].by = "owner"}) < MaxOwnerOpens
              /\ OpenPosition(i, "owner", s)
      BY <2>2 DEF OwnerOpens
    <3>2. Cardinality({j \in Ids : pos[j].by = "owner"}) \in Nat
      BY BrokerAssumption, FS_Subset, FS_CardinalityType
    <3>3. MaxOwnerOpens > 0
      BY <3>1, <3>2, BrokerAssumption
    <3> QED BY <3>1, <3>3, OpenIsPosStep
  <2>3. CASE OwnerMovesStop
    BY <2>3 DEF OwnerMovesStop, PosStep, Moves
  <2>4. CASE LateFill
    BY <1>1, <2>4, OpenIsPosStep DEF LateFill
  <2> QED BY <1>10, <2>1, <2>2, <2>3, <2>4 DEF Market, BrokerNext
<1>11. CASE DayEnds
  BY <1>11, StaysIsPosStep DEF DayEnds, brokerVars
<1>12. CASE UNCHANGED vars
  BY <1>12, StaysIsPosStep DEF vars, brokerVars
<1> QED BY <1>4, <1>5, <1>6, <1>7, <1>8, <1>9, <1>10, <1>11, <1>12 DEF Next

\* A stop that is moved changes nothing else of what the proofs speak of.
LEMMA MovesKeepLives ==
    ASSUME TypeInv, Moves
    PROVE  /\ \A i \in Ids : /\ pos'[i].st = pos[i].st
                            /\ pos'[i].by = pos[i].by
                            /\ pos'[i].pnl = pos[i].pnl
           /\ UNCHANGED balance
<1>1. pos \in [Ids -> Positions]
  BY DEF TypeInv, TypeOK, BrokerTypeOK
<1>2. PICK i \in Ids, stop \in Stops : ModifyStopLoss(i, stop) \/ MoveByHand(i, stop)
  BY DEF Moves
<1>3. CASE ModifyStopLoss(i, stop)
  BY <1>1, <1>3 DEF ModifyStopLoss, Positions
<1>4. CASE MoveByHand(i, stop)
  BY <1>1, <1>4 DEF MoveByHand, Positions
<1> QED BY <1>2, <1>3, <1>4
=============================================================================
