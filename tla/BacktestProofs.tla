--------------------------- MODULE BacktestProofs ---------------------------
(***************************************************************************)
(* How the run of a backtest comes to rest, and what its result says, for  *)
(* every history, request and strategy.                                    *)
(*                                                                         *)
(* RunInv follows the row through the task: what it may hold at each place *)
(* the task can be.  AddInv follows the result: made from the trades the   *)
(* replay closed (module BacktestReplayProofs), it is what they add up to  *)
(* from then on, whether or not they come to be stored.  WalkInv follows   *)
(* the loader: between two pages it has loaded whole pages of what it is   *)
(* to load, which are of equal size, so that a candle is at a border of    *)
(* pages where the number of newer ones is a multiple.                     *)
(***************************************************************************)
EXTENDS BacktestReplayProofs

---------------------------------------------------------------------------
(* The run                                                                 *)

Undone == row = NewRow /\ stored = {}

\* The result is stored and its trades, which make it up, are not.
ResultStored ==
    /\ row.status = "complete"
    /\ \E r \in row.result : r.total = Cardinality(ClosedTrades)
    /\ stored = {}

\* Complete with all its trades, or failed with neither result nor trades.
Settled ==
    \/ row.status = "complete" /\ \E r \in row.result : Cardinality(stored) = r.total
    \/ row = Failed /\ row.result = {} /\ stored = {}

RunInv ==
    /\ task \in {"none", "get", "load", "prepare", "replay", "trades", "except", "over", "dead"}
    /\ faults \in Nat
    /\ row = [status |-> row.status, result |-> row.result]
    /\ task = "none" => row = NoRow /\ stored = {}
    /\ task \in {"get", "load", "prepare", "replay"} => Undone
    /\ task \in {"load", "prepare", "replay", "trades"} => session = "ok"
    /\ task = "trades" => ResultStored
    /\ task = "except" =>
         /\ row.status # "failed"
         /\ session \in {"ok", "broken"}
         /\ session = "ok" => stored = {}
         /\ faults = 0 => session = "ok" /\ Undone
    /\ task = "over" /\ faults = 0 => Settled

LEMMA RunInvInit == Init => RunInv
  BY DEF Init, RunInv, NoRow

LEMMA NewRowFields == NewRow = [status |-> "running", result |-> {}]
  BY DEF NewRow, NoRow

LEMMA FailedFields ==
    ASSUME row = [status |-> row.status, result |-> row.result]
    PROVE  Failed = [status |-> "failed", result |-> row.result]
  BY DEF Failed

LEMMA FaultCounts == ASSUME RunInv, Fault PROVE faults' \in Nat /\ faults' # 0
  BY RunAssumption DEF RunInv, Fault

\* The trades to be stored are those the result counts.
LEMMA ResultCounts ==
    Complete.status = "complete" /\ \E r \in Complete.result : r.total = Cardinality(ClosedTrades)
  BY DEF Complete, Result, ComputeMetrics

\* A task that is over, or dead, and has left the run at rest.
LEMMA EndKeeps ==
    ASSUME RunInv, NEW how \in {"over", "dead"}, End(how), faults' \in Nat,
           row' = [status |-> row'.status, result |-> row'.result],
           how = "over" /\ faults' = 0 => Settled'
    PROVE  RunInv'
  BY DEF RunInv, End

\* A step up to the storing of the result that does not fail.
LEMMA WorksKeeps ==
    ASSUME RunInv, task \in {"get", "load", "prepare", "replay"},
           task' \in {"load", "prepare", "replay"}, session' = "ok",
           UNCHANGED <<stores, faults>>
    PROVE  RunInv'
  BY DEF RunInv, stores, Undone, NewRow, NoRow

\* An exception while the run has stored nothing.
LEMMA RaiseKeeps ==
    ASSUME RunInv, task \in {"load", "prepare", "replay"}, Raise,
           UNCHANGED <<stores, session, faults>>
    PROVE  RunInv'
<1>1. Undone /\ session = "ok" /\ row.status # "failed"
  BY NewRowFields DEF RunInv, Undone
<1> QED BY <1>1 DEF RunInv, Raise, stores, Undone, NewRow, NoRow

LEMMA RunInvNext == ASSUME RunInv, [Next]_vars PROVE RunInv'
<1> USE NewRowFields
<1>1. CASE Request
  BY <1>1 DEF Request, RunInv, Undone, NewRow, NoRow
<1>2. CASE RequestFails
  <2>1. row' \in {NoRow, NewRow} /\ End("over")
    BY <1>2 DEF RequestFails
  <2> QED BY <1>2, <2>1, FaultCounts, EndKeeps DEF RequestFails, NoRow
<1>3. CASE GetRun
  BY <1>3, WorksKeeps DEF GetRun
<1>4. CASE GetRunFails
  <2>1. UNCHANGED row /\ row = [status |-> row.status, result |-> row.result]
    BY <1>4 DEF GetRunFails, stores, RunInv
  <2> QED BY <1>4, <2>1, FaultCounts, EndKeeps DEF GetRunFails
<1>5. CASE LoadPage \/ NoMorePages
  <2>1. task = "load" /\ session = "ok" /\ task' \in {"load", "prepare"}
    BY <1>5 DEF RunInv, LoadPage, NoMorePages
  <2> QED BY <1>5, <2>1, WorksKeeps DEF LoadPage, NoMorePages
<1>6. CASE PageEmptied \/ PageFails
  BY <1>6, RaiseKeeps DEF PageEmptied, PageFails
<1>7. CASE Prepare
  <2>1. task = "prepare" /\ session = "ok"
    BY <1>7 DEF RunInv, Prepare
  <2> QED BY <1>7, <2>1, WorksKeeps DEF Prepare
<1>8. CASE PrepareRaises
  BY <1>8, RaiseKeeps DEF PrepareRaises
<1>9. CASE ReplayStep
  <2>1. task = "replay" /\ session = "ok"
    BY <1>9 DEF RunInv, ReplayStep
  <2> QED BY <1>9, <2>1, WorksKeeps DEF ReplayStep
<1>10. CASE ReplayRaises
  BY <1>10, RaiseKeeps DEF ReplayRaises
<1>11. CASE StoreResult
  <2>1. UNCHANGED closed
    BY <1>11 DEF StoreResult, replay, account
  <2>2. ResultStored'
    <3>1. ClosedTrades' = ClosedTrades
      BY <2>1 DEF ClosedTrades, TradeRow
    <3>2. row' = Complete /\ stored' = {}
      BY <1>11 DEF StoreResult, Replayed, RunInv, Undone
    <3> QED BY <3>1, <3>2, ResultCounts DEF ResultStored
  <2>3. row' = [status |-> row'.status, result |-> row'.result]
    BY <1>11 DEF StoreResult, Complete
  <2> QED BY <1>11, <2>2, <2>3 DEF StoreResult, Replayed, RunInv
<1>12. CASE StoreResultFails \/ StoreResultUnread
  <2>1. /\ task = "replay" /\ Undone /\ stored' = {}
        /\ row' \in {row, Complete} /\ session' \in {"ok", "broken"} /\ task' = "except"
    BY <1>12 DEF StoreResultFails, StoreResultUnread, Replayed, Raise, RunInv, Undone
  <2>2. faults' \in Nat /\ faults' # 0
    BY <1>12, FaultCounts DEF StoreResultFails, StoreResultUnread
  <2>3. row'.status # "failed" /\ row' = [status |-> row'.status, result |-> row'.result]
    BY <2>1 DEF Complete, Undone
  <2> QED BY <2>1, <2>2, <2>3 DEF RunInv
<1>13. CASE StoreTrades
  <2>1. ResultStored /\ UNCHANGED <<row, faults>> /\ stored' = ClosedTrades /\ End("over")
    BY <1>13 DEF StoreTrades, RunInv
  <2>2. Settled'
    BY <2>1 DEF Settled, ResultStored
  <2> QED BY <2>1, <2>2, EndKeeps DEF RunInv
<1>14. CASE StoreTradesFails
  <2>1. faults' \in Nat /\ faults' # 0
    BY <1>14, FaultCounts DEF StoreTradesFails
  <2> QED BY <1>14, <2>1 DEF StoreTradesFails, Raise, RunInv, ResultStored
<1>15. CASE Handle
  <2>1. row' = [status |-> "failed", result |-> row.result] /\ UNCHANGED <<stored, faults>> /\ End("over")
    BY <1>15, FailedFields DEF Handle, RunInv
  <2>2. Failed' = [status |-> "failed", result |-> row'.result]
    BY <2>1 DEF Failed
  <2>3. faults = 0 => Settled'
    BY <1>15, <2>1, <2>2 DEF Handle, RunInv, Undone, Settled
  <2> QED BY <2>1, <2>3, EndKeeps DEF RunInv
<1>16. CASE HandleFails
  <2>1. row' \in {row, [status |-> "failed", result |-> row.result]} /\ End("over")
    BY <1>16, FailedFields DEF HandleFails, RunInv
  <2>2. row' = [status |-> row'.status, result |-> row'.result]
    BY <2>1 DEF RunInv
  <2> QED BY <1>16, <2>1, <2>2, FaultCounts, EndKeeps DEF HandleFails
<1>17. CASE HandleRefused
  <2>1. faults # 0 /\ UNCHANGED <<row, faults>> /\ End("over")
    BY <1>17 DEF HandleRefused, RunInv, stores
  <2> QED BY <2>1, EndKeeps DEF RunInv
<1>18. CASE Dies
  BY <1>18, EndKeeps DEF Dies, RunInv, stores
<1>19. CASE UNCHANGED vars
  BY <1>19 DEF vars, stores, replay, account, RunInv, ResultStored, ClosedTrades, TradeRow,
               Undone, NewRow, NoRow, Settled, Failed
<1> QED BY <1>1, <1>2, <1>3, <1>4, <1>5, <1>6, <1>7, <1>8, <1>9, <1>10, <1>11, <1>12, <1>13,
           <1>14, <1>15, <1>16, <1>17, <1>18, <1>19 DEF Next, Rest

LEMMA RunInvAlways == Spec => []RunInv
  BY RunInvInit, RunInvNext, PTL DEF Spec

\* A run whose task is over, where no call of the database failed, is complete
\* with all its trades or failed without any (api/backtest.py:78-130).
THEOREM RunsSettle == Spec => []RunSettles
<1>1. RunInv => RunSettles
  BY DEF RunInv, RunSettles, Settled
<1> QED BY <1>1, RunInvAlways, PTL

\* What failed, or has its trades stored, is not written again
\* (api/backtest.py:112-130).
THEOREM OutcomesStay == Spec => OutcomeStays
<1>1. RunInv /\ [Next]_vars => ((row.status = "failed" \/ stored # {}) => UNCHANGED stores)
  <2> SUFFICES ASSUME RunInv, [Next]_vars, row.status = "failed" \/ stored # {}
               PROVE  UNCHANGED stores
    OBVIOUS
  <2>1. task \in {"over", "dead"} \/ (task = "except" /\ session = "broken")
    BY NewRowFields DEF RunInv, Undone, ResultStored, NoRow
  <2>2. CASE Next
    BY <2>1, <2>2 DEF Next, Request, RequestFails, GetRun, GetRunFails, LoadPage, NoMorePages,
       PageEmptied, PageFails, Prepare, PrepareRaises, ReplayStep, ReplayRaises, Replayed,
       StoreResult, StoreResultFails, StoreResultUnread, StoreTrades, StoreTradesFails,
       Handle, HandleFails, HandleRefused, Dies, Ended, Rest, vars, stores
  <2>3. CASE UNCHANGED vars
    BY <2>3 DEF vars
  <2> QED BY <2>2, <2>3
<1>2. RunInv /\ [Next]_vars => [(row.status = "failed" \/ stored # {}) => UNCHANGED stores]_vars
  BY <1>1
<1> QED BY <1>2, RunInvAlways, PTL DEF Spec, OutcomeStays

---------------------------------------------------------------------------
(* The result                                                              *)

\* What the trades' PnL adds up to, which is gross profit less gross loss.
LEMMA GrossProfitAndLoss ==
    ASSUME NEW T, IsFiniteSet(T), \A t \in T : t.pnl \in Int
    PROVE  /\ TotalPnl(Wins(T)) \in Nat /\ -TotalPnl(Losses(T)) \in Nat
           /\ TotalPnl(T) = TotalPnl(Wins(T)) + TotalPnl(Losses(T))
           /\ \A t \in Wins(T) : t.pnl <= TotalPnl(Wins(T))
           /\ \A t \in Losses(T) : -t.pnl <= -TotalPnl(Losses(T))
           /\ (\A t \in T : t.pnl = 0) => TotalPnl(Wins(T)) = 0 /\ TotalPnl(Losses(T)) = 0
<1> DEFINE W == Wins(T)
           L == Losses(T)
           f == [t \in T |-> t.pnl]
           w == [t \in W |-> t.pnl]
           l == [t \in L |-> t.pnl]
           up == [t \in L |-> -t.pnl]
<1>1. /\ IsFiniteSet(W) /\ IsFiniteSet(L) /\ W \cap L = {} /\ T = W \cup L
      /\ \A t \in W : t.pnl \in Nat
      /\ \A t \in L : t.pnl \in Int /\ -t.pnl \in Nat
  BY FS_Subset DEF Wins, Losses
<1>2. TotalPnl(T) = SumFunction(f) /\ TotalPnl(W) = SumFunction(w) /\ TotalPnl(L) = SumFunction(l)
  BY DEF TotalPnl
<1>3. (\A t \in T : t.pnl = 0) => (W = {} /\ \A t \in L : t.pnl = 0)
  BY DEF Wins, Losses
<1> HIDE DEF W, L
<1>4. /\ DOMAIN f = T /\ DOMAIN w = W /\ DOMAIN l = L /\ DOMAIN up = L
      /\ \A t \in W : w[t] = t.pnl /\ f[t] = t.pnl /\ w[t] \in Nat
      /\ \A t \in L : l[t] = t.pnl /\ f[t] = t.pnl /\ l[t] \in Int /\ up[t] = -l[t] /\ up[t] \in Nat
      /\ \A t \in T : f[t] \in Int
  BY <1>1
<1> HIDE DEF f, w, l, up
<1>5. SumFunction(w) \in Nat /\ \A t \in W : w[t] <= SumFunction(w)
  BY <1>1, <1>4, TotalBounds
<1>6. SumFunction(up) \in Nat /\ \A t \in L : up[t] <= SumFunction(up)
  BY <1>1, <1>4, TotalBounds
<1>7. SumFunction(up) = -SumFunction(l)
  BY <1>1, <1>4, TotalNegates
<1>8. SumFunction(f) = SumFunction(w) + SumFunction(l)
  BY <1>1, <1>4, TotalSplits
<1>9. SumFunction(l) \in Int
  BY <1>1, <1>4, TotalType
<1>10. (\A t \in T : t.pnl = 0) => SumFunction(w) = 0 /\ SumFunction(l) = 0
  <2> SUFFICES ASSUME \A t \in T : t.pnl = 0 PROVE SumFunction(w) = 0 /\ SumFunction(l) = 0
    OBVIOUS
  <2>1. SumFunction(w) = 0
    BY <1>3, <1>4, TotalOfNone
  <2>2. \A t \in L : l[t] \in Nat
    BY <1>3, <1>4
  <2>3. SumFunction(l) \in Nat
    BY <1>1, <1>4, <2>2, TotalBounds
  <2> QED BY <1>6, <1>7, <1>9, <2>1, <2>3
<1> QED BY <1>2, <1>4, <1>5, <1>6, <1>7, <1>8, <1>9, <1>10 DEF W, L

\* The trades make up the result.
AddsUp(r, trades) ==
    /\ r.balance = Capital + TotalPnl(trades)
    /\ r.total = Cardinality(trades)
    /\ \A f \in r.factor :
         IF \A t \in trades : t.pnl = 0 THEN f.profit = 0
                                        ELSE f.profit - f.loss = r.balance - Capital
    /\ r.factor = {} => r.total = 0 \/ r.balance > Capital

LEMMA FactorAddsUp ==
    ASSUME NEW T, IsFiniteSet(T), \A t \in T : t.pnl \in Int, NEW f, f = ProfitFactor(T)
    PROVE  /\ f = Infinite => TotalPnl(T) > 0
           /\ f # Infinite => IF \A t \in T : t.pnl = 0 THEN f.profit = 0
                                                       ELSE f.profit - f.loss = TotalPnl(T)
<1> DEFINE profit == TotalPnl(Wins(T))
           negative == TotalPnl(Losses(T))
           loss == -negative
           Still == \A t \in T : t.pnl = 0
<1>1. /\ profit \in Nat /\ loss \in Nat /\ negative \in Int
      /\ TotalPnl(T) = profit + negative
      /\ \A t \in Wins(T) : t.pnl <= profit
      /\ \A t \in Losses(T) : -t.pnl <= loss
      /\ Still => profit = 0 /\ negative = 0
  <2>1. TotalPnl(Losses(T)) \in Int
    <3>1. IsFiniteSet(Losses(T)) /\ \A t \in Losses(T) : t.pnl \in Int
      BY FS_Subset DEF Losses
    <3> QED BY <3>1, TotalPnlType
  <2> QED BY <2>1, GrossProfitAndLoss
<1>2. ProfitFactor(T) = IF loss > 0 THEN [profit |-> profit, loss |-> loss]
                        ELSE IF profit > 0 THEN Infinite ELSE [profit |-> 0, loss |-> 1]
  BY DEF ProfitFactor
<1>3. T = Wins(T) \cup Losses(T) /\ \A t \in Wins(T) : t.pnl > 0
  BY DEF Wins, Losses
<1>4. \A t \in Losses(T) : t.pnl <= 0 /\ t.pnl \in Int
  BY DEF Losses
<1> HIDE DEF profit, negative
<1>5. profit = 0 /\ loss = 0 => Still
  BY <1>1, <1>3, <1>4
<1> HIDE DEF Still
<1>6. CASE loss > 0
  <2>1. f = [profit |-> profit, loss |-> loss]
    BY <1>2, <1>6
  <2>2. f.profit = profit /\ f.loss = loss
    BY <2>1
  <2>3. f # Infinite /\ ~Still /\ f.profit - f.loss = TotalPnl(T)
    BY <1>1, <1>6, <2>2 DEF Infinite
  <2> QED BY <2>3 DEF Still
<1>7. CASE ~(loss > 0) /\ profit > 0
  BY <1>1, <1>2, <1>7
<1>8. CASE ~(loss > 0) /\ ~(profit > 0)
  <2>1. f = [profit |-> 0, loss |-> 1] /\ Still
    BY <1>1, <1>2, <1>5, <1>8
  <2> QED BY <2>1 DEF Still, Infinite
<1> QED BY <1>6, <1>7, <1>8

\* A run that closed every position is told of by its result.
LEMMA ResultAdds == ASSUME ReplayInv PROVE AddsUp(Result, ClosedTrades)
<1> DEFINE T == ClosedTrades
           pf == ProfitFactor(T)
           some == IF T = {} THEN {} ELSE {pf}
<1>1. T = RowsOf(closed)
  BY DEF ClosedTrades, RowsOf
<1>2. IsFiniteSet(closed) /\ \A c \in closed : c \in Trades
  BY DEF ReplayInv, PositionsInv, BacktestTypeOK
<1>3. IsFiniteSet(T) /\ \A t \in T : t.pnl \in Int
  <2>1. IsFiniteSet(RowsOf(closed))
    BY <1>2, RowsAreFinite
  <2> QED BY <1>1, <1>2, <2>1, TradeRowFields, TradeFields DEF RowsOf
<1>4. balance = Capital + TotalPnl(T) /\ TotalPnl(T) \in Int /\ Capital \in Int
  <2>1. TotalPnl(T) \in Int
    BY <1>3, TotalPnlType
  <2> QED BY <1>1, <2>1, BacktestAssumption DEF ReplayInv, BalanceInv
<1>5. /\ Result.balance = balance
      /\ Result.total = Cardinality(T)
      /\ Result.factor = some \ {Infinite}
  BY DEF Result, ComputeMetrics
<1> HIDE DEF T
<1>6. /\ pf = Infinite => TotalPnl(T) > 0
      /\ pf # Infinite => IF \A t \in T : t.pnl = 0 THEN pf.profit = 0
                                                    ELSE pf.profit - pf.loss = TotalPnl(T)
  BY <1>3, FactorAddsUp
<1> HIDE DEF pf
<1>7. Result.balance - Capital = TotalPnl(T)
  BY <1>4, <1>5
<1>8. \A f \in Result.factor : IF \A t \in T : t.pnl = 0 THEN f.profit = 0
                                   ELSE f.profit - f.loss = Result.balance - Capital
  BY <1>5, <1>6, <1>7
<1>9. Result.factor = {} => Result.total = 0 \/ Result.balance > Capital
  <2> SUFFICES ASSUME Result.factor = {}, T # {} PROVE Result.balance > Capital
    BY <1>5, FS_EmptySet
  <2>1. pf = Infinite
    BY <1>5
  <2> QED BY <1>4, <1>5, <1>6, <2>1
<1> QED BY <1>4, <1>5, <1>8, <1>9 DEF AddsUp, T

AddInv ==
    \A r \in row.result :
        /\ task = "trades" => AddsUp(r, ClosedTrades)
        /\ stored # {} => AddsUp(r, stored)
        /\ r.total = 0 => AddsUp(r, {})

\* The ways a step treats what the run has stored: it leaves no result, stores
\* the result, leaves both stores alone, or keeps the result and stores its
\* trades.
Resultless == row'.result = {}
StoresResult ==
    /\ phase = "end" /\ row'.result = {Result} /\ stored' = {}
    /\ task' = "trades" => ClosedTrades' = ClosedTrades /\ curve' = curve
LeavesStores ==
    /\ row'.result = row.result /\ UNCHANGED stored
    /\ task' = "trades" => task = "trades" /\ ClosedTrades' = ClosedTrades /\ curve' = curve
StoresTrades ==
    /\ task = "trades" /\ task' # "trades"
    /\ row'.result = row.result /\ stored' \in {{}, ClosedTrades}

LEMMA StoreSteps ==
    ASSUME RunInv, [Next]_vars
    PROVE  Resultless \/ StoresResult \/ LeavesStores \/ StoresTrades
<1> USE NewRowFields
<1>1. CASE \/ Request \/ RequestFails \/ GetRun \/ GetRunFails \/ LoadPage \/ NoMorePages
           \/ PageEmptied \/ PageFails \/ Prepare \/ PrepareRaises \/ ReplayStep \/ ReplayRaises
  <2>1. row' \in {row, NoRow, NewRow} /\ (task # "none" => row' = row)
    BY <1>1 DEF Request, RequestFails, GetRun, GetRunFails, LoadPage, NoMorePages, PageEmptied,
                PageFails, Prepare, PrepareRaises, ReplayStep, ReplayRaises, stores
  <2>2. row.result = {} /\ NoRow.result = {}
    BY <1>1 DEF RunInv, Undone, NoRow, Request, RequestFails, GetRun, GetRunFails, LoadPage,
                NoMorePages, PageEmptied, PageFails, Prepare, PrepareRaises, ReplayStep, ReplayRaises
  <2> QED BY <2>1, <2>2 DEF Resultless
<1>2. CASE StoreResult \/ StoreResultFails \/ StoreResultUnread
  <2>1. phase = "end" /\ stored = {} /\ row.result = {} /\ Complete.result = {Result}
    BY <1>2 DEF StoreResult, StoreResultFails, StoreResultUnread, Replayed, RunInv, Undone, Complete
  <2>2. UNCHANGED stored /\ row' \in {row, Complete}
    BY <1>2 DEF StoreResult, StoreResultFails, StoreResultUnread
  <2>3. task' = "trades" => ClosedTrades' = ClosedTrades /\ curve' = curve
    <3>1. task' = "trades" => UNCHANGED <<closed, curve>>
      BY <1>2 DEF StoreResult, StoreResultFails, StoreResultUnread, Raise, replay, account
    <3> QED BY <3>1 DEF ClosedTrades, TradeRow
  <2> QED BY <2>1, <2>2, <2>3 DEF Resultless, StoresResult
<1>3. CASE StoreTrades \/ StoreTradesFails
  BY <1>3 DEF StoreTrades, StoreTradesFails, End, Raise, StoresTrades
<1>4. CASE Handle \/ HandleFails
  <2>1. task' = "over" /\ UNCHANGED stored /\ row' \in {row, Failed}
    BY <1>4 DEF Handle, HandleFails, End
  <2>2. Failed.result = row.result
    BY FailedFields DEF RunInv
  <2> QED BY <2>1, <2>2 DEF LeavesStores
<1>5. CASE HandleRefused \/ Dies
  BY <1>5 DEF HandleRefused, Dies, End, stores, LeavesStores
<1>6. CASE UNCHANGED vars
  BY <1>6 DEF vars, stores, replay, account, ClosedTrades, TradeRow, LeavesStores
<1> QED BY <1>1, <1>2, <1>3, <1>4, <1>5, <1>6 DEF Next, Rest

LEMMA NothingAddsUp ==
    ASSUME ReplayInv, Result.total = 0
    PROVE  AddsUp(Result, {})
<1>1. IsFiniteSet(ClosedTrades)
  <2>1. IsFiniteSet(RowsOf(closed))
    BY RowsAreFinite DEF ReplayInv, PositionsInv
  <2> QED BY <2>1 DEF ClosedTrades, RowsOf
<1>2. Cardinality(ClosedTrades) = 0
  BY ResultAdds DEF AddsUp
<1>3. ClosedTrades = {}
  BY <1>1, <1>2, FS_EmptySet
<1> QED BY <1>3, ResultAdds

LEMMA AddInvNext == ASSUME RunInv, ReplayInv, AddInv, [Next]_vars PROVE AddInv'
<1> SUFFICES ASSUME NEW r \in row'.result
             PROVE  /\ task' = "trades" => AddsUp(r, ClosedTrades')
                    /\ stored' # {} => AddsUp(r, stored')
                    /\ r.total = 0 => AddsUp(r, {})
  BY DEF AddInv, AddsUp
<1>1. CASE Resultless
  BY <1>1 DEF Resultless
<1>2. CASE StoresResult
  <2>1. r = Result
    BY <1>2 DEF StoresResult
  <2>2. AddsUp(r, ClosedTrades) /\ (r.total = 0 => AddsUp(r, {}))
    BY <2>1, ResultAdds, NothingAddsUp
  <2> QED BY <1>2, <2>2 DEF StoresResult
<1>3. CASE LeavesStores
  BY <1>3 DEF LeavesStores, AddInv
<1>4. CASE StoresTrades
  BY <1>4 DEF StoresTrades, AddInv
<1> QED BY <1>1, <1>2, <1>3, <1>4, StoreSteps

LEMMA AddInvAlways == Spec => []AddInv
<1>1. Init => AddInv
  BY DEF Init, AddInv, NoRow
<1>2. RunInv /\ ReplayInv /\ AddInv /\ [Next]_vars => AddInv'
  BY AddInvNext
<1> QED BY <1>1, <1>2, RunInvAlways, ReplayInvAlways, PTL DEF Spec

\* The balance, the count and the profit factor a run stores are what the
\* trades stored under it come to (api/backtest.py:101-116,
\* backtest/metrics.py:25-48).
THEOREM ResultsAddUp == Spec => []ResultAddsUp
<1>1. AddInv => ResultAddsUp
  BY DEF AddInv, AddsUp, ResultAddsUp
<1> QED BY <1>1, AddInvAlways, PTL
---------------------------------------------------------------------------
(* The drawdown: its fold over the curve, from the first value to the last *)

\* What has been seen of the curve, and a value more.
Advance(seen, v) ==
    LET peak == Max({seen.peak, v})
        down == [fall |-> peak - v, of |-> peak]
    IN  [peak |-> peak,
         worst |-> IF peak > 0 /\ Deeper(down, seen.worst) THEN down ELSE seen.worst]

Nothing(c) == [peak |-> c[1], worst |-> NoFall]

Lower(s) == s \ {Max(s)}

IsFold(c, D, g) ==
    g = [s \in SUBSET D |-> IF s = {} THEN Nothing(c) ELSE Advance(g[Lower(s)], c[Max(s)])]

Folded(c, D) == CHOOSE g : IsFold(c, D, g)

LEMMA DrawdownIsFold ==
    ASSUME NEW c
    PROVE  MaxDrawdown(c) = Folded(c, DOMAIN c)[DOMAIN c].worst
  BY DEF MaxDrawdown, FoldLeft, MapThenFoldSet, Folded, IsFold, Lower, Nothing, Advance

\* A finite set whose subsets have a greatest element each.
Topped(D) == IsFiniteSet(D) /\ \A s \in SUBSET D : s # {} => Max(s) \in s

LEMMA ToppedBelow == ASSUME NEW D, Topped(D), NEW s \in SUBSET D PROVE Topped(s)
  BY FS_Subset DEF Topped

LEMMA TopIsIn == ASSUME NEW D, Topped(D), NEW s \in SUBSET D, s # {} PROVE Max(s) \in s
  BY DEF Topped

LEMMA SmallestTopped ==
    ASSUME NEW S, Topped(S), NEW B \in SUBSET (SUBSET S), B # {}
    PROVE  \E T \in B : \A U \in B : U \subseteq T => U = T
  BY SmallestSubset DEF Topped

LEMMA LeastOfNaturals ==
    ASSUME NEW B \in SUBSET Nat, B # {}
    PROVE  \E m \in B : \A k \in B : m <= k
<1>1. PICK m \in B : \A k \in B : ~(<<k, m>> \in OpToRel(<, Nat))
  BY NatLessThanWellFounded, WFMin
<1>2. \A k \in B : m <= k
  <2> TAKE k \in B
  <2>1. ~(k < m)
    BY <1>1 DEF OpToRel
  <2> QED BY <2>1
<1> QED BY <1>2

LEMMA GreatestOfNaturals ==
    ASSUME NEW c \in Nat, NEW S \in SUBSET (0 .. c), S # {}
    PROVE  \E x \in S : \A y \in S : y <= x
<1> DEFINE gaps == {c - x : x \in S}
<1>1. gaps \in SUBSET Nat /\ gaps # {}
  <2>1. \A x \in S : c - x \in Nat
    OBVIOUS
  <2> QED BY <2>1
<1>2. PICK m \in gaps : \A y \in gaps : m <= y
  <2> HIDE DEF gaps
  <2> QED BY <1>1, LeastOfNaturals
<1>3. PICK x \in S : m = c - x
  OBVIOUS
<1>4. \A y \in S : y <= x
  <2> TAKE y \in S
  <2>1. m <= c - y /\ x \in Int /\ y \in Int
    BY <1>2
  <2> QED BY <1>3, <2>1
<1> QED BY <1>4

LEMMA MaxIsOne ==
    ASSUME NEW k \in Nat, NEW s \in SUBSET (1 .. k), s # {}
    PROVE  Max(s) \in s /\ \A y \in s : Max(s) >= y
<1>1. s \in SUBSET (0 .. k)
  <2>1. \A x \in s : x \in 0 .. k
    OBVIOUS
  <2> QED BY <2>1
<1>2. PICK x \in s : \A y \in s : y <= x
  BY <1>1, GreatestOfNaturals
<1>3. \A y \in s : x >= y
  BY <1>2
<1> QED BY <1>3 DEF Max

LEMMA FoldAt ==
    ASSUME NEW c, NEW S, NEW g, IsFold(c, S, g), NEW s \in SUBSET S
    PROVE  g[s] = IF s = {} THEN Nothing(c) ELSE Advance(g[Lower(s)], c[Max(s)])
  BY DEF IsFold

LEMMA FoldIsUnique ==
    ASSUME NEW c, NEW S, Topped(S), NEW R \in SUBSET S,
           NEW g, NEW h, IsFold(c, S, g), IsFold(c, R, h), NEW s \in SUBSET R
    PROVE  g[s] = h[s]
<1> DEFINE B == {t \in SUBSET R : g[t] # h[t]}
<1> SUFFICES ASSUME B # {} PROVE FALSE
  OBVIOUS
<1>1. PICK T \in B : \A U \in B : U \subseteq T => U = T
  <2>1. Topped(R) /\ B \in SUBSET (SUBSET R)
    BY ToppedBelow
  <2> HIDE DEF B
  <2> QED BY <2>1, SmallestTopped
<1>2. T \in SUBSET R /\ T \in SUBSET S /\ T # {}
  BY FoldAt
<1>3. Lower(T) \subseteq T /\ Lower(T) # T
  BY <1>2, TopIsIn DEF Lower
<1>4. g[Lower(T)] = h[Lower(T)]
  BY <1>1, <1>2, <1>3
<1>5. g[T] = Advance(g[Lower(T)], c[Max(T)]) /\ h[T] = Advance(h[Lower(T)], c[Max(T)])
  BY <1>2, FoldAt
<1> QED BY <1>1, <1>4, <1>5

LEMMA FoldExists ==
    ASSUME NEW c, NEW S, Topped(S)
    PROVE  \E g : IsFold(c, S, g)
<1> DEFINE B == {T \in SUBSET S : ~\E g : IsFold(c, T, g)}
<1> SUFFICES ASSUME B # {} PROVE FALSE
  OBVIOUS
<1>1. PICK T \in B : \A U \in B : U \subseteq T => U = T
  <2>1. B \in SUBSET (SUBSET S)
    OBVIOUS
  <2> HIDE DEF B
  <2> QED BY <2>1, SmallestTopped
<1>2. T \in SUBSET S /\ Topped(T) /\ ~\E g : IsFold(c, T, g)
  BY ToppedBelow
<1>3. ASSUME NEW U \in SUBSET T, U # T PROVE IsFold(c, U, Folded(c, U))
  <2>1. \E g : IsFold(c, U, g)
    BY <1>1, <1>2, <1>3
  <2> QED BY <2>1 DEF Folded
<1> DEFINE v(s) == IF s = {} THEN Nothing(c) ELSE Advance(Folded(c, Lower(s))[Lower(s)], c[Max(s)])
           h == [s \in SUBSET T |-> v(s)]
<1>4. ASSUME NEW s \in SUBSET T, s # {} PROVE h[Lower(s)] = Folded(c, Lower(s))[Lower(s)]
  <2> DEFINE r == Lower(s)
  <2>1. r \in SUBSET T /\ r # T /\ Topped(r)
    BY <1>2, <1>4, TopIsIn, ToppedBelow DEF Lower
  <2>2. h[r] = v(r)
    BY <2>1
  <2>3. IsFold(c, r, Folded(c, r))
    BY <1>3, <2>1
  <2>4. CASE r = {}
    <3>1. Folded(c, r)[r] = Nothing(c)
      BY <2>3, <2>4, FoldAt
    <3> QED BY <2>2, <2>4, <3>1
  <2>5. CASE r # {}
    <3> DEFINE q == Lower(r)
    <3>1. q \in SUBSET r /\ q \in SUBSET T /\ q # T
      BY <2>1, <2>5, TopIsIn DEF Lower
    <3>2. IsFold(c, q, Folded(c, q))
      BY <1>3, <3>1
    <3>3. Folded(c, r)[r] = Advance(Folded(c, r)[q], c[Max(r)])
      BY <2>3, <2>5, FoldAt
    <3>4. Folded(c, r)[q] = Folded(c, q)[q]
      BY <2>1, <2>3, <3>1, <3>2, FoldIsUnique
    <3> QED BY <2>2, <2>5, <3>3, <3>4
  <2> QED BY <2>4, <2>5
<1>5. IsFold(c, T, h)
  <2>1. \A s \in SUBSET T : v(s) = IF s = {} THEN Nothing(c) ELSE Advance(h[Lower(s)], c[Max(s)])
    BY <1>4
  <2> QED BY <2>1 DEF IsFold
<1> QED BY <1>2, <1>5

LEMMA IndicesAreTopped == ASSUME NEW k \in Nat PROVE Topped(1 .. k)
<1>1. IsFiniteSet(1 .. k)
  BY FS_Interval
<1>2. ASSUME NEW s \in SUBSET (1 .. k), s # {} PROVE Max(s) \in s
  BY <1>2, MaxIsOne
<1> QED BY <1>1, <1>2 DEF Topped

\* The state of the fold after the first k values.
After(c, k) == Folded(c, DOMAIN c)[1 .. k]

LEMMA TopIsLast ==
    ASSUME NEW k \in Nat, k # 0
    PROVE  1 .. k # {} /\ Max(1 .. k) = k /\ (1 .. k) \ {k} = 1 .. (k - 1)
<1> DEFINE s == 1 .. k
           m == Max(s)
<1>1. s \in SUBSET (1 .. k) /\ k \in s
  OBVIOUS
<1>2. m \in s /\ \A y \in s : m >= y
  <2> HIDE DEF s
  <2>1. s # {}
    BY <1>1
  <2> QED BY <1>1, <2>1, MaxIsOne
<1>3. m \in s /\ m >= k
  BY <1>1, <1>2
<1> HIDE DEF m
<1>4. m = k
  BY <1>3
<1> QED BY <1>1, <1>4 DEF m

LEMMA AfterSteps ==
    ASSUME NEW c, NEW N \in Nat, DOMAIN c = 1 .. N, NEW k \in 0 .. N
    PROVE  After(c, k) = IF k = 0 THEN Nothing(c) ELSE Advance(After(c, k - 1), c[k])
<1> DEFINE D == DOMAIN c
           g == Folded(c, D)
           s == 1 .. k
<1>1. IsFold(c, D, g)
  <2>1. Topped(D)
    BY IndicesAreTopped
  <2> QED BY <2>1, FoldExists DEF Folded
<1>2. s \in SUBSET D
  OBVIOUS
<1>3. g[s] = IF s = {} THEN Nothing(c) ELSE Advance(g[Lower(s)], c[Max(s)])
  <2> HIDE DEF D, g, s
  <2> QED BY <1>1, <1>2, FoldAt
<1>4. CASE k = 0
  <2>1. s = {}
    BY <1>4
  <2> QED BY <1>3, <1>4, <2>1 DEF After
<1>5. CASE k # 0
  <2>1. s # {} /\ Max(s) = k /\ Lower(s) = 1 .. (k - 1)
    <3>1. k \in Nat /\ k # 0
      BY <1>5
    <3>2. s # {} /\ Max(s) = k /\ s \ {k} = 1 .. (k - 1)
      BY <3>1, TopIsLast
    <3> QED BY <3>2 DEF Lower
  <2> QED BY <1>3, <1>5, <2>1 DEF After
<1> QED BY <1>4, <1>5

---------------------------------------------------------------------------
(* What the fold has seen                                                  *)

LEMMA MaxOfTwo ==
    ASSUME NEW a \in Int, NEW b \in Int
    PROVE  Max({a, b}) = IF a >= b THEN a ELSE b
<1> DEFINE s == {a, b}
           m == Max(s)
<1>1. \E x \in s : \A y \in s : x >= y
  <2>1. CASE a >= b
    BY <2>1
  <2>2. CASE ~(a >= b)
    BY <2>2
  <2> QED BY <2>1, <2>2
<1>2. m \in s /\ \A y \in s : m >= y
  <2> HIDE DEF s
  <2> QED BY <1>1 DEF Max
<1>3. (m = a \/ m = b) /\ m >= a /\ m >= b
  BY <1>2
<1> HIDE DEF m
<1>4. m = IF a >= b THEN a ELSE b
  BY <1>3
<1> QED BY <1>4 DEF m

\* Shares compare as fractions do.
LEMMA SharesCompare ==
    ASSUME NEW a \in Int, NEW b \in Int, NEW c \in Int,
           NEW x \in Nat, NEW y \in Nat, NEW z \in Nat, y > 0,
           a * y <= b * x, b * z <= c * y
    PROVE  a * z <= c * x
<1>1. (a * y) * z <= (b * x) * z
  <2> DEFINE p == a * y
             q == b * x
  <2>1. p \in Int /\ q \in Int /\ p <= q
    OBVIOUS
  <2> HIDE DEF p, q
  <2>2. p * z <= q * z
    BY <2>1
  <2> QED BY <2>2 DEF p, q
<1>2. (b * z) * x <= (c * y) * x
  <2> DEFINE p == b * z
             q == c * y
  <2>1. p \in Int /\ q \in Int /\ p <= q
    OBVIOUS
  <2> HIDE DEF p, q
  <2>2. p * x <= q * x
    BY <2>1
  <2> QED BY <2>2 DEF p, q
<1>3. (a * y) * z = (a * z) * y /\ (b * x) * z = (b * z) * x /\ (c * y) * x = (c * x) * y
  OBVIOUS
<1> DEFINE p == a * z
           q == c * x
<1>4. p * y <= q * y
  <2>1. /\ (a * y) * z \in Int /\ (b * x) * z \in Int /\ (c * y) * x \in Int
        /\ p * y = (a * z) * y /\ q * y = (c * x) * y
    OBVIOUS
  <2> QED BY <1>1, <1>2, <1>3, <2>1
<1>5. p \in Int /\ q \in Int
  OBVIOUS
<1> HIDE DEF p, q
<1>6. p <= q
  <2> SUFFICES ASSUME p >= q + 1 PROVE FALSE
    BY <1>5
  <2>1. p * y >= (q + 1) * y
    BY <1>5
  <2>2. (q + 1) * y = q * y + y
    BY <1>5
  <2>3. q * y \in Int /\ p * y \in Int
    BY <1>5
  <2> QED BY <1>4, <2>1, <2>2, <2>3
<1> QED BY <1>6 DEF p, q

LEMMA AdvanceFields ==
    ASSUME NEW seen, NEW v \in Int, seen.peak \in Int, NEW f, NEW o,
           seen.worst = [fall |-> f, of |-> o], f \in Nat, o \in Nat \ {0},
           NEW p, p = IF seen.peak >= v THEN seen.peak ELSE v
    PROVE  /\ Advance(seen, v).peak = p
           /\ \/ /\ p > 0 /\ f * p < (p - v) * o
                 /\ Advance(seen, v).worst = [fall |-> p - v, of |-> p]
              \/ /\ ~(p > 0 /\ f * p < (p - v) * o)
                 /\ Advance(seen, v).worst = seen.worst
<1>1. p \in Int /\ Max({seen.peak, v}) = p
  BY MaxOfTwo
<1>2. /\ Advance(seen, v).peak = p
      /\ Advance(seen, v).worst =
           IF p > 0 /\ (p - v) * o > f * p THEN [fall |-> p - v, of |-> p] ELSE seen.worst
  <2> DEFINE d == [fall |-> p - v, of |-> p]
  <2>1. d.fall = p - v /\ d.of = p /\ seen.worst.fall = f /\ seen.worst.of = o
    OBVIOUS
  <2>2. Deeper(d, seen.worst) <=> (p - v) * o > f * p
    <3> HIDE DEF d
    <3> QED BY <2>1, Zenon DEF Deeper
  <2>3. Advance(seen, v) = [peak |-> p, worst |-> IF p > 0 /\ Deeper(d, seen.worst)
                                                   THEN d ELSE seen.worst]
    BY <1>1, Zenon DEF Advance
  <2> HIDE DEF d
  <2>4. /\ Advance(seen, v).peak = p
        /\ Advance(seen, v).worst = IF p > 0 /\ Deeper(d, seen.worst) THEN d ELSE seen.worst
    BY <2>3
  <2> QED BY <2>2, <2>4, Zenon DEF d
<1>3. (p - v) * o > f * p <=> f * p < (p - v) * o
  <2> DEFINE l == (p - v) * o
             r == f * p
  <2>1. l \in Int /\ r \in Int
    BY <1>1
  <2> HIDE DEF l, r
  <2>2. l > r <=> r < l
    BY <2>1
  <2> QED BY <2>2 DEF l, r
<1> QED BY <1>2, <1>3

\* What the fold knows of the values up to the k-th: the highest, and the
\* greatest share a later one lay below one that came before.
Seen(c, k, s) ==
    /\ s.peak \in Int
    /\ s.worst = [fall |-> s.worst.fall, of |-> s.worst.of]
    /\ s.worst.fall \in Nat /\ s.worst.of \in Nat \ {0}
    /\ \A i \in 1 .. k : c[i] <= s.peak
    /\ IF k = 0 THEN s.peak = c[1] ELSE \E i \in 1 .. k : c[i] = s.peak
    /\ \A i, j \in 1 .. k : i < j /\ c[i] > 0 /\ c[j] >= 0 =>
         (c[i] - c[j]) * s.worst.of <= s.worst.fall * c[i]
    /\ s.worst # NoFall => \E i, j \in 1 .. k :
         i < j /\ s.worst = [fall |-> c[i] - c[j], of |-> c[i]]

\* The next value lies no further below an earlier one, as a share, than below
\* the peak.
LEMMA PeakIsWorst ==
    ASSUME NEW x \in Nat, NEW p \in Nat, NEW v \in Nat, x <= p
    PROVE  (x - v) * p <= (p - v) * x
<1>1. x * v <= p * v
  <2>1. p - x \in Nat /\ (p - x) * v \in Nat /\ (p - x) * v = p * v - x * v
    OBVIOUS
  <2>2. p * v \in Nat /\ x * v \in Nat
    OBVIOUS
  <2> QED BY <2>1, <2>2
<1>2. (x - v) * p = x * p - p * v /\ (p - v) * x = x * p - x * v
  OBVIOUS
<1>3. x * p \in Nat /\ p * v \in Nat /\ x * v \in Nat
  OBVIOUS
<1> QED BY <1>1, <1>2, <1>3

LEMMA SeenSteps ==
    ASSUME NEW c, NEW k \in Nat \ {0}, \A i \in 1 .. k : c[i] \in Int,
           NEW s, Seen(c, k - 1, s), NEW t, t = Advance(s, c[k])
    PROVE  Seen(c, k, t)
<1> DEFINE v == c[k]
           f == s.worst.fall
           o == s.worst.of
<1>1. /\ v \in Int /\ s.peak \in Int /\ f \in Nat /\ o \in Nat /\ o > 0
      /\ s.worst = [fall |-> f, of |-> o]
      /\ 1 .. k = 1 .. (k - 1) \cup {k} /\ k \notin 1 .. (k - 1)
  BY DEF Seen
<1> DEFINE p == IF s.peak >= v THEN s.peak ELSE v
<1> HIDE DEF v, f, o
<1>2. /\ p \in Int /\ p = (IF s.peak >= v THEN s.peak ELSE v)
      /\ t.peak = p
      /\ \/ /\ p > 0 /\ f * p < (p - v) * o
            /\ t.worst = [fall |-> p - v, of |-> p]
         \/ /\ ~(p > 0 /\ f * p < (p - v) * o)
            /\ t.worst = s.worst
  <2>1. t = Advance(s, v) /\ o \in Nat \ {0}
    BY <1>1 DEF v
  <2>2. p \in Int
    BY <1>1
  <2>3. p = IF s.peak >= v THEN s.peak ELSE v
    OBVIOUS
  <2> HIDE DEF p
  <2>4. /\ Advance(s, v).peak = p
        /\ \/ /\ p > 0 /\ f * p < (p - v) * o
              /\ Advance(s, v).worst = [fall |-> p - v, of |-> p]
           \/ /\ ~(p > 0 /\ f * p < (p - v) * o)
              /\ Advance(s, v).worst = s.worst
    BY <1>1, <2>1, <2>3, AdvanceFields
  <2> QED BY <2>1, <2>2, <2>3, <2>4
<1> HIDE DEF p
<1> USE DEF v, f, o
<1>3. \A i \in 1 .. k : c[i] <= p
  BY <1>1, <1>2 DEF Seen
<1>4. \E i \in 1 .. k : c[i] = p
  <2>1. CASE p = v
    BY <1>1, <2>1
  <2>2. CASE p # v
    <3>1. p = s.peak
      BY <1>2, <2>2
    <3>2. CASE k - 1 = 0
      BY <2>2, <3>1, <3>2 DEF Seen
    <3>3. CASE k - 1 # 0
      BY <1>1, <3>1, <3>3 DEF Seen
    <3> QED BY <3>2, <3>3
  <2> QED BY <2>1, <2>2
<1>5. p - v \in Nat
  BY <1>1, <1>2
<1>6. /\ t.worst = [fall |-> t.worst.fall, of |-> t.worst.of]
      /\ t.worst.fall \in Nat /\ t.worst.of \in Nat \ {0}
  BY <1>1, <1>2, <1>5
\* The worst fall is no smaller than it was.
<1>7. f * t.worst.of <= t.worst.fall * o
  <2>1. CASE t.worst = s.worst
    <3>1. f * o <= f * o
      BY <1>1
    <3> QED BY <1>1, <2>1, <3>1
  <2>2. CASE p > 0 /\ f * p < (p - v) * o /\ t.worst = [fall |-> p - v, of |-> p]
    <3> DEFINE l == f * p
               r == (p - v) * o
    <3>1. l \in Int /\ r \in Int /\ l < r
      BY <1>1, <1>2, <2>2
    <3>2. t.worst.fall = p - v /\ t.worst.of = p
      BY <2>2
    <3> HIDE DEF l, r
    <3>3. l <= r
      BY <3>1
    <3> QED BY <3>2, <3>3 DEF l, r
  <2> QED BY <1>2, <2>1, <2>2
<1> DEFINE F == t.worst.fall
           O == t.worst.of
<1>8. F \in Nat /\ O \in Nat /\ O > 0
  BY <1>6
<1>9. ASSUME NEW i \in 1 .. k, NEW j \in 1 .. k, i < j, c[i] > 0, c[j] >= 0
      PROVE  (c[i] - c[j]) * O <= F * c[i]
  <2> DEFINE x == c[i]
             y == c[j]
  <2>1. x \in Nat /\ y \in Nat /\ x > 0 /\ i \in 1 .. (k - 1)
    BY <1>1, <1>9
  <2>2. CASE j # k
    <3>1. (x - y) * o <= f * x
      BY <1>1, <1>9, <2>1, <2>2 DEF Seen
    <3>2. x - y \in Int /\ f * O <= F * o
      BY <1>7, <2>1
    <3> HIDE DEF x, y, f, o, F, O
    <3>3. (x - y) * O <= F * x
      BY <1>1, <1>8, <2>1, <3>1, <3>2, SharesCompare
    <3> QED BY <3>3 DEF x, y, O, F
  <2>3. CASE j = k
    <3>1. y = v /\ x <= p /\ p \in Nat /\ p > 0
      <4>1. y = v /\ x <= p
        BY <1>3, <2>3
      <4> HIDE DEF x
      <4> QED BY <1>2, <2>1, <4>1
    <3>2. (x - v) * p <= (p - v) * x
      BY <2>1, <3>1, PeakIsWorst
    <3>3. (p - v) * O <= F * p
      <4>1. CASE t.worst = [fall |-> p - v, of |-> p]
        <5>1. F = p - v /\ O = p
          BY <4>1
        <5>2. (p - v) * p <= (p - v) * p
          BY <1>5, <3>1
        <5> QED BY <5>1, <5>2
      <4>2. CASE t.worst = s.worst /\ ~(f * p < (p - v) * o)
        <5> DEFINE l == f * p
                   r == (p - v) * o
        <5>1. l \in Int /\ r \in Int /\ ~(l < r)
          BY <1>1, <1>2, <4>2
        <5>2. F = f /\ O = o
          BY <4>2
        <5> HIDE DEF l, r
        <5>3. r <= l
          BY <5>1
        <5> QED BY <5>2, <5>3 DEF l, r
      <4> QED BY <1>2, <3>1, <4>1, <4>2
    <3>4. x - v \in Int /\ p - v \in Int
      BY <1>1, <1>2, <2>1
    <3> HIDE DEF x, y, v, F, O
    <3>5. (x - v) * O <= F * x
      BY <1>8, <2>1, <3>1, <3>2, <3>3, <3>4, SharesCompare
    <3> QED BY <3>1, <3>5 DEF x, y, F, O
  <2> QED BY <2>2, <2>3
<1>10. t.worst # NoFall => \E i, j \in 1 .. k : i < j /\ t.worst = [fall |-> c[i] - c[j], of |-> c[i]]
  <2>1. CASE t.worst = s.worst
    BY <1>1, <2>1 DEF Seen
  <2>2. CASE p > 0 /\ f * p < (p - v) * o /\ t.worst = [fall |-> p - v, of |-> p]
    <3>1. p # v
      <4> SUFFICES ASSUME p = v PROVE FALSE
        OBVIOUS
      <4>1. (p - v) * o = 0 /\ f * p \in Nat
        BY <1>1, <2>2
      <4> QED BY <2>2, <4>1
    <3>2. PICK i \in 1 .. k : c[i] = p
      BY <1>4
    <3>3. i < k
      BY <3>1, <3>2
    <3> QED BY <1>1, <2>2, <3>2, <3>3
  <2> QED BY <1>2, <2>1, <2>2
<1> QED BY <1>2, <1>3, <1>4, <1>6, <1>9, <1>10 DEF Seen

LEMMA SeenAll ==
    ASSUME NEW c, NEW N \in Nat \ {0}, DOMAIN c = 1 .. N, \A i \in 1 .. N : c[i] \in Int
    PROVE  Seen(c, N, After(c, N))
<1> DEFINE B == {k \in 0 .. N : ~Seen(c, k, After(c, k))}
<1> SUFFICES ASSUME B # {} PROVE FALSE
  OBVIOUS
<1>1. PICK m \in B : \A k \in B : m <= k
  <2>1. B \in SUBSET Nat
    OBVIOUS
  <2> HIDE DEF B
  <2> QED BY <2>1, LeastOfNaturals
<1>2. m \in 0 .. N /\ ~Seen(c, m, After(c, m))
  BY <1>1
<1>3. m # 0
  <2> SUFFICES ASSUME m = 0 PROVE Seen(c, 0, After(c, 0))
    BY <1>2
  <2> DEFINE s == After(c, 0)
  <2>1. s = Nothing(c)
    <3>1. 0 \in 0 .. N
      OBVIOUS
    <3> QED BY <3>1, AfterSteps
  <2>2. s.peak = c[1] /\ s.worst = NoFall /\ s.worst.fall = 0 /\ s.worst.of = 1
    BY <2>1 DEF Nothing, NoFall
  <2>3. c[1] \in Int /\ 1 .. 0 = {}
    OBVIOUS
  <2>4. s.worst = [fall |-> s.worst.fall, of |-> s.worst.of]
    BY <2>2 DEF NoFall
  <2> HIDE DEF s
  <2> QED BY <2>2, <2>3, <2>4 DEF Seen, s
<1>4. m - 1 \in 0 .. N /\ m - 1 \notin B /\ m \in Nat \ {0}
  BY <1>1, <1>2, <1>3
<1>5. Seen(c, m - 1, After(c, m - 1))
  BY <1>4
<1>6. After(c, m) = Advance(After(c, m - 1), c[m])
  BY <1>2, <1>3, AfterSteps
<1>7. \A i \in 1 .. m : c[i] \in Int
  BY <1>2
<1>8. Seen(c, m, After(c, m))
  BY <1>4, <1>5, <1>6, <1>7, SeenSteps
<1> QED BY <1>2, <1>8

\* d is the greatest fall from one of the first N values to a later one, as a
\* share of what it is a fall from.
DeepestOf(c, N, d) ==
    /\ \A i, j \in 1 .. N :
         (i < j /\ c[i] > 0 /\ c[j] >= 0) => ~Deeper([fall |-> c[i] - c[j], of |-> c[i]], d)
    /\ d # NoFall => \E i, j \in 1 .. N :
         i < j /\ d = [fall |-> c[i] - c[j], of |-> c[i]]

\* What _max_drawdown_pct finds.
LEMMA DrawdownIsWorst ==
    ASSUME NEW c, NEW N \in Nat \ {0}, DOMAIN c = 1 .. N, \A i \in 1 .. N : c[i] \in Int
    PROVE  DeepestOf(c, N, MaxDrawdown(c))
<1> DEFINE d == MaxDrawdown(c)
<1>1. Seen(c, N, After(c, N)) /\ d = After(c, N).worst
  BY SeenAll, DrawdownIsFold DEF After
<1> HIDE DEF d
<1>2. /\ d.fall \in Nat /\ d.of \in Nat \ {0} /\ d = [fall |-> d.fall, of |-> d.of]
      /\ d # NoFall => \E i, j \in 1 .. N : i < j /\ d = [fall |-> c[i] - c[j], of |-> c[i]]
  BY <1>1 DEF Seen
<1>3. ASSUME NEW i \in 1 .. N, NEW j \in 1 .. N, i < j, c[i] > 0, c[j] >= 0
      PROVE  ~Deeper([fall |-> c[i] - c[j], of |-> c[i]], d)
  <2> DEFINE l == (c[i] - c[j]) * d.of
             r == d.fall * c[i]
  <2>1. l <= r
    BY <1>1, <1>3 DEF Seen
  <2>2. l \in Int /\ r \in Int
    BY <1>2
  <2>3. Deeper([fall |-> c[i] - c[j], of |-> c[i]], d) <=> l > r
    BY DEF Deeper
  <2> HIDE DEF l, r
  <2> QED BY <2>1, <2>2, <2>3
<1> QED BY <1>2, <1>3 DEF DeepestOf, d

---------------------------------------------------------------------------
(* The drawdown that is stored                                             *)

LEMMA ResultIsDeepest ==
    ASSUME ReplayInv, phase = "end", NEW d \in Result.drawdown
    PROVE  DeepestOf(curve, Len(curve), d)
<1>1. d = MaxDrawdown(curve)
  BY DEF Result, ComputeMetrics
<1>2. Len(curve) \in Nat \ {0} /\ DOMAIN curve = 1 .. Len(curve) /\ \A i \in 1 .. Len(curve) : curve[i] \in Int
  BY DEF ReplayInv, BacktestTypeOK, StageInv
<1> QED BY <1>1, <1>2, DrawdownIsWorst

LEMMA DrawdownNext ==
    ASSUME RunInv, ReplayInv, DrawdownIsDeepest, [Next]_vars
    PROVE  DrawdownIsDeepest'
<1> SUFFICES ASSUME task' = "trades", NEW r \in row'.result, NEW d \in r.drawdown
             PROVE  DeepestOf(curve', Len(curve'), d)
  BY DEF DrawdownIsDeepest, DeepestOf
<1>1. CASE Resultless
  BY <1>1 DEF Resultless
<1>2. CASE StoresResult
  <2>1. r = Result /\ curve' = curve
    BY <1>2 DEF StoresResult
  <2>2. phase = "end"
    BY <1>2 DEF StoresResult
  <2> QED BY <2>1, <2>2, ResultIsDeepest
<1>3. CASE LeavesStores
  BY <1>3 DEF LeavesStores, DrawdownIsDeepest, DeepestOf
<1>4. CASE StoresTrades
  BY <1>4 DEF StoresTrades
<1> QED BY <1>1, <1>2, <1>3, <1>4, StoreSteps

\* The drawdown a run stores is the greatest fall of its equity from one bar to
\* a later one, as a share of what it fell from (backtest/metrics.py:43-56), as
\* long as the equity it fell to is not negative.
THEOREM DrawdownsAreDeepest == Spec => []DrawdownIsDeepest
<1>1. Init => DrawdownIsDeepest
  BY DEF Init, DrawdownIsDeepest
<1>2. RunInv /\ ReplayInv /\ DrawdownIsDeepest /\ [Next]_vars => DrawdownIsDeepest'
  BY DrawdownNext
<1> QED BY <1>1, <1>2, RunInvAlways, ReplayInvAlways, PTL DEF Spec

---------------------------------------------------------------------------
(* A page of the broker's history                                          *)

Above(S, t) == {u \in S : u > t}
Newest(S, k) == {t \in S : Cardinality(Above(S, t)) < k}

LEMMA MinIsOne ==
    ASSUME NEW S \in SUBSET Nat, S # {}
    PROVE  Min(S) \in S /\ \A y \in S : Min(S) <= y
<1>1. \E x \in S : \A y \in S : x <= y
  BY LeastOfNaturals
<1> QED BY <1>1 DEF Min

LEMMA AboveShrinks ==
    ASSUME NEW S, IsFiniteSet(S), S \subseteq Nat, NEW t \in Nat, NEW u \in Nat, t <= u
    PROVE  /\ IsFiniteSet(Above(S, t)) /\ IsFiniteSet(Above(S, u))
           /\ Cardinality(Above(S, t)) \in Nat /\ Cardinality(Above(S, u)) \in Nat
           /\ Cardinality(Above(S, u)) <= Cardinality(Above(S, t))
           /\ u \in S /\ t < u => Cardinality(Above(S, u)) < Cardinality(Above(S, t))
<1> DEFINE A == Above(S, t)
           B == Above(S, u)
<1>1. A \subseteq S /\ B \subseteq A /\ u \notin B /\ (u \in S /\ t < u => u \in A)
  <2>1. \A v \in S : v \in Nat
    OBVIOUS
  <2>2. \A v \in S : v > u => v > t
    BY <2>1
  <2>3. A \subseteq S /\ (u \in S /\ t < u => u \in A)
    BY DEF Above
  <2>4. B \subseteq A
    BY <2>2 DEF Above
  <2>5. u \notin B
    BY DEF Above
  <2> QED BY <2>3, <2>4, <2>5
<1> HIDE DEF A, B
<1>2. IsFiniteSet(A) /\ IsFiniteSet(B)
  BY <1>1, FS_Subset
<1>3. Cardinality(A) \in Nat /\ Cardinality(B) \in Nat
  BY <1>2, FS_CardinalityType
<1>4. Cardinality(B) <= Cardinality(A) /\ (Cardinality(A) = Cardinality(B) => A = B)
  BY <1>1, <1>2, FS_Subset
<1> QED BY <1>1, <1>2, <1>3, <1>4 DEF A, B

\* The newest k of a set, or all of it where there are no more.
IsPage(U, k, B) ==
    /\ B \subseteq U /\ IsFiniteSet(U) /\ IsFiniteSet(B)
    /\ \A t \in B, u \in U : t < u => u \in B
    /\ Cardinality(B) \in Nat /\ Cardinality(B) <= k
    /\ B # U => Cardinality(B) = k

LEMMA PageIsNewest ==
    ASSUME NEW c \in Nat, NEW U, U \subseteq 0 .. c, NEW k \in Nat \ {0},
           NEW B, B = Newest(U, k)
    PROVE  IsPage(U, k, B)
<1>1. B \subseteq U /\ U \subseteq Nat /\ B \subseteq Nat
  <2>1. B \subseteq U
    BY DEF Newest
  <2>2. 0 .. c \subseteq Nat
    OBVIOUS
  <2> QED BY <2>1, <2>2
<1>2. IsFiniteSet(U) /\ IsFiniteSet(B)
  <2>1. IsFiniteSet(0 .. c)
    BY FS_Interval
  <2>2. IsFiniteSet(U)
    BY <2>1, FS_Subset
  <2> QED BY <1>1, <2>2, FS_Subset
<1>3. Cardinality(B) \in Nat
  BY <1>2, FS_CardinalityType
<1>4. \A t \in B, u \in U : t < u => u \in B
  <2> SUFFICES ASSUME NEW t \in B, NEW u \in U, t < u PROVE u \in B
    OBVIOUS
  <2>1. /\ Cardinality(Above(U, u)) <= Cardinality(Above(U, t))
        /\ Cardinality(Above(U, u)) \in Nat /\ Cardinality(Above(U, t)) \in Nat
    <3>1. t \in Nat /\ u \in Nat /\ t <= u
      BY <1>1
    <3> QED BY <1>1, <1>2, <3>1, AboveShrinks
  <2> QED BY <2>1 DEF Newest
<1>5. Cardinality(B) <= k
  <2>1. CASE B = {}
    BY <2>1, FS_EmptySet
  <2>2. CASE B # {}
    <3> DEFINE m == Min(B)
               A == Above(U, m)
    <3>1. m \in B /\ \A y \in B : m <= y
      BY <1>1, <2>2, MinIsOne
    <3> HIDE DEF m
    <3>2. B \subseteq A \cup {m}
      BY <1>1, <3>1 DEF Above
    <3>3. IsFiniteSet(A) /\ Cardinality(A) \in Nat /\ Cardinality(A) < k /\ m \notin A
      <4>1. IsFiniteSet(A) /\ m \notin A
        BY <1>1, <1>2, <3>1, FS_Subset DEF Above
      <4>2. Cardinality(A) < k
        BY <3>1 DEF Newest
      <4> QED BY <4>1, <4>2, FS_CardinalityType
    <3> HIDE DEF A
    <3>4. IsFiniteSet(A \cup {m}) /\ Cardinality(A \cup {m}) = Cardinality(A) + 1
      BY <3>3, FS_AddElement
    <3>5. Cardinality(B) <= Cardinality(A \cup {m})
      BY <3>2, <3>4, FS_Subset
    <3> QED BY <1>3, <3>3, <3>4, <3>5
  <2> QED BY <2>1, <2>2
<1>6. ASSUME B # U PROVE Cardinality(B) >= k
  <2> DEFINE rest == U \ B
  <2>1. rest \in SUBSET (0 .. c) /\ rest # {}
    BY <1>1, <1>6
  <2>2. PICK x \in rest : \A y \in rest : y <= x
    <3> HIDE DEF rest
    <3> QED BY <2>1, GreatestOfNaturals
  <2> DEFINE A == Above(U, x)
  <2>3. A \subseteq B
    <3> SUFFICES ASSUME NEW y \in A, y \notin B PROVE FALSE
      OBVIOUS
    <3>1. y \in rest /\ y > x /\ y \in Nat /\ x \in Nat
      BY <1>1, <2>2 DEF Above
    <3> QED BY <2>2, <3>1
  <2>4. Cardinality(A) <= Cardinality(B) /\ Cardinality(A) \in Nat
    <3>1. IsFiniteSet(A)
      BY <1>2, <2>3, FS_Subset
    <3> HIDE DEF A
    <3> QED BY <1>2, <2>3, <3>1, FS_Subset, FS_CardinalityType
  <2>5. ~(Cardinality(A) < k)
    BY <2>2 DEF Newest
  <2> QED BY <1>3, <2>4, <2>5
<1> QED BY <1>1, <1>2, <1>3, <1>4, <1>5, <1>6 DEF IsPage

---------------------------------------------------------------------------
(* Remainders                                                              *)

LEMMA ProductOfLess ==
    ASSUME NEW d \in Nat \ {0}, NEW p \in Int, NEW q \in Int, p < q
    PROVE  d * p + d <= d * q
<1>1. q - p \in Nat /\ q - p >= 1
  OBVIOUS
<1>2. d * (q - p) >= d
  BY <1>1
<1>3. d * (q - p) = d * q - d * p
  OBVIOUS
<1>4. d * q \in Int /\ d * p \in Int
  OBVIOUS
<1> QED BY <1>2, <1>3, <1>4

LEMMA RemainderIsOne ==
    ASSUME NEW d \in Nat \ {0}, NEW y \in Nat, NEW q \in Int, NEW r \in Nat, r < d, y = d * q + r
    PROVE  y % d = r
<1> DEFINE p == y \div d
           s == y % d
           dp == d * p
           dq == d * q
<1>1. p \in Int /\ s \in Nat /\ s < d /\ y = d * p + s
  OBVIOUS
<1> HIDE DEF p, s
<1>2. dp \in Int /\ dq \in Int
  BY <1>1
<1>3. (p < q => dp + d <= dq) /\ (q < p => dq + d <= dp)
  BY <1>1, ProductOfLess
<1>4. y = dp + s /\ y = dq + r
  BY <1>1
<1> HIDE DEF dp, dq
<1>5. p = q
  BY <1>1, <1>2, <1>3, <1>4
<1>6. dp = dq
  BY <1>5 DEF dp, dq
<1>7. s = r
  BY <1>1, <1>2, <1>4, <1>6
<1> QED BY <1>7 DEF s

LEMMA NothingRemains == ASSUME NEW d \in Nat \ {0} PROVE 0 % d = 0
<1>1. 0 \in Nat /\ 0 \in Int /\ 0 < d /\ 0 = d * 0 + 0
  OBVIOUS
<1> QED BY <1>1, RemainderIsOne

LEMMA Remainders ==
    ASSUME NEW x \in Nat, NEW d \in Nat \ {0}, x % d = 0
    PROVE  /\ \A r \in Nat : r < d => (x + r) % d = r
           /\ (x + d) % d = 0
<1> DEFINE q == x \div d
           dq == d * q
<1>1. q \in Int /\ x = dq
  OBVIOUS
<1>2. dq \in Int /\ d * (q + 1) = dq + d
  BY <1>1
<1> HIDE DEF q
<1>3. \A r \in Nat : r < d => (x + r) % d = r
  <2> TAKE r \in Nat
  <2> HAVE r < d
  <2>1. x + r \in Nat /\ x + r = d * q + r
    BY <1>1
  <2> QED BY <1>1, <2>1, RemainderIsOne
<1>4. (x + d) % d = 0
  <2>1. x + d \in Nat /\ x + d = d * (q + 1) + 0 /\ q + 1 \in Int
    BY <1>1, <1>2
  <2> DEFINE y == x + d
             k == q + 1
  <2> HIDE DEF y, k
  <2>2. y \in Nat /\ k \in Int /\ y = d * k + 0 /\ 0 \in Nat /\ 0 < d
    BY <2>1 DEF y, k
  <2>3. y % d = 0
    BY <2>2, RemainderIsOne
  <2> QED BY <2>3 DEF y
<1> QED BY <1>3, <1>4

\* What is left of a page that is cut at s: all of the set from its first on,
\* and all of it from s on where it ends there or is less than a page.
IsCut(U, k, s, B, R) ==
    /\ R \subseteq U /\ U \subseteq Nat /\ IsFiniteSet(R) /\ Cardinality(R) \in Nat
    /\ B = {} => U = {}
    /\ B # {} /\ R = {} => \A u \in U : u < s
    /\ R # {} =>
         /\ Min(R) \in R /\ s <= Min(R)
         /\ R = {t \in U : t >= Min(R)}
         /\ Min(R) <= s \/ Cardinality(R) < k => R = {t \in U : t >= s}
         /\ ~(Min(R) <= s \/ Cardinality(R) < k) => Cardinality(R) = k
         /\ \A t \in R : t # Min(R) \/ Cardinality(R) < k
                           => Cardinality(Above(R, t)) + 2 <= k

LEMMA PageIsCut ==
    ASSUME NEW c \in Nat, NEW U, U \subseteq 0 .. c, NEW k \in Nat \ {0}, NEW s \in Nat,
           NEW B, B = Newest(U, k), NEW R, R = {t \in B : t >= s}
    PROVE  IsCut(U, k, s, B, R)
<1>1. /\ B \subseteq U /\ IsFiniteSet(U) /\ IsFiniteSet(B)
      /\ \A t \in B, u \in U : t < u => u \in B
      /\ Cardinality(B) \in Nat /\ Cardinality(B) <= k
      /\ B # U => Cardinality(B) = k
  <2>1. IsPage(U, k, B)
    BY PageIsNewest
  <2> QED BY <2>1 DEF IsPage
<1>2. R \subseteq B /\ U \subseteq Nat /\ R \subseteq Nat
  <2>1. 0 .. c \subseteq Nat
    OBVIOUS
  <2> QED BY <1>1, <2>1
<1>3. IsFiniteSet(R) /\ Cardinality(R) \in Nat /\ Cardinality(R) <= Cardinality(B)
  BY <1>1, <1>2, FS_Subset, FS_CardinalityType
<1>4. B = {} => U = {}
  BY <1>1, FS_EmptySet
<1>5. ASSUME B # {}, R = {}, NEW u \in U PROVE u < s
  <2>1. PICK t \in B : TRUE
    BY <1>5
  <2>2. t \in Nat /\ u \in Nat /\ t < s
    BY <1>1, <1>2, <1>5
  <2>3. u >= s => t < u
    BY <2>2
  <2> QED BY <1>1, <1>5, <2>2, <2>3
<1>6. ASSUME R # {}
      PROVE  /\ Min(R) \in R /\ s <= Min(R)
             /\ R = {t \in U : t >= Min(R)}
             /\ Min(R) <= s \/ Cardinality(R) < k => R = {t \in U : t >= s}
             /\ ~(Min(R) <= s \/ Cardinality(R) < k) => Cardinality(R) = k
             /\ \A t \in R : t # Min(R) \/ Cardinality(R) < k
                               => Cardinality(Above(R, t)) + 2 <= k
  <2> DEFINE m == Min(R)
  <2>1. m \in R /\ \A y \in R : m <= y
    BY <1>2, <1>6, MinIsOne
  <2> HIDE DEF m
  <2>2. m \in Nat /\ m >= s /\ m \in B /\ m \in U
    BY <1>1, <1>2, <2>1
  <2>3. R = {t \in U : t >= m}
    <3>1. ASSUME NEW t \in U, t >= m PROVE t \in R
      <4>1. t \in Nat /\ t >= s
        BY <1>2, <2>2, <3>1
      <4>2. t = m \/ m < t
        BY <2>2, <3>1, <4>1
      <4> QED BY <1>1, <2>1, <2>2, <3>1, <4>1, <4>2
    <3>2. ASSUME NEW t \in R PROVE t \in U /\ t >= m
      <4>1. t \in Nat /\ m <= t /\ t \in U
        BY <1>1, <1>2, <2>1
      <4> QED BY <2>2, <4>1
    <3> QED BY <3>1, <3>2
  <2>4. ASSUME m <= s \/ Cardinality(R) < k PROVE R = {t \in U : t >= s}
    <3>1. CASE m <= s
      <4>1. m = s
        BY <2>2, <3>1
      <4> QED BY <2>3, <4>1
    <3>2. CASE Cardinality(R) < k
      <4>1. ASSUME NEW t \in U, t >= s PROVE t \in B
        <5> SUFFICES ASSUME t \notin B PROVE FALSE
          OBVIOUS
        <5>1. t \in Nat
          BY <1>2
        <5>2. ASSUME NEW b \in B PROVE b >= s
          <6>1. b \in Nat /\ ~(b < t)
            BY <1>1, <1>2
          <6> QED BY <4>1, <5>1, <6>1
        <5>3. R = B
          BY <5>2
        <5>4. Cardinality(B) = k
          BY <1>1
        <5> QED BY <3>2, <5>3, <5>4
      <4> QED BY <1>1, <4>1
    <3> QED BY <2>4, <3>1, <3>2
  <2>5. ASSUME NEW t \in R, t # m \/ Cardinality(R) < k
        PROVE  Cardinality(Above(R, t)) + 2 <= k
    <3> DEFINE A == Above(R, t)
               most == R \ {t}
               less == R \ {t, m}
    <3>1. A \subseteq most /\ (t # m => A \subseteq less) /\ t \in Nat
      <4>1. \A u \in R : u > t => u # t /\ (t # m => u # m)
        <5>1. \A u \in R : u \in Nat /\ m <= u
          BY <1>2, <2>1
        <5> QED BY <2>2, <5>1
      <4>2. A = {u \in R : u > t}
        BY DEF Above
      <4> HIDE DEF A
      <4> QED BY <1>2, <4>1, <4>2
    <3>2. IsFiniteSet(most) /\ Cardinality(most) = Cardinality(R) - 1
      BY <1>3, FS_RemoveElement
    <3>3. less = most \ {m}
      OBVIOUS
    <3>4. m \in most <=> t # m
      BY <2>1
    <3> HIDE DEF A, most, less
    <3>5. IsFiniteSet(less) /\ (t # m => Cardinality(less) = Cardinality(R) - 2)
      <4>1. /\ IsFiniteSet(most \ {m})
            /\ Cardinality(most \ {m}) = IF m \in most THEN Cardinality(most) - 1
                                                       ELSE Cardinality(most)
        BY <3>2, FS_RemoveElement
      <4> QED BY <1>3, <3>2, <3>3, <3>4, <4>1
    <3>6. Cardinality(A) \in Nat /\ Cardinality(A) <= Cardinality(most)
      BY <3>1, <3>2, FS_Subset, FS_CardinalityType
    <3>7. t # m => Cardinality(A) <= Cardinality(less)
      BY <3>1, <3>5, FS_Subset
    <3>8. CASE t # m
      <4>1. Cardinality(A) <= Cardinality(R) - 2
        BY <3>5, <3>7, <3>8
      <4> QED BY <1>1, <1>3, <3>6, <4>1 DEF A
    <3>9. CASE Cardinality(R) < k
      <4>1. Cardinality(A) <= Cardinality(R) - 1
        BY <3>2, <3>6
      <4> QED BY <1>3, <3>6, <3>9, <4>1 DEF A
    <3> QED BY <2>5, <3>8, <3>9
  <2>6. ~(m <= s \/ Cardinality(R) < k) => Cardinality(R) = k
    BY <1>1, <1>3
  <2> QED BY <2>1, <2>2, <2>3, <2>4, <2>5, <2>6 DEF m
<1> QED BY <1>1, <1>2, <1>3, <1>4, <1>5, <1>6 DEF IsCut

---------------------------------------------------------------------------
(* The walk                                                                *)

Newer(t) == Cardinality(Above(Wanted, t))

Begun == walk.cursor = walk.range.end /\ walk.candles = NoCandles

\* Pages that end before the cursor: whole ones behind it, each candle once.
Exclusive ==
    /\ \A t \in Times : walk.candles[t] = IF t \in Wanted /\ t >= walk.cursor THEN 1 ELSE 0
    /\ Cardinality({t \in Wanted : t >= walk.cursor}) % PageSize = 0

\* Pages that end with the cursor: it is at a border, the candle of which will
\* be loaded again.
Inclusive ==
    \/ Begun
    \/ /\ walk.cursor \in Wanted /\ OnBorder(walk.cursor)
       /\ \A t \in Times :
            walk.candles[t] = IF t \notin Wanted \/ t < walk.cursor THEN 0
                              ELSE IF t > walk.cursor /\ OnBorder(t) THEN 2 ELSE 1

OnTheWay == walk \in Walks /\ walk.range.start < walk.cursor /\ walk.cursor <= walk.range.end

WalkInv ==
    /\ task \notin {"get", "load", "prepare"} => walk = NoWalk
    /\ task \in {"get", "load", "prepare"} => walk \in Walks
    /\ task \in {"get", "load"} =>
         OnTheWay /\ IF walk.inclusive THEN Inclusive ELSE Exclusive
    /\ RangeLoaded

LEMMA WalkFields ==
    ASSUME walk \in Walks
    PROVE  /\ walk = [range |-> walk.range, history |-> walk.history, inclusive |-> walk.inclusive,
                      sound |-> walk.sound, cursor |-> walk.cursor, candles |-> walk.candles]
           /\ walk.range \in Ranges /\ walk.history \in Histories
           /\ walk.range.start \in Nat /\ walk.range.end \in Nat /\ walk.cursor \in Nat
           /\ walk.range.start \in Times /\ walk.range.end \in Times /\ walk.cursor \in Times
           /\ walk.history \subseteq Nat /\ walk.history \subseteq Times
           /\ walk.inclusive \in BOOLEAN
           /\ walk.candles \in [Times -> 0 .. 2]
<1>1. walk.range \in Ranges /\ walk.history \in Histories /\ walk.cursor \in Times
  BY DEF Walks
<1>2. walk.range \in [start : Times, end : Times]
  BY <1>1, RunAssumption
<1>3. walk.history \in SUBSET Times
  BY <1>1, RunAssumption
<1> QED BY <1>1, <1>2, <1>3, RunAssumption DEF Walks

\* The candles a page can be made of.
Reachable(t) == IF walk.inclusive THEN t <= walk.cursor ELSE t < walk.cursor

LEMMA WantedFields ==
    ASSUME walk \in Walks
    PROVE  /\ Wanted \subseteq Nat /\ Wanted \subseteq Times /\ IsFiniteSet(Wanted)
           /\ \A t \in Wanted : walk.range.start <= t /\ t <= walk.range.end
<1>1. Wanted \subseteq Nat /\ Wanted \subseteq Times
  BY WalkFields DEF Wanted
<1>2. \A t \in Wanted : walk.range.start <= t /\ t <= walk.range.end
  BY WalkFields DEF Wanted
<1>3. IsFiniteSet(Wanted)
  BY <1>1, <1>2, WalkFields, FS_BoundedSetOfNaturals
<1> QED BY <1>1, <1>2, <1>3

LEMMA PageOfWalk ==
    ASSUME OnTheWay
    PROVE  /\ IsCut(UpTo, PageSize, walk.range.start, Batch, InRange)
           /\ \A x \in Nat : x >= walk.range.start =>
                {t \in UpTo : t >= x} = {t \in Wanted : t >= x /\ Reachable(t)}
<1>1. walk \in Walks
  BY DEF OnTheWay
<1>2. UpTo \subseteq 0 .. walk.cursor
  BY <1>1, WalkFields DEF UpTo
<1>3. Batch = Newest(UpTo, PageSize)
  BY DEF Batch, Newest, Above
<1>4. IsCut(UpTo, PageSize, walk.range.start, Batch, InRange)
  <2>1. PageSize \in Nat \ {0}
    BY RunAssumption
  <2> QED BY <1>1, <1>2, <1>3, <2>1, WalkFields, PageIsCut DEF InRange
<1>5. ASSUME NEW x \in Nat, x >= walk.range.start
      PROVE  {t \in UpTo : t >= x} = {t \in Wanted : t >= x /\ Reachable(t)}
  <2>1. \A t \in walk.history : t >= x =>
          (t \in UpTo <=> t \in Wanted /\ Reachable(t))
    <3> SUFFICES ASSUME NEW t \in walk.history, t >= x
                 PROVE  t \in UpTo <=> t \in Wanted /\ Reachable(t)
      OBVIOUS
    <3> DEFINE s == walk.range.start
               e == walk.range.end
               c == walk.cursor
    <3>1. t \in Nat /\ s \in Nat /\ e \in Nat /\ c \in Nat /\ s < c /\ c <= e /\ t >= x /\ x >= s
      BY <1>1, <1>5, WalkFields DEF OnTheWay
    <3>2. /\ t \in UpTo <=> t < c \/ (walk.inclusive /\ t = c)
          /\ t \in Wanted <=> t >= s /\ (t < e \/ (walk.inclusive /\ t = e))
          /\ Reachable(t) <=> IF walk.inclusive THEN t <= c ELSE t < c
      BY DEF UpTo, Wanted, Reachable
    <3> HIDE DEF s, e, c
    <3> QED BY <3>1, <3>2
  <2>2. UpTo \subseteq walk.history /\ Wanted \subseteq walk.history
    BY DEF UpTo, Wanted
  <2> QED BY <2>1, <2>2
<1> QED BY <1>4, <1>5

LEMMA LoadFields ==
    ASSUME walk \in Walks, LoadPage
    PROVE  /\ task = "load" /\ InRange # {}
           /\ task' = IF LastPage THEN "prepare" ELSE "load"
           /\ walk'.range = walk.range /\ walk'.history = walk.history
           /\ walk'.inclusive = walk.inclusive /\ walk'.sound = walk.sound
           /\ walk'.cursor = IF LastPage THEN walk.cursor ELSE Earliest
           /\ walk'.candles = [t \in Times |-> walk.candles[t] + IF t \in InRange THEN 1 ELSE 0]
           /\ walk' = [range |-> walk'.range, history |-> walk'.history,
                       inclusive |-> walk'.inclusive, sound |-> walk'.sound,
                       cursor |-> walk'.cursor, candles |-> walk'.candles]
           /\ Wanted' = Wanted /\ \A t : OnBorder(t)' <=> OnBorder(t)
<1> DEFINE c == IF LastPage THEN walk.cursor ELSE Earliest
           l == [t \in Times |-> walk.candles[t] + IF t \in InRange THEN 1 ELSE 0]
<1>1. walk' = [walk EXCEPT !.cursor = c, !.candles = l]
  BY DEF LoadPage
<1> HIDE DEF c, l
<1>2. /\ walk'.range = walk.range /\ walk'.history = walk.history
      /\ walk'.inclusive = walk.inclusive /\ walk'.sound = walk.sound
      /\ walk'.cursor = c /\ walk'.candles = l
      /\ walk' = [range |-> walk'.range, history |-> walk'.history,
                  inclusive |-> walk'.inclusive, sound |-> walk'.sound,
                  cursor |-> walk'.cursor, candles |-> walk'.candles]
  BY <1>1, WalkFields
<1>3. Wanted' = Wanted
  BY <1>2 DEF Wanted
<1>4. \A t : OnBorder(t)' <=> OnBorder(t)
  BY <1>2, <1>3 DEF OnBorder
<1> QED BY <1>2, <1>3, <1>4 DEF LoadPage, c, l

\* The page that was loaded, with respect to the candles that are wanted.
PageLoaded(R, m) ==
    /\ R \subseteq Wanted /\ IsFiniteSet(R) /\ Cardinality(R) \in Nat
    /\ m \in R /\ m \in Nat /\ walk.range.start <= m
    /\ R = {t \in Wanted : t >= m /\ Reachable(t)}
    /\ LastPage => R = {t \in Wanted : Reachable(t)}
    /\ ~LastPage => Cardinality(R) = PageSize /\ walk.range.start < m
    /\ \A t \in R : t # m \/ (LastPage /\ walk.range.start < m)
                      => Cardinality(Above(R, t)) + 2 <= PageSize

LEMMA PageIsLoaded ==
    ASSUME OnTheWay, InRange # {}
    PROVE  PageLoaded(InRange, Earliest)
<1> DEFINE s == walk.range.start
           R == InRange
           m == Earliest
<1>1. walk \in Walks /\ s \in Nat
  BY WalkFields DEF OnTheWay
<1>2. /\ R \subseteq UpTo /\ UpTo \subseteq Nat /\ IsFiniteSet(R) /\ Cardinality(R) \in Nat
      /\ m \in R /\ s <= m
      /\ R = {t \in UpTo : t >= m}
      /\ m <= s \/ Cardinality(R) < PageSize => R = {t \in UpTo : t >= s}
      /\ ~(m <= s \/ Cardinality(R) < PageSize) => Cardinality(R) = PageSize
      /\ \A t \in R : t # m \/ Cardinality(R) < PageSize
                        => Cardinality(Above(R, t)) + 2 <= PageSize
  BY PageOfWalk DEF IsCut, Earliest
<1>3. m \in Nat
  BY <1>2
<1>4. LastPage <=> m <= s \/ Cardinality(R) < PageSize
  BY DEF LastPage
<1>5. {t \in UpTo : t >= m} = {t \in Wanted : t >= m /\ Reachable(t)}
  BY <1>2, <1>3, PageOfWalk
<1>6. {t \in UpTo : t >= s} = {t \in Wanted : Reachable(t)}
  <2>1. {t \in UpTo : t >= s} = {t \in Wanted : t >= s /\ Reachable(t)}
    BY <1>1, PageOfWalk
  <2>2. \A t \in Wanted : t >= s
    BY <1>1, WantedFields
  <2> QED BY <2>1, <2>2
<1> HIDE DEF s, R, m
<1>7. R = {t \in Wanted : t >= m /\ Reachable(t)} /\ R \subseteq Wanted
  BY <1>2, <1>5
<1>8. LastPage => R = {t \in Wanted : Reachable(t)}
  BY <1>2, <1>4, <1>6
<1>9. ~LastPage => Cardinality(R) = PageSize /\ s < m
  BY <1>1, <1>2, <1>3, <1>4
<1>10. \A t \in R : t # m \/ (LastPage /\ s < m) => Cardinality(Above(R, t)) + 2 <= PageSize
  <2>1. LastPage /\ s < m => Cardinality(R) < PageSize
    BY <1>1, <1>3, <1>4
  <2> QED BY <1>2, <2>1
<1> QED BY <1>2, <1>3, <1>7, <1>8, <1>9, <1>10 DEF PageLoaded, s, R, m

LEMMA ExclusiveLoads ==
    ASSUME OnTheWay, ~walk.inclusive, Exclusive, LoadPage
    PROVE  /\ LastPage => \A t \in Times : walk'.candles[t] = IF t \in Wanted THEN 1 ELSE 0
           /\ ~LastPage => Exclusive' /\ walk'.cursor < walk.cursor
<1> DEFINE c == walk.cursor
           R == InRange
           m == Earliest
           behind == {t \in Wanted : t >= c}
<1>1. walk \in Walks /\ c \in Nat /\ walk.candles \in [Times -> 0 .. 2]
  BY WalkFields DEF OnTheWay
<1>2. PageLoaded(R, m)
  BY <1>1, LoadFields, PageIsLoaded
<1>3. Wanted \subseteq Nat /\ Wanted \subseteq Times /\ IsFiniteSet(Wanted)
  BY <1>1, WantedFields
<1>4. \A t : Reachable(t) <=> t < c
  BY DEF Reachable
<1>5. \A t \in Times : walk'.candles[t] = walk.candles[t] + IF t \in R THEN 1 ELSE 0
  BY <1>1, LoadFields
<1>6. \A t \in Times : walk.candles[t] = IF t \in behind THEN 1 ELSE 0
  BY DEF Exclusive
<1>7. \A t \in Wanted : t \in Nat /\ (t < c <=> ~(t >= c))
  <2> TAKE t \in Wanted
  <2>1. t \in Nat
    BY <1>3
  <2> HIDE DEF c
  <2> QED BY <1>1, <2>1
<1>8. ASSUME LastPage, NEW t \in Times
      PROVE  walk'.candles[t] = IF t \in Wanted THEN 1 ELSE 0
  <2>1. R = {u \in Wanted : u < c}
    BY <1>2, <1>4, <1>8 DEF PageLoaded
  <2>2. t \in Wanted => (t \in R <=> ~(t \in behind))
    BY <1>7, <2>1
  <2>3. t \notin Wanted => t \notin R /\ t \notin behind
    BY <2>1
  <2>4. walk'.candles[t] = (IF t \in behind THEN 1 ELSE 0) + IF t \in R THEN 1 ELSE 0
    BY <1>5, <1>6
  <2> HIDE DEF R, behind
  <2> QED BY <2>2, <2>3, <2>4
<1>9. ASSUME ~LastPage PROVE Exclusive' /\ walk'.cursor < walk.cursor
  <2> DEFINE upTo == {t \in Wanted : t >= m}
  <2>1. R = {t \in Wanted : t >= m /\ t < c} /\ m \in R /\ Cardinality(R) = PageSize /\ IsFiniteSet(R)
    BY <1>2, <1>4, <1>9 DEF PageLoaded
  <2>2. m \in Nat /\ m < c
    BY <1>3, <2>1
  <2>3. upTo = behind \cup R /\ behind \cap R = {}
    <3>1. \A t \in Wanted : (t >= m <=> t >= c \/ (t >= m /\ t < c)) /\ ~(t >= c /\ t < c)
      BY <1>1, <1>7, <2>2
    <3> QED BY <2>1, <3>1
  <2>4. \A t \in Times : t \notin behind \/ t \notin R
    BY <2>3
  <2>5. \A t \in Times : walk'.candles[t] = IF t \in upTo THEN 1 ELSE 0
    <3> TAKE t \in Times
    <3>1. walk'.candles[t] = (IF t \in behind THEN 1 ELSE 0) + IF t \in R THEN 1 ELSE 0
      BY <1>5, <1>6
    <3> HIDE DEF behind, R, upTo
    <3> QED BY <2>3, <2>4, <3>1
  <2>6. IsFiniteSet(behind) /\ Cardinality(behind) \in Nat /\ Cardinality(behind) % PageSize = 0
    <3>1. IsFiniteSet(behind)
      BY <1>3, FS_Subset
    <3> QED BY <3>1, FS_CardinalityType DEF Exclusive
  <2>7. Cardinality(upTo) = Cardinality(behind) + PageSize
    <3> HIDE DEF behind, R, upTo
    <3>1. Cardinality(upTo) = Cardinality(behind) + PageSize - Cardinality({})
      BY <2>1, <2>3, <2>6, FS_Union
    <3> QED BY <2>6, <3>1, FS_EmptySet, RunAssumption
  <2>8. Cardinality(upTo) % PageSize = 0
    <3> HIDE DEF behind, upTo
    <3> QED BY <2>6, <2>7, Remainders, RunAssumption
  <2>9. walk'.cursor = m /\ Wanted' = Wanted
    BY <1>1, <1>9, LoadFields
  <2> HIDE DEF m
  <2> QED BY <2>2, <2>5, <2>8, <2>9 DEF Exclusive
<1> QED BY <1>8, <1>9

\* The candles newer than one of an inclusive page: those of the page, and those
\* loaded before it.
LEMMA NewerOnPage ==
    ASSUME OnTheWay, walk.inclusive, NEW R, NEW m, PageLoaded(R, m), NEW t \in R
    PROVE  /\ Newer(t) = Newer(walk.cursor) + Cardinality(Above(R, t))
           /\ Newer(t) \in Nat /\ Newer(walk.cursor) \in Nat /\ Cardinality(Above(R, t)) \in Nat
           /\ t \in Nat /\ t <= walk.cursor
<1> DEFINE c == walk.cursor
           A == Above(Wanted, t)
           B == Above(Wanted, c)
           D == Above(R, t)
<1>1. walk \in Walks /\ c \in Nat
  BY WalkFields DEF OnTheWay
<1>2. \A u \in Wanted : u \in Nat
  BY <1>1, WantedFields
<1>3. R = {u \in Wanted : u >= m /\ u <= c} /\ R \subseteq Wanted /\ IsFiniteSet(R) /\ m \in Nat
  BY DEF PageLoaded, Reachable
<1>4. t \in Nat /\ t <= c /\ t >= m
  BY <1>2, <1>3
<1>5. \A u \in Wanted : /\ u > t <=> u > c \/ (u >= m /\ u <= c /\ u > t)
                        /\ ~(u > c /\ u <= c)
  <2> TAKE u \in Wanted
  <2>1. u \in Nat
    BY <1>2
  <2> HIDE DEF c
  <2> QED BY <1>1, <1>3, <1>4, <2>1
<1>6. A = B \cup D /\ B \cap D = {}
  BY <1>3, <1>5 DEF Above
<1>7. IsFiniteSet(B) /\ IsFiniteSet(D) /\ IsFiniteSet(A)
  <2>1. A \subseteq Wanted /\ B \subseteq Wanted /\ D \subseteq Wanted
    BY <1>3 DEF Above
  <2> HIDE DEF A, B, D
  <2> QED BY <1>1, <2>1, WantedFields, FS_Subset
<1> HIDE DEF A, B, D
<1>8. Cardinality(A) \in Nat /\ Cardinality(B) \in Nat /\ Cardinality(D) \in Nat
  BY <1>7, FS_CardinalityType
<1>9. Cardinality(A) = Cardinality(B) + Cardinality(D)
  <2>1. Cardinality(B \cup D) = Cardinality(B) + Cardinality(D) - Cardinality(B \cap D)
    BY <1>7, FS_Union
  <2>2. Cardinality(B \cap D) = 0
    BY <1>6, FS_EmptySet
  <2> QED BY <1>6, <1>8, <2>1, <2>2
<1> QED BY <1>4, <1>8, <1>9 DEF A, B, D, Newer

LEMMA OnBorderIsNewer ==
    ASSUME NEW t
    PROVE  OnBorder(t) <=> /\ walk.inclusive /\ t > walk.range.start
                           /\ Newer(t) > 0 /\ Newer(t) % (PageSize - 1) = 0
  BY DEF OnBorder, Newer, Above

\* A walk with inclusive pages has come from a border, or from the end of the
\* range.
LEMMA ComesFromBorder ==
    ASSUME OnTheWay, walk.inclusive, Inclusive
    PROVE  /\ Newer(walk.cursor) \in Nat /\ Newer(walk.cursor) % (PageSize - 1) = 0
           /\ Begun => Newer(walk.cursor) = 0 /\ ~OnBorder(walk.cursor)
           /\ ~Begun => walk.cursor \in Wanted /\ OnBorder(walk.cursor)
<1> DEFINE c == walk.cursor
           B == Above(Wanted, c)
<1>1. walk \in Walks /\ c \in Nat /\ walk.range.end \in Nat
  BY WalkFields DEF OnTheWay
<1>2. IsFiniteSet(B)
  BY <1>1, WantedFields, FS_Subset DEF Above
<1>3. Newer(c) \in Nat
  BY <1>2, FS_CardinalityType DEF Newer
<1>4. CASE Begun
  <2>1. B = {}
    <3>1. \A u \in Wanted : u \in Nat /\ u <= c
      BY <1>1, <1>4, WantedFields DEF Begun
    <3>2. \A u \in Wanted : ~(u > c)
      <4> HIDE DEF c
      <4> QED BY <1>1, <3>1
    <3> QED BY <3>2 DEF Above
  <2>2. Newer(c) = 0
    BY <2>1, FS_EmptySet DEF Newer
  <2>3. 0 % (PageSize - 1) = 0
    <3>1. PageSize - 1 \in Nat \ {0}
      BY RunAssumption
    <3> QED BY <3>1, NothingRemains
  <2> QED BY <1>4, <2>2, <2>3, OnBorderIsNewer
<1>5. CASE ~Begun
  <2>1. c \in Wanted /\ OnBorder(c)
    BY <1>5 DEF Inclusive
  <2> QED BY <1>3, <1>5, <2>1, OnBorderIsNewer
<1> QED BY <1>4, <1>5

\* On a page, only the candle it was loaded from is at a border, and its first
\* where another page follows.
LEMMA BordersOfPage ==
    ASSUME OnTheWay, walk.inclusive, Inclusive, NEW R, NEW m, PageLoaded(R, m), NEW t \in R
    PROVE  /\ t = walk.cursor => (OnBorder(t) <=> ~Begun)
           /\ t # walk.cursor /\ (LastPage \/ t # m) => ~OnBorder(t)
           /\ ~LastPage => m # walk.cursor /\ OnBorder(m)
<1> DEFINE c == walk.cursor
           s == walk.range.start
           x == Newer(c)
           r == Cardinality(Above(R, t))
           d == PageSize - 1
<1>1. walk \in Walks /\ c \in Nat /\ s \in Nat /\ d \in Nat \ {0} /\ PageSize \in Nat
  BY WalkFields, RunAssumption DEF OnTheWay
<1>2. /\ x \in Nat /\ x % d = 0
      /\ (Begun => x = 0 /\ ~OnBorder(c))
      /\ (~Begun => c \in Wanted /\ OnBorder(c))
  BY ComesFromBorder
<1>3. Newer(t) = x + r /\ r \in Nat /\ t \in Nat /\ t <= c
  BY NewerOnPage
<1>4. /\ R = {u \in Wanted : u >= m /\ u <= c} /\ m \in R /\ m \in Nat /\ s <= m /\ IsFiniteSet(R)
      /\ LastPage => R = {u \in Wanted : u <= c}
      /\ ~LastPage => Cardinality(R) = PageSize /\ s < m
      /\ t # m \/ (LastPage /\ s < m) => r + 2 <= PageSize
  BY DEF PageLoaded, Reachable
<1>5. t # c /\ ~Begun => r # 0
  <2> SUFFICES ASSUME t # c, ~Begun PROVE r # 0
    OBVIOUS
  <2>1. c \in R /\ c > t
    <3>1. c >= m /\ c <= c /\ c > t
      <4>1. t >= m
        BY <1>4
      <4> QED BY <1>1, <1>3, <1>4, <4>1
    <3> QED BY <1>2, <1>4, <3>1
  <2>2. c \in Above(R, t)
    BY <2>1 DEF Above
  <2>3. IsFiniteSet(Above(R, t))
    BY <1>4, FS_Subset DEF Above
  <2> QED BY <2>2, <2>3, FS_EmptySet
<1>6. t # m \/ LastPage => ~OnBorder(t) \/ t = c
  <2> SUFFICES ASSUME t # m \/ LastPage, OnBorder(t), t # c PROVE FALSE
    OBVIOUS
  <2>1. t > s /\ x + r > 0 /\ (x + r) % d = 0
    BY <1>3, OnBorderIsNewer
  <2>2. r < d
    <3>1. t = m => s < m
      BY <1>1, <1>3, <2>1
    <3>2. r + 2 <= PageSize
      <4>1. t # m \/ (LastPage /\ s < m)
        BY <3>1
      <4> HIDE DEF r, s
      <4> QED BY <1>4, <4>1
    <3> HIDE DEF r
    <3> QED BY <1>1, <1>3, <3>2
  <2> HIDE DEF x, r, d
  <2>3. r = 0
    <3>1. (x + r) % d = r
      BY <1>1, <1>2, <1>3, <2>2, Remainders
    <3> QED BY <2>1, <3>1
  <2>4. x = 0
    BY <1>2, <1>5, <2>3
  <2> QED BY <2>1, <2>3, <2>4
<1>7. ASSUME ~LastPage PROVE m # c /\ OnBorder(m)
  <2> DEFINE y == Cardinality(Above(R, m))
             rest == R \ {m}
  <2>1. Above(R, m) = rest
    <3>1. \A u \in R : u \in Nat /\ u >= m
      BY <1>1, <1>4, WantedFields
    <3>2. \A u \in R : u > m <=> u # m
      <4> TAKE u \in R
      <4>1. u \in Nat /\ u >= m /\ m \in Nat
        BY <1>4, <3>1
      <4> QED BY <4>1
    <3> QED BY <3>2 DEF Above
  <2>2. y = d
    <3>1. Cardinality(rest) = PageSize - 1
      BY <1>4, <1>7, FS_RemoveElement
    <3> QED BY <2>1, <3>1
  <2>3. Newer(m) = x + y /\ m <= c
    BY <1>4, NewerOnPage
  <2>4. m # c
    <3>1. ASSUME m = c PROVE Above(R, m) = {}
      <4>1. \A u \in R : ~(u > m)
        <5>1. \A u \in R : u \in Nat /\ u <= c
          BY <1>1, <1>4, WantedFields
        <5> HIDE DEF c
        <5> QED BY <1>1, <3>1, <5>1
      <4> QED BY <4>1 DEF Above
    <3>2. m = c => y = 0
      BY <3>1, FS_EmptySet
    <3> QED BY <1>1, <2>2, <3>2
  <2>5. (x + d) % d = 0 /\ x + d > 0
    <3> HIDE DEF x, d
    <3>1. (x + d) % d = 0
      BY <1>1, <1>2, Remainders
    <3> QED BY <1>1, <1>2, <3>1
  <2>6. m > s
    BY <1>1, <1>4, <1>7
  <2> QED BY <2>2, <2>3, <2>4, <2>5, <2>6, OnBorderIsNewer
<1>8. t = c => (OnBorder(t) <=> ~Begun)
  BY <1>2
<1> QED BY <1>6, <1>7, <1>8

LEMMA InclusiveLoads ==
    ASSUME OnTheWay, walk.inclusive, Inclusive, LoadPage
    PROVE  /\ LastPage => \A t \in Times :
                walk'.candles[t] = IF t \notin Wanted THEN 0 ELSE IF OnBorder(t) THEN 2 ELSE 1
           /\ ~LastPage => Inclusive' /\ walk'.cursor < walk.cursor
<1> DEFINE c == walk.cursor
           R == InRange
           m == Earliest
           old(t) == walk.candles[t]
           new(t) == walk'.candles[t]
<1>1. walk \in Walks /\ c \in Nat /\ walk.candles \in [Times -> 0 .. 2]
  BY WalkFields DEF OnTheWay
<1>2. PageLoaded(R, m)
  BY <1>1, LoadFields, PageIsLoaded
<1>3. /\ \A t \in R : t \in Wanted /\ t >= m /\ t <= c
      /\ \A t \in Wanted : t >= m /\ t <= c => t \in R
      /\ LastPage => \A t \in Wanted : t <= c => t \in R
      /\ m \in R /\ m \in Nat
  BY <1>2 DEF PageLoaded, Reachable
<1>4. \A t \in Wanted : t \in Nat /\ (Begun => t <= c)
  <2>1. \A t \in Wanted : t \in Nat /\ t <= walk.range.end
    BY <1>1, WantedFields
  <2> QED BY <2>1 DEF Begun
<1>5. \A t \in Times : new(t) = old(t) + IF t \in R THEN 1 ELSE 0
  BY <1>1, LoadFields
<1>6. \A t \in Times :
        old(t) = IF Begun \/ t \notin Wanted \/ t < c THEN 0
                 ELSE IF t > c /\ OnBorder(t) THEN 2 ELSE 1
  BY DEF Inclusive, Begun, NoCandles
<1>7. \A t \in R : /\ t = c => (OnBorder(t) <=> ~Begun)
                   /\ t # c /\ (LastPage \/ t # m) => ~OnBorder(t)
  BY <1>2, BordersOfPage
<1>8. ~LastPage => m # c /\ OnBorder(m)
  BY <1>2, <1>3, BordersOfPage
<1> HIDE DEF c, R, m, old, new
\* Of the candles up to the cursor, all of a last page are in it, and those from
\* its first on of another.
<1>9. ASSUME NEW t \in Times, t \notin Wanted PROVE new(t) = 0
  <2>1. t \notin R /\ old(t) = 0
    BY <1>3, <1>6, <1>9
  <2> QED BY <1>5, <2>1
<1>10. ASSUME NEW t \in Times, t \in Wanted, t > c
       PROVE  new(t) = IF OnBorder(t) THEN 2 ELSE 1
  <2>1. t \in Nat /\ ~(t <= c) /\ ~(t < c)
    BY <1>1, <1>4, <1>10
  <2>2. t \notin R /\ ~Begun
    BY <1>3, <1>4, <1>10, <2>1
  <2>3. old(t) = IF OnBorder(t) THEN 2 ELSE 1
    BY <1>6, <1>10, <2>1, <2>2
  <2> QED BY <1>5, <2>2, <2>3
<1>11. ASSUME NEW t \in Times, t \in R
       PROVE  new(t) = IF t = c /\ OnBorder(t) THEN 2 ELSE 1
  <2>1. t \in Nat /\ t \in Wanted /\ t <= c
    BY <1>3, <1>4, <1>11
  <2>2. CASE t = c
    <3>1. old(t) = IF Begun THEN 0 ELSE 1
      <4>1. ~(t < c) /\ ~(t > c)
        BY <1>1, <2>2
      <4> QED BY <1>6, <2>1, <4>1
    <3> QED BY <1>5, <1>7, <1>11, <2>2, <3>1
  <2>3. CASE t # c
    <3>1. t < c
      BY <1>1, <2>1, <2>3
    <3>2. old(t) = 0
      BY <1>6, <3>1
    <3> QED BY <1>5, <1>11, <2>3, <3>2
  <2> QED BY <2>2, <2>3
<1>12. ASSUME NEW t \in Times, t \in Wanted, t < c, t \notin R PROVE new(t) = 0
  <2>1. old(t) = 0
    BY <1>6, <1>12
  <2> QED BY <1>5, <1>12, <2>1
<1>13. ASSUME LastPage, NEW t \in Times
       PROVE  new(t) = IF t \notin Wanted THEN 0 ELSE IF OnBorder(t) THEN 2 ELSE 1
  <2>1. CASE t \notin Wanted
    BY <1>9, <2>1
  <2>2. CASE t \in Wanted /\ t > c
    BY <1>10, <2>2
  <2>3. CASE t \in Wanted /\ ~(t > c)
    <3>1. t \in R
      <4>1. t <= c
        BY <1>1, <1>4, <2>3
      <4> QED BY <1>3, <1>13, <2>3, <4>1
    <3> QED BY <1>7, <1>11, <1>13, <2>3, <3>1
  <2> QED BY <2>1, <2>2, <2>3
<1>14. ASSUME ~LastPage PROVE Inclusive' /\ walk'.cursor < walk.cursor
  <2>1. m \in Wanted /\ m < c
    <3>1. m <= c /\ m # c /\ m \in Wanted
      BY <1>3, <1>8, <1>14
    <3> QED BY <1>1, <1>3, <3>1
  <2>2. ASSUME NEW t \in Times
        PROVE  new(t) = IF t \notin Wanted \/ t < m THEN 0
                        ELSE IF t > m /\ OnBorder(t) THEN 2 ELSE 1
    <3>1. CASE t \notin Wanted
      BY <1>9, <3>1
    <3>2. CASE t \in Wanted /\ t > c
      <4>1. t \in Nat /\ t > m /\ ~(t < m)
        BY <1>1, <1>3, <1>4, <2>1, <3>2
      <4> QED BY <1>10, <3>2, <4>1
    <3>3. CASE t \in Wanted /\ ~(t > c) /\ t < m
      <4>1. t < c /\ t \notin R
        <5>1. t \in Nat /\ ~(t >= m)
          BY <1>3, <1>4, <3>3
        <5> QED BY <1>1, <1>3, <2>1, <3>3, <5>1
      <4> QED BY <1>12, <3>3, <4>1
    <3>4. CASE t \in Wanted /\ ~(t > c) /\ ~(t < m)
      <4>1. t \in Nat /\ t >= m /\ t <= c
        BY <1>1, <1>3, <1>4, <3>4
      <4>2. t \in R
        BY <1>3, <3>4, <4>1
      <4>3. t > m <=> t # m
        BY <1>3, <4>1
      <4>4. t = c => t > m
        BY <2>1
      <4> QED BY <1>7, <1>11, <3>4, <4>2, <4>3, <4>4
    <3> QED BY <3>1, <3>2, <3>3, <3>4
  <2>3. walk'.cursor = m /\ Wanted' = Wanted /\ \A t : OnBorder(t)' <=> OnBorder(t)
    BY <1>1, <1>14, LoadFields DEF m
  <2>4. \A t \in Times : walk'.candles[t] = IF t \notin Wanted \/ t < m THEN 0
                                            ELSE IF t > m /\ OnBorder(t) THEN 2 ELSE 1
    BY <2>2 DEF new
  <2>5. OnBorder(walk.cursor)'
    <3>1. OnBorder(m) /\ walk'.cursor = m
      BY <1>8, <1>14, <2>3
    <3>2. Wanted' = Wanted /\ walk'.range = walk.range /\ walk'.inclusive = walk.inclusive
      BY <1>1, LoadFields
    <3> QED BY <3>1, <3>2 DEF OnBorder
  <2>6. \A t \in Times : walk'.candles[t] = IF t \notin Wanted' \/ t < walk'.cursor THEN 0
                                            ELSE IF t > walk'.cursor /\ OnBorder(t)' THEN 2 ELSE 1
    BY <2>3, <2>4
  <2>7. walk'.cursor \in Wanted' /\ walk'.cursor < walk.cursor
    BY <2>1, <2>3 DEF c
  <2> QED BY <2>5, <2>6, <2>7 DEF Inclusive
<1> QED BY <1>13, <1>14 DEF new

LEMMA NoCandlesIsNone == NoCandles \in [Times -> 0 .. 2] /\ \A t \in Times : NoCandles[t] = 0
  BY DEF NoCandles

LEMMA RequestKeepsWalk == ASSUME Request PROVE WalkInv'
<1>1. PICK range \in Ranges, h \in Histories, inclusive \in BOOLEAN, sound \in BOOLEAN :
        /\ range.end > range.start
        /\ walk' = [range |-> range, history |-> h, inclusive |-> inclusive, sound |-> sound,
                    cursor |-> range.end, candles |-> NoCandles]
  BY DEF Request
<1>2. task' = "get"
  BY DEF Request
<1>3. range.start \in Nat /\ range.end \in Nat /\ range.end \in Times
  <2>1. range \in [start : Times, end : Times]
    BY RunAssumption
  <2> QED BY <2>1, RunAssumption
<1>4. walk' \in Walks
  BY <1>1, <1>3, NoCandlesIsNone DEF Walks
<1>5. OnTheWay'
  BY <1>1, <1>3, <1>4 DEF OnTheWay
<1>6. Inclusive'
  BY <1>1 DEF Inclusive, Begun
<1>7. ~inclusive => Exclusive'
  <2> SUFFICES ASSUME ~inclusive PROVE Exclusive'
    OBVIOUS
  <2>1. \A t \in h : t \in Nat
    <3>1. h \in SUBSET Times
      BY RunAssumption
    <3> QED BY <3>1, RunAssumption
  <2>2. \A t \in h : t < range.end => ~(t >= range.end)
    BY <1>3, <2>1
  <2>3. Wanted' \subseteq h /\ \A t \in Wanted' : t < range.end
    BY <1>1 DEF Wanted
  <2>4. {t \in Wanted' : t >= walk'.cursor} = {} /\ walk'.cursor = range.end
    BY <1>1, <2>2, <2>3
  <2>5. Cardinality({t \in Wanted' : t >= walk'.cursor}) % PageSize = 0
    BY <2>4, FS_EmptySet, NothingRemains, RunAssumption
  <2>6. \A t \in Times : walk'.candles[t] = IF t \in Wanted' /\ t >= walk'.cursor THEN 1 ELSE 0
    BY <1>1, <2>4, NoCandlesIsNone
  <2> QED BY <2>5, <2>6 DEF Exclusive
<1> QED BY <1>1, <1>2, <1>4, <1>5, <1>6, <1>7 DEF WalkInv, RangeLoaded

LEMMA NoBorderWithout == ASSUME ~walk.inclusive, NEW t PROVE ~OnBorder(t)
  BY DEF OnBorder

LEMMA LoadPageKeepsWalk == ASSUME WalkInv, LoadPage PROVE WalkInv'
<1>1. /\ task = "load" /\ OnTheWay /\ walk \in Walks
      /\ IF walk.inclusive THEN Inclusive ELSE Exclusive
  BY DEF WalkInv, LoadPage
<1>2. /\ task' = IF LastPage THEN "prepare" ELSE "load"
      /\ walk'.range = walk.range /\ walk'.history = walk.history
      /\ walk'.inclusive = walk.inclusive /\ walk'.sound = walk.sound
      /\ walk'.cursor = IF LastPage THEN walk.cursor ELSE Earliest
      /\ walk'.candles = [t \in Times |-> walk.candles[t] + IF t \in InRange THEN 1 ELSE 0]
      /\ walk' = [range |-> walk'.range, history |-> walk'.history,
                  inclusive |-> walk'.inclusive, sound |-> walk'.sound,
                  cursor |-> walk'.cursor, candles |-> walk'.candles]
      /\ Wanted' = Wanted /\ \A t : OnBorder(t)' <=> OnBorder(t)
  BY <1>1, LoadFields
<1>3. PageLoaded(InRange, Earliest)
  BY <1>1, LoadFields, PageIsLoaded
<1>4. Earliest \in Times /\ (~LastPage => walk.range.start < Earliest)
  BY <1>1, <1>3, WantedFields DEF PageLoaded
<1>5. LastPage => \A t \in Times :
        walk'.candles[t] = IF t \notin Wanted THEN 0 ELSE IF OnBorder(t) THEN 2 ELSE 1
  <2>1. CASE walk.inclusive
    BY <1>1, <2>1, InclusiveLoads
  <2>2. CASE ~walk.inclusive
    BY <1>1, <2>2, ExclusiveLoads, NoBorderWithout
  <2> QED BY <2>1, <2>2
<1>6. ~LastPage => /\ walk'.cursor < walk.cursor
                   /\ IF walk'.inclusive THEN Inclusive' ELSE Exclusive'
  BY <1>1, <1>2, InclusiveLoads, ExclusiveLoads
<1>7. walk' \in Walks
  <2>1. walk'.cursor \in Times
    BY <1>1, <1>2, <1>4, WalkFields
  <2>2. \A t \in Times : walk'.candles[t] \in 0 .. 2
    <3>1. CASE LastPage
      <4> TAKE t \in Times
      <4>1. walk'.candles[t] \in {0, 1, 2}
        BY <1>5, <3>1
      <4> QED BY <4>1
    <3>2. CASE ~LastPage
      <4> TAKE t \in Times
      <4>1. CASE walk'.inclusive
        <5>1. walk'.candles[t] \in {0, 1, 2}
          BY <1>6, <3>2, <4>1, NoCandlesIsNone DEF Inclusive, Begun
        <5> QED BY <5>1
      <4>2. CASE ~walk'.inclusive
        <5>1. walk'.candles[t] \in {0, 1}
          BY <1>6, <3>2, <4>2 DEF Exclusive
        <5> QED BY <5>1
      <4> QED BY <4>1, <4>2
    <3> QED BY <3>1, <3>2
  <2>3. walk'.candles \in [Times -> 0 .. 2]
    BY <1>2, <2>2
  <2>4. /\ walk.range \in Ranges /\ walk.history \in Histories
        /\ walk.inclusive \in BOOLEAN /\ walk.sound \in BOOLEAN
    BY <1>1 DEF Walks
  <2> QED BY <1>2, <2>1, <2>3, <2>4 DEF Walks
<1>8. ~LastPage => OnTheWay'
  <2> SUFFICES ASSUME ~LastPage PROVE OnTheWay'
    OBVIOUS
  <2>1. walk'.cursor = Earliest /\ Earliest < walk.cursor /\ walk.range.start < Earliest
    BY <1>2, <1>4, <1>6
  <2>2. /\ walk.cursor <= walk.range.end
        /\ Earliest \in Nat /\ walk.cursor \in Nat /\ walk.range.end \in Nat
    BY <1>1, <1>4, WalkFields, RunAssumption DEF OnTheWay
  <2>3. Earliest <= walk.range.end
    BY <2>1, <2>2
  <2> QED BY <1>2, <1>7, <2>1, <2>3 DEF OnTheWay
<1>9. LastPage => RangeLoaded'
  <2> SUFFICES ASSUME LastPage PROVE RangeLoaded'
    OBVIOUS
  <2>1. \A t \in Times :
          walk'.candles[t] = IF t \notin Wanted' THEN 0 ELSE IF OnBorder(t)' THEN 2 ELSE 1
    BY <1>2, <1>5
  <2> QED BY <2>1 DEF RangeLoaded
<1>10. CASE LastPage
  BY <1>2, <1>7, <1>9, <1>10 DEF WalkInv
<1>11. CASE ~LastPage
  BY <1>2, <1>6, <1>7, <1>8, <1>11 DEF WalkInv, RangeLoaded
<1> QED BY <1>10, <1>11

\* Where the page is empty or all of it is from before the range, everything
\* wanted has been loaded.
LEMMA NothingLeft ==
    ASSUME OnTheWay, IF walk.inclusive THEN Inclusive ELSE Exclusive, InRange = {}
    PROVE  /\ \A t \in Wanted : t >= walk.cursor
           /\ walk.inclusive => Wanted = {} /\ Begun
           /\ Batch # {} => walk.range.start \notin walk.history
<1> DEFINE s == walk.range.start
           c == walk.cursor
<1>1. walk \in Walks /\ s \in Nat /\ c \in Nat /\ s < c
  BY WalkFields DEF OnTheWay
<1>2. UpTo \subseteq Nat /\ (Batch = {} => UpTo = {}) /\ (Batch # {} => \A u \in UpTo : u < s)
  BY PageOfWalk DEF IsCut
<1>3. \A t \in UpTo : ~(t >= s)
  <2> HIDE DEF s
  <2>1. \A t \in UpTo : t \in Nat /\ t < s
    BY <1>2
  <2> QED BY <1>1, <2>1
<1>4. \A t \in Wanted : ~Reachable(t) /\ t \in Nat
  <2>1. {t \in UpTo : t >= s} = {t \in Wanted : t >= s /\ Reachable(t)}
    BY <1>1, PageOfWalk
  <2>2. \A t \in Wanted : t >= s /\ t \in Nat
    BY <1>1, WantedFields
  <2>3. {t \in UpTo : t >= s} = {}
    BY <1>3
  <2> QED BY <2>1, <2>2, <2>3
<1>5. \A t \in Wanted : t >= c /\ (walk.inclusive => ~(t <= c))
  <2> TAKE t \in Wanted
  <2>1. t \in Nat /\ (walk.inclusive => ~(t <= c)) /\ (~walk.inclusive => ~(t < c))
    BY <1>4 DEF Reachable
  <2> HIDE DEF c
  <2> QED BY <1>1, <2>1
<1>6. ASSUME walk.inclusive PROVE Wanted = {} /\ Begun
  <2>1. c \notin Wanted
    <3>1. c <= c
      <4> HIDE DEF c
      <4> QED BY <1>1
    <3> QED BY <1>5, <1>6, <3>1
  <2>2. Begun
    BY <1>6, <2>1 DEF Inclusive
  <2>3. \A t \in Wanted : t <= c
    BY <1>1, <2>2, WantedFields DEF Begun
  <2> QED BY <1>5, <1>6, <2>2, <2>3
<1>7. ASSUME Batch # {} PROVE s \notin walk.history
  <2> SUFFICES ASSUME s \in walk.history PROVE FALSE
    OBVIOUS
  <2>1. s \in UpTo
    BY <1>1 DEF UpTo
  <2>2. s >= s
    <3> HIDE DEF s
    <3> QED BY <1>1
  <2> QED BY <1>3, <2>1, <2>2
<1> QED BY <1>5, <1>6, <1>7

LEMMA NoMorePagesKeepsWalk == ASSUME WalkInv, NoMorePages PROVE WalkInv'
<1>1. /\ OnTheWay /\ walk \in Walks /\ (IF walk.inclusive THEN Inclusive ELSE Exclusive)
      /\ InRange = {} /\ task' = "prepare" /\ UNCHANGED walk
  BY DEF WalkInv, NoMorePages, InRange
<1>2. /\ \A t \in Wanted : t >= walk.cursor
      /\ walk.inclusive => Wanted = {} /\ Begun
  BY <1>1, NothingLeft
<1>3. \A t \in Times : walk.candles[t] = IF t \notin Wanted THEN 0 ELSE IF OnBorder(t) THEN 2 ELSE 1
  <2>1. CASE walk.inclusive
    BY <1>2, <2>1, NoCandlesIsNone DEF Begun
  <2>2. CASE ~walk.inclusive
    BY <1>1, <1>2, <2>2, NoBorderWithout DEF Exclusive
  <2> QED BY <2>1, <2>2
<1>4. Wanted' = Wanted /\ \A t : OnBorder(t)' <=> OnBorder(t)
  BY <1>1 DEF Wanted, OnBorder
<1> QED BY <1>1, <1>3, <1>4 DEF WalkInv, RangeLoaded

LEMMA WalkInvInit == Init => WalkInv
  BY DEF Init, WalkInv, RangeLoaded

LEMMA WalkInvNext == ASSUME WalkInv, RunInv, [Next]_vars PROVE WalkInv'
<1>1. ASSUME Forget, task' \notin {"get", "load", "prepare"} PROVE WalkInv'
  BY <1>1 DEF Forget, WalkInv, RangeLoaded
<1>2. CASE RequestFails \/ GetRunFails \/ PageEmptied \/ PageFails \/ PrepareRaises \/ ReplayRaises
           \/ StoreResultFails \/ StoreResultUnread \/ StoreTrades \/ StoreTradesFails
           \/ Handle \/ HandleFails \/ HandleRefused \/ Dies
  <2>1. Forget /\ task' \in {"except", "over", "dead"}
    BY <1>2 DEF RequestFails, GetRunFails, PageEmptied, PageFails, PrepareRaises, ReplayRaises,
       StoreResultFails, StoreResultUnread, StoreTrades, StoreTradesFails,
       Handle, HandleFails, HandleRefused, Dies, Raise, End
  <2> QED BY <1>1, <2>1
<1>3. CASE GetRun
  <2>1. task = "get" /\ task' = "load" /\ walk' = walk
    BY <1>3 DEF GetRun
  <2>2. OnTheWay' /\ walk' \in Walks
    BY <2>1 DEF WalkInv, OnTheWay
  <2>3. Wanted' = Wanted /\ \A t : OnBorder(t)' <=> OnBorder(t)
    BY <2>1 DEF Wanted, OnBorder
  <2>4. Inclusive => Inclusive'
    BY <2>1, <2>3 DEF Inclusive, Begun
  <2>5. Exclusive => Exclusive'
    BY <2>1, <2>3 DEF Exclusive
  <2>6. IF walk.inclusive THEN Inclusive ELSE Exclusive
    BY <2>1 DEF WalkInv
  <2>7. (IF walk.inclusive THEN Inclusive ELSE Exclusive)'
    BY <2>1, <2>4, <2>5, <2>6
  <2> QED BY <2>1, <2>2, <2>7 DEF WalkInv, RangeLoaded
<1>4. CASE Prepare
  BY <1>4 DEF Prepare, WalkInv, RangeLoaded
<1>5. CASE ReplayStep
  BY <1>5 DEF ReplayStep, Replayed, WalkInv, RangeLoaded
<1>5a. CASE StoreResult
  BY <1>5a DEF StoreResult, Replayed, WalkInv, RangeLoaded
<1>6. CASE UNCHANGED vars
  <2>1. task' = task /\ walk' = walk
    BY <1>6 DEF vars
  <2>2. Wanted' = Wanted /\ \A t : OnBorder(t)' <=> OnBorder(t)
    BY <2>1 DEF Wanted, OnBorder
  <2>3. /\ OnTheWay => OnTheWay'
        /\ Inclusive => Inclusive'
        /\ Exclusive => Exclusive'
        /\ RangeLoaded => RangeLoaded'
    BY <2>1, <2>2 DEF OnTheWay, Inclusive, Exclusive, Begun, RangeLoaded
  <2> QED BY <2>1, <2>3 DEF WalkInv
<1> QED BY <1>2, <1>3, <1>4, <1>5, <1>5a, <1>6, RequestKeepsWalk, LoadPageKeepsWalk, NoMorePagesKeepsWalk
        DEF Next, Rest

LEMMA WalkInvAlways == Spec => []WalkInv
<1>1. WalkInv /\ RunInv /\ [Next]_vars => WalkInv'
  BY WalkInvNext
<1> QED BY <1>1, WalkInvInit, RunInvAlways, PTL DEF Spec

\* A walk that comes to its end has every candle of the range, no other, and
\* twice those at the borders of inclusive pages only
\* (backtest/data_loader.py:23-36).
THEOREM RangesAreLoaded == Spec => []RangeLoaded
<1>1. WalkInv => RangeLoaded
  BY DEF WalkInv
<1> QED BY <1>1, WalkInvAlways, PTL

\* The loader raises of itself only at a range without candles, or where whole
\* pages end just where the range's candles do (backtest/data_loader.py:27-29).
THEOREM WalksRaiseAtBorder == Spec => WalkRaisesAtBorder
<1> DEFINE Excused == \/ Wanted = {}
                      \/ /\ ~walk.inclusive /\ Cardinality(Wanted) % PageSize = 0
                         /\ walk.range.start \notin walk.history
<1>1. ASSUME WalkInv, task = "load", PageEmptied PROVE Excused
  <2>1. /\ OnTheWay /\ (IF walk.inclusive THEN Inclusive ELSE Exclusive)
        /\ InRange = {} /\ Batch # {}
    BY <1>1 DEF WalkInv, PageEmptied
  <2>2. /\ \A t \in Wanted : t >= walk.cursor
        /\ walk.inclusive => Wanted = {}
        /\ walk.range.start \notin walk.history
    BY <2>1, NothingLeft
  <2>3. {t \in Wanted : t >= walk.cursor} = Wanted
    BY <2>2
  <2>4. ~walk.inclusive => Cardinality(Wanted) % PageSize = 0
    BY <2>1, <2>3 DEF Exclusive
  <2> QED BY <2>2, <2>4
<1>2. WalkInv => [(task = "load" /\ PageEmptied) => Excused]_vars
  BY <1>1
<1> QED BY <1>2, WalkInvAlways, PTL DEF WalkRaisesAtBorder

---------------------------------------------------------------------------
(* The types of what is stored                                             *)

LEMMA FactorType ==
    ASSUME NEW T, IsFiniteSet(T), \A t \in T : t.pnl \in Int
    PROVE  ProfitFactor(T) \in [profit : Int, loss : Int]
<1> DEFINE profit == TotalPnl(Wins(T))
           loss == -TotalPnl(Losses(T))
<1>1. profit \in Int /\ loss \in Int
  BY GrossProfitAndLoss
<1>2. ProfitFactor(T) = IF loss > 0 THEN [profit |-> profit, loss |-> loss]
                        ELSE IF profit > 0 THEN Infinite ELSE [profit |-> 0, loss |-> 1]
  BY DEF ProfitFactor
<1> HIDE DEF profit, loss
<1> QED BY <1>1, <1>2 DEF Infinite

LEMMA DrawdownType ==
    ASSUME ReplayInv, phase = "end", NEW d \in Result.drawdown
    PROVE  d \in [fall : Int, of : Int]
<1>1. DeepestOf(curve, Len(curve), d) /\ \A i \in 1 .. Len(curve) : curve[i] \in Int
  BY ResultIsDeepest DEF ReplayInv, BacktestTypeOK
<1>2. CASE d = NoFall
  BY <1>2 DEF NoFall
<1>3. CASE d # NoFall
  <2>1. PICK i, j \in 1 .. Len(curve) : d = [fall |-> curve[i] - curve[j], of |-> curve[i]]
    BY <1>1, <1>3 DEF DeepestOf
  <2>2. curve[i] \in Int /\ curve[i] - curve[j] \in Int
    BY <1>1
  <2> QED BY <2>1, <2>2
<1> QED BY <1>2, <1>3

LEMMA ResultType == ASSUME ReplayInv, phase = "end" PROVE Result \in Results
<1> DEFINE T == ClosedTrades
           total == Cardinality(T)
           winners == Cardinality(Wins(T))
           factor == (IF T = {} THEN {} ELSE {ProfitFactor(T)}) \ {Infinite}
           drawdown == Result.drawdown
<1>1. IsFiniteSet(T) /\ \A t \in T : t.pnl \in Int
  <2>1. T = RowsOf(closed) /\ IsFiniteSet(closed) /\ \A c \in closed : c \in Trades
    BY DEF ClosedTrades, RowsOf, ReplayInv, PositionsInv, BacktestTypeOK
  <2>2. IsFiniteSet(RowsOf(closed))
    BY <2>1, RowsAreFinite
  <2> QED BY <2>1, <2>2, TradeRowFields, TradeFields DEF RowsOf
<1>2. total \in Nat /\ winners \in Nat
  <2>1. IsFiniteSet(Wins(T))
    BY <1>1, FS_Subset DEF Wins
  <2> QED BY <1>1, <2>1, FS_CardinalityType
<1>3. factor \in SUBSET [profit : Int, loss : Int]
  <2>1. ProfitFactor(T) \in [profit : Int, loss : Int]
    <3> HIDE DEF T
    <3> QED BY <1>1, FactorType
  <2> HIDE DEF T
  <2> QED BY <2>1
<1>4. drawdown \in SUBSET [fall : Int, of : Int]
  BY DrawdownType
<1>5. balance \in Int
  BY DEF ReplayInv, BacktestTypeOK
<1>6. Result = [balance |-> balance, total |-> total, winners |-> winners,
                factor |-> factor, drawdown |-> drawdown]
  BY DEF Result, ComputeMetrics
<1> HIDE DEF total, winners, factor, drawdown
<1> QED BY <1>2, <1>3, <1>4, <1>5, <1>6 DEF Results

LEMMA TradeRowType == ASSUME NEW c \in Trades PROVE TradeRow(c) \in TradeRows
<1>1. /\ c.position \in SimPositions /\ c.price \in Int /\ c.pnl \in Int /\ c.bar \in Nat
      /\ c.reason \in {"sl_hit", "tp_hit", "manual", "backtest_end"}
  BY BacktestAssumption DEF Trades
<1>2. /\ c.position.id \in Nat /\ c.position.entry \in Int
      /\ c.position.opened \in Nat /\ c.position.side \in Sides
  BY <1>1, BacktestAssumption DEF SimPositions
<1> QED BY <1>1, <1>2 DEF TradeRow, TradeRows

StoredInv ==
    /\ row.status \in {"none", "running", "complete", "failed"}
    /\ \A r \in row.result : r \in Results
    /\ \A t \in stored : t \in TradeRows
    /\ session \in {"ok", "broken", "closed"}
    /\ faults \in 0 .. MaxFaults

\* What a step may write.
LEMMA StoreValues ==
    ASSUME [Next]_vars
    PROVE  /\ row' \in {row, NoRow, NewRow, Complete, Failed}
           /\ stored' \in {stored, {}, ClosedTrades}
           /\ session' \in {session, "ok", "broken", "closed"}
           /\ UNCHANGED faults \/ Fault
<1>1. CASE \/ Request \/ RequestFails \/ GetRun \/ GetRunFails \/ LoadPage \/ NoMorePages
           \/ PageEmptied \/ PageFails \/ Prepare \/ PrepareRaises \/ ReplayStep \/ ReplayRaises
  BY <1>1 DEF Request, RequestFails, GetRun, GetRunFails, LoadPage, NoMorePages, PageEmptied,
              PageFails, Prepare, PrepareRaises, ReplayStep, ReplayRaises, stores, End
<1>2. CASE StoreResult \/ StoreResultFails \/ StoreResultUnread \/ StoreTrades \/ StoreTradesFails
  BY <1>2 DEF StoreResult, StoreResultFails, StoreResultUnread, StoreTrades, StoreTradesFails, End
<1>3. CASE Handle \/ HandleFails \/ HandleRefused \/ Dies \/ UNCHANGED vars
  BY <1>3 DEF Handle, HandleFails, HandleRefused, Dies, End, vars, stores
<1> QED BY <1>1, <1>2, <1>3 DEF Next, Rest

LEMMA StoredInvNext == ASSUME RunInv, ReplayInv, StoredInv, [Next]_vars PROVE StoredInv'
<1>1. row'.status \in {"none", "running", "complete", "failed"}
  <2>1. /\ Failed.status = "failed" /\ NoRow.status = "none"
        /\ NewRow.status = "running" /\ Complete.status = "complete"
    BY FailedFields, NewRowFields DEF RunInv, NoRow, Complete
  <2> QED BY <2>1, StoreValues DEF StoredInv
<1>2. \A r \in row'.result : r \in Results
  <2>1. Resultless \/ StoresResult \/ row'.result = row.result
    BY StoreSteps DEF LeavesStores, StoresTrades
  <2>2. StoresResult => Result \in Results
    BY ResultType DEF StoresResult
  <2> QED BY <2>1, <2>2 DEF Resultless, StoresResult, StoredInv
<1>3. \A t \in stored' : t \in TradeRows
  <2>1. \A t \in ClosedTrades : t \in TradeRows
    BY TradeRowType DEF ClosedTrades, ReplayInv, BacktestTypeOK
  <2> QED BY <2>1, StoreValues DEF StoredInv
<1>4. session' \in {"ok", "broken", "closed"}
  BY StoreValues DEF StoredInv
<1>5. faults' \in 0 .. MaxFaults
  BY StoreValues, RunAssumption DEF StoredInv, Fault
<1> QED BY <1>1, <1>2, <1>3, <1>4, <1>5 DEF StoredInv

\* Every variable of a run is of its type: a result that is stored has all its
\* figures, and a replay that starts has a bar to visit.
THEOREM RunTypes == Spec => []RunTypeOK
<1>1. Init => StoredInv
  BY RunAssumption DEF Init, StoredInv, NoRow
<1>2. RunInv /\ ReplayInv /\ StoredInv /\ [Next]_vars => StoredInv'
  BY StoredInvNext
<1>3. RunInv /\ ReplayInv /\ LastInv /\ WalkInv /\ StoredInv => RunTypeOK
  <2> SUFFICES ASSUME RunInv, ReplayInv, LastInv, WalkInv, StoredInv PROVE RunTypeOK
    OBVIOUS
  <2>1. task = "replay" => last \in 1 .. MaxBars
    BY BacktestAssumption DEF ReplayInv, BacktestTypeOK, LastInv
  <2>2. walk = NoWalk \/ (walk \in Walks /\ task \in {"get", "load", "prepare"})
    BY DEF WalkInv
  <2> QED BY <2>1, <2>2 DEF RunTypeOK, StoredInv, RunInv
<1> QED BY <1>1, <1>2, <1>3, RunInvAlways, ReplayInvAlways, WalkInvAlways, PTL DEF Spec
=============================================================================
