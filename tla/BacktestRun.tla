---------------------------- MODULE BacktestRun -----------------------------
(***************************************************************************)
(* One run as POST /api/backtest/run starts it (api/backtest.py): the row  *)
(* in backtest_runs, the background task that walks back through the       *)
(* broker's history page by page (backtest/data_loader.py), replays what   *)
(* it loaded (module Backtest), and stores the result, then the trades.    *)
(* Any call may fail, any commit may take effect although its call fails,  *)
(* and the process may end after any step; nothing resumes a run.          *)
(*                                                                         *)
(* Runs share no state but the process, so one is modelled.                *)
(***************************************************************************)
EXTENDS Backtest, Metrics

CONSTANTS
    Times,       \* the times candles may be of
    Histories,   \* the sets of candles the broker may have
    Ranges,      \* [start, end] of a request
    PageSize,    \* MAX_CANDLES_PER_REQUEST
    MinBars,     \* MIN_BARS_TO_START
    MaxFaults    \* bound on the database calls that fail in a run

\* Pages of one candle would load the candle at the cursor for ever.
ASSUME RunAssumption ==
    /\ Times \subseteq Nat
    /\ Histories \subseteq SUBSET Times
    /\ \A h \in Histories : IsFiniteSet(h)
    /\ Ranges \subseteq [start : Times, end : Times]
    /\ PageSize \in Nat \ {0, 1}
    /\ {MinBars, MaxFaults} \subseteq Nat

VARIABLES
    task,      \* where _execute_backtest stands
    walk,      \* what load_historical_candles works on
    row,       \* the row of backtest_runs
    stored,    \* the run's rows of backtest_trades
    session,   \* whether the task's database session still takes statements
    faults     \* database calls failed so far

stores == <<row, stored>>
vars == <<task, walk, stores, session, faults, replay>>

\* `inclusive`: whether the broker's page ends with the candle of the start
\* time or before it.  `sound`: whether the strategy takes the parameters.
\* `candles`: how often each candle is in all_candles, a list that is sorted
\* before it is read.
NoCandles == [t \in Times |-> 0]
NoWalk == [range |-> [start |-> 0, end |-> 0], history |-> {}, inclusive |-> FALSE,
           sound |-> TRUE, cursor |-> 0, candles |-> NoCandles]
Walks == [range : Ranges, history : Histories, inclusive : BOOLEAN, sound : BOOLEAN,
          cursor : Times, candles : [Times -> 0 .. 2]]

\* `result`: the columns the run fills in when it is complete.
NoRow == [status |-> "none", result |-> {}]

NoHist == CHOOSE h \in [1 .. Window -> Hists] : TRUE

\* A simulator and its results, before the first bar of `bars`.
FreshReplay(bars) ==
    /\ phase' = "bar"
    /\ last' = bars
    /\ n' = 0
    /\ bar' = NoBar
    /\ view' = NoView
    /\ day' = 0
    /\ open' = {}
    /\ closed' = {}
    /\ balance' = Capital
    /\ snap' = StartNewDay(0, Capital)
    /\ todo' = {}
    /\ curve' = <<>>

Forget ==
    /\ walk' = NoWalk
    /\ FreshReplay(0)
    /\ hist' = NoHist

\* The except clause is entered.
Raise == task' = "except" /\ Forget

\* The task is over, or dead with its process.
End(how) == task' = how /\ session' = "closed" /\ Forget

\* No replay has started; what the replay's variables hold means nothing.
Init ==
    /\ task = "none"
    /\ walk = NoWalk
    /\ row = NoRow
    /\ stored = {}
    /\ session = "closed"
    /\ faults = 0
    /\ ReplayInit
    /\ last = MaxBars
    /\ hist = NoHist

Fault == faults < MaxFaults /\ faults' = faults + 1

---------------------------------------------------------------------------
(* start_backtest                                                          *)

NewRow == [NoRow EXCEPT !.status = "running"]

\* A range that does not end after it starts is answered with 400.
Request ==
    /\ task = "none"
    /\ \E range \in Ranges, h \in Histories, inclusive, sound \in BOOLEAN :
         /\ range.end > range.start
         /\ walk' = [range |-> range, history |-> h, inclusive |-> inclusive, sound |-> sound,
                     cursor |-> range.end, candles |-> NoCandles]
    /\ row' = NewRow
    /\ task' = "get"
    /\ UNCHANGED <<stored, session, faults, replay>>

\* The row may be there when its insert or the refresh after it fails; the
\* task is added after both.
RequestFails ==
    /\ task = "none"
    /\ Fault
    /\ row' \in {NoRow, NewRow}
    /\ End("over")
    /\ UNCHANGED stored

---------------------------------------------------------------------------
(* _execute_backtest, up to the candles                                    *)

GetRun ==
    /\ task = "get"
    /\ task' = "load"
    /\ session' = "ok"
    /\ UNCHANGED <<walk, stores, faults, replay>>

\* The row is read before the try.
GetRunFails ==
    /\ task = "get"
    /\ Fault
    /\ End("over")
    /\ UNCHANGED stores

\* get_candles: the newest PageSize candles before the cursor.
UpTo == {t \in walk.history : t < walk.cursor \/ (walk.inclusive /\ t = walk.cursor)}
Batch == {t \in UpTo : Cardinality({u \in UpTo : u > t}) < PageSize}

\* Mutant: the last page is kept whole.
InRange_Whole == Batch

InRange == {t \in Batch : t >= walk.range.start}

Earliest == Min(InRange)

\* Mutant: only the start of the range ends the walk.
LastPage_AtStart == Earliest <= walk.range.start

\* The walk is at the start of the range, or the filter or the broker's history
\* left less than a page.
LastPage == Earliest <= walk.range.start \/ Cardinality(InRange) < PageSize

LoadPage ==
    /\ task = "load"
    /\ InRange # {}
    /\ task' = IF LastPage THEN "prepare" ELSE "load"
    /\ walk' = [walk EXCEPT !.cursor = IF LastPage THEN @ ELSE Earliest,
                            !.candles = [t \in Times |-> @[t] + IF t \in InRange THEN 1 ELSE 0]]
    /\ UNCHANGED <<stores, session, faults, replay>>

NoMorePages ==
    /\ task = "load"
    /\ Batch = {}
    /\ task' = "prepare"
    /\ UNCHANGED <<walk, stores, session, faults, replay>>

\* Mutant: the candles are loaded before the try is entered.
PageEmptied_Uncaught ==
    /\ task = "load"
    /\ Batch # {}
    /\ InRange = {}
    /\ End("over")
    /\ UNCHANGED <<stores, faults>>

\* A page the filter leaves nothing of has no first element: IndexError.
PageEmptied ==
    /\ task = "load"
    /\ Batch # {}
    /\ InRange = {}
    /\ Raise
    /\ UNCHANGED <<stores, session, faults>>

PageFails ==
    /\ task = "load"
    /\ Raise
    /\ UNCHANGED <<stores, session, faults>>

---------------------------------------------------------------------------
(* The replay, which never gives way to the event loop                     *)

\* How many candles are loaded.
Candles == SumFunction([t \in walk.history |-> walk.candles[t]])

\* Mutant: as many candles as the indicators need leave a bar to replay.
Prepare_OffByOne ==
    /\ task = "prepare"
    /\ \E bars \in 0 .. MaxBars : Candles = MinBars + bars /\ FreshReplay(bars)
    /\ walk.sound
    /\ hist' \in [1 .. Window -> Hists]
    /\ walk' = NoWalk
    /\ task' = "replay"
    /\ UNCHANGED <<stores, session, faults>>

\* More candles than the indicators need, MaxBars more at most.
Prepare ==
    /\ task = "prepare"
    /\ \E bars \in 1 .. MaxBars : Candles = MinBars + bars /\ FreshReplay(bars)
    /\ walk.sound
    /\ hist' \in [1 .. Window -> Hists]
    /\ walk' = NoWalk
    /\ task' = "replay"
    /\ UNCHANGED <<stores, session, faults>>

\* No candle to make a frame of, too few, or parameters that are no numbers.
PrepareRaises ==
    /\ task = "prepare"
    /\ Candles <= MinBars \/ ~walk.sound
    /\ Raise
    /\ UNCHANGED <<stores, session, faults>>

ReplayStep ==
    /\ task = "replay"
    /\ ReplayNext
    /\ UNCHANGED <<task, walk, stores, session, faults>>

ReplayRaises ==
    /\ task = "replay"
    /\ phase = "failed"
    /\ Raise
    /\ UNCHANGED <<stores, session, faults>>

---------------------------------------------------------------------------
(* What is stored                                                          *)

TradeRow(c) ==
    [id |-> c.position.id, entry |-> c.position.entry, opened |-> c.position.opened,
     side |-> c.position.side, price |-> c.price, bar |-> c.bar, pnl |-> c.pnl, reason |-> c.reason]

ClosedTrades == {TradeRow(c) : c \in closed}

\* An infinite profit factor is stored as none.
Result ==
    LET m == ComputeMetrics(ClosedTrades, curve)
    IN  [balance |-> balance, total |-> m.total, winners |-> m.winners,
         factor |-> m.factor \ {Infinite}, drawdown |-> m.drawdown]

Complete == [status |-> "complete", result |-> {Result}]

Replayed == task = "replay" /\ phase = "end" /\ open = {}

\* update_backtest_run: a commit, then a read of the row.
StoreResult ==
    /\ Replayed
    /\ row' = Complete
    /\ task' = "trades"
    /\ UNCHANGED <<walk, stored, session, faults, replay>>

\* A session whose flush or commit failed takes nothing more before a rollback,
\* and nothing rolls it back.
StoreResultFails ==
    /\ Replayed
    /\ Fault
    /\ row' \in {row, Complete}
    /\ session' = "broken"
    /\ Raise
    /\ UNCHANGED stored

\* The read needs a connection of its own: failing to get one breaks nothing.
StoreResultUnread ==
    /\ Replayed
    /\ Fault
    /\ row' = Complete
    /\ session' \in {"ok", "broken"}
    /\ Raise
    /\ UNCHANGED stored

\* add_backtest_trades: all of them in one commit.
StoreTrades ==
    /\ task = "trades"
    /\ stored' = ClosedTrades
    /\ End("over")
    /\ UNCHANGED <<row, faults>>

StoreTradesFails ==
    /\ task = "trades"
    /\ Fault
    /\ stored' \in {{}, ClosedTrades}
    /\ session' = "broken"
    /\ Raise
    /\ UNCHANGED row

---------------------------------------------------------------------------
(* except Exception                                                        *)

Failed == [row EXCEPT !.status = "failed"]

\* Mutant: the failure is written through a session of its own.
Handle_OwnSession ==
    /\ task = "except"
    /\ row' = Failed
    /\ End("over")
    /\ UNCHANGED <<stored, faults>>

Handle ==
    /\ task = "except"
    /\ session = "ok"
    /\ row' = Failed
    /\ End("over")
    /\ UNCHANGED <<stored, faults>>

HandleFails ==
    /\ task = "except"
    /\ session = "ok"
    /\ Fault
    /\ row' \in {row, Failed}
    /\ End("over")
    /\ UNCHANGED stored

\* The broken session refuses the update; the task ends with that exception.
HandleRefused ==
    /\ task = "except"
    /\ session = "broken"
    /\ End("over")
    /\ UNCHANGED <<stores, faults>>

---------------------------------------------------------------------------

Ended == task \in {"over", "dead"}

\* The process ends; the next one does not look for runs.
Dies ==
    /\ task # "none"
    /\ ~Ended
    /\ End("dead")
    /\ UNCHANGED <<stores, faults>>

\* Nothing happens to the run any more.
Rest == Ended /\ UNCHANGED vars

Next ==
    \/ Request \/ RequestFails
    \/ GetRun \/ GetRunFails
    \/ LoadPage \/ NoMorePages \/ PageEmptied \/ PageFails
    \/ Prepare \/ PrepareRaises \/ ReplayStep \/ ReplayRaises
    \/ StoreResult \/ StoreResultFails \/ StoreResultUnread
    \/ StoreTrades \/ StoreTradesFails
    \/ Handle \/ HandleFails \/ HandleRefused
    \/ Dies \/ Rest

Spec == Init /\ [][Next]_vars

---------------------------------------------------------------------------

Results == [balance : Int, total : Nat, winners : Nat,
            factor : SUBSET [profit : Int, loss : Int],
            drawdown : SUBSET [fall : Int, of : Int]]

TradeRows == [id : Nat, entry : Int, opened : Nat, side : Sides, price : Int, bar : Nat,
              pnl : Int, reason : {"sl_hit", "tp_hit", "manual", "backtest_end"}]

\* A replay has a bar to visit, and the walk is over when it starts.
RunTypeOK ==
    /\ task \in {"none", "get", "load", "prepare", "replay", "trades", "except", "over", "dead"}
    /\ walk = NoWalk \/ (walk \in Walks /\ task \in {"get", "load", "prepare"})
    /\ row.status \in {"none", "running", "complete", "failed"}
    /\ \A r \in row.result : r \in Results
    /\ \A t \in stored : t \in TradeRows
    /\ session \in {"ok", "broken", "closed"}
    /\ faults \in 0 .. MaxFaults
    /\ task = "replay" => last \in 1 .. MaxBars

Wanted == {t \in walk.history : t >= walk.range.start /\
                                (t < walk.range.end \/ (walk.inclusive /\ t = walk.range.end))}

\* A candle that two pages end and begin with: it is at the broker's inclusive
\* border, a page but one candle from the border before.
OnBorder(t) ==
    LET newer == Cardinality({u \in Wanted : u > t})
    IN  walk.inclusive /\ t > walk.range.start /\ newer > 0 /\ newer % (PageSize - 1) = 0

\* A walk that comes to its end has loaded every candle of the range, none from
\* outside it, and each one once; twice the candles at the borders of inclusive
\* pages, which the replay visits as two bars
\* (backtest/data_loader.py:23-36).
RangeLoaded ==
    task = "prepare" =>
        \A t \in Times :
            walk.candles[t] = IF t \notin Wanted THEN 0 ELSE IF OnBorder(t) THEN 2 ELSE 1

\* The walk raises of itself only where nothing of the range is there to load,
\* or where a full page ended just where the range's candles do, with older
\* ones behind it (backtest/data_loader.py:27-29).
WalkRaisesAtBorder ==
    [][(task = "load" /\ PageEmptied) =>
         \/ Wanted = {}
         \/ ~walk.inclusive /\ Cardinality(Wanted) % PageSize = 0
              /\ walk.range.start \notin walk.history]_vars

\* Where the database does not fail and the process lives, a task that is over
\* leaves a run that is not running: complete with its result and all of its
\* trades, or failed with none of either.
RunSettles ==
    (task = "over" /\ faults = 0) =>
        \/ /\ row.status = "complete"
           /\ \E r \in row.result : Cardinality(stored) = r.total
        \/ row = Failed /\ row.result = {} /\ stored = {}

\* The trades that are stored make up the result they are stored under: the
\* balance is the capital and their PnL, and the profit factor says of it
\* whether the account grew, by how much and out of how many wins.
ResultAddsUp ==
    \A r \in row.result :
        (stored # {} \/ r.total = 0) =>
            /\ r.balance = Capital + TotalPnl(stored)
            /\ r.total = Cardinality(stored)
            /\ \A f \in r.factor :
                 IF \A t \in stored : t.pnl = 0 THEN f.profit = 0
                                            ELSE f.profit - f.loss = r.balance - Capital
            /\ r.factor = {} => r.total = 0 \/ r.balance > Capital

\* No fall of the equity from one bar to a later one is a greater share of what
\* it fell from than the drawdown that is stored.  Falls below zero are left out:
\* the one pass compares with the highest peak alone, and a fall to a negative
\* equity is a greater share of a lower one (of 1, 2, -1 it is the first's).
DrawdownIsDeepest ==
    task = "trades" =>
        \A r \in row.result : \A d \in r.drawdown :
            /\ \A i, j \in 1 .. Len(curve) :
                 (i < j /\ curve[i] > 0 /\ curve[j] >= 0) =>
                    ~Deeper([fall |-> curve[i] - curve[j], of |-> curve[i]], d)
            /\ d # NoFall => \E i, j \in 1 .. Len(curve) :
                 i < j /\ d = [fall |-> curve[i] - curve[j], of |-> curve[i]]

\* A run that failed, or whose trades are stored, stays as it is: a trade's
\* commit that took effect without its answer does not turn a complete run
\* into a failed one (api/backtest.py:101-130).
OutcomeStays ==
    [][(row.status = "failed" \/ stored # {}) => UNCHANGED stores]_vars
=============================================================================
