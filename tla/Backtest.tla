------------------------------ MODULE Backtest ------------------------------
(***************************************************************************)
(* backtest/engine.py on backtest/simulator.py: bar after bar, the stops   *)
(* and targets the bar hit, the strategy's management of what is open, and *)
(* an entry through engine/executor.py, with the live bot's breaker, cap   *)
(* and sizing.  The candles, and what the indicators say of them, are left *)
(* open.  BacktestRun loads the candles and keeps the outcome.             *)
(***************************************************************************)
EXTENDS CircuitBreaker, Flip, PositionSizing, Strategy, SequencesExt

CONSTANTS
    Bars,            \* [low, high, close] records
    BarViews,        \* what the indicators may say of a bar
    Hists,           \* values of the MACD histogram
    MaxBars,         \* bound on the bars replayed
    Capital,         \* initial_balance
    HalfSpread,      \* half of the bid/ask spread
    Contract,        \* contract_size
    Volumes,         \* the symbol's volume limits, one of PositionSizing's Specs
    RiskPct,         \* risk_pct_per_trade
    LossPct,         \* max_daily_loss_pct
    MaxOpen          \* max_concurrent_positions

ASSUME BacktestAssumption ==
    /\ Bars \subseteq {b \in [low : Nat, high : Nat, close : Nat] : b.low <= b.close /\ b.close <= b.high}
    /\ BarViews \subseteq Views
    /\ Bars # {} /\ BarViews # {}
    /\ Hists \subseteq Int
    /\ {MaxBars, Capital, HalfSpread, Contract, RiskPct, LossPct, MaxOpen} \subseteq Nat
    /\ Volumes \in Specs

VARIABLES
    phase,     \* which part of the loop's body comes next
    last,      \* bars there are to replay
    n,         \* bars replayed; the index of the current one
    bar, view, hist,
    day,       \* the day of the current bar
    open,      \* _open_positions
    closed,    \* closed_trades
    balance,
    snap,      \* the circuit breaker snapshot; of day 0 before the first bar
    todo,      \* listed positions not managed so far
    curve      \* the equity at the end of each bar

market == <<last, n, bar, view, hist, day>>
account == <<open, closed, balance>>
replay == <<phase, market, account, snap, todo, curve>>

SimPositions ==
    [id : Nat, side : Sides, volume : Nat, entry : Int, stop : Int, target : SUBSET Int,
     opened : Nat, risk : Int]

\* Before the first bar the replay visits; `bar` and `view` hold nothing yet.
NoBar == CHOOSE b \in Bars : TRUE
NoView == CHOOSE v \in BarViews : TRUE

ReplayInit ==
    /\ phase = "bar"
    /\ last \in 1 .. MaxBars
    /\ n = 0
    /\ bar = NoBar
    /\ view = NoView
    /\ hist \in [1 .. Window -> Hists]
    /\ day = 0
    /\ open = {}
    /\ closed = {}
    /\ balance = Capital
    /\ snap = StartNewDay(0, Capital)
    /\ todo = {}
    /\ curve = <<>>

Pnl(position, price) ==
    Sign(position.side) * (price - position.entry) * position.volume * Contract

\* get_account_summary
EquityOf(positions, close) == balance + SumFunction([p \in positions |-> Pnl(p, close)])
Equity(close) == EquityOf(open, close)

\* place_order pays half the spread, close_position the other half.
FillPrice(side) == bar.close + Sign(side) * HalfSpread
ExitPrice(side) == bar.close - Sign(side) * HalfSpread

\* _close_internal
CloseAt(position, price, reason) ==
    /\ open' = open \ {position}
    /\ balance' = balance + Pnl(position, price)
    /\ closed' = closed \cup
           {[position |-> position, price |-> price, pnl |-> Pnl(position, price),
             reason |-> reason, bar |-> n, day |-> day]}

\* Positions are looked at in the order they were opened in.
First(positions) == CHOOSE p \in positions : \A q \in positions : p.id <= q.id

---------------------------------------------------------------------------

\* Mutant: a new day's snapshot keeps the PnL of the day before.
RolledOver_KeepsPnl(snapshot, today, equity) ==
    IF IsNewTradingDay(snapshot, today)
      THEN [snapshot EXCEPT !.day = today, !.start = equity, !.halted = FALSE]
      ELSE snapshot

RolledOver(snapshot, today, equity) ==
    IF IsNewTradingDay(snapshot, today) THEN StartNewDay(today, equity) ELSE snapshot

\* The next candle, on the same day or a later one.  A new day's equity is
\* taken before the bar's stops are, at the bar's close.
NextBar ==
    /\ phase = "bar"
    /\ n < last
    /\ n' = n + 1
    /\ last' = last
    /\ bar' \in Bars
    /\ view' \in BarViews
    /\ \E h \in Hists : hist' = Append(IF Len(hist) > Window THEN Tail(hist) ELSE hist, h)
    /\ day' \in IF n = 0 THEN {1} ELSE {day, day + 1}
    /\ snap' = RolledOver(snap, day', Equity(bar'.close))
    /\ phase' = "hits"
    /\ UNCHANGED <<account, todo, curve>>

---------------------------------------------------------------------------
(* process_stop_and_target_hits, with the breaker told of every close.     *)

Worst(side) == IF side = "buy" THEN bar.low ELSE bar.high
Best(side) == IF side = "buy" THEN bar.high ELSE bar.low

StopHit(position) == ~Tighter(position.side, Worst(position.side), position.stop)
TargetsHit(position) ==
    {t \in position.target : ~Tighter(position.side, t, Best(position.side))}

\* The stop is assumed to fire first where both are hit.
Hits(position) ==
    IF StopHit(position)
      THEN {[price |-> position.stop, reason |-> "sl_hit"]}
      ELSE {[price |-> t, reason |-> "tp_hit"] : t \in TargetsHit(position)}

Breached == {p \in open : Hits(p) # {}}

Hit ==
    /\ phase = "hits"
    /\ Breached # {}
    /\ LET p == First(Breached)
       IN  \E hit \in Hits(p) :
             /\ CloseAt(p, hit.price, hit.reason)
             /\ snap' = RecordPnl(snap, Pnl(p, hit.price), LossPct)
    /\ UNCHANGED <<phase, market, todo, curve>>

ListPositions ==
    /\ phase = "hits"
    /\ Breached = {}
    /\ todo' = open
    /\ phase' = "manage"
    /\ UNCHANGED <<market, account, snap, curve>>

---------------------------------------------------------------------------
(* manage_open_positions, with the breaker told of every close.            *)

\* Mutant: the breaker is not told of the strategy's own closes.
ManageClose_Untold ==
    /\ phase = "manage"
    /\ todo # {}
    /\ LET p == First(todo)
       IN  /\ Reversed(p, view, hist)
           /\ CloseAt(p, ExitPrice(p.side), "manual")
           /\ todo' = todo \ {p}
    /\ UNCHANGED <<phase, market, snap, curve>>

ManageClose ==
    /\ phase = "manage"
    /\ todo # {}
    /\ LET p == First(todo)
       IN  /\ Reversed(p, view, hist)
           /\ CloseAt(p, ExitPrice(p.side), "manual")
           /\ snap' = RecordPnl(snap, Pnl(p, ExitPrice(p.side)), LossPct)
           /\ todo' = todo \ {p}
    /\ UNCHANGED <<phase, market, curve>>

ManageMove ==
    /\ phase = "manage"
    /\ todo # {}
    /\ LET p == First(todo)
       IN  /\ ~Reversed(p, view, hist)
           /\ \E s \in NewStops(p, bar.close, view) : open' = (open \ {p}) \cup {[p EXCEPT !.stop = s]}
           /\ todo' = todo \ {p}
    /\ UNCHANGED <<phase, market, closed, balance, snap, curve>>

ManageHold ==
    /\ phase = "manage"
    /\ todo # {}
    /\ LET p == First(todo)
       IN  /\ ~Reversed(p, view, hist)
           /\ NewStops(p, bar.close, view) = {}
           /\ todo' = todo \ {p}
    /\ UNCHANGED <<phase, market, account, snap, curve>>

ManageDone ==
    /\ phase = "manage"
    /\ todo = {}
    /\ phase' = "entry"
    /\ UNCHANGED <<market, account, snap, todo, curve>>

---------------------------------------------------------------------------
(* evaluate_and_maybe_trade on the simulator                               *)

\* Mutant: the breaker is not asked.
MayEnter_Halted == CanOpenNewPosition(Cardinality(open), MaxOpen)

MayEnter == ~IsHalted(snap) /\ CanOpenNewPosition(Cardinality(open), MaxOpen)

\* The intended risk and one lot's loss at the stop, both times 100.
Risk == Equity(bar.close) * RiskPct
LotRisk(side) == 100 * StopAtr * view.half * Contract

Volume(side) == SizePosition(Risk, LotRisk(side), Volumes)

NewPosition(side) ==
    [id |-> Cardinality(open) + Cardinality(closed) + 1, side |-> side, volume |-> Volume(side),
     entry |-> FillPrice(side), stop |-> EntryStop(side, bar.close, view),
     target |-> EntryTarget(side, bar.close, view), opened |-> n, risk |-> Risk]

\* Mutant: the curve is taken before the bar's order.
BarEnds_BeforeOrder(positions) == curve' = Append(curve, Equity(bar.close))

\* The account as it is after the bar's last order.
BarEnds(positions) == curve' = Append(curve, EquityOf(positions, bar.close))

\* Mutant: the bar that opened a position is searched for its stop.
Enter_HitsAfter(side) ==
    /\ phase = "entry"
    /\ MayEnter
    /\ Signals(side, view, hist)
    /\ Volume(side) # Refused
    /\ open' = open \cup {NewPosition(side)}
    /\ phase' = "hits"
    /\ UNCHANGED <<market, closed, balance, snap, todo, curve>>

Enter(side) ==
    /\ phase = "entry"
    /\ MayEnter
    /\ Signals(side, view, hist)
    /\ Volume(side) # Refused
    /\ open' = open \cup {NewPosition(side)}
    /\ phase' = "bar"
    /\ BarEnds(open')
    /\ UNCHANGED <<market, closed, balance, snap, todo>>

\* A stop of no width, or no equity to put the refused risk in relation to:
\* the exception ends the whole run.
Raises(side) == LotRisk(side) = 0 \/ Equity(bar.close) = 0

EntryRaises(side) ==
    /\ phase = "entry"
    /\ MayEnter
    /\ Signals(side, view, hist)
    /\ Raises(side)
    /\ phase' = "failed"
    /\ UNCHANGED <<market, account, snap, todo, curve>>

\* The breaker, the cap, the strategy or the sizing says no.
NoEntry ==
    /\ phase = "entry"
    /\ MayEnter => \A side \in Sides :
         Signals(side, view, hist) => Volume(side) = Refused /\ ~Raises(side)
    /\ phase' = "bar"
    /\ BarEnds(open)
    /\ UNCHANGED <<market, account, snap, todo>>

---------------------------------------------------------------------------
(* close_all_at_market                                                     *)

EndOfData ==
    /\ phase = "bar"
    /\ n = last
    /\ phase' = "end"
    /\ UNCHANGED <<market, account, snap, todo, curve>>

CloseRest ==
    /\ phase = "end"
    /\ open # {}
    /\ LET p == First(open) IN CloseAt(p, ExitPrice(p.side), "backtest_end")
    /\ UNCHANGED <<phase, market, snap, todo, curve>>

ReplayNext ==
    \/ NextBar \/ Hit \/ ListPositions
    \/ ManageClose \/ ManageMove \/ ManageHold \/ ManageDone
    \/ NoEntry \/ EndOfData \/ CloseRest
    \/ \E side \in Sides : Enter(side) \/ EntryRaises(side)

---------------------------------------------------------------------------

Trades == [position : SimPositions, price : Int, pnl : Int, bar : 0 .. MaxBars,
           reason : {"sl_hit", "tp_hit", "manual", "backtest_end"},
           day : Nat]

BacktestTypeOK ==
    /\ phase \in {"bar", "hits", "manage", "entry", "end", "failed"}
    /\ last \in 0 .. MaxBars
    /\ n \in 0 .. last
    /\ bar \in Bars
    /\ view \in BarViews
    /\ hist \in Seq(Hists) /\ Len(hist) \in Window .. Window + 1
    /\ day \in 0 .. n
    /\ \A p \in open : p \in SimPositions
    /\ \A c \in closed : c \in Trades
    /\ balance \in Int
    /\ snap \in [day : Nat, start : Int, pnl : Int, halted : BOOLEAN]
    /\ todo \subseteq open
    /\ Cardinality(open) <= MaxOpen
    /\ curve \in Seq(Int) /\ Len(curve) \in {n, n - 1}

\* A stop is never loosened, from breakeven to trailing and back, whatever the
\* ATR does (strategy/ema_atr_rsi_macd.py:37).
StopOnlyTightens ==
    [][\A p \in open, q \in open' :
         (p.id = q.id) => ~Tighter(p.side, p.stop, q.stop)]_replay

DayPnl ==
    LET today == {c \in closed : c.day = day}
    IN  SumFunction([c \in today |-> c.pnl])

\* While the replay lasts, the breaker's PnL is that of all trades closed on
\* the bar's day and of no other: none unseen, none twice, none on the wrong
\* side of midnight (backtest/engine.py:70-85).
BreakerSeesEveryClose ==
    (phase # "end") => (snap.day = day /\ snap.pnl = DayPnl)

\* No position is opened on a day whose closed trades have lost the limit, the
\* losses of this very bar included.  (A day on which none was closed has lost
\* nothing, though a limit of nothing is reached.)
EntryBeforeLimit ==
    [][((\E q \in open' : \A p \in open : p.id # q.id) /\ \E c \in closed : c.day = day)
         => ~LimitReached(snap.start, DayPnl, LossPct)]_replay

\* No trade exits on the bar whose close it was entered at, part of which was
\* before the entry, unless the data ends there.
ExitFollowsEntry ==
    \A c \in closed : c.reason = "backtest_end" \/ c.position.opened < c.bar

\* However a trade ends, it loses no more than the overage multiple allows of
\* what it was meant to risk, and the spread: sizing, the ratchet and the
\* order of a bar's steps together.
LossIsBounded ==
    \A c \in closed :
        -200 * c.pnl <= 3 * c.position.risk + 400 * HalfSpread * c.position.volume * Contract

\* The last equity of the curve the drawdown is taken from is the balance the
\* run ends with, but for the spread of the closes at the end of the data,
\* which come after the curve's last value (backtest/engine.py:99-107).
CurveLeadsToBalance ==
    phase = "end" =>
        LET atEnd == {c \in closed : c.reason = "backtest_end"}
        IN  Last(curve) = Equity(bar.close) +
              HalfSpread * Contract * SumFunction([c \in atEnd |-> c.position.volume])
=============================================================================
