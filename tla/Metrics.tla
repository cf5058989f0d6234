------------------------------ MODULE Metrics -------------------------------
(***************************************************************************)
(* backtest/metrics.py, compute_metrics: what a run tells of its trades    *)
(* and of its equity curve.  A figure that may be missing (None) is a set  *)
(* of at most one; a ratio is kept as its two terms.  The Sharpe ratio is  *)
(* left out: nothing here depends on it.                                   *)
(***************************************************************************)
EXTENDS Integers, FiniteSets, SequencesExt

TotalPnl(trades) == SumFunction([t \in trades |-> t.pnl])

Wins(trades) == {t \in trades : t.pnl > 0}
Losses(trades) == {t \in trades : t.pnl <= 0}

\* Gross profit over gross loss; float("inf") where nothing was lost.
Infinite == [profit |-> 1, loss |-> 0]

\* Mutant: the gross loss keeps its sign.
ProfitFactor_Signed(trades) ==
    LET profit == TotalPnl(Wins(trades))
        loss == TotalPnl(Losses(trades))
    IN  IF loss # 0 THEN [profit |-> profit, loss |-> loss]
        ELSE IF profit > 0 THEN Infinite ELSE [profit |-> 0, loss |-> 1]

ProfitFactor(trades) ==
    LET profit == TotalPnl(Wins(trades))
        loss == -TotalPnl(Losses(trades))
    IN  IF loss > 0 THEN [profit |-> profit, loss |-> loss]
        ELSE IF profit > 0 THEN Infinite ELSE [profit |-> 0, loss |-> 1]

\* A fall from a peak, as a share of the peak.
NoFall == [fall |-> 0, of |-> 1]
Deeper(a, b) == a.fall * b.of > b.fall * a.of

\* Mutant: the fall is measured from the value before, not from the peak.
MaxDrawdown_FromLast(curve) ==
    LET Step(seen, v) ==
          LET down == [fall |-> seen.peak - v, of |-> seen.peak]
          IN  [peak |-> v,
               worst |-> IF seen.peak > 0 /\ Deeper(down, seen.worst) THEN down ELSE seen.worst]
    IN  FoldLeft(Step, [peak |-> curve[1], worst |-> NoFall], curve).worst

\* _max_drawdown_pct of a curve that is not empty
MaxDrawdown(curve) ==
    LET Step(seen, v) ==
          LET peak == Max({seen.peak, v})
              down == [fall |-> peak - v, of |-> peak]
          IN  [peak |-> peak,
               worst |-> IF peak > 0 /\ Deeper(down, seen.worst) THEN down ELSE seen.worst]
    IN  FoldLeft(Step, [peak |-> curve[1], worst |-> NoFall], curve).worst

\* `winners` of `total` is the win rate.
ComputeMetrics(trades, curve) ==
    [total    |-> Cardinality(trades),
     winners  |-> Cardinality(Wins(trades)),
     factor   |-> IF trades = {} THEN {} ELSE {ProfitFactor(trades)},
     drawdown |-> IF trades = {} THEN {} ELSE {MaxDrawdown(curve)}]
=============================================================================
