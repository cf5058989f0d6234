----------------------------- MODULE MCBacktest -----------------------------
(***************************************************************************)
(* The values Backtest.cfg gives to the constants of BacktestRun.          *)
(***************************************************************************)
EXTENDS BacktestRun, MCReplay

\* The last range begins where it ends.  Histories with the longest range full
\* of candles are left out, for the replay to stay within MaxBars.
MCTimes == 0 .. 7
MCRanges == {[start |-> 1, end |-> 7], [start |-> 2, end |-> 7], [start |-> 3, end |-> 3]}
MCHistories == {h \in SUBSET MCTimes : Cardinality(h \ {0}) <= 6}
=============================================================================
