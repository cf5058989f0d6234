------------------------------ MODULE MCReplay ------------------------------
(***************************************************************************)
(* The values the configurations give to the constants of Backtest.        *)
(***************************************************************************)
EXTENDS Backtest

Bar(low, close, high) == [low |-> low, close |-> close, high |-> high]

\* Around a price of ten: quiet bars at several levels, and wide ones that
\* reach a stop, a target or both.
MCBars == {Bar(10, 10, 10), Bar(10, 12, 13), Bar(12, 14, 15), Bar(11, 12, 13),
           Bar(6, 7, 10), Bar(6, 10, 17)}

View(half, trend, rsi) == [ready |-> TRUE, half |-> half, trend |-> trend, rsi |-> rsi]
MCViews == {View(1, "up", Sides), View(2, "up", {"buy"}), View(1, "down", {"sell"}), View(0, "up", {"buy"}),
            [View(1, "up", Sides) EXCEPT !.ready = FALSE]}

MCHists == {-1, 1}
MCVolumes == [min |-> 1, max |-> 3, step |-> 1]
=============================================================================
