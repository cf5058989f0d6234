------------------------------ MODULE Strategy ------------------------------
(***************************************************************************)
(* strategy/ema_atr_rsi_macd.py: when to enter, and what to do with a      *)
(* position at every bar.  Prices are integers.  The indicators of the     *)
(* latest bar are a `view`: whether they are all there, half an ATR in     *)
(* units of price, which way the EMAs point and which sides the RSI        *)
(* allows.  Multiples of the ATR are counted in halves.  `hist` is the     *)
(* MACD histogram, latest value last.                                      *)
(***************************************************************************)
EXTENDS Integers, Sequences

CONSTANTS
    StopAtr,          \* atr_stop_multiplier, in halves
    BreakevenAtr,     \* breakeven_trigger_atr, in halves
    TrailTriggerAtr,  \* trail_trigger_atr, in halves
    TrailAtr,         \* trail_atr_multiplier, in halves
    RewardRisk,       \* take_profit_rr, 0 for None
    Window            \* momentum_confirm_window

ASSUME StrategyAssumption ==
    /\ {StopAtr, BreakevenAtr, TrailTriggerAtr, TrailAtr, RewardRisk} \subseteq Nat
    /\ Window \in Nat \ {0}

Sides == {"buy", "sell"}
Views == [ready : BOOLEAN, half : Nat, trend : {"up", "flat", "down"}, rsi : SUBSET Sides]

\* The code writes every rule twice; a price that is better for a buy is
\* worse for a sell.
Sign(side) == IF side = "buy" THEN 1 ELSE -1
Against(side) == IF side = "buy" THEN "sell" ELSE "buy"
TrendOf(side) == IF side = "buy" THEN "up" ELSE "down"

\* The histogram crossed zero in favour of `side` within the last Window bars.
RecentCross(hist, side) ==
    \E i \in 2 .. Len(hist) :
        /\ i > Len(hist) - Window
        /\ Sign(side) * hist[i - 1] <= 0
        /\ Sign(side) * hist[i] > 0

---------------------------------------------------------------------------
(* generate_signal                                                         *)

Signals(side, view, hist) ==
    /\ view.ready
    /\ view.trend = TrendOf(side)
    /\ RecentCross(hist, side)
    /\ side \in view.rsi

EntryStop(side, close, view) == close - Sign(side) * StopAtr * view.half

\* The take-profit price, if there is one.
EntryTarget(side, close, view) ==
    {close + Sign(side) * r * StopAtr * view.half : r \in {RewardRisk} \ {0}}

---------------------------------------------------------------------------
(* manage_position                                                         *)

\* Momentum turned against the position: it is closed.
Reversed(position, view, hist) ==
    view.ready /\ RecentCross(hist, Against(position.side))

FavorableMove(position, close) == Sign(position.side) * (close - position.entry)

\* Where the stop might go: behind the price after a long way, to the entry
\* price after a shorter one.
Candidates(position, close, view) ==
    CASE FavorableMove(position, close) >= TrailTriggerAtr * view.half ->
           {close - Sign(position.side) * TrailAtr * view.half}
      [] FavorableMove(position, close) \in BreakevenAtr * view.half .. TrailTriggerAtr * view.half - 1 ->
           {position.entry}
      [] OTHER -> {}

Tighter(side, stop, than) == Sign(side) * (stop - than) > 0

\* Mutant: a candidate is taken whether or not it is tighter.
NewStops_AnyCandidate(position, close, view) ==
    IF view.ready THEN Candidates(position, close, view) ELSE {}

\* The stop a position gets, if it gets one; never a looser one.
NewStops(position, close, view) ==
    IF view.ready
      THEN {s \in Candidates(position, close, view) : Tighter(position.side, s, position.stop)}
      ELSE {}
=============================================================================
