--------------------------- MODULE CircuitBreaker ---------------------------
(***************************************************************************)
(* risk/circuit_breaker.py: the pure daily-loss rules, shared by the live  *)
(* loop and the backtester.  A snapshot is [day, start, pnl, halted]; the  *)
(* halt's wording is left out.  Money is an integer and the percentage an  *)
(* integer, so "pnl <= -(start * pct / 100)" is compared after multiplying *)
(* both sides by 100, which is exact.                                      *)
(***************************************************************************)
EXTENDS Integers

\* A snapshot as a day begins.
StartNewDay(day, equity) ==
    [day |-> day, start |-> equity, pnl |-> 0, halted |-> FALSE]

IsNewTradingDay(snapshot, day) == snapshot.day # day

\* The loss limit of a day that started with `start`, reached or passed.
LimitReached(start, pnl, pct) == 100 * pnl <= -(start * pct)

\* Mutant: the halt is recomputed, so a later gain lifts it.
RecordPnl_Unlatched(snapshot, pnl, pct) ==
    LET total == snapshot.pnl + pnl
    IN  [snapshot EXCEPT !.pnl = total,
                         !.halted = LimitReached(snapshot.start, total, pct)]

\* Realised PnL is added and the day halted at the limit; once halted, a
\* snapshot stays halted whatever is recorded next.
RecordPnl(snapshot, pnl, pct) ==
    LET total == snapshot.pnl + pnl
    IN  [snapshot EXCEPT !.pnl = total,
                         !.halted = @ \/ LimitReached(snapshot.start, total, pct)]

IsHalted(snapshot) == snapshot.halted
=============================================================================
