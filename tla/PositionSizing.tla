--------------------------- MODULE PositionSizing ---------------------------
(***************************************************************************)
(* risk/position_sizing.py in integers.  Volumes are counted in units no   *)
(* coarser than the broker's step and limits; `risk` is what the trade may *)
(* lose and `unitRisk` what one unit loses at the stop (stop distance times*)
(* contract size), both in the same unit of money.  Floating-point error   *)
(* and the final round(volume, 8) are left out.                            *)
(***************************************************************************)
EXTENDS Integers

\* A broker's volume limits for a symbol.
Specs == [min : Nat \ {0}, max : Nat \ {0}, step : Nat \ {0}]

\* Mutant: int(x + 1) instead of round(x).
RoundHalfEven_Up(n, d) == n \div d + 1

\* Python's round(n / d): to the nearest integer, a tie to the even one.
RoundHalfEven(n, d) ==
    LET q == n \div d
        r == n % d
    IN  IF 2 * r > d \/ (2 * r = d /\ q % 2 = 1) THEN q + 1 ELSE q

Larger(a, b) == IF a >= b THEN a ELSE b
Smaller(a, b) == IF a <= b THEN a ELSE b

\* Rounded to the volume step, then clamped to the broker's limits.
SizedVolume(risk, unitRisk, spec) ==
    LET volume == RoundHalfEven(risk, unitRisk * spec.step) * spec.step
    IN  Larger(spec.min, Smaller(spec.max, volume))

\* More than MAX_RISK_OVERAGE_MULTIPLE (1.5) times the intended risk.
TooRisky(volume, risk, unitRisk) == 2 * volume * unitRisk > 3 * risk

Refused == 0

\* Mutant: the overage is measured before clamping to the broker's limits.
SizePosition_UnclampedCheck(risk, unitRisk, spec) ==
    IF \/ unitRisk <= 0
       \/ TooRisky(RoundHalfEven(risk, unitRisk * spec.step) * spec.step, risk, unitRisk)
      THEN Refused
      ELSE SizedVolume(risk, unitRisk, spec)

\* A zero-width stop raises ValueError, an outsized minimum
\* PositionTooSmallError; either way nothing is traded.
SizePosition(risk, unitRisk, spec) ==
    IF unitRisk <= 0 \/ TooRisky(SizedVolume(risk, unitRisk, spec), risk, unitRisk)
      THEN Refused
      ELSE SizedVolume(risk, unitRisk, spec)

---------------------------------------------------------------------------

\* A refusal is the broker's minimum's doing, as its message says: whatever
\* can afford the minimum volume and one volume step is given a size.  (The
\* step is needed: rounding up from below one step may overshoot.)
AffordableIsSized(risk, unitRisk, spec) ==
    (/\ unitRisk > 0
     /\ risk >= unitRisk * spec.min
     /\ risk >= unitRisk * spec.step)
    => SizePosition(risk, unitRisk, spec) # Refused

\* A size is never more than half as much again as was meant to be risked,
\* whatever rounding and clamping did, and lies within the broker's limits.
SizeIsBounded(risk, unitRisk, spec) ==
    LET volume == SizePosition(risk, unitRisk, spec)
    IN  (volume # Refused /\ spec.min <= spec.max)
        => /\ 2 * volume * unitRisk <= 3 * risk
           /\ spec.min <= volume /\ volume <= spec.max

\* A trader who may lose more is never given a smaller position, nor refused
\* one.  (Where the step is coarser than the minimum this fails: rounding up
\* to a first step is refused where the minimum was not.)
SizeIsMonotone(risk, more, unitRisk, spec) ==
    (risk <= more /\ spec.step <= spec.min) => SizePosition(risk, unitRisk, spec) <= SizePosition(more, unitRisk, spec)
=============================================================================
