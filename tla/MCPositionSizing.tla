-------------------------- MODULE MCPositionSizing --------------------------
(***************************************************************************)
(* Every bounded input of SizePosition: a state is one request, the next   *)
(* state the same request with one more unit of money to risk.             *)
(***************************************************************************)
EXTENDS PositionSizing

CONSTANTS MaxRisk, MaxUnitRisk, MaxVolume

ASSUME SizingAssumption == {MaxRisk, MaxUnitRisk, MaxVolume} \subseteq Nat

VARIABLES risk, unitRisk, spec

Init ==
    /\ risk = 0
    /\ unitRisk \in 0 .. MaxUnitRisk
    /\ spec \in {s \in [min : 1 .. MaxVolume, max : 1 .. MaxVolume, step : 1 .. MaxVolume] : s.min <= s.max}

Next ==
    /\ risk < MaxRisk
    /\ risk' = risk + 1
    /\ UNCHANGED <<unitRisk, spec>>

Spec == Init /\ [][Next]_<<risk, unitRisk, spec>>

\* What can afford the minimum and a step is sized (position_sizing.py:33-45).
Affordable == AffordableIsSized(risk, unitRisk, spec)

\* Sizes respect the overage multiple and the broker's limits
\* (position_sizing.py:35-38).
Bounded == SizeIsBounded(risk, unitRisk, spec)

\* One more unit of risk never shrinks the position.
Monotone == [][SizeIsMonotone(risk, risk', unitRisk, spec)]_<<risk, unitRisk, spec>>
=============================================================================
