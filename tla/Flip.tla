-------------------------------- MODULE Flip --------------------------------
(***************************************************************************)
(* risk/flip.py and risk/limits.py: when a flip run is over, and whether   *)
(* one more position fits under the cap.  Pure rules.                      *)
(***************************************************************************)
EXTENDS Integers

\* The floor is looked at first: where the two overlap, the run has failed.
CheckFlipStatus(equity, floor, target) ==
    CASE equity <= floor -> "floor_hit"
      [] equity > floor /\ equity >= target -> "target_hit"
      [] OTHER -> "active"

\* Mutant: off by one.
CanOpenNewPosition_OffByOne(openCount, max) == openCount <= max

CanOpenNewPosition(openCount, max) == openCount < max
=============================================================================
