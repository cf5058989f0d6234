---------------------------- MODULE MCTradingBot ----------------------------
(***************************************************************************)
(* The values the configurations give to TradingBot's constants.           *)
(***************************************************************************)
EXTENDS TradingBot, TLC

MCSymmetry == Permutations(Ids)

\* Money is in units of a tenth of the account at its first start: a loss
\* limit of 20 % is two units.
MCNear == [floor |-> 9, target |-> 11]
MCFar == [floor |-> 8, target |-> 12]
MCConfig(mode, flip, cap) ==
    [paused |-> FALSE, mode |-> mode, flip |-> flip, bounds |-> MCNear, max |-> cap, pct |-> 20]
MCLiveOne == {MCConfig("live", FALSE, 1)}
MCLiveTwo == {MCConfig("live", FALSE, 2)}
MCPractice == {MCConfig("practice", FALSE, 1)}

MCFlipStarts == {MCConfig("practice", FALSE, 1), MCConfig("live", TRUE, 2)}
MCFlipOrNot == {MCConfig("live", TRUE, 1), MCConfig("live", FALSE, 1)}
MCFlipTwo == {MCConfig("live", TRUE, 2)}
MCOneOrTwo == {[max |-> 1, pct |-> 20], [max |-> 2, pct |-> 20]}

MCBounds == {MCNear}
MCNearOrFar == {MCNear, MCFar}

MCNone == {}
MCTrue == {TRUE}
MCEither == {TRUE, FALSE}

MCZero == {0}
MCSwing == {-1, 1}
MCLoss == {-1}
MCBigLoss == {-2}
MCLossOrGain == {-2, 1}

MCDesk == {"kill", "close", "resume"}
MCPollClose == {"poll", "close"}
MCControls == {"live", "practice", "pause", "risk", "resume", "flip"}
MCPause == {"pause"}
MCClose == {"close"}
MCLive == {"live"}
MCKill == {"kill"}
=============================================================================
