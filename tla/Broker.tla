------------------------------- MODULE Broker -------------------------------
(***************************************************************************)
(* The MT5 account behind MetaApi, as broker/metaapi_client.py uses it:    *)
(* what its calls read and change, and what happens there on its own.      *)
(* A broker trade id is never used twice.  A position is a stop level and, *)
(* once closed, a realised PnL; prices and volumes are abstracted to these *)
(* two.  A higher stop level is a tighter stop (for either side).          *)
(***************************************************************************)
EXTENDS Integers, FiniteSets

CONSTANTS
    Ids,             \* broker trade ids (position ids)
    MaxStop,         \* bound on stop levels; 0 is the stop an order carries
    Pnls,            \* realised PnL a closed position may have
    Floats,          \* floating PnL an equity reading may include
    InitialBalance,  \* account balance before the first trade
    MaxOwnerOpens,   \* positions the owner opens in the MT5 terminal
    OwnerMovesStops  \* whether the owner moves stops in the terminal

ASSUME BrokerAssumption ==
    /\ IsFiniteSet(Ids)
    /\ MaxStop \in Nat
    /\ Pnls \subseteq Int
    /\ Floats \subseteq Int
    /\ InitialBalance \in Int
    /\ MaxOwnerOpens \in Nat
    /\ OwnerMovesStops \in BOOLEAN

NoStop == -1                  \* a position with no stop-loss attached
Stops == NoStop .. MaxStop

VARIABLES
    pos,       \* every position the account ever had, or may still have
    balance,   \* account balance
    pending    \* orders whose caller gave up waiting, not executed so far

brokerVars == <<pos, balance, pending>>

\* "late" marks a bot position whose order executed after the bot's call
\* had already failed.  `given` is a history: the tightest stop the owner gave
\* up in the terminal by loosening or removing it.
Positions == [st : {"unused", "open", "closed"},
              by : {"nobody", "bot", "late", "owner"},
              stop : Stops,
              given : Stops,
              pnl : Int]

BrokerTypeOK ==
    /\ pos \in [Ids -> Positions]
    /\ balance \in Int
    /\ pending \in Nat

BrokerInit ==
    /\ pos = [i \in Ids |-> [st |-> "unused", by |-> "nobody", stop |-> NoStop, given |-> NoStop, pnl |-> 0]]
    /\ balance = InitialBalance
    /\ pending = 0

---------------------------------------------------------------------------
(* What the calls read.                                                    *)

IsOpen(i) == pos[i].st = "open"
OpenIds == {i \in Ids : IsOpen(i)}
OpenBy(who) == {i \in OpenIds : pos[i].by = who}

\* get_open_positions: an instantaneous copy, stale as soon as it is read.
Listing == {[id |-> i, stop |-> pos[i].stop] : i \in OpenIds}

Listings == SUBSET [id : Ids, stop : Stops]

\* get_account_summary: the balance plus what open positions are floating.
Equities == IF OpenIds = {} THEN {balance} ELSE {balance + f : f \in Floats}

---------------------------------------------------------------------------
(* What the calls, and the market, change.                                 *)

\* A market order that executed: the position is there, its stop attached.
OpenPosition(i, who, stop) ==
    /\ pos[i].st = "unused"
    /\ pos' = [pos EXCEPT ![i] = [st |-> "open", by |-> who, stop |-> stop, given |-> NoStop, pnl |-> 0]]
    /\ UNCHANGED balance

\* close_position, or a stop, a target or the owner closing it.
ClosePosition(i, pnl) ==
    /\ IsOpen(i)
    /\ pos' = [pos EXCEPT ![i] = [@ EXCEPT !.st = "closed", !.stop = NoStop, !.given = NoStop, !.pnl = pnl]]
    /\ balance' = balance + pnl
    /\ UNCHANGED pending

\* modify_stop_loss: sets the level it is given, whatever the level is now.
ModifyStopLoss(i, stop) ==
    /\ IsOpen(i)
    /\ pos' = [pos EXCEPT ![i].stop = stop]
    /\ UNCHANGED <<balance, pending>>

---------------------------------------------------------------------------
(* What happens at the broker on its own.                                  *)

\* A stop or target fires, or the owner closes in the terminal.
ClosedAtBroker == \E i \in Ids, p \in Pnls : ClosePosition(i, p)

\* The owner opens a position by hand, with or without a stop.
OwnerOpens ==
    \E i \in Ids, s \in {NoStop, 0} :
        /\ Cardinality({j \in Ids : pos[j].by = "owner"}) < MaxOwnerOpens
        /\ OpenPosition(i, "owner", s)
        /\ UNCHANGED pending

\* A stop is tightened, loosened or removed by hand.
MoveByHand(i, s) ==
    /\ IsOpen(i)
    /\ pos' = [pos EXCEPT ![i].stop = s,
                          ![i].given = IF pos[i].stop > s /\ pos[i].stop > @ THEN pos[i].stop ELSE @]
    /\ UNCHANGED <<balance, pending>>

OwnerMovesStop ==
    /\ OwnerMovesStops
    /\ \E i \in Ids, s \in Stops : MoveByHand(i, s)

\* An order executes after its caller stopped waiting for the answer.
LateFill ==
    \E i \in Ids :
        /\ pending > 0
        /\ pending' = pending - 1
        /\ OpenPosition(i, "late", 0)

BrokerNext == ClosedAtBroker \/ OwnerOpens \/ OwnerMovesStop \/ LateFill
=============================================================================
