------------------------------ MODULE Database ------------------------------
(***************************************************************************)
(* The three tables the running bot shares between its tasks (db/models.py)*)
(* and the operations of db/crud.py on them: `trades`, the single          *)
(* `bot_config` row and `circuit_breaker_state`.  Each crud call that      *)
(* writes commits at once, so every write is visible to every other task   *)
(* from that moment on.  The two clocks are here because crud picks the    *)
(* breaker row by the process's local date.                                *)
(***************************************************************************)
EXTENDS Broker, Sequences, CircuitBreaker

CONSTANTS
    MaxDay,        \* number of calendar days a behaviour may span
    ClockSkew,     \* whether the container's local date may differ from UTC
    InitConfigs,   \* bot_config rows a behaviour may begin with
    RiskConfigs,   \* [max, pct] pairs the operator may save
    FlipBounds     \* [floor, target] pairs of a flip run the operator may save

ASSUME DatabaseAssumption ==
    /\ MaxDay \in Nat \ {0}
    /\ ClockSkew \in BOOLEAN
    /\ RiskConfigs \subseteq [max : Nat \ {0}, pct : 1 .. 20]
    /\ FlipBounds \subseteq [floor : Nat \ {0}, target : Nat \ {0}]
    /\ \A b \in FlipBounds : b.floor < b.target
    /\ InitConfigs \subseteq [paused : BOOLEAN, mode : {"practice", "live"},
                              flip : BOOLEAN, bounds : FlipBounds, max : Nat \ {0}, pct : 1 .. 20]

Days == 1 .. MaxDay

VARIABLES
    rows,      \* trades: per broker trade id, its rows in insertion order
    config,    \* bot_config
    breaker,   \* circuit_breaker_state: per trading day, its row
    utcDay,    \* datetime.now(timezone.utc).date()
    localDay   \* date.today()

tables == <<rows, config, breaker>>
clocks == <<utcDay, localDay>>

Configs == [paused : BOOLEAN, mode : {"practice", "live"}, flip : BOOLEAN,
            bounds : [floor : Nat \ {0}, target : Nat \ {0}], max : Nat \ {0}, pct : 1 .. 20]
Rows == [status : {"open", "closed"}, stop : Stops]
BreakerRows == [made : BOOLEAN, start : Int, pnl : Int, halted : BOOLEAN]
Refs == Ids \X (Nat \ {0})     \* a row: a broker trade id and which of its rows

DatabaseTypeOK ==
    /\ rows \in [Ids -> Seq(Rows)]
    /\ config \in Configs
    /\ breaker \in [Days -> BreakerRows]
    /\ utcDay \in Days
    /\ localDay \in Days

NoBreakerRow == [made |-> FALSE, start |-> 0, pnl |-> 0, halted |-> FALSE]

DatabaseInit ==
    /\ rows = [i \in Ids |-> <<>>]
    /\ config \in InitConfigs
    /\ breaker = [d \in Days |-> NoBreakerRow]
    /\ utcDay = 1
    /\ localDay = 1

---------------------------------------------------------------------------
(* trades                                                                  *)

\* get_open_trades
OpenRows(i) == {k \in DOMAIN rows[i] : rows[i][k].status = "open"}
OpenTrades == {r \in UNION {{i} \X DOMAIN rows[i] : i \in Ids} : r[2] \in OpenRows(r[1])}

\* Mutant: the row is created with another status and never found again.
CreateTrade_Pending(i, stop) ==
    rows' = [rows EXCEPT ![i] = Append(@, [status |-> "pending", stop |-> stop])]

\* create_trade: broker_trade_id carries no unique constraint.
CreateTrade(i, stop) ==
    rows' = [rows EXCEPT ![i] = Append(@, [status |-> "open", stop |-> stop])]

\* update_trade with status closed: overwrites, whatever the row says now.
CloseTrade(r) == rows' = [rows EXCEPT ![r[1]][r[2]].status = "closed"]

\* update_trade with a new stop.
UpdateTradeStop(r, stop) == rows' = [rows EXCEPT ![r[1]][r[2]].stop = stop]

---------------------------------------------------------------------------
(* circuit_breaker_state                                                   *)

\* The select of get_or_create_todays_circuit_breaker.
HasBreakerRow(d) == breaker[d].made

\* Its insert; trading_day is unique, so it fails once the row is there.
InsertBreakerRow(d, equity) ==
    /\ ~HasBreakerRow(d)
    /\ breaker' = [breaker EXCEPT ![d] = [made |-> TRUE, start |-> equity, pnl |-> 0, halted |-> FALSE]]

\* The snapshot the loop builds from a row.
SnapshotOf(d) == [day |-> d, start |-> breaker[d].start,
                  pnl |-> breaker[d].pnl, halted |-> breaker[d].halted]

\* Mutant: the snapshot's total is added to the row's instead of replacing it.
UpdateBreakerRow_Adds(d, snapshot) ==
    breaker' = [breaker EXCEPT ![d].pnl = @ + snapshot.pnl, ![d].halted = snapshot.halted]

\* update_circuit_breaker
UpdateBreakerRow(d, snapshot) ==
    breaker' = [breaker EXCEPT ![d].pnl = snapshot.pnl, ![d].halted = snapshot.halted]

---------------------------------------------------------------------------
(* Midnight: for both clocks at once, or, under ClockSkew, for either.     *)

Midnight ==
    \/ /\ ~ClockSkew
       /\ utcDay < MaxDay
       /\ utcDay' = utcDay + 1
       /\ localDay' = localDay + 1
    \/ /\ ClockSkew
       /\ utcDay < MaxDay
       /\ utcDay <= localDay
       /\ utcDay' = utcDay + 1
       /\ UNCHANGED localDay
    \/ /\ ClockSkew
       /\ localDay < MaxDay
       /\ localDay <= utcDay
       /\ localDay' = localDay + 1
       /\ UNCHANGED utcDay
=============================================================================
