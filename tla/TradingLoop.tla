---------------------------- MODULE TradingLoop ----------------------------
(***************************************************************************)
(* engine/trading_loop.py with the code one tick of it runs: state.py's    *)
(* reconcile, position_manager.py, executor.py and the crud and broker     *)
(* calls they make.  An action is the code between two awaits at which     *)
(* another task could change what the tick has read or is about to write;  *)
(* adjacent awaits between which nothing the tick uses can change are one  *)
(* action.  Which position the strategy closes or whose stop it moves, and *)
(* whether there is a signal, is left open: the strategy is not part of    *)
(* this module.                                                            *)
(***************************************************************************)
EXTENDS Database, Flip

CONSTANTS
    MaxFaults,              \* broker or database calls that fail
    MaxCrashes,             \* times the process dies or is redeployed
    LateOrders,             \* whether an order may execute after its call failed
    EnvConfirmed            \* values BROKER_LIVE_ACCOUNT_CONFIRMED may have at a start

ASSUME TradingLoopAssumption ==
    /\ MaxFaults \in Nat
    /\ MaxCrashes \in Nat
    /\ LateOrders \in BOOLEAN
    /\ EnvConfirmed \subseteq BOOLEAN

VARIABLES
    pc,         \* where the loop is; the await it is suspended at
    booting,    \* start() is running its reconcile, requests are not served
    confirmed,  \* the environment variable this process was started with
    cfg,        \* the tick's copy of bot_config, read once
    lost,       \* open rows whose position the broker no longer lists
    found,      \* broker positions in hand: listed, to adopt, to manage, opened
    sum,        \* reconcile's total_pnl
    snap,       \* the circuit breaker snapshot
    rowDay,     \* the day of the breaker row the tick will update
    count,      \* len(positions)
    outcomes,   \* what manage_open_positions did at the broker
    faults, crashes,
    credit,     \* history: positions whose PnL is in sum or snap, not persisted
    booked      \* history: positions whose PnL each day's breaker row includes

frame == <<cfg, lost, found, sum, snap, rowDay, count, outcomes, credit>>
process == <<booting, confirmed>>
budget == <<faults, crashes>>
loopVars == <<pc, process, frame, budget, booked>>

Ticking == {"listing", "rows", "reconcile", "account", "insert", "renew", "reinsert", "fetch",
            "manage", "outcomes", "flip", "ending", "entry", "record", "persist"}
Outcomes == [id : Ids, stop : Stops, kind : {"move", "close"}, applied : BOOLEAN]

LoopTypeOK ==
    /\ pc \in Ticking \cup {"down", "failed", "idle"}
    /\ booting \in BOOLEAN
    /\ confirmed \in BOOLEAN
    /\ cfg \in Configs
    /\ lost \in SUBSET Refs
    /\ found \in Listings
    /\ sum \in Int
    /\ snap \in [day : Days, start : Int, pnl : Int, halted : BOOLEAN]
    /\ rowDay \in Days
    /\ count \in Nat
    /\ outcomes \in SUBSET Outcomes
    /\ faults \in 0 .. MaxFaults
    /\ crashes \in 0 .. MaxCrashes
    /\ credit \in SUBSET Ids
    /\ booked \in [Days -> SUBSET Ids]

NoConfig == [paused |-> FALSE, mode |-> "practice", flip |-> FALSE,
             bounds |-> [floor |-> 1, target |-> 2], max |-> 1, pct |-> 1]

\* Before the process runs; the local variables hold nothing.
LoopInit ==
    /\ pc = "down"
    /\ booting = FALSE
    /\ confirmed = FALSE
    /\ cfg = NoConfig
    /\ lost = {}
    /\ found = {}
    /\ sum = 0
    /\ snap = StartNewDay(1, 0)
    /\ rowDay = 1
    /\ count = 0
    /\ outcomes = {}
    /\ faults = 0
    /\ crashes = 0
    /\ credit = {}
    /\ booked = [d \in Days |-> {}]

\* Local variables go out of scope with the tick.
Forget ==
    /\ cfg' = NoConfig
    /\ lost' = {}
    /\ found' = {}
    /\ sum' = 0
    /\ snap' = StartNewDay(1, 0)
    /\ rowDay' = 1
    /\ count' = 0
    /\ outcomes' = {}
    /\ credit' = {}

\* The exception that ends a tick, or start(): nothing of the frame survives.
\* _run logs it and goes on; a start() that raised leaves no loop behind.
Raise ==
    /\ pc' = IF booting THEN "failed" ELSE "idle"
    /\ booting' = FALSE
    /\ Forget
    /\ UNCHANGED <<confirmed, crashes, booked>>

Fault ==
    /\ faults < MaxFaults
    /\ faults' = faults + 1

GoTo(next) ==
    /\ pc' = next
    /\ UNCHANGED <<process, budget, booked>>

\* Any call of the tick raises before it has an effect, or the tick returns
\* early because too few candles came back.
TickFails ==
    /\ pc \in Ticking
    /\ Fault
    /\ Raise
    /\ UNCHANGED <<brokerVars, tables>>

---------------------------------------------------------------------------
(* The process.                                                            *)

Restart ==
    /\ pc = "down"
    /\ pc' = "listing"
    /\ booting' = TRUE
    /\ confirmed' \in EnvConfirmed
    /\ UNCHANGED <<brokerVars, tables, frame, budget, booked>>

Crash ==
    /\ pc # "down"
    /\ crashes < MaxCrashes
    /\ crashes' = crashes + 1
    /\ pc' = "down"
    /\ booting' = FALSE
    /\ Forget
    /\ UNCHANGED <<brokerVars, tables, confirmed, faults, booked>>

\* A paused tick returns at once: nothing is reconciled, managed or recorded.
TickPaused ==
    /\ pc = "idle"
    /\ config.paused
    /\ UNCHANGED <<brokerVars, tables, loopVars>>

\* Mutant: reconcile runs at startup only.
TickStart_NoReconcile ==
    /\ pc = "idle"
    /\ ~config.paused
    /\ cfg' = config
    /\ GoTo("account")
    /\ UNCHANGED <<brokerVars, tables, lost, found, sum, snap, rowDay, count, outcomes, credit>>

\* Mutant: a halted day stops the whole tick, not only entries.
TickStart_NotOnHaltedDays ==
    /\ pc = "idle"
    /\ ~config.paused
    /\ ~breaker[localDay].halted
    /\ cfg' = config
    /\ GoTo("listing")
    /\ UNCHANGED <<brokerVars, tables, lost, found, sum, snap, rowDay, count, outcomes, credit>>

\* A tick begins with its own copy of the configuration.
TickStart ==
    /\ pc = "idle"
    /\ ~config.paused
    /\ cfg' = config
    /\ GoTo("listing")
    /\ UNCHANGED <<brokerVars, tables, lost, found, sum, snap, rowDay, count, outcomes, credit>>

---------------------------------------------------------------------------
(* state.reconcile                                                         *)

ReconcileList ==
    /\ pc = "listing"
    /\ found' = Listing
    /\ GoTo("rows")
    /\ UNCHANGED <<brokerVars, tables, cfg, lost, sum, snap, rowDay, count, outcomes, credit>>

\* One open row per broker id (a dict), the last one if there were more.
LastOpenRow(i) == CHOOSE k \in OpenRows(i) : \A j \in OpenRows(i) : j <= k

KnownIds == {i \in Ids : OpenRows(i) # {}}
ListedIds == {e.id : e \in found}

\* Mutant: the membership test is the wrong way round.
ToClose_Listed == {<<i, LastOpenRow(i)>> : i \in KnownIds \cap ListedIds}

\* Open rows whose position the listing lacks.
ToClose == {<<i, LastOpenRow(i)>> : i \in KnownIds \ ListedIds}

\* Mutant: every listed position is adopted, known or not.
ToAdopt_All == {e \in found : e.stop # NoStop}

\* Mutant: untracked positions are only reported.
ToAdopt_None == {}

\* Listed positions without an open row; those without a stop are only reported.
ToAdopt == {e \in found : e.id \notin KnownIds /\ e.stop # NoStop}

ReconcileRows ==
    /\ pc = "rows"
    /\ lost' = ToClose
    /\ found' = ToAdopt
    /\ GoTo("reconcile")
    /\ UNCHANGED <<brokerVars, tables, cfg, sum, snap, rowDay, count, outcomes, credit>>

\* Mutant: the PnL is summed but the row is not updated.
ReconcileClose_NoUpdate(r) ==
    /\ pc = "reconcile"
    /\ r \in lost
    /\ pos[r[1]].st = "closed"
    /\ lost' = lost \ {r}
    /\ sum' = sum + pos[r[1]].pnl
    /\ credit' = credit \cup {r[1]}
    /\ GoTo("reconcile")
    /\ UNCHANGED <<brokerVars, tables, cfg, found, snap, rowDay, count, outcomes>>

\* get_trade found the closing deal: the row is closed, its PnL summed.
ReconcileClose(r) ==
    /\ pc = "reconcile"
    /\ r \in lost
    /\ pos[r[1]].st = "closed"
    /\ CloseTrade(r)
    /\ lost' = lost \ {r}
    /\ sum' = sum + pos[r[1]].pnl
    /\ credit' = credit \cup {r[1]}
    /\ GoTo("reconcile")
    /\ UNCHANGED <<brokerVars, config, breaker, cfg, found, snap, rowDay, count, outcomes>>

\* get_trade raised: the row is closed without a PnL.
ReconcileLookupFails(r) ==
    /\ pc = "reconcile"
    /\ r \in lost
    /\ Fault
    /\ CloseTrade(r)
    /\ lost' = lost \ {r}
    /\ UNCHANGED <<brokerVars, config, breaker, pc, process, crashes, booked,
                   cfg, found, sum, snap, rowDay, count, outcomes, credit>>

\* get_trade has no closing deal yet (always so while the position is open):
\* the row is committed closed, then formatting a close price of None raises.
ReconcileHistoryLags(r) ==
    /\ pc = "reconcile"
    /\ r \in lost
    /\ IF IsOpen(r[1]) THEN UNCHANGED faults ELSE Fault
    /\ CloseTrade(r)
    /\ Raise
    /\ UNCHANGED <<brokerVars, config, breaker>>

ReconcileAdopt(e) ==
    /\ pc = "reconcile"
    /\ lost = {}
    /\ e \in found
    /\ CreateTrade(e.id, e.stop)
    /\ found' = found \ {e}
    /\ GoTo("reconcile")
    /\ UNCHANGED <<brokerVars, config, breaker, cfg, lost, sum, snap, rowDay, count, outcomes, credit>>

\* Within a tick the sum goes on to the breaker; start() discards it.
ReconcileDone ==
    /\ pc = "reconcile"
    /\ lost = {} /\ found = {}
    /\ booting' = FALSE
    /\ IF booting
         THEN /\ pc' = "idle"
              /\ Forget
         ELSE /\ pc' = "account"
              /\ UNCHANGED frame
    /\ UNCHANGED <<brokerVars, tables, confirmed, budget, booked>>

---------------------------------------------------------------------------
(* The circuit breaker row, and the PnL reconcile found.                   *)

\* A snapshot with reconcile's total recorded in it.
Loaded(snapshot) == IF sum = 0 THEN snapshot ELSE RecordPnl(snapshot, sum, cfg.pct)

\* `now` and date.today() are taken with no await between them.  Until a row of
\* the day of `now` is loaded, snap holds `now` and the equity.
BreakerSelect ==
    /\ pc = "account"
    /\ rowDay' = localDay
    /\ \E equity \in Equities :
         LET today == StartNewDay(utcDay, equity)
         IN  \/ /\ ~HasBreakerRow(localDay)
                /\ snap' = today
                /\ GoTo("insert")
             \/ /\ HasBreakerRow(localDay)
                /\ IsNewTradingDay(SnapshotOf(localDay), utcDay)
                /\ snap' = today
                /\ GoTo("renew")
             \/ /\ HasBreakerRow(localDay)
                /\ ~IsNewTradingDay(SnapshotOf(localDay), utcDay)
                /\ snap' = Loaded(SnapshotOf(localDay))
                /\ GoTo("fetch")
    /\ UNCHANGED <<brokerVars, tables, cfg, lost, found, sum, count, outcomes, credit>>

BreakerInsert ==
    /\ pc = "insert"
    /\ InsertBreakerRow(rowDay, snap.start)
    /\ LET made == StartNewDay(rowDay, snap.start)
       IN  IF IsNewTradingDay(made, snap.day)
             THEN snap' = snap /\ GoTo("renew")
             ELSE snap' = Loaded(made) /\ GoTo("fetch")
    /\ UNCHANGED <<brokerVars, rows, config, cfg, lost, found, sum, rowDay, count, outcomes, credit>>

\* The row was not of the day of `now`: the row of the local date is looked up
\* again, and a fresh snapshot kept whichever row that is.
BreakerReselect ==
    /\ pc = "renew"
    /\ rowDay' = localDay
    /\ IF HasBreakerRow(localDay)
         THEN snap' = Loaded(snap) /\ GoTo("fetch")
         ELSE snap' = snap /\ GoTo("reinsert")
    /\ UNCHANGED <<brokerVars, tables, cfg, lost, found, sum, count, outcomes, credit>>

BreakerReinsert ==
    /\ pc = "reinsert"
    /\ InsertBreakerRow(rowDay, snap.start)
    /\ snap' = Loaded(snap)
    /\ GoTo("fetch")
    /\ UNCHANGED <<brokerVars, rows, config, cfg, lost, found, sum, rowDay, count, outcomes, credit>>

\* Another task inserted the row first: the unique constraint raises.
BreakerInsertConflicts ==
    /\ pc \in {"insert", "reinsert"}
    /\ HasBreakerRow(rowDay)
    /\ Raise
    /\ UNCHANGED <<brokerVars, tables, faults>>

---------------------------------------------------------------------------
(* position_manager.manage_open_positions, and its outcomes in the tables. *)

\* Mutant: the count is not taken from the new listing.
FetchPositions_NoCount ==
    /\ pc = "fetch"
    /\ found' = Listing
    /\ GoTo("manage")
    /\ UNCHANGED <<brokerVars, tables, cfg, lost, sum, snap, rowDay, count, outcomes, credit>>

FetchPositions ==
    /\ pc = "fetch"
    /\ found' = Listing
    /\ count' = Cardinality(Listing)
    /\ GoTo("manage")
    /\ UNCHANGED <<brokerVars, tables, cfg, lost, sum, snap, rowDay, outcomes, credit>>

Managed(e, stop, kind) ==
    /\ found' = found \ {e}
    /\ outcomes' = outcomes \cup {[id |-> e.id, stop |-> stop, kind |-> kind, applied |-> FALSE]}
    /\ GoTo("manage")
    /\ UNCHANGED <<tables, cfg, lost, sum, snap, rowDay, count, credit>>

\* The strategy closes the position.
ManageClose(e, pnl) ==
    /\ pc = "manage"
    /\ e \in found
    /\ ClosePosition(e.id, pnl)
    /\ Managed(e, e.stop, "close")

\* Mutant: the stop is moved in the table only, not at the broker.
ManageMove_InTableOnly(e, stop) ==
    /\ pc = "manage"
    /\ e \in found
    /\ stop > e.stop
    /\ UNCHANGED brokerVars
    /\ Managed(e, stop, "move")

\* The strategy moves the stop; it compares with the stop it was listed with.
ManageMove(e, stop) ==
    /\ pc = "manage"
    /\ e \in found
    /\ stop > e.stop
    /\ ModifyStopLoss(e.id, stop)
    /\ Managed(e, stop, "move")

\* The position is closed, but its fill price cannot be told: close_position
\* raises, and no outcome so far reaches the tables.
ManageCloseUnconfirmed(e, pnl) ==
    /\ pc = "manage"
    /\ e \in found
    /\ Fault
    /\ ClosePosition(e.id, pnl)
    /\ Raise
    /\ UNCHANGED tables

\* The position is gone already: the broker refuses and the call raises.
ManageRefused(e) ==
    /\ pc = "manage"
    /\ e \in found
    /\ ~IsOpen(e.id)
    /\ Raise
    /\ UNCHANGED <<brokerVars, tables, faults>>

\* The strategy holds what is left.
ManageDone ==
    /\ pc = "manage"
    /\ found' = {}
    /\ GoTo("outcomes")
    /\ UNCHANGED <<brokerVars, tables, cfg, lost, sum, snap, rowDay, count, outcomes, credit>>

WriteOutcome(o) ==
    \/ /\ rows[o.id] = <<>>
       /\ UNCHANGED <<rows, snap, credit>>
    \/ /\ rows[o.id] # <<>> /\ o.kind = "move"
       /\ UpdateTradeStop(<<o.id, 1>>, o.stop)
       /\ UNCHANGED <<snap, credit>>
    \/ /\ rows[o.id] # <<>> /\ o.kind = "close"
       /\ CloseTrade(<<o.id, 1>>)
       /\ snap' = RecordPnl(snap, pos[o.id].pnl, cfg.pct)
       /\ credit' = credit \cup {o.id}

\* The outcome is written to the one row of its position, and a close is
\* recorded in the snapshot too.  No row has the id of a position without a
\* stop: nothing to write.  With several rows scalar_one_or_none would raise.
ApplyOutcome(o) ==
    /\ pc = "outcomes"
    /\ o \in outcomes /\ ~o.applied
    /\ UNCHANGED <<brokerVars, config, breaker>>
    /\ IF Len(rows[o.id]) > 1
         THEN /\ Raise
              /\ UNCHANGED <<rows, faults>>
         ELSE /\ outcomes' = (outcomes \ {o}) \cup {[o EXCEPT !.applied = TRUE]}
              /\ WriteOutcome(o)
              /\ GoTo("outcomes")
              /\ UNCHANGED <<cfg, lost, found, sum, rowDay, count>>

\* The positions are listed again if the strategy closed one.
OutcomesDone ==
    /\ pc = "outcomes"
    /\ \A o \in outcomes : o.applied
    /\ count' = IF \E o \in outcomes : o.kind = "close" THEN Cardinality(Listing) ELSE count
    /\ outcomes' = {}
    /\ GoTo("flip")
    /\ UNCHANGED <<brokerVars, tables, cfg, lost, found, sum, snap, rowDay, credit>>

---------------------------------------------------------------------------
(* Flip mode, the entry (executor.evaluate_and_maybe_trade), persistence.  *)

\* Only a tick that listed no position looks at the run's bounds.
JudgesFlip == cfg.flip /\ count = 0

FlipOver(equity) == CheckFlipStatus(equity, cfg.bounds.floor, cfg.bounds.target) # "active"

\* The equity that was read is past one of the bounds.
FlipJudged ==
    /\ pc = "flip"
    /\ JudgesFlip
    /\ \E equity \in Equities : FlipOver(equity)
    /\ GoTo("ending")
    /\ UNCHANGED <<brokerVars, tables, frame>>

\* Mutant: the run is ended but the same tick may still enter.
FlipEnds_StillEnters ==
    /\ pc = "ending"
    /\ config' = [config EXCEPT !.flip = FALSE, !.paused = TRUE]
    /\ GoTo("entry")
    /\ UNCHANGED <<brokerVars, rows, breaker, frame>>

\* The run is over: flip mode off, bot paused, and no entry in this tick.
FlipEnds ==
    /\ pc = "ending"
    /\ config' = [config EXCEPT !.flip = FALSE, !.paused = TRUE]
    /\ GoTo("persist")
    /\ UNCHANGED <<brokerVars, rows, breaker, frame>>

FlipGoesOn ==
    /\ pc = "flip"
    /\ JudgesFlip => \E equity \in Equities : ~FlipOver(equity)
    /\ GoTo("entry")
    /\ UNCHANGED <<brokerVars, tables, frame>>

\* Mutant: the halt is read from the table, before this tick's losses are in it.
MayEnter_TableHalt ==
    /\ cfg.mode = "live"
    /\ ~breaker[rowDay].halted
    /\ CanOpenNewPosition(count, cfg.max)

\* The mode, the breaker and the cap, each as this tick knows it.
MayEnter ==
    /\ cfg.mode = "live"
    /\ ~IsHalted(snap)
    /\ CanOpenNewPosition(count, cfg.max)

\* Something forbids an entry, or there is no signal, or the size is refused.
NoEntry ==
    /\ pc = "entry"
    /\ GoTo("persist")
    /\ UNCHANGED <<brokerVars, tables, frame>>

\* A market order with its stop attached.
PlaceOrder(i) ==
    /\ pc = "entry"
    /\ MayEnter
    /\ OpenPosition(i, "bot", 0)
    /\ found' = {[id |-> i, stop |-> 0]}
    /\ GoTo("record")
    /\ UNCHANGED <<pending, tables, cfg, lost, sum, snap, rowDay, count, outcomes, credit>>

\* The order executed but its answer, or the look at the new position, failed.
PlaceOrderLost(i) ==
    /\ pc = "entry"
    /\ MayEnter
    /\ Fault
    /\ OpenPosition(i, "bot", 0)
    /\ Raise
    /\ UNCHANGED <<pending, tables>>

\* The call failed with the order still on its way.
PlaceOrderLate ==
    /\ pc = "entry"
    /\ MayEnter
    /\ LateOrders
    /\ Fault
    /\ pending' = pending + 1
    /\ Raise
    /\ UNCHANGED <<pos, balance, tables>>

RecordTrade ==
    /\ pc = "record"
    /\ \E e \in found : CreateTrade(e.id, e.stop)
    /\ found' = {}
    /\ GoTo("persist")
    /\ UNCHANGED <<brokerVars, config, breaker, cfg, lost, sum, snap, rowDay, count, outcomes, credit>>

\* Only now do the PnL and the halt of this tick reach the table.
Persist ==
    /\ pc = "persist"
    /\ UpdateBreakerRow(rowDay, snap)
    /\ booked' = [booked EXCEPT ![rowDay] = @ \cup credit]
    /\ pc' = "idle"
    /\ Forget
    /\ UNCHANGED <<brokerVars, rows, config, process, budget>>

---------------------------------------------------------------------------

ReconcileStep ==
    \/ ReconcileList \/ ReconcileRows \/ ReconcileDone
    \/ \E r \in lost : ReconcileClose(r) \/ ReconcileLookupFails(r) \/ ReconcileHistoryLags(r)
    \/ \E e \in found : ReconcileAdopt(e)

BreakerStep ==
    BreakerSelect \/ BreakerInsert \/ BreakerReselect \/ BreakerReinsert \/ BreakerInsertConflicts

ManageStep ==
    \/ FetchPositions \/ ManageDone \/ OutcomesDone
    \/ \E e \in found :
         \/ ManageRefused(e)
         \/ \E p \in Pnls : ManageClose(e, p) \/ ManageCloseUnconfirmed(e, p)
         \/ \E s \in 0 .. MaxStop : ManageMove(e, s)
    \/ \E o \in outcomes : ApplyOutcome(o)

EntryStep ==
    \/ FlipJudged \/ FlipEnds \/ FlipGoesOn \/ NoEntry \/ PlaceOrderLate \/ RecordTrade \/ Persist
    \/ \E i \in Ids : PlaceOrder(i) \/ PlaceOrderLost(i)

\* What the running loop does of its own accord.
TickStep == TickStart \/ TickPaused \/ ReconcileStep \/ BreakerStep \/ ManageStep \/ EntryStep

=============================================================================
