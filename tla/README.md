# The XAU/USD trading bot in TLA+

A verification project for the trading bot in `src/app`: one asyncio process
that trades gold through a MetaApi-bridged MT5 account. The modules here model
the bot's live loop with everything that runs beside it, its pure risk rules,
its strategy's decisions, and its backtester with the life of a backtest run.
TLC checks them on small instances, and TLAPS proves all the
properties of the passing runs but the three liveness ones, the refinement of an
abstract specification among them, for every value of the constants.

Contents: [the system](#the-system) · [what is hard about it](#what-is-hard-about-it)
· [modules](#modules) · [how the model corresponds to the code](#how-the-model-corresponds-to-the-code)
· [runs](#runs) · [findings](#findings) · [fairness](#fairness)
· [proofs](#proofs) · [not modelled](#what-is-not-modelled) · [plan](#plan)

## The system

One process, one event loop. Two kinds of task share a database session factory
and one broker client: the trading loop, which ticks every `poll_interval_seconds`
seconds, and the requests of the single operator (dashboard endpoints and
Telegram commands). Nothing is locked; tasks interleave at every `await`.
Outside the process there are the MT5 account, where stops and targets fire and
the owner may trade by hand, and the container platform, which may kill and
restart the process at any time.

| Component | State it keeps | Operations |
|---|---|---|
| Trading loop (`engine/trading_loop.py`) | nothing that outlives a tick | `start`, `_run`, `_tick` |
| Reconciliation (`engine/state.py`) | none | close rows whose position is gone, adopt unknown positions, return the PnL |
| Executor (`engine/executor.py`) | none | decide on an entry and order it |
| Position manager (`engine/position_manager.py`) | none | apply the strategy's closes and stop moves at the broker |
| Circuit breaker (`risk/circuit_breaker.py`) | a snapshot: day, starting equity, PnL, halted | new day, record PnL, is halted |
| Flip mode, cap (`risk/flip.py`, `risk/limits.py`) | none | is the run over; is there room for one more |
| Position sizing (`risk/position_sizing.py`) | none | lots for a risk |
| Tables (`db/models.py`, `db/crud.py`) | `trades`, `bot_config`, `circuit_breaker_state`, `equity_snapshots` | each writing call commits |
| Broker client (`broker/metaapi_client.py`) | connection | list, read, order, close, move a stop, look up closing deals |
| Kill switch (`api/kill_switch.py`) | none | pause, then close each open row at the broker and in the table |
| Control endpoints (`api/bot_state.py`, `live_gate.py`, `flip.py`, `risk_config.py`) | `bot_config` | pause, resume, mode, flip run, limits; a status poll |
| Telegram (`telegram_bot/handlers.py`) | none | `/close`, `/pause`, `/resume`, `/status`, `/balance` |
| Lifespan (`main.py`) | the task of the loop | start, stop |
| Strategy (`strategy/`) | parameters | signal; hold, close or move the stop |
| Backtester (`backtest/engine.py`, `simulator.py`) | positions, balance, closed trades, equity curve | replay bar by bar |
| Backtest metrics (`backtest/metrics.py`) | none | totals, win rate, profit factor, drawdown, Sharpe ratio |
| Backtest runs, candles (`api/backtest.py`, `backtest/data_loader.py`) | `backtest_runs`, `backtest_trades`, a task per run | insert a run and start its task; page back through history; store result and trades, or the failure |
| Dashboard, read-only endpoints, authentication, notifications, migrations | | |

How they interact. A tick reads `bot_config` once and works with that copy; it
calls reconcile (broker listing, then table rows, then one closing-deal lookup
and one commit per lost position), loads the day's breaker row into a snapshot,
lists positions and candles, manages the positions at the broker, writes the
outcomes to the tables, judges a flip run, lets the executor order an entry,
records its row, and only then persists the snapshot. The requests write the
same tables and call the same broker between any two of these steps.
`engine/executor.py`, `engine/position_manager.py` and the risk rules are shared
with the backtester, which gives them a simulated broker. A backtest run is a
task of its own: it borrows the broker client for candles, and the database for
its two tables, and shares nothing else with the bot but the process.

What makes the parts correct, in short: the trades table follows the broker and
never runs ahead of it but where the owner acts by hand; a loss is counted once, on one day, and a halted day
stays halted; no entry above the cap or past the loss limit; a flip run is
judged on the right equity and never abandons a position the bot knows of; whatever a failure
left half done is finished later; stops only tighten; sizes respect the risk
and the broker's limits; the backtester counts what the live bot would count, on the candles that
were asked for, and a run's outcome is stored whole or not at all, and once.

## What is hard about it

- Interleaving at awaits: the loop acts on a configuration, listing, count and
  snapshot read many awaits ago, while requests close the same positions and
  change the same settings.
- Partial failure: any call may raise in the middle of a tick, after some of its
  effects are at the broker or committed; `_run` logs and forgets.
- Crash and restart between any two awaits, startup reconcile included.
- Unreliable calls: an order may execute although its call failed, then or later.
- Time: midnight in the middle of a tick, and two notions of today (the row's
  local date and the UTC date of `now`).
- Numeric edges: rounding to the volume step, clamping, the overage refusal; the
  trailing stop against breakeven.
- Order within a bar of the replay: stops, management, breaker, entry, curve.
- Borders of history pages: a candle at the cursor, a page cut by the range's
  start, a page wholly before it.
- Two commits for one outcome, an except clause that writes as well, and a
  session that refuses every statement after a failed commit.

`PROJECT.json` lists each hazard at the line where it bites with the
properties that cover it.

## Modules

| Module | Models | Uses |
|---|---|---|
| `CircuitBreaker` | the breaker's rules on a snapshot | |
| `Flip` | the flip-run rule and the position cap | |
| `PositionSizing` | lot sizing in integers | |
| `Broker` | the MT5 account as the client sees it, and what happens there by itself | |
| `Database` | the three tables, the crud operations, the two clocks | Broker, CircuitBreaker |
| `TradingLoop` | the process, a tick with reconcile, manager, executor | Database, Flip |
| `Handlers` | the requests | Database |
| `TradingBot` | the composition, its properties and fairness | TradingLoop, Handlers |
| `TradeBook` | abstract: the life of one position | |
| `Strategy` | signals, closes and the stop ratchet | |
| `Backtest` | the replay | CircuitBreaker, Flip, PositionSizing, Strategy |
| `Metrics` | what a run tells of its trades and its curve | |
| `BacktestRun` | a run from its request to its end, its replay included | Backtest, Metrics |
| `MCTradingBot`, `MCPositionSizing`, `MCReplay`, `MCBacktest` | values for TLC | |
| `SumProofs` | proofs: what a sum over a finite set is | |
| `TradingBotTypes`, then `TradingBotRowProofs`, `TradingBotBookProofs`, `TradingBotEntryProofs` | proofs: each extends the one before | TradingBot, SumProofs |
| `PositionSizingProofs` | proofs | MCPositionSizing |
| `BacktestReplayProofs`, then `BacktestProofs` | proofs: the replay, the run | BacktestRun, SumProofs |

`TradingBot` is `Loop ∨ Dies ∨ Asks ∨ Serves ∨ Polls ∨ RequestFails ∨ Market ∨
DayEnds`. `TradeBook` is what the system promises of one position with no task,
listing or failure in sight: opened, shown, closed, settled, booked on one day,
with steps possibly missing at the end and never out of order. `TradingBot!Book`
instantiates it with a refinement mapping from the broker's state, the rows of
the table and the booked PnL.

## How the model corresponds to the code

**Steps.** An action of the loop or of a request is the code between two awaits
at which another task could change what it has read or is about to write. Awaits
between which nothing the task uses can change are one action: reconcile's deal
lookup with the commit after it (a closed position's deals do not change), a
close with its deal lookup, the account read with the breaker row's select. `pc` names the await the
tick is suspended at:

| `pc` | the tick is about to |
|---|---|
| `idle` | read `bot_config` (a paused tick returns: `TickPaused`, a stutter) |
| `listing`, `rows`, `reconcile` | list positions; read open rows; close and adopt row by row |
| `account`, `insert` | select the day's breaker row; insert it if it was missing |
| `renew`, `reinsert` | the row is not of the day of `now` (the two dates differ): select once more, by the local date it is then; insert |
| `fetch` | list positions and read candles |
| `manage`, `outcomes` | close and move at the broker; write what was done to the tables |
| `flip`, `ending` | read the equity a flip run is judged by; write its end |
| `entry`, `record` | order; write the new row |
| `persist` | write the snapshot to the breaker row |
| `down`, `failed` | the process is not running; its start raised |

**Local variables** of a tick are `frame`: `cfg` (the tick's copy of the
configuration), `lost` and `found` (rows and positions in hand), `sum`
(reconcile's total), `snap` and `rowDay`, `count`, `outcomes`. `Raise`, the end
of a tick by an exception, forgets them all, as does a crash. `credit` and
`booked` are history variables: whose PnL is in the frame and whose is in each
breaker row. So is `pos[i].given`: the tightest stop the owner has given up on
the position by loosening or removing it in the terminal.

**Failures.** `TickFails` covers an exception at any await, before the call had
an effect, and the early return on too few candles. Calls that fail after their
effect have actions of their own: `ReconcileLookupFails`, `ReconcileHistoryLags`
(the row is committed closed, then formatting a close price of `None` raises),
`ManageCloseUnconfirmed`, `PlaceOrderLost`, `PlaceOrderLate`. `ManageRefused`,
`KillRefused` and the conflicts on the breaker row's unique key need no fault:
they are what a race causes.

**Data.** A position is a stop level (higher is tighter, for either side) and,
once closed, a PnL. Money counts tenths of the first balance; a 20 % daily limit
is two units. The live strategy's decisions are left open, except that it asks
only for a stop tighter than the one it was shown (`NewStops` in `Strategy`). The
owner, where a run lets them, moves any open position's stop to any level or to
none. The bounds of a flip run are part of the configuration, and `UpdateFlipConfig`
saves them with the switch.
Broker ids are not reused. Alert texts, inferred close reasons, volumes and the
`equity_snapshots` row are left out of the live model.

**Simplifications of the environment.** One `/close` and one kill switch are in
progress at a time. Requests are served once startup is over. `is_running` is
never set to `False` by anything but shutdown, and a graceful stop is a crash
while the loop sleeps. Positions without a stop are adopted by nobody but are
still counted and managed, as in the code.

**Strategy and Backtest.** Prices are integers and ATR multiples are counted in
halves. The indicators of a bar are a `view`, the MACD histogram a short series;
both are left open, so what holds, holds whatever the candles are. The code
writes each rule twice, once per side; the model once, with a sign. A replayed
position always has a stop, because an entry always gives one. A new day's
equity is taken at the close of its first bar, before that bar's stops, as in
`engine.py:69-71`. `EntryRaises` is the exception of a zero-width stop or a zero
equity, which ends the replay. `curve` grows by the account's equity after each
bar's entry and not by the closes at the end of the data, as in the code.

**Backtest runs.** `task` is where `_execute_backtest` stands:

| `task` | the task is about to |
|---|---|
| `none` | not there: the request inserts its row and adds it |
| `get` | read its row, outside the `try` |
| `load` | fetch one more page of candles |
| `prepare` | make the frame and compute the indicators |
| `replay` | replay, bar by bar, then store the result |
| `trades` | store the trades |
| `except` | mark the run failed |
| `over`, `dead` | it has returned or raised; its process ended |

`walk` is what the loader works on: cursor, candles so far, and the broker's
history as a set of times. A page is the set of the newest `PageSize` times
before the cursor, and `candles` says how often each is in `all_candles`: that
list is sorted before anything reads it, so its order says nothing more. Whether the broker's page includes the candle at the
cursor is MetaApi's to say; `inclusive` lets either hold for the whole run. The
days of the replayed bars and their prices are left open, so that the candles'
times matter to the loader only; a candle loaded twice is two bars. `MIN_BARS_TO_START`
is `MinBars`, the page limit `PageSize`.

`row` and `stored` are the two tables as far as the run is concerned. Each commit
has three outcomes: it succeeds, it fails, it takes effect and its call fails.
SQLAlchemy leaves a session whose flush or commit failed waiting for a rollback;
nothing rolls it back, so `session` is `broken` and the except clause, which
uses the same session, raises in turn (`HandleRefused`). The refresh after a
commit may fail while the session stays usable (`StoreResultUnread`): then the
except clause does write. The figures of a result are kept as integers and pairs
of integers; an infinite profit factor becomes none when it is stored, as in
`api/backtest.py:108`.

## Runs

Every passing run explores its whole state space. `CHECK_DEADLOCK FALSE` stands
where the system may really stop: a loop whose start raised is `failed` until
the next redeploy, which a bounded number of crashes may not provide; an
enumeration of requests ends. `Backtest` checks
deadlock: a task that is neither over nor dead has a step.

| Run | Properties | Shows |
|---|---|---|
| `Rows` | `TypeOK`, `ClosedRowMeansClosedPosition`, `OneOpenRow`, `OutcomeHasOneRow`, `BookedIsFinal`, `EntryWithinCap`, `FlipEndStrandsNothingKnown` | the table against the broker, in flip mode and out of it, with `/close`, the kill switch, the owner's position, a fault, a late order and a crash in every order |
| `DailyLoss` | `NothingBookedTwice`, `HaltIsLatched`, `NoEntryPastLimit`, `ImplementsTradeBook` | the books of two days, with polls and `/close`, and the refinement of `TradeBook` |
| `Settings` | `RowStopNotAhead`, `EntryWithinCap`, `FlatFlipEntryInBounds` | the operator changing any setting, flip bounds included, while the owner tightens, loosens and removes stops |
| `Progress` | `ClosedPositionReconciled`, `BotPositionTracked`, `ManagesForever` | what must happen eventually, with differing local and UTC dates |
| `Sizing` | `Affordable`, `Bounded`, `Monotone` | every sizing request up to risk 40, unit risk 5, limits 4 |
| `Backtest` | replay: `BacktestTypeOK`, `BreakerSeesEveryClose`, `ExitFollowsEntry`, `LossIsBounded`, `StopOnlyTightens`, `EntryBeforeLimit`, `CurveLeadsToBalance`; run: `RunTypeOK`, `RangeLoaded`, `WalkRaisesAtBorder`, `RunSettles`, `OutcomeStays`, `ResultAddsUp`, `DrawdownIsDeepest` | a backtest from its request to its end, with failing calls and a process that dies anywhere |
| `PausedLoop`, `StartupLoss`, `ManualLoss`, `LiveGate`, `KillRace`, `FlipDrift` | one each | the findings below: TLC violates each |

**Bounds, and why they are enough.**

- *Ids* (two; three in `FlipDrift`): enough for a known and an unknown position at once, two closings
  in one tick, and an entry beside an open position. A third position repeats a
  role. Ids are symmetric except where a liveness property is checked.
- *Faults and crashes* (one each): each is placed at any await, and both may
  occur in one behaviour, so that recovery is itself hit once.
- *Requests* (two where they take several steps and close positions, `Rows`,
  so that a second one meets the unfinished effects of the first; one
  elsewhere). The kinds are split over the runs by what they write: rows (`Rows`),
  breaker rows (`DailyLoss`), `bot_config` (`Settings`). A change of `bot_config`
  is one step, and a tick reads it once: one change at any await separates what
  the tick read from what is stored, and a second would be read by the next tick
  like the first.
- *Days* (two where days matter): one midnight, which may fall inside any tick.
- *Stops* (`-1 .. 1`): none, the order's, one tighter. In `Settings` the owner
  may pass the level the loop is about to set, go back below it, or remove the
  stop, any number of times.
- *PnL*: a gain, a loss, or a loss beyond the limit, as the properties need.
- *Flip bounds*: nine and eleven of a balance of ten, so that any one close
  passes one; `Settings` also lets the operator save a wider pair.
- *Late orders and owner's positions* (`Rows`, one of each): they may open
  between any two awaits, the last listing of a flip run and its pause included.
  An order that executes after its call failed is marked `late`; it counts like
  any other once the bot has given it a row, and nothing in the code could count
  it before, since the order carries no idempotency key.
- *Backtest*, the replay: one to three bars with a momentum window of three suffice for two
  entries, a stop moved and moved again, both kinds of close on one bar, and a
  midnight between any two of them. Six bar shapes reach the stop, the target,
  both or neither; five views give an ATR that doubles, vanishes or is missing,
  and both trends.
- *Backtest*, the run: pages of three candles, five candles before the first
  replayed bar, times 0 to 7. The histories are all the sets of times with at
  most six candles from 1 on, which keeps a replay within three bars and gives
  walks of no page, one, two, three full pages, pages cut by the range's start
  and pages before it; of the three ranges one is refused. Two database calls
  may fail, so that the except clause can fail after the call that led to it.
  Runs share nothing, so one stands for all.

**What the deeper properties say.**

- `EntryWithinCap`: the entry is decided on a count several awaits old. The
  positions the bot knows of (`KnownOpen`) are the open ones that it opened
  itself, their answers lost or not, and all that have a row: the owner's and the
  late ones it has adopted. Fewer of these are open than the cap the tick read.
  What the owner or a late order opened since the listing is not in the count,
  and a cap lowered in mid-tick binds from the next tick on.
- `FlipEndStrandsNothingKnown`: ending a flip run pauses the bot, and a paused
  tick manages nothing. Whatever opened, closed or got lost since the listing
  that found the account flat, and whatever the operator saved, no known position
  is open when the pause is written. It is checked where the owner and late
  orders do open positions between listing and pause; those are the ones it does
  not speak of (see the known behaviours).
- `FlatFlipEntryInBounds`: a tick that found the account flat enters by the
  balance as it is when the order is placed, after the closes of this tick and
  orders whose answers were lost. It is claimed while the bot alone has opened
  positions: another's may float or close between listing and order.
- `NothingBookedTwice`: a breaker row's PnL is the sum over distinct closed
  positions, none of which is in another day's row, although a tick overwrites
  the row with its own total and failed ticks are retried.
- `OutcomeHasOneRow`: `get_trade_by_broker_id` uses `scalar_one_or_none`, which
  raises on two rows. Reconcile may indeed make a second row for an id (a stale
  listing adopts a position that `/close` just settled); the property says that
  by the time an outcome is written no managed position has two.
- `RowStopNotAhead`: the loop may overwrite a stop the owner tightened or removed,
  because it compares with the listing, and writes its row later or never. None
  of that takes a row ahead of the broker. What does is the owner loosening or
  removing a stop: reconcile skips the positions it knows (`state.py:91-93`), so
  the row goes on showing what was given up. The property allows exactly this: a
  row shows no more than the broker holds, or than the owner gave up (`given`).
- `RangeLoaded`: the walk's cursor, the filter and the three ways out of its loop
  together give exactly the range. At an inclusive border a candle comes twice,
  and the property says at which ones: every `PageSize - 1` candles.
- `WalkRaisesAtBorder` confines an `IndexError` of the loader to two cases: no
  candle in the range, or a range whose candles fill whole pages.
- `RunSettles` and `OutcomeStays` are about the two commits and the except
  clause. Without a failing database call a run ends complete with all its
  trades, or failed with nothing; with failing ones, what is failed or has its
  trades is never written again, which rests on the broken session.
- `ResultAddsUp` relates the two tables: the balance to the sum of the stored
  trades, and the profit factor to whether and by how much the account grew.
- `DrawdownIsDeepest` is the definition by all pairs of bars against the single
  pass of the code, for falls to an equity that is not negative (below zero the
  fall from a lower peak may be the greater share, and the pass sees the highest
  only); `CurveLeadsToBalance` says by how much the curve's end and
  the final balance differ.
- `LossIsBounded` joins sizing, the ratchet and the order of a bar's steps: no
  trade loses more than one and a half times its intended risk and the spread.
- `ImplementsTradeBook` forbids, in one formula, reopening, booking an open
  position, booking twice and settling before the close.

## Findings

Each is a disagreement between a statement of the repository and the code, met
while modelling; the run of the same name produces the shortest trace.

1. `PausedLoop`: `/pause` answers that existing positions are still managed
   (`telegram_bot/handlers.py:50`); a paused tick returns before reconcile and
   management (`trading_loop.py:89`).
2. `StartupLoss`: `start()` drops the PnL its reconcile returns
   (`trading_loop.py:64`), the very loss `engine/state.py:1-6` says reconcile
   exists to record.
3. `ManualLoss`: a loss realised by `/close` or the kill switch is in the trades
   table and in no breaker row (`handlers.py:99`); the loop enters again, though
   the README promises a halt once the limit is lost.
4. `LiveGate`: the environment's confirmation is tested when live mode is
   switched on (`live_gate.py:48`) and not at a later start; the mode survives a
   redeploy without it, against "two independent checks must both pass before
   the bot will place a live order".
5. `KillRace`: a tick past its pause test places its order after the kill switch
   listed the open rows (`trading_loop.py:189`); the switch reports success and a
   position is open with the bot paused.
6. `FlipDrift`: a flip run "ends ... no new entries ... once equity reaches a
   floor or a target" (`risk/flip.py:5-6`), but only a tick that lists no position
   tests its bounds (`trading_loop.py:165`), and the tests cover one position at a
   time (`test_flip_loop.py:143`). With room for two, one is stopped out at the
   floor, the other is open, and the next tick enters again, although the
   operator was told that entries stop there (`api/flip.py:72-73`).

Known behaviours without a run of their own: a status poll and a tick may both
insert the midnight row, and the loser's tick raises after reconcile committed
its closings, so that their PnL reaches no breaker (`crud.py:99`); with a local
date other than UTC a tick may overwrite a halted row with a fresh snapshot
(`trading_loop.py:106`), so `HaltIsLatched` is claimed for equal dates only;
a stop the owner tightened may be loosened by a tick that listed the old one; a
stop the owner loosened or removed stays in the position's row until the loop
moves it (`state.py:91-93`); a position that the owner or a late order opens
between a flip run's last listing and its end stays open under a paused bot that
manages nothing, although a comment says that "pausing can't strand an open
position" (`trading_loop.py:166-168`), and one opened between listing and order is
not counted against the cap; after a kill switch that its specification lookup
cut short a position closed at the broker keeps its open row until the operator
resumes (`kill_switch.py:35`).

Known behaviours of backtest runs, each in the states of `Backtest`: if the broker's
pages include the cursor's candle, border candles are replayed as two bars; an
exclusive range that is an exact multiple of a page fails with an `IndexError`
where older candles exist, and so does a range without candles, a weekend, where
there are older ones (`data_loader.py:29`); a run stays `running` for ever after
the process died, after its first read failed, and after the commit of its result
failed, since the except clause cannot use the session; a failed commit of the
trades leaves a complete run without them; a failed refresh turns a complete run,
with its figures, into a failed one (`api/backtest.py:101-130`). A poll that
sees `complete` before the trades' commit stops polling and shows none. The
simulator fills a stop at the stop even if the whole bar lies beyond it
(`simulator.py:107`). The
closing spread of the last positions is in the balance but not in the curve.
An infinite profit factor is stored as NULL, like that of a run without trades,
and the dashboard shows both as ∞.

## Fairness

`FairSpec` is `Spec` with weak fairness of three things: `TickStep` (the event
loop runs a ready task, and `_run` sleeps a bounded time between ticks),
`Restart` (the platform restarts a dead container), and `Serves` (a request in
progress is carried on). Nothing obliges the market, the operator, the clock, a
fault or a crash. Crashes and faults are bounded by constants, which stands for
"failures stop eventually": if every tick fails, nothing can be promised. The
liveness properties except, by name, a paused bot and a process whose start
raised (`Inactive`), since such a process does nothing by design.

## Proofs

| Theorem | Module | Statement |
|---|---|---|
| `TypeCorrect` | `TradingBotTypes` | `Spec => []TypeOK` |
| `EntriesStayWithinCap` | `TradingBotEntryProofs` | `Spec => EntryWithinCap` |
| `ClosedRowsAreRight` | `TradingBotRowProofs` | `Spec => []ClosedRowMeansClosedPosition` |
| `NoSecondOpenRow` | `TradingBotRowProofs` | `Spec => []OneOpenRow` |
| `OutcomesFindTheirRow` | `TradingBotRowProofs` | `Spec => []OutcomeHasOneRow` |
| `BookedStaysClosed` | `TradingBotRowProofs` | `Spec => []BookedIsFinal` |
| `RowsAheadOnlyByOwner` | `TradingBotRowProofs` | `Spec => []RowStopNotAhead` |
| `BotImplementsTradeBook` | `TradingBotBookProofs` | `Spec => ImplementsTradeBook` |
| `HaltStays` | `TradingBotEntryProofs` | `~ClockSkew` implies `Spec => HaltIsLatched` |
| `BooksAreExact` | `TradingBotEntryProofs` | `~ClockSkew` implies `Spec => []NothingBookedTwice` |
| `EntriesEndAtLimit` | `TradingBotEntryProofs` | `~ClockSkew`, `OnePercentage` imply `Spec => NoEntryPastLimit` |
| `FlipEntriesInBounds` | `TradingBotEntryProofs` | `Spec => FlatFlipEntryInBounds` |
| `FlipEndsStrandNothingKnown` | `TradingBotEntryProofs` | `Spec => FlipEndStrandsNothingKnown` |
| `AffordableIsGivenASize` | `PositionSizingProofs` | `Spec => []Affordable` |
| `SizesAreBounded` | `PositionSizingProofs` | `Spec => []Bounded` |
| `SizesGrowWithRisk` | `PositionSizingProofs` | `Spec => Monotone` |
| `BacktestTypes` | `BacktestReplayProofs` | `Spec => []BacktestTypeOK` |
| `BreakerIsTold` | `BacktestReplayProofs` | `Spec => []BreakerSeesEveryClose` |
| `ExitsFollowEntries` | `BacktestReplayProofs` | `Spec => []ExitFollowsEntry` |
| `LossesAreBounded` | `BacktestReplayProofs` | `Spec => []LossIsBounded` |
| `CurveEndsAtBalance` | `BacktestReplayProofs` | `Spec => []CurveLeadsToBalance` |
| `EntriesBeforeLimit` | `BacktestReplayProofs` | `Spec => EntryBeforeLimit` |
| `StopsNeverLoosen` | `BacktestReplayProofs` | `Spec => StopOnlyTightens` |
| `RunsSettle` | `BacktestProofs` | `Spec => []RunSettles` |
| `OutcomesStay` | `BacktestProofs` | `Spec => OutcomeStays` |
| `ResultsAddUp` | `BacktestProofs` | `Spec => []ResultAddsUp` |
| `DrawdownsAreDeepest` | `BacktestProofs` | `Spec => []DrawdownIsDeepest` |
| `RangesAreLoaded` | `BacktestProofs` | `Spec => []RangeLoaded` |
| `WalksRaiseAtBorder` | `BacktestProofs` | `Spec => WalkRaisesAtBorder` |
| `RunTypes` | `BacktestProofs` | `Spec => []RunTypeOK` |

Those about the bot hold for any finite set of positions and any number of
requests, faults, crashes and days; those about sizing for every input; those
about a backtest for any history, page size, number of bars, candles, indicators
and strategy parameters. The assumptions are those of the modules that declare
the constants (`BrokerAssumption`, `DatabaseAssumption`, `TradingLoopAssumption`,
`HandlersAssumption`, `SizingAssumption`, `StrategyAssumption`,
`BacktestAssumption`, `RunAssumption`), which the runs evaluate. Two hypotheses
are a theorem's own, and each names a case in which the code does not keep the
property:

- `~ClockSkew`: the process's date is UTC's. Otherwise a tick finds the row of
  one day, starts the snapshot of another, and overwrites the first with the
  second (`trading_loop.py:98-106`).
- `OnePercentage`: all of `InitConfigs` and `RiskConfigs` have the same
  `max_daily_loss_pct`. A halt is decided where a close is recorded
  (`circuit_breaker.py:34`); a lower percentage saved when the day's losses are
  already beyond it halts nothing until the next close.

- *Types.* `TypeOK` alone is not inductive: midnight advances the local date
  under a guard on the UTC date. `TypeInv` adds `ClocksAgree`. The proof goes
  component by component, with lemmas for `GoTo`, `Forget` and `Raise`, in which
  nearly every action of the loop ends. The module's last part, `PosStep`, says
  which steps open, close or move a position, once for all later proofs.
- *The cap.* The count is stale. `CapInv` says that from the listing to the
  entry the known open positions are at most `count`: only the loop's own order
  adds one the bot opened (`OnlyOrdersAddBots`), no position gets its first row
  while the count is in use (`CountingMakesNoRow`, since every request only
  closes rows), and everything else closes some. With
  `CanOpenNewPosition(count, cfg.max)` the cap follows. Finiteness of `Ids` is
  needed for cardinalities to be monotone.
- *The halt.* It lives in the row and in the snapshot, and the end of a tick
  overwrites the first with the second. `HaltInv` says the snapshot in hand is
  never behind the row it will overwrite; no other task writes a row that exists.
  With equal dates the row a tick selects or inserts is of the day of `now`, so
  that the second look-up (`renew`, `reinsert`) is never reached; `HaltInv` says
  this as well.
- *Closed rows.* Each task that closes a row acts on knowledge several awaits
  old. `ClosedInv` follows that knowledge (`lost`, `kill.committing`, `closing`,
  `outcomes`, and at `rows` the listing itself) from where it is acquired to
  where it is used. It is preserved since a closed position never reopens and
  every row is made for a position that existed (`LifeGoesOn`).
- *One open row, one row per outcome, final books.* `BookInv` extends
  `ClosedInv`. Only two steps make a row, an adoption and the record of an entry,
  and both belong to the one tick; every request only closes rows
  (`OnlyCloses`). So what the tick knows survives: at `reconcile` no position to
  be adopted has an open row; at `manage` each listed position has at most one
  row in all; what is counted (in a breaker row or in the tick's total) is
  settled. The three properties are weaker than this conjunction and none of them
  is inductive without it.
- *Stops in the table.* The loop may loosen a stop at the broker below what the
  owner set, but never below the level it listed. `StopInv` therefore carries
  three levels in order, from row to listing to broker, and the same for every
  outcome still to be written. Each comparison has "or the owner gave it up" as
  an alternative (`GivenUp`, `MayShow`), which no step takes back: `given`
  only grows while a position is open, and a closed one has no stop to be
  compared with (`StopsHold`, `ShownStopsHold` for the steps that leave one side
  alone).
- *Sums.* `SumFunction` is a fold by a recursion that takes out one chosen
  element after another. `SumProofs` shows that this recursion has one solution
  (`SumExists`, `SumIsUnique`), that the order does not matter (`SumTakesOut`),
  and from there what a sum gains with an element, how it splits, and what
  bounds it. There is no induction rule to cite for a set; each fact is proved
  from a smallest subset for which it fails (`SmallestSubset`), which exists
  because proper inclusion is well founded on the subsets of a finite set.
- *The books.* `OnceInv`: no position whose PnL the tick is about to add is in a
  breaker row or in its total, and none is in hand twice. `ApartInv`: no
  position is in the books of two days. `SumInv`: a breaker row is the sum over
  the positions booked on its day, reconcile's total the sum over those it
  found, and from where the row is loaded on the snapshot the sum over both.
  None is inductive alone: a row that is overwritten at the end of a tick is
  right only because the snapshot was right, which was loaded from the row when
  nothing of `credit` was in it.
- *The limit.* `LimitInv`: a row, or a snapshot in hand, whose losses have
  reached the limit is halted.
- *The flip run.* `CapInv` makes a count of none mean that no known position is
  open (`NoneKnown`), from the listing to the end of the run. Where the bot alone
  has opened positions the account is flat then, and `FlatInv` says that at the
  entry the balance is still the one the bounds were held against.
- *The refinement.* Every step of the bot is given its shape first (`PosStep`:
  what it does to positions; `StepShape`: to positions, rows and books), and each
  shape is a step of `TradeBook` or a stutter, by `ClosedInv` (a row is closed
  after its position), `BookInv` and `ApartInv` (booked after it is settled, and
  on one day).
- *Sizing.* `RoundHalfEven` is monotone, and exact to half a divisor, hence to
  half of what it rounds once that is a divisor or more (`RoundHalfEvenClose`):
  that is where the overage multiple of 1.5 meets rounding. Products and
  quotients are named before they are compared, so that each leaf is linear.
- *A run.* `RunInv` says what the row may hold at each place the task can be;
  the key clause is that an except clause reached with stored trades has a
  broken session, and without a failed call an untouched row.
- *A replay.* `ReplayInv` is a conjunction of named parts. `PositionsInv`: ids
  given out are no larger than the number of positions, open and closed, so that
  an entry's id is new and "the same position before and after a step" means
  something. `StageInv`: while stops are processed or positions managed, all of
  them are older than the bar. `BreakerInv`: the snapshot's PnL is the sum over
  the day's trades, and it is halted once they reach the limit. `BalanceInv` and
  `CurveInv`: the balance is the capital and the trades' PnL, the curve's last
  value the balance and what is open, less the spreads of the closes at the end.
  `RiskInv`: at its stop and its targets a position has lost no more than its
  share of the risk it was sized by, which `TighterRisksLess` keeps true as the
  stop moves. Every step of the replay has one of six shapes (`ReplaySteps`), and
  each shape keeps each part.
- *A result.* `AddInv` follows the result from where it is made, of the trades
  the replay closed (`ResultAdds`), to where the trades are stored or not.
- *The drawdown.* `MaxDrawdown` is a fold over the curve. `DrawdownIsFold` and
  `FoldExists` unfold it as the sums are unfolded; `Seen` says what the fold
  knows after k values, the peak and the worst of all pairs so far, and
  `SeenSteps` that a value more keeps it: a value lies furthest below the peak
  (`PeakIsWorst`), and shares compare as fractions do (`SharesCompare`).
- *The walk.* `WalkInv` says what has been loaded whenever a page is asked for.
  With exclusive pages it is each wanted candle from the cursor on, once, and
  their number is a multiple of the page size. With inclusive ones the cursor is
  itself a border: it will be loaded again, and the number of newer candles is a
  multiple of the page size less one, which is how `OnBorder` tells the candles
  that come twice. A page is a top part of what the broker has before the cursor
  (`PageIsNewest`), and what the filter leaves of it is a top part of what is
  wanted there (`PageIsCut`): all of it when the walk stops, a whole page when it
  goes on, never one in between. On a page only the candle it was loaded from is
  at a border, and the first where another page follows (`BordersOfPage`); for
  the others the number of newer candles leaves a remainder (`Remainders`).
  Where a page is emptied nothing wanted is left below the cursor
  (`NothingLeft`), from which `WalkRaisesAtBorder` follows.

Every invariant and every action property that a passing run checks is proved,
three under the hypotheses above. Only model-checked: the liveness properties, since
fairness and `ENABLED` are out of the prover's reach.

## What is not modelled

The indicators (floating-point series of a library); the Sharpe ratio (a
statistic over floats resampled by pandas, on which nothing depends); the
end points that only read, those of backtest runs included; the strategy
settings end point, which writes only what the model leaves open;
authentication and sessions; notifications (their errors are swallowed, so a
tick never depends on them); the dashboard's pages; logging, migrations and
deployment scripts. Of the broker client, connecting and candle parsing; of the
tables, `equity_snapshots`. Floating-point error is left out everywhere. A replay
holds the event loop for its whole length (`api/backtest.py:86`); the loop's model
lets any await take any time, which covers that delay without naming it.

## Plan

Modules in the order they were, or will be, written:

1. Done: rules (`CircuitBreaker`, `Flip`, `PositionSizing`), environment
   (`Broker`, `Database`), `TradingLoop`, `Handlers`, their composition
   `TradingBot`, the abstract `TradeBook`, then `Strategy` and `Backtest`.
2. Done: the candle loader's backwards pagination, the metrics, and the life of
   a backtest run (`Metrics`, `BacktestRun`).
3. Done: proofs of the type invariants, the cap, the halt, the rows, the books
   and their refinement of `TradeBook`, the limit, the flip runs, the stops in
   the table, sizing, the replay, the walk of the loader, the end of a run and
   its result.
