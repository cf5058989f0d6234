----------------------------- MODULE TradingBot -----------------------------
(***************************************************************************)
(* The whole bot: the loop, the request handlers, the broker and midnight, *)
(* interleaved at their awaits in one process that may die at any of them. *)
(***************************************************************************)
EXTENDS TradingLoop, Handlers, Functions

vars == <<brokerVars, tables, clocks, loopVars, handlerVars>>

\* Requests are served from the end of the startup code until the process dies.
serving == pc # "down" /\ ~booting

TypeOK == BrokerTypeOK /\ DatabaseTypeOK /\ LoopTypeOK /\ HandlersTypeOK

Init == BrokerInit /\ DatabaseInit /\ LoopInit /\ HandlersInit

Loop ==
    /\ TickStep \/ TickFails \/ Restart
    /\ UNCHANGED <<clocks, handlerVars>>

Dies ==
    /\ Crash
    /\ HandlersDie
    /\ UNCHANGED clocks

\* The operator asks for something.
Asks ==
    /\ serving
    /\ \/ Pause \/ Resume \/ RequestLive(confirmed) \/ RevertPractice
       \/ UpdateFlipConfig \/ UpdateRiskConfig \/ KillPause
       \/ \E r \in OpenTrades, p \in Pnls : TelegramClose(r, p)
    /\ UNCHANGED <<clocks, loopVars>>

\* A request in progress goes on.
Serves ==
    /\ \/ KillList \/ KillDone
       \/ \E r \in kill.todo : KillRefused(r) \/ \E p \in Pnls : KillClose(r, p)
       \/ \E r \in kill.committing : KillCommit(r)
       \/ \E r \in closing : TelegramCommit(r)
       \/ \E d \in poll : PollInsert(d) \/ PollConflicts(d)
    /\ UNCHANGED <<clocks, loopVars>>

Polls ==
    /\ serving
    /\ PollSelect
    /\ UNCHANGED <<clocks, loopVars>>

\* A call a request makes fails.
RequestFails ==
    /\ Fault
    /\ \/ KillAborts \/ TelegramAborts
       \/ \E r \in kill.todo : KillCloseFails(r)
    /\ UNCHANGED <<clocks, pc, process, frame, crashes, booked>>

Market ==
    /\ BrokerNext
    /\ UNCHANGED <<tables, clocks, loopVars, handlerVars>>

DayEnds ==
    /\ Midnight
    /\ UNCHANGED <<brokerVars, tables, loopVars, handlerVars>>

Next == Loop \/ Dies \/ Asks \/ Serves \/ Polls \/ RequestFails \/ Market \/ DayEnds

Spec == Init /\ [][Next]_vars

\* The event loop runs every task that is ready, the loop is started again
\* after the process died, and requests are carried through.  Nothing obliges
\* the market, the operator, the clock or a fault.
Fairness ==
    /\ WF_vars(TickStep /\ UNCHANGED <<clocks, handlerVars>>)
    /\ WF_vars(Restart /\ UNCHANGED <<clocks, handlerVars>>)
    /\ WF_vars(Serves)

FairSpec == Spec /\ Fairness

---------------------------------------------------------------------------
(* The trades table against the broker.                                    *)

\* The table never shows a position closed that is still open at the broker:
\* a request that failed, a listing that went stale or a tick that was cut
\* short may leave a row open too long, never closed too early.
ClosedRowMeansClosedPosition ==
    \A i \in OpenIds : DOMAIN rows[i] = OpenRows(i)

\* A broker id has at most one open row, although nothing in the schema says
\* so and a stale listing can adopt a position that was closed meanwhile.
OneOpenRow == \A i \in Ids : Cardinality(OpenRows(i)) <= 1

\* When the loop looks for the row of a position it managed there is at most
\* one row with that id, closed ones included, so that get_trade_by_broker_id
\* (scalar_one_or_none) never raises halfway through the outcomes.
OutcomeHasOneRow == \A o \in outcomes : o.applied \/ Len(rows[o.id]) <= 1

\* Once a position's PnL is in a breaker row, its rows stay closed.
BookedIsFinal ==
    \A d \in Days : \A i \in booked[d] : pos[i].st = "closed" /\ OpenRows(i) = {}

\* The stop a row shows is never tighter than the one in force at the broker,
\* unless it is one the owner had and gave up in the terminal, which no row of
\* a known position ever follows (engine/state.py:91-93).  The loop's own moves,
\* by listings the owner has overtaken and with writes that come later or
\* never, take no row ahead.
RowStopNotAhead ==
    \A i \in OpenIds : \A k \in DOMAIN rows[i] :
        rows[i][k].stop <= pos[i].stop \/ rows[i][k].stop <= pos[i].given

---------------------------------------------------------------------------
(* The cap, the daily loss and the halt.                                   *)

\* The loop opens a position at the broker.
Enters == \E i \in Ids : pos[i].st = "unused" /\ pos'[i].by = "bot"

\* The open positions the bot has opened or has a row for, adopted ones
\* included: all but those that others, or an order whose call had failed,
\* opened since the bot last reconciled.
KnownOpen == OpenBy("bot") \cup {i \in OpenIds : rows[i] # <<>>}

\* The loop opens a position only while fewer positions than the cap it read
\* are open and known, whatever answers were lost and however stale its count.
EntryWithinCap ==
    [][Enters => Cardinality(KnownOpen) < cfg.max]_vars

PnlOf(ids) == SumFunction([i \in ids |-> pos[i].pnl])

\* A breaker row's PnL is the sum over distinct closed positions, and no
\* position is in the rows of two days: retried, repeated and abandoned ticks
\* may lose a position's PnL but never count it twice.
NothingBookedTwice ==
    /\ \A d \in Days : breaker[d].pnl = PnlOf(booked[d])
    /\ \A d, e \in Days : d # e => booked[d] \cap booked[e] = {}

\* A day that was halted stays halted.
HaltIsLatched ==
    [][\A d \in Days : breaker[d].halted => breaker'[d].halted]_vars

\* The loop opens no position on a day that is halted, nor once the losses on
\* its books for the day, those found by this very tick included, have
\* reached the limit.
NoEntryPastLimit ==
    [][Enters =>
         LET pnl == PnlOf(booked[rowDay] \cup credit)
         IN  /\ ~breaker[rowDay].halted
             /\ ~(pnl < 0 /\ LimitReached(breaker[rowDay].start, pnl, cfg.pct))]_vars

---------------------------------------------------------------------------
(* Flip runs.                                                              *)

OnlyBotOpened == \A i \in Ids : pos[i].by \in {"nobody", "bot"}

\* A tick of a flip run that found the account flat opens nothing outside the
\* bounds it read: it judges the balance as it is after the closes of this very
\* tick, not as an earlier read or an order whose answer was lost left it.  (A
\* position that others open after the listing may float or close in between.)
FlatFlipEntryInBounds ==
    [][Enters /\ JudgesFlip /\ OnlyBotOpened
         => cfg.bounds.floor < balance /\ balance < cfg.bounds.target]_vars

\* Ending a run pauses the bot, and a paused tick manages nothing.  No position
\* the bot opened or has a row for is open then, whatever others open between
\* the listing and the pause and whatever the operator saves meanwhile.
FlipEndStrandsNothingKnown ==
    [][FlipEnds => KnownOpen = {}]_vars

---------------------------------------------------------------------------
(* The life of a position as TradeBook has it.                             *)

LifeOf(i) == IF pos[i].st = "unused" THEN "none" ELSE pos[i].st
ShownAs(i) == IF rows[i] = <<>> THEN "none" ELSE IF OpenRows(i) = {} THEN "closed" ELSE "open"
BookedOn(i) == IF \E d \in Days : i \in booked[d] THEN CHOOSE d \in Days : i \in booked[d] ELSE 0

Book == INSTANCE TradeBook WITH
            Positions <- Ids,
            LastDay <- MaxDay,
            life <- [i \in Ids |-> LifeOf(i)],
            shown <- [i \in Ids |-> ShownAs(i)],
            day <- [i \in Ids |-> BookedOn(i)]

\* Every step of the bot, its failures and its races included, moves a
\* position along its life in TradeBook, or leaves it where it is.
ImplementsTradeBook == Book!BookSpec

---------------------------------------------------------------------------
(* What must happen.  A paused bot and a loop that failed to start do none *)
(* of it.                                                                  *)

Inactive == config.paused \/ pc = "failed"

\* A position closed at the broker, by whomever, does not stay open in the
\* table, whatever call failed or process died on the way.
ClosedPositionReconciled ==
    \A i \in Ids : (pos[i].st = "closed" /\ OpenRows(i) # {}) ~> (OpenRows(i) = {} \/ Inactive)

\* A position the bot opened gets its row even if the answer was lost or the
\* process died before writing it, unless the position closes first.
BotPositionTracked ==
    \A i \in Ids : (i \in OpenBy("bot") /\ rows[i] = <<>>) ~> (rows[i] # <<>> \/ ~IsOpen(i) \/ Inactive)

\* Positions are managed again and again, on halted days as on others.
ManagesForever == []<>(pc = "manage" \/ Inactive)

---------------------------------------------------------------------------
(* What the documentation says and the code does not do; each is refuted   *)
(* by a run of its own.                                                    *)

\* /pause answers "Existing positions still managed."
\* (telegram_bot/handlers.py:50): a close at the broker would still reach the
\* table while the bot is paused.
PausedStillManaged ==
    \A i \in Ids : (pos[i].st = "closed" /\ OpenRows(i) # {}) ~> (OpenRows(i) = {})

\* Without reconcile "the circuit breaker would never see the resulting loss"
\* (engine/state.py:1-6): what it collects stays with the loop until it is in
\* a breaker row, unless a call fails or the process dies.
CollectedPnlIsBooked ==
    [][(faults' = faults /\ crashes' = crashes)
         => \A i \in credit : i \in credit' \/ \E d \in Days : i \in booked'[d]]_vars

\* The breaker "halts new entries ... once a configurable % of the day's
\* starting equity is lost" (README.md:18-19): no entry once the trades closed
\* in the table have lost that much.
NoEntryAfterDailyLoss ==
    [][Enters =>
         LET settled == {i \in Ids : rows[i] # <<>> /\ OpenRows(i) = {}}
         IN  ~LimitReached(breaker[rowDay].start, PnlOf(settled), cfg.pct)]_vars

\* A flip run "ends ... no new entries ... once equity reaches a floor or a
\* target, so a run can't quietly drift on" (risk/flip.py:5-6): not even while
\* a position is still open.  (Nothing floats in the run that refutes it.)
FlipRunStopsAtBounds ==
    [][Enters /\ cfg.flip /\ OpenIds # {}
         => cfg.bounds.floor < balance /\ balance < cfg.bounds.target]_vars

\* "Two independent checks must both pass before the bot will place a live
\* order" (api/live_gate.py:3), the environment variable being the second.
LiveOrderIsConfirmed == [][Enters => confirmed]_vars

\* The kill switch "closes everything and pauses immediately"
\* (README.md:124-125): once it is done and nothing failed, no bot position is
\* open until the operator resumes.
KilledMeansFlat == kill.st = "done" => OpenBy("bot") = {}
=============================================================================
