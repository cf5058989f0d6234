------------------------------ MODULE Handlers ------------------------------
(***************************************************************************)
(* The tasks that run beside the loop on the same event loop, database and *)
(* broker: the dashboard's endpoints (api/) and the Telegram commands      *)
(* (telegram_bot/handlers.py).  Requests are served while `serving` holds. *)
(***************************************************************************)
EXTENDS Database

CONSTANTS
    Requests,     \* the kinds of request the operator makes
    MaxRequests   \* how many of them change something, in one behaviour

RequestKinds == {"pause", "resume", "live", "practice", "flip", "risk", "kill", "close", "poll"}

ASSUME HandlersAssumption ==
    /\ Requests \subseteq RequestKinds
    /\ MaxRequests \in Nat

VARIABLES
    kill,      \* the kill-switch request in progress, and how the last one ended
    closing,   \* rows a Telegram /close has closed at the broker, not in the table
    poll,      \* days a status poll found no breaker row for and will insert
    requests   \* requests made so far

handlerVars == <<kill, closing, poll, requests>>

\* `done`: a kill switch finished, every close of it having succeeded, and
\* the operator has not resumed the bot since.
KillStates == [st : {"off", "list", "close", "done"},
               todo : SUBSET Refs, committing : SUBSET Refs, failed : BOOLEAN]

HandlersTypeOK ==
    /\ kill \in KillStates
    /\ closing \in SUBSET Refs
    /\ poll \in SUBSET Days
    /\ requests \in 0 .. MaxRequests

KillOff == [st |-> "off", todo |-> {}, committing |-> {}, failed |-> FALSE]

HandlersInit ==
    /\ kill = KillOff
    /\ closing = {}
    /\ poll = {}
    /\ requests = 0

\* The process died: requests in progress die with it.
HandlersDie ==
    /\ kill' = KillOff
    /\ closing' = {}
    /\ poll' = {}
    /\ UNCHANGED requests

Request(kind) ==
    /\ kind \in Requests
    /\ requests < MaxRequests
    /\ requests' = requests + 1

---------------------------------------------------------------------------
(* Requests that update bot_config.  Only the fields they set are written. *)

SetConfig(new) ==
    /\ config' = new
    /\ UNCHANGED <<brokerVars, rows, breaker, closing, poll>>

\* POST /api/bot/pause and /pause
Pause ==
    /\ Request("pause")
    /\ SetConfig([config EXCEPT !.paused = TRUE])
    /\ UNCHANGED kill

\* POST /api/bot/resume and /resume
Resume ==
    /\ Request("resume")
    /\ SetConfig([config EXCEPT !.paused = FALSE])
    /\ kill' = IF kill.st = "done" THEN KillOff ELSE kill

\* POST /api/mode/request-live: refused unless this deployment's environment
\* confirms a live account.  The phrase and the password are left out.
RequestLive(envConfirmed) ==
    /\ Request("live")
    /\ envConfirmed
    /\ SetConfig([config EXCEPT !.mode = "live"])
    /\ UNCHANGED kill

\* POST /api/mode/revert-practice
RevertPractice ==
    /\ Request("practice")
    /\ SetConfig([config EXCEPT !.mode = "practice"])
    /\ UNCHANGED kill

\* PUT /api/config/flip: switches a run on or off and saves its bounds, which
\* the validators keep in order.
UpdateFlipConfig ==
    /\ Request("flip")
    /\ \E on \in BOOLEAN, b \in FlipBounds : SetConfig([config EXCEPT !.flip = on, !.bounds = b])
    /\ UNCHANGED kill

\* PUT /api/config/risk; the validators admit what DatabaseAssumption admits.
UpdateRiskConfig ==
    /\ Request("risk")
    /\ \E r \in RiskConfigs : SetConfig([config EXCEPT !.max = r.max, !.pct = r.pct])
    /\ UNCHANGED kill

---------------------------------------------------------------------------
(* POST /api/kill-switch                                                   *)

KillPause ==
    /\ kill.st \in {"off", "done"}
    /\ Request("kill")
    /\ SetConfig([config EXCEPT !.paused = TRUE])
    /\ kill' = [KillOff EXCEPT !.st = "list"]

KillStep(new) ==
    /\ kill' = new
    /\ UNCHANGED <<config, breaker, closing, poll, requests>>

KillList ==
    /\ kill.st = "list"
    /\ KillStep([kill EXCEPT !.st = "close", !.todo = OpenTrades])
    /\ UNCHANGED <<brokerVars, rows>>

\* One row after the other: closed at the broker, then in the table.
KillClose(r, pnl) ==
    /\ kill.st = "close"
    /\ kill.committing = {}
    /\ r \in kill.todo
    /\ ClosePosition(r[1], pnl)
    /\ KillStep([kill EXCEPT !.todo = @ \ {r}, !.committing = {r}])
    /\ UNCHANGED rows

KillCommit(r) ==
    /\ r \in kill.committing
    /\ CloseTrade(r)
    /\ KillStep([kill EXCEPT !.committing = {}])
    /\ UNCHANGED brokerVars

\* The broker refuses (the position is gone), and the switch goes on.
KillRefused(r) ==
    /\ kill.st = "close"
    /\ kill.committing = {}
    /\ r \in kill.todo
    /\ ~IsOpen(r[1])
    /\ KillStep([kill EXCEPT !.todo = @ \ {r}, !.failed = TRUE])
    /\ UNCHANGED <<brokerVars, rows>>

\* The symbol specification cannot be read: the request ends there, the row
\* just closed at the broker still open in the table, the others untouched.
KillAborts ==
    /\ kill.committing # {}
    /\ KillStep(KillOff)
    /\ UNCHANGED <<brokerVars, rows>>

\* Mutant: the row is closed although the broker did not close the position.
KillCloseFails_ClosesRow(r) ==
    /\ kill.st = "close"
    /\ kill.committing = {}
    /\ r \in kill.todo
    /\ UNCHANGED brokerVars
    /\ KillStep([kill EXCEPT !.todo = @ \ {r}, !.failed = TRUE])
    /\ CloseTrade(r)

\* The call fails before or after the position is closed; the switch goes on.
KillCloseFails(r) ==
    /\ kill.st = "close"
    /\ kill.committing = {}
    /\ r \in kill.todo
    /\ \/ UNCHANGED brokerVars
       \/ \E p \in Pnls : ClosePosition(r[1], p)
    /\ KillStep([kill EXCEPT !.todo = @ \ {r}, !.failed = TRUE])
    /\ UNCHANGED rows

KillDone ==
    /\ kill.st = "close"
    /\ kill.todo = {} /\ kill.committing = {}
    /\ KillStep(IF kill.failed THEN KillOff ELSE [kill EXCEPT !.st = "done"])
    /\ UNCHANGED <<brokerVars, rows>>

---------------------------------------------------------------------------
(* Telegram /close <id>                                                    *)

CloseStep(new) ==
    /\ closing' = new
    /\ UNCHANGED <<config, breaker, kill, poll>>

\* The row is open and the broker closes its position; a refusal, the
\* position being gone, ends the command with nothing changed.
TelegramClose(r, pnl) ==
    /\ closing = {}
    /\ Request("close")
    /\ r \in OpenTrades
    /\ ClosePosition(r[1], pnl)
    /\ CloseStep({r})
    /\ UNCHANGED rows

TelegramCommit(r) ==
    /\ r \in closing
    /\ CloseTrade(r)
    /\ CloseStep({})
    /\ UNCHANGED <<brokerVars, requests>>

\* The fill price or the specification cannot be read: the row stays open.
TelegramAborts ==
    /\ closing # {}
    /\ CloseStep({})
    /\ UNCHANGED <<brokerVars, rows, requests>>

---------------------------------------------------------------------------
(* GET /api/config/bot-state (polled by the dashboard) and /status: both   *)
(* get or create today's breaker row.                                      *)

PollStep(new) ==
    /\ poll' = new
    /\ UNCHANGED <<brokerVars, rows, config, kill, closing, requests>>

PollSelect ==
    /\ "poll" \in Requests
    /\ poll = {}
    /\ ~HasBreakerRow(localDay)
    /\ PollStep({localDay})
    /\ UNCHANGED breaker

PollInsert(d) ==
    /\ d \in poll
    /\ \E equity \in Equities : InsertBreakerRow(d, equity)
    /\ PollStep({})

PollConflicts(d) ==
    /\ d \in poll
    /\ HasBreakerRow(d)
    /\ PollStep({})
    /\ UNCHANGED breaker
=============================================================================
