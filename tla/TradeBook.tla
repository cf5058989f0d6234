----------------------------- MODULE TradeBook -----------------------------
(***************************************************************************)
(* What the bot promises about the life of a position, with no tasks, no   *)
(* listings and no failures in sight: it is opened at the broker, shown    *)
(* open in the trades table, closed at the broker, shown closed, and its   *)
(* PnL put into the breaker row of one day.  Steps may be missing at the   *)
(* end (a position nobody saw, a PnL that is lost), never out of order.    *)
(* TradingBot implements this specification; see TradingBot!Book.          *)
(***************************************************************************)
EXTENDS Integers

CONSTANTS Positions, LastDay

Unbooked == 0

VARIABLES
    life,    \* at the broker: "none", "open" or "closed"
    shown,   \* in the table: "none", "open" or "closed"
    day      \* the day whose breaker row has its PnL, or Unbooked

bookVars == <<life, shown, day>>

BookTypeOK ==
    /\ life \in [Positions -> {"none", "open", "closed"}]
    /\ shown \in [Positions -> {"none", "open", "closed"}]
    /\ day \in [Positions -> Unbooked .. LastDay]

BookInit ==
    /\ life = [p \in Positions |-> "none"]
    /\ shown = [p \in Positions |-> "none"]
    /\ day = [p \in Positions |-> Unbooked]

Open(p) ==
    /\ life[p] = "none"
    /\ life' = [life EXCEPT ![p] = "open"]
    /\ UNCHANGED <<shown, day>>

\* The first row, or one more for a position already closed but not booked
\* that a stale listing still had.
Show(p) ==
    /\ \/ life[p] # "none" /\ shown[p] = "none"
       \/ life[p] = "closed" /\ shown[p] = "closed"
    /\ day[p] = Unbooked
    /\ shown' = [shown EXCEPT ![p] = "open"]
    /\ UNCHANGED <<life, day>>

Close(p) ==
    /\ life[p] = "open"
    /\ life' = [life EXCEPT ![p] = "closed"]
    /\ UNCHANGED <<shown, day>>

Settle(p) ==
    /\ life[p] = "closed"
    /\ shown[p] = "open"
    /\ shown' = [shown EXCEPT ![p] = "closed"]
    /\ UNCHANGED <<life, day>>

\* Several positions are booked at once, each for the first time.
Book(ps, d) ==
    /\ \A p \in ps : life[p] = "closed" /\ shown[p] = "closed" /\ day[p] = Unbooked
    /\ day' = [p \in Positions |-> IF p \in ps THEN d ELSE day[p]]
    /\ UNCHANGED <<life, shown>>

BookNext ==
    \/ \E p \in Positions : Open(p) \/ Show(p) \/ Close(p) \/ Settle(p)
    \/ \E ps \in SUBSET Positions, d \in 1 .. LastDay : Book(ps, d)

BookSpec == BookInit /\ [][BookNext]_bookVars
=============================================================================
