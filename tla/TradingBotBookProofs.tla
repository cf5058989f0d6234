------------------------ MODULE TradingBotBookProofs ------------------------
(***************************************************************************)
(* The books of the days, for every value of the constants: what a step    *)
(* does to them, that a position is booked once and on one day, and that   *)
(* the bot implements TradeBook.                                           *)
(*                                                                         *)
(* OnceInv follows the positions whose PnL the tick is about to add:       *)
(* BookInv (module TradingBotRowProofs) says that none of a position that  *)
(* has been added comes back into its hands, OnceInv that none in its      *)
(* hands has been.  ApartInv says so of the days.                          *)
(***************************************************************************)
EXTENDS TradingBotRowProofs

---------------------------------------------------------------------------
(* Each position once.  What the tick is about to add to its PnL it has    *)
(* not added yet, and neither has an earlier tick.                         *)

OnceInv ==
    /\ pc = "reconcile" =>
         /\ \A r \in lost : ~Counted(r[1])
         /\ \A r, q \in lost : r[1] = q[1] => r = q
    /\ pc = "manage" => \A e \in found, o \in outcomes : e.id # o.id
    /\ \A o, p \in outcomes : o.id = p.id => o = p
    /\ \A o \in outcomes : o.kind = "close" /\ ~o.applied => ~Counted(o.id)

\* Nothing is added, and the tick goes on to other work.
LEMMA OnceKept ==
    ASSUME OnceInv, \A i \in Ids : Counted(i)' => Counted(i),
           \A o \in outcomes : o.id \in Ids,
           \A r \in lost' : r[1] \in Ids,
           pc' = "reconcile" => pc = "reconcile" /\ lost' \subseteq lost,
           pc' = "manage" => pc = "manage" /\ found' \subseteq found,
           outcomes' \subseteq outcomes
    PROVE  OnceInv'
  BY DEF OnceInv

LEMMA OnceForgets == ASSUME Forget, pc' \notin {"reconcile", "manage"} PROVE OnceInv'
<1>1. outcomes' = {}
  BY DEF Forget
<1> QED BY <1>1 DEF OnceInv

\* What reconcile is to close, it has seen open rows of.
LEMMA ReconcileKeepsOnce ==
    ASSUME TypeInv, ClosedInv, BookInv, OnceInv, ReconcileStep, TypeInv'
    PROVE  OnceInv'
<1>1. /\ \A r \in lost' : r[1] \in Ids
      /\ \A r \in lost : r[1] \in Ids
      /\ \A o \in outcomes : o.id \in Ids
  BY LoopTypeParts, LoopTypePartsNext DEF TypeInv, TypeOK, FrameTypeOK, Refs, Outcomes
<1>2. CASE ReconcileList
  <2>1. UNCHANGED <<outcomes, credit, booked>> /\ pc' = "rows"
    BY <1>2 DEF ReconcileList, GoTo
  <2>2. \A i \in Ids : Counted(i)' => Counted(i)
    BY <2>1 DEF Counted
  <2> QED BY <1>1, <2>1, <2>2, OnceKept
<1>3. CASE ReconcileRows
  <2>1. /\ UNCHANGED <<outcomes, credit, booked>> /\ pc' = "reconcile" /\ pc = "rows"
        /\ lost' = ToClose
    BY <1>3 DEF ReconcileRows, GoTo
  <2>2. outcomes' = {}
    BY <2>1 DEF BookInv
  <2>3. ASSUME NEW r \in lost' PROVE ~Counted(r[1])' /\ r = <<r[1], LastOpenRow(r[1])>>
    <3>1. PICK i \in KnownIds : r = <<i, LastOpenRow(i)>>
      BY <2>1 DEF ToClose
    <3>2. i \in Ids /\ OpenRows(i) # {} /\ r[1] = i
      BY <3>1 DEF KnownIds
    <3>3. ~Counted(i)
      BY <3>2 DEF BookInv, Settled
    <3>4. Counted(i)' => Counted(i)
      BY <2>1 DEF Counted
    <3> QED BY <3>1, <3>2, <3>3, <3>4
  <2>4. \A r, q \in lost' : r[1] = q[1] => r = q
    BY <2>3, Zenon
  <2> QED BY <2>1, <2>2, <2>3, <2>4 DEF OnceInv
<1>4. CASE ReconcileDone
  <2>1. CASE booting
    BY <1>4, <2>1, OnceForgets DEF ReconcileDone
  <2>2. CASE ~booting
    <3>1. UNCHANGED <<outcomes, credit, booked>> /\ pc' = "account"
      BY <1>4, <2>2 DEF ReconcileDone, frame
    <3>2. \A i \in Ids : Counted(i)' => Counted(i)
      BY <3>1 DEF Counted
    <3> QED BY <1>1, <3>1, <3>2, OnceKept
  <2> QED BY <2>1, <2>2
<1>5. ASSUME NEW r \in lost, ReconcileClose(r) PROVE OnceInv'
  <2>1. /\ UNCHANGED <<outcomes, booked>> /\ pc = "reconcile" /\ pc' = "reconcile"
        /\ lost' = lost \ {r} /\ credit' = credit \cup {r[1]}
    BY <1>5 DEF ReconcileClose, GoTo
  <2>2. outcomes' = {}
    BY <2>1 DEF BookInv
  <2>3. \A i \in Ids : Counted(i)' => Counted(i) \/ i = r[1]
    BY <2>1 DEF Counted
  <2>4. \A q \in lost' : q[1] # r[1]
    BY <2>1 DEF OnceInv
  <2>5. \A q \in lost' : ~Counted(q[1])'
    BY <1>1, <2>1, <2>3, <2>4 DEF OnceInv
  <2> QED BY <2>1, <2>2, <2>5 DEF OnceInv
<1>6. ASSUME NEW r \in lost, ReconcileLookupFails(r) PROVE OnceInv'
  <2>1. UNCHANGED <<outcomes, credit, booked, pc>> /\ pc = "reconcile" /\ lost' \subseteq lost
    BY <1>6 DEF ReconcileLookupFails
  <2>2. \A i \in Ids : Counted(i)' => Counted(i)
    BY <2>1 DEF Counted
  <2> QED BY <1>1, <2>1, <2>2, OnceKept
<1>7. ASSUME NEW r \in lost, ReconcileHistoryLags(r) PROVE OnceInv'
  BY <1>7, OnceForgets DEF ReconcileHistoryLags, Raise
<1>8. ASSUME NEW e \in found, ReconcileAdopt(e) PROVE OnceInv'
  <2>1. UNCHANGED <<outcomes, credit, booked, lost>> /\ pc = "reconcile" /\ pc' = "reconcile"
    BY <1>8 DEF ReconcileAdopt, GoTo
  <2>2. \A i \in Ids : Counted(i)' => Counted(i)
    BY <2>1 DEF Counted
  <2> QED BY <1>1, <2>1, <2>2, OnceKept
<1> QED BY <1>2, <1>3, <1>4, <1>5, <1>6, <1>7, <1>8 DEF ReconcileStep

\* What the strategy closes was open, and no outcome of this tick so far.
LEMMA ManageKeepsOnce ==
    ASSUME TypeInv, ClosedInv, BookInv, OnceInv, ManageStep
    PROVE  OnceInv'
<1>1. /\ \A o \in outcomes : o.id \in Ids
      /\ \A e \in found : e.id \in Ids
      /\ outcomes \subseteq Outcomes
  BY LoopTypeParts DEF TypeInv, TypeOK, FrameTypeOK, Outcomes, Listings
<1>2. CASE FetchPositions \/ ManageDone \/ OutcomesDone
  <2>1. /\ UNCHANGED <<credit, booked>> /\ pc' # "reconcile" /\ outcomes' \subseteq outcomes
        /\ pc' = "manage" => pc = "fetch" /\ outcomes' = outcomes
    BY <1>2 DEF FetchPositions, ManageDone, OutcomesDone, GoTo
  <2>2. \A i \in Ids : Counted(i)' => Counted(i)
    BY <2>1 DEF Counted
  <2>3. pc' = "manage" => outcomes' = {}
    BY <2>1 DEF BookInv
  <2> QED BY <1>1, <2>1, <2>2, <2>3 DEF OnceInv
<1>3. ASSUME NEW e \in found, NEW stop, NEW kind \in {"move", "close"}, Managed(e, stop, kind),
             pc = "manage", kind = "close" => ~Counted(e.id)
      PROVE  OnceInv'
  <2> DEFINE o == [id |-> e.id, stop |-> stop, kind |-> kind, applied |-> FALSE]
  <2>1. /\ UNCHANGED <<credit, booked>> /\ pc' = "manage" /\ found' = found \ {e}
        /\ outcomes' = outcomes \cup {o}
    BY <1>3 DEF Managed, GoTo
  <2>2. \A i \in Ids : Counted(i)' => Counted(i)
    BY <2>1 DEF Counted
  <2>3. \A p \in outcomes : p.id # e.id
    BY <1>3 DEF OnceInv
  <2>4. \A f \in found' : f.id # e.id
    BY <2>1 DEF BookInv
  <2>5. o.id = e.id /\ o.kind = kind
    OBVIOUS
  <2> HIDE DEF o
  <2>6. (\A p, q \in outcomes : p.id = q.id => p = q)'
    BY <2>1, <2>3, <2>5 DEF OnceInv
  <2>7. (\A p \in outcomes : p.kind = "close" /\ ~p.applied => ~Counted(p.id))'
    BY <1>1, <1>3, <2>1, <2>2, <2>5 DEF OnceInv
  <2>8. (\A f \in found, p \in outcomes : f.id # p.id)'
    BY <1>3, <2>1, <2>4, <2>5 DEF OnceInv
  <2> QED BY <2>1, <2>6, <2>7, <2>8 DEF OnceInv
<1>4. ASSUME NEW e \in found, NEW p \in Pnls, ManageClose(e, p) PROVE OnceInv'
  <2>1. pos[e.id].st = "open" /\ pc = "manage" /\ Managed(e, e.stop, "close")
    BY <1>4 DEF ManageClose, ClosePosition, IsOpen
  <2>2. ~Counted(e.id)
    BY <1>1, <2>1 DEF BookInv, Settled
  <2> QED BY <1>3, <2>1, <2>2
<1>5. ASSUME NEW e \in found, NEW s \in 0 .. MaxStop, ManageMove(e, s) PROVE OnceInv'
  BY <1>3, <1>5 DEF ManageMove
<1>6. ASSUME NEW e \in found, NEW p \in Pnls, ManageCloseUnconfirmed(e, p) PROVE OnceInv'
  BY <1>6, OnceForgets DEF ManageCloseUnconfirmed, Raise
<1>7. ASSUME NEW e \in found, ManageRefused(e) PROVE OnceInv'
  BY <1>7, OnceForgets DEF ManageRefused, Raise
<1>8. ASSUME NEW o \in outcomes, ApplyOutcome(o) PROVE OnceInv'
  <2>1. CASE Len(rows[o.id]) > 1
    BY <1>8, <2>1, OnceForgets DEF ApplyOutcome, Raise
  <2>2. CASE ~(Len(rows[o.id]) > 1)
    <3> DEFINE q == [o EXCEPT !.applied = TRUE]
    <3>1. /\ outcomes' = (outcomes \ {o}) \cup {q}
          /\ pc' = "outcomes" /\ UNCHANGED booked
          /\ credit' = credit \/ credit' = credit \cup {o.id}
      BY <1>8, <2>2 DEF ApplyOutcome, WriteOutcome, GoTo
    <3>2. q.id = o.id /\ q.applied
      BY <1>1 DEF Outcomes
    <3> HIDE DEF q
    <3>3. \A i \in Ids : Counted(i)' => Counted(i) \/ i = o.id
      BY <3>1 DEF Counted
    <3>4. \A p \in outcomes \ {o} : p.id # o.id
      BY DEF OnceInv
    <3>5. (\A p, r \in outcomes : p.id = r.id => p = r)'
      BY <3>1, <3>2, <3>4 DEF OnceInv
    <3>6. (\A p \in outcomes : p.kind = "close" /\ ~p.applied => ~Counted(p.id))'
      BY <1>1, <3>1, <3>2, <3>3, <3>4 DEF OnceInv
    <3> QED BY <3>1, <3>5, <3>6 DEF OnceInv
  <2> QED BY <2>1, <2>2
<1> QED BY <1>2, <1>4, <1>5, <1>6, <1>7, <1>8 DEF ManageStep

LEMMA OnceInvInit == Init => OnceInv
  BY DEF Init, LoopInit, OnceInv

LEMMA OnceInvNext ==
    TypeInv /\ ClosedInv /\ BookInv /\ OnceInv /\ [Next]_vars /\ TypeInv' => OnceInv'
<1> SUFFICES ASSUME TypeInv, ClosedInv, BookInv, OnceInv, [Next]_vars, TypeInv' PROVE OnceInv'
  OBVIOUS
<1>1. /\ \A r \in lost' : r[1] \in Ids
      /\ \A o \in outcomes : o.id \in Ids
  BY LoopTypeParts, LoopTypePartsNext DEF TypeInv, TypeOK, FrameTypeOK, Refs, Outcomes
<1>2. CASE ReconcileStep
  BY <1>2, ReconcileKeepsOnce
<1>3. CASE ManageStep
  BY <1>3, ManageKeepsOnce
<1>4. CASE \/ TickStart \/ Restart
           \/ BreakerSelect \/ BreakerInsert \/ BreakerReselect \/ BreakerReinsert
           \/ FlipJudged \/ FlipEnds \/ FlipGoesOn \/ NoEntry \/ RecordTrade \/ \E i \in Ids : PlaceOrder(i)
  <2>1. UNCHANGED <<outcomes, credit, booked>> /\ pc' \notin {"reconcile", "manage"}
    BY <1>4 DEF TickStart, Restart, BreakerSelect, BreakerInsert, BreakerReselect, BreakerReinsert,
                FlipJudged, FlipEnds, FlipGoesOn, NoEntry, RecordTrade, PlaceOrder, GoTo, frame
  <2>2. \A i \in Ids : Counted(i)' => Counted(i)
    BY <2>1 DEF Counted
  <2> QED BY <1>1, <2>1, <2>2, OnceKept
<1>5. CASE \/ TickFails \/ BreakerInsertConflicts \/ PlaceOrderLate \/ Persist \/ Dies
           \/ \E i \in Ids : PlaceOrderLost(i)
  <2>1. Forget /\ pc' \in {"down", "failed", "idle"}
    BY <1>5 DEF TickFails, BreakerInsertConflicts, PlaceOrderLate, Persist, Dies, Crash,
                PlaceOrderLost, Raise
  <2> QED BY <2>1, OnceForgets
<1>6. CASE TickPaused \/ Asks \/ Serves \/ Polls \/ RequestFails \/ Market \/ DayEnds \/ UNCHANGED vars
  <2>1. UNCHANGED <<lost, found, outcomes, credit, booked, pc>>
    BY <1>6 DEF TickPaused, Asks, Serves, Polls, RequestFails, Market, DayEnds, vars, loopVars, frame
  <2>2. \A i \in Ids : Counted(i)' => Counted(i)
    BY <2>1 DEF Counted
  <2> QED BY <1>1, <2>1, <2>2, OnceKept
<1> QED BY <1>2, <1>3, <1>4, <1>5, <1>6 DEF Next, Loop, TickStep, BreakerStep, EntryStep

---------------------------------------------------------------------------
(* What a step does to what the loop has in hand, and to the books.        *)

\* Where the loop holds a snapshot that it will write to the row of rowDay.
Loading == {"fetch", "manage", "outcomes", "flip", "ending", "entry", "record", "persist"}

\* Where it looks for that row, or makes it.
Making == {"insert", "renew", "reinsert"}

\* What the loop has in hand is kept, or forgotten.
Keeps ==
    /\ UNCHANGED <<credit, sum, snap, rowDay, booked>>
    /\ pc' \in Loading <=> pc \in Loading
    /\ pc' \in Making => pc' = pc

Forgets ==
    /\ credit' = {} /\ sum' = 0 /\ UNCHANGED booked
    /\ pc' \notin Loading \cup Making

LoadsBreaker == BreakerSelect \/ BreakerInsert \/ BreakerReselect \/ BreakerReinsert

Adds ==
    \/ LoadsBreaker \/ Persist
    \/ \E r \in lost : ReconcileClose(r)
    \/ \E o \in outcomes : ApplyOutcome(o)

LEMMA RaiseForgets == ASSUME Raise PROVE Forgets
  BY DEF Raise, Forget, Forgets, Loading, Making

LEMMA LedgerSteps == ASSUME [Next]_vars, ~Adds PROVE Keeps \/ Forgets
<1>1. CASE Loop
  <2>1. CASE TickFails \/ BreakerInsertConflicts \/ PlaceOrderLate
    BY <2>1, RaiseForgets DEF TickFails, BreakerInsertConflicts, PlaceOrderLate
  <2>2. CASE TickStart \/ TickPaused \/ Restart
    BY <2>2 DEF TickStart, TickPaused, Restart, GoTo, loopVars, frame, Keeps, Loading, Making
  <2>3. CASE ReconcileStep
    <3>1. CASE ReconcileList \/ ReconcileRows
      BY <3>1 DEF ReconcileList, ReconcileRows, GoTo, Keeps, Loading, Making
    <3>2. CASE ReconcileDone
      BY <3>2 DEF ReconcileDone, Keeps, Forgets, Forget, Loading, Making, frame
    <3>3. ASSUME NEW r \in lost, ReconcileLookupFails(r) PROVE Keeps
      BY <3>3 DEF ReconcileLookupFails, Keeps
    <3>4. ASSUME NEW r \in lost, ReconcileHistoryLags(r) PROVE Forgets
      BY <3>4, RaiseForgets DEF ReconcileHistoryLags
    <3>5. ASSUME NEW e \in found, ReconcileAdopt(e) PROVE Keeps
      BY <3>5 DEF ReconcileAdopt, GoTo, Keeps, Loading, Making
    <3> QED BY <1>1, <2>3, <3>1, <3>2, <3>3, <3>4, <3>5 DEF ReconcileStep, Adds
  <2>4. CASE ManageStep
    <3>1. CASE FetchPositions \/ ManageDone \/ OutcomesDone
      BY <3>1 DEF FetchPositions, ManageDone, OutcomesDone, GoTo, Keeps, Loading, Making
    <3>2. ASSUME NEW e \in found, ManageRefused(e) PROVE Forgets
      BY <3>2, RaiseForgets DEF ManageRefused
    <3>3. ASSUME NEW e \in found, NEW p \in Pnls, ManageClose(e, p) PROVE Keeps
      BY <3>3 DEF ManageClose, Managed, GoTo, Keeps, Loading, Making
    <3>4. ASSUME NEW e \in found, NEW p \in Pnls, ManageCloseUnconfirmed(e, p) PROVE Forgets
      BY <3>4, RaiseForgets DEF ManageCloseUnconfirmed
    <3>5. ASSUME NEW e \in found, NEW s \in 0 .. MaxStop, ManageMove(e, s) PROVE Keeps
      BY <3>5 DEF ManageMove, Managed, GoTo, Keeps, Loading, Making
    <3> QED BY <2>4, <3>1, <3>2, <3>3, <3>4, <3>5 DEF ManageStep, Adds
  <2>5. CASE EntryStep
    <3>1. CASE FlipJudged \/ FlipEnds \/ FlipGoesOn \/ NoEntry \/ RecordTrade
      BY <3>1 DEF FlipJudged, FlipEnds, FlipGoesOn, NoEntry, RecordTrade, GoTo, frame, Keeps, Loading, Making
    <3>2. ASSUME NEW i \in Ids, PlaceOrder(i) PROVE Keeps
      BY <3>2 DEF PlaceOrder, GoTo, Keeps, Loading, Making
    <3>3. ASSUME NEW i \in Ids, PlaceOrderLost(i) PROVE Forgets
      BY <3>3, RaiseForgets DEF PlaceOrderLost
    <3> QED BY <2>1, <2>5, <3>1, <3>2, <3>3 DEF EntryStep, Adds
  <2> QED BY <1>1, <2>1, <2>2, <2>3, <2>4, <2>5 DEF Loop, TickStep, BreakerStep, Adds, LoadsBreaker
<1>2. CASE Dies
  BY <1>2 DEF Dies, Crash, Forget, Forgets, Loading, Making
<1>3. CASE Asks \/ Serves \/ Polls \/ Market \/ DayEnds \/ RequestFails \/ UNCHANGED vars
  BY <1>3 DEF Asks, Serves, Polls, Market, DayEnds, RequestFails, vars, loopVars, frame, Keeps
<1> QED BY <1>1, <1>2, <1>3 DEF Next

---------------------------------------------------------------------------
(* In the books of one day, and shown closed.                              *)

\* No position is in the books of two days, or about to get into the books
\* again; what is about to get there, or is being closed, has a row.
ApartInv ==
    /\ \A d, e \in Days : d # e => booked[d] \cap booked[e] = {}
    /\ \A d \in Days : credit \cap booked[d] = {}
    /\ \A i \in credit : rows[i] # <<>>
    /\ \A r \in lost : rows[r[1]] # <<>>

\* What a step may do to the rows: nothing, or something to one of them.
RowStep ==
    \/ UNCHANGED rows
    \/ \E i \in Ids, stop \in Stops : CreateTrade(i, stop)
    \/ \E r \in Refs : CloseTrade(r)
    \/ \E i \in Ids, stop \in Stops : UpdateTradeStop(<<i, 1>>, stop)

\* No step changes both the broker and the table, and no step but the end of
\* a tick the books.
StepShape ==
    \/ UNCHANGED <<rows, booked>>
    \/ UNCHANGED <<pos, booked>> /\ RowStep
    \/ Persist

LEMMA StepShapes == ASSUME TypeInv, [Next]_vars PROVE StepShape
<1>1. /\ \A r \in lost : r \in Refs
      /\ \A e \in found : e.id \in Ids /\ e.stop \in Stops
      /\ \A o \in outcomes : o.id \in Ids /\ o.stop \in Stops
  BY LoopTypeParts DEF TypeInv, TypeOK, FrameTypeOK, Listings, Outcomes
<1>2. CASE Loop
  <2>1. CASE TickStart \/ TickPaused \/ TickFails \/ Restart
    BY <2>1 DEF TickStart, TickPaused, TickFails, Restart, Raise, GoTo, loopVars, tables, StepShape
  <2>2. CASE ReconcileStep
    <3>1. CASE ReconcileList \/ ReconcileRows \/ ReconcileDone
      BY <3>1 DEF ReconcileList, ReconcileRows, ReconcileDone, GoTo, tables, StepShape
    <3>2. ASSUME NEW r \in lost,
                 ReconcileClose(r) \/ ReconcileLookupFails(r) \/ ReconcileHistoryLags(r)
          PROVE  StepShape
      <4>1. CloseTrade(r) /\ UNCHANGED <<pos, booked>>
        BY <3>2 DEF ReconcileClose, ReconcileLookupFails, ReconcileHistoryLags, Raise, GoTo, brokerVars
      <4> QED BY <1>1, <4>1 DEF StepShape, RowStep
    <3>3. ASSUME NEW e \in found, ReconcileAdopt(e) PROVE StepShape
      <4>1. CreateTrade(e.id, e.stop) /\ UNCHANGED <<pos, booked>>
        BY <3>3 DEF ReconcileAdopt, GoTo, brokerVars
      <4> QED BY <1>1, <4>1 DEF StepShape, RowStep
    <3> QED BY <2>2, <3>1, <3>2, <3>3 DEF ReconcileStep
  <2>3. CASE BreakerStep
    BY <2>3 DEF BreakerStep, BreakerSelect, BreakerInsert, BreakerReselect, BreakerReinsert,
                BreakerInsertConflicts, Raise, GoTo,
                tables, StepShape
  <2>4. CASE ManageStep
    <3>1. CASE FetchPositions \/ ManageDone \/ OutcomesDone
      BY <3>1 DEF FetchPositions, ManageDone, OutcomesDone, GoTo, tables, StepShape
    <3>2. ASSUME NEW e \in found, ManageRefused(e) PROVE StepShape
      BY <3>2 DEF ManageRefused, Raise, tables, StepShape
    <3>3. ASSUME NEW e, NEW p, ManageClose(e, p) \/ ManageCloseUnconfirmed(e, p) PROVE StepShape
      BY <3>3 DEF ManageClose, ManageCloseUnconfirmed, Managed, Raise, GoTo, tables, StepShape
    <3>4. ASSUME NEW e, NEW m, ManageMove(e, m) PROVE StepShape
      BY <3>4 DEF ManageMove, Managed, GoTo, tables, StepShape
    <3>5. ASSUME NEW o \in outcomes, ApplyOutcome(o) PROVE StepShape
      <4>1. UNCHANGED <<pos, booked>>
        BY <3>5 DEF ApplyOutcome, Raise, GoTo, brokerVars
      <4>2. CASE UNCHANGED rows
        BY <4>1, <4>2 DEF StepShape
      <4>3. CASE UpdateTradeStop(<<o.id, 1>>, o.stop)
        BY <1>1, <4>1, <4>3 DEF StepShape, RowStep
      <4>4. CASE CloseTrade(<<o.id, 1>>)
        <5>1. <<o.id, 1>> \in Refs
          BY <1>1 DEF Refs
        <5> QED BY <4>1, <4>4, <5>1 DEF StepShape, RowStep
      <4> QED BY <3>5, <4>2, <4>3, <4>4 DEF ApplyOutcome, WriteOutcome
    <3> QED BY <2>4, <3>1, <3>2, <3>3, <3>4, <3>5 DEF ManageStep
  <2>5. CASE EntryStep
    <3>1. CASE FlipJudged \/ FlipEnds \/ FlipGoesOn \/ NoEntry \/ PlaceOrderLate \/ Persist
      BY <3>1 DEF FlipJudged, FlipEnds, FlipGoesOn, NoEntry, PlaceOrderLate, Raise, GoTo, tables, StepShape
    <3>2. ASSUME NEW i, PlaceOrder(i) \/ PlaceOrderLost(i) PROVE StepShape
      BY <3>2 DEF PlaceOrder, PlaceOrderLost, Raise, GoTo, tables, StepShape
    <3>3. CASE RecordTrade
      <4>1. PICK e \in found : CreateTrade(e.id, e.stop)
        BY <3>3 DEF RecordTrade
      <4>2. UNCHANGED <<pos, booked>>
        BY <3>3 DEF RecordTrade, GoTo, brokerVars
      <4> QED BY <1>1, <4>1, <4>2 DEF StepShape, RowStep
    <3> QED BY <2>5, <3>1, <3>2, <3>3 DEF EntryStep
  <2> QED BY <1>2, <2>1, <2>2, <2>3, <2>4, <2>5 DEF Loop, TickStep
<1>3. CASE Dies
  BY <1>3 DEF Dies, Crash, tables, StepShape
<1>4. CASE Asks \/ Serves \/ Polls \/ RequestFails
  <2>1. UNCHANGED booked
    BY <1>4 DEF Asks, Serves, Polls, RequestFails, loopVars
  <2> QED BY <1>4, <2>1, RequestRows DEF StepShape, RowStep
<1>5. CASE Market \/ DayEnds \/ UNCHANGED vars
  BY <1>5 DEF Market, DayEnds, vars, tables, loopVars, StepShape
<1> QED BY <1>2, <1>3, <1>4, <1>5 DEF Next

\* Rows are not deleted, and the first row of a position is an open one.
OnlyRowsOf(i) ==
    /\ \A j \in Ids \ {i} : rows'[j] = rows[j]
    /\ rows[i] # <<>> => rows'[i] # <<>>
    /\ rows[i] = <<>> /\ rows'[i] # <<>> => OpenRows(i)' # {}

LEMMA ReplacedOnly ==
    ASSUME TypeInv, NEW i \in Ids, NEW k, NEW row,
           rows' = [rows EXCEPT ![i] = [rows[i] EXCEPT ![k] = row]]
    PROVE  OnlyRowsOf(i)
<1>1. rows \in [Ids -> Seq(Rows)]
  BY DEF TypeInv, TypeOK, DatabaseTypeOK
<1>2. DOMAIN rows'[i] = DOMAIN rows[i] /\ \A j \in Ids \ {i} : rows'[j] = rows[j]
  BY <1>1
<1>3. rows[i] = <<>> => rows'[i] = <<>>
  BY <1>1
<1>4. rows[i] # <<>> => DOMAIN rows[i] # {}
  BY <1>1
<1> QED BY <1>2, <1>3, <1>4 DEF OnlyRowsOf

LEMMA RowStepsTouchOne ==
    ASSUME TypeInv, RowStep
    PROVE  UNCHANGED rows \/ \E i \in Ids : OnlyRowsOf(i)
<1>1. rows \in [Ids -> Seq(Rows)]
  BY DEF TypeInv, TypeOK, DatabaseTypeOK
<1>2. ASSUME NEW i \in Ids, NEW stop \in Stops, CreateTrade(i, stop) PROVE OnlyRowsOf(i)
  <2> DEFINE row == [status |-> "open", stop |-> stop]
  <2>1. row \in Rows /\ row.status = "open"
    BY DEF Rows
  <2>2. rows' = [rows EXCEPT ![i] = Append(rows[i], row)]
    BY <1>2 DEF CreateTrade
  <2> HIDE DEF row
  <2>3. rows'[i] = Append(rows[i], row) /\ \A j \in Ids \ {i} : rows'[j] = rows[j]
    BY <1>1, <2>2
  <2>4. Len(rows[i]) + 1 \in DOMAIN rows'[i] /\ rows'[i][Len(rows[i]) + 1] = row
    BY <1>1, <2>1, <2>3
  <2>5. rows'[i] # <<>> /\ OpenRows(i)' # {}
    BY <2>1, <2>4 DEF OpenRows
  <2> QED BY <2>3, <2>5 DEF OnlyRowsOf
<1>3. ASSUME NEW r \in Refs, CloseTrade(r) PROVE OnlyRowsOf(r[1]) /\ r[1] \in Ids
  <2> DEFINE row == [rows[r[1]][r[2]] EXCEPT !.status = "closed"]
  <2>1. rows' = [rows EXCEPT ![r[1]] = [rows[r[1]] EXCEPT ![r[2]] = row]]
    BY <1>3 DEF CloseTrade
  <2>2. r[1] \in Ids
    BY DEF Refs
  <2> HIDE DEF row
  <2> QED BY <2>1, <2>2, ReplacedOnly
<1>4. ASSUME NEW i \in Ids, NEW stop, UpdateTradeStop(<<i, 1>>, stop) PROVE OnlyRowsOf(i)
  <2> DEFINE row == [rows[i][1] EXCEPT !.stop = stop]
  <2>1. rows' = [rows EXCEPT ![i] = [rows[i] EXCEPT ![1] = row]]
    BY <1>4 DEF UpdateTradeStop
  <2> HIDE DEF row
  <2> QED BY <2>1, ReplacedOnly
<1> QED BY <1>2, <1>3, <1>4 DEF RowStep

LEMMA RowsNeverGo ==
    ASSUME TypeInv, [Next]_vars, NEW i \in Ids, rows[i] # <<>>
    PROVE  rows'[i] # <<>>
<1>1. CASE UNCHANGED rows
  BY <1>1
<1>2. CASE RowStep
  <2>1. ASSUME NEW j \in Ids, OnlyRowsOf(j) PROVE rows'[i] # <<>>
    BY <2>1 DEF OnlyRowsOf
  <2> QED BY <1>1, <1>2, <2>1, RowStepsTouchOne
<1> QED BY <1>1, <1>2, StepShapes DEF StepShape, Persist

\* What comes into the loop's hands is shown and not counted yet.
CreditStep ==
    \/ UNCHANGED <<credit, booked>>
    \/ credit' = {} /\ UNCHANGED booked
    \/ \E i \in Ids : /\ ~Counted(i) /\ rows[i] # <<>>
                      /\ credit' = credit \cup {i} /\ UNCHANGED booked
    \/ Persist

LEMMA CreditSteps == ASSUME TypeInv, OnceInv, ApartInv, [Next]_vars PROVE CreditStep
<1>1. /\ \A r \in lost : r[1] \in Ids
      /\ \A o \in outcomes : o.id \in Ids
  BY LoopTypeParts DEF TypeInv, TypeOK, FrameTypeOK, Refs, Outcomes
<1>2. CASE LoadsBreaker
  BY <1>2 DEF LoadsBreaker, BreakerSelect, BreakerInsert, BreakerReselect, BreakerReinsert, GoTo, CreditStep
<1>3. ASSUME NEW r \in lost, ReconcileClose(r) PROVE CreditStep
  <2>1. ~Counted(r[1]) /\ rows[r[1]] # <<>>
    BY <1>3 DEF ReconcileClose, OnceInv, ApartInv
  <2>2. credit' = credit \cup {r[1]} /\ UNCHANGED booked
    BY <1>3 DEF ReconcileClose, GoTo
  <2> QED BY <1>1, <2>1, <2>2 DEF CreditStep
<1>4. ASSUME NEW o \in outcomes, ApplyOutcome(o) PROVE CreditStep
  <2>1. CASE Raise
    BY <2>1, RaiseForgets DEF Forgets, CreditStep
  <2>2. CASE ~Raise
    <3>1. UNCHANGED booked /\ ~o.applied /\ WriteOutcome(o)
      BY <1>4, <2>2 DEF ApplyOutcome, GoTo
    <3>2. CASE UNCHANGED credit
      BY <3>1, <3>2 DEF CreditStep
    <3>3. CASE ~UNCHANGED credit
      <4>1. o.kind = "close" /\ rows[o.id] # <<>> /\ credit' = credit \cup {o.id}
        BY <3>1, <3>3 DEF WriteOutcome
      <4>2. ~Counted(o.id)
        BY <3>1, <4>1 DEF OnceInv
      <4> QED BY <1>1, <3>1, <4>1, <4>2 DEF CreditStep
    <3> QED BY <3>2, <3>3
  <2> QED BY <2>1, <2>2
<1>5. CASE ~Adds
  BY <1>5, LedgerSteps DEF Keeps, Forgets, CreditStep
<1> QED BY <1>2, <1>3, <1>4, <1>5 DEF Adds, CreditStep

LEMMA LostSteps == ASSUME [Next]_vars PROVE lost' \subseteq lost \/ ReconcileRows
<1>1. CASE Loop
  <2>1. CASE TickStart \/ TickPaused \/ TickFails \/ Restart
    BY <2>1 DEF TickStart, TickPaused, TickFails, Restart, Raise, Forget, loopVars, frame
  <2>2. CASE ReconcileStep
    BY <2>2 DEF ReconcileStep, ReconcileList, ReconcileDone, ReconcileClose, frame,
                ReconcileLookupFails, ReconcileHistoryLags, ReconcileAdopt, Raise, Forget
  <2>3. CASE BreakerStep
    BY <2>3 DEF BreakerStep, BreakerSelect, BreakerInsert, BreakerReselect, BreakerReinsert,
                BreakerInsertConflicts, Raise, Forget
  <2>4. CASE ManageStep
    BY <2>4 DEF ManageStep, FetchPositions, ManageDone, OutcomesDone, ManageRefused, ManageClose,
                ManageCloseUnconfirmed, ManageMove, ApplyOutcome, Managed, Raise, Forget
  <2>5. CASE EntryStep
    BY <2>5 DEF EntryStep, FlipJudged, FlipEnds, FlipGoesOn, NoEntry, PlaceOrderLate, RecordTrade, Persist,
                PlaceOrder, PlaceOrderLost, Raise, Forget, frame
  <2> QED BY <1>1, <2>1, <2>2, <2>3, <2>4, <2>5 DEF Loop, TickStep
<1>2. CASE Dies
  BY <1>2 DEF Dies, Crash, Forget
<1>3. CASE Asks \/ Serves \/ Polls \/ Market \/ DayEnds \/ RequestFails \/ UNCHANGED vars
  BY <1>3 DEF Asks, Serves, Polls, Market, DayEnds, RequestFails, vars, loopVars, frame
<1> QED BY <1>1, <1>2, <1>3 DEF Next

LEMMA ApartInvInit == Init => ApartInv
  BY DEF Init, LoopInit, ApartInv

LEMMA ApartInvNext == TypeInv /\ OnceInv /\ ApartInv /\ [Next]_vars => ApartInv'
<1> SUFFICES ASSUME TypeInv, OnceInv, ApartInv, [Next]_vars PROVE ApartInv'
  OBVIOUS
<1>1. /\ booked \in [Days -> SUBSET Ids] /\ credit \in SUBSET Ids
      /\ \A r \in lost : r[1] \in Ids
  BY LoopTypeParts DEF TypeInv, TypeOK, ControlTypeOK, FrameTypeOK, Refs
<1>2. ASSUME NEW r \in lost' PROVE rows'[r[1]] # <<>>
  <2>1. CASE r \in lost
    BY <1>1, <2>1, RowsNeverGo DEF ApartInv
  <2>2. CASE ReconcileRows
    <3>1. r \in ToClose /\ UNCHANGED rows
      BY <1>2, <2>2 DEF ReconcileRows, tables
    <3>2. OpenRows(r[1]) # {}
      BY <3>1 DEF ToClose, KnownIds
    <3> QED BY <3>1, <3>2 DEF OpenRows
  <2> QED BY <1>2, <2>1, <2>2, LostSteps
<1>3. ASSUME NEW i \in credit' PROVE rows'[i] # <<>>
  <2>1. CASE i \in credit
    BY <1>1, <2>1, RowsNeverGo DEF ApartInv
  <2>2. CASE i \notin credit
    <3>1. i \in Ids /\ rows[i] # <<>>
      BY <1>3, <2>2, CreditSteps DEF CreditStep, Persist, Forget
    <3> QED BY <3>1, RowsNeverGo
  <2> QED BY <2>1, <2>2
<1>4. /\ \A d, e \in Days : d # e => booked'[d] \cap booked'[e] = {}
      /\ \A d \in Days : credit' \cap booked'[d] = {}
  <2>1. CASE UNCHANGED <<credit, booked>> \/ (credit' = {} /\ UNCHANGED booked)
    BY <2>1 DEF ApartInv
  <2>2. ASSUME NEW i \in Ids, ~Counted(i), credit' = credit \cup {i}, UNCHANGED booked
        PROVE  \A d \in Days : credit' \cap booked'[d] = {}
    BY <2>2 DEF ApartInv, Counted
  <2>3. CASE Persist
    <3>1. credit' = {} /\ booked' = [booked EXCEPT ![rowDay] = @ \cup credit]
      BY <2>3 DEF Persist, Forget
    <3> QED BY <1>1, <3>1 DEF ApartInv
  <2> QED BY <2>1, <2>2, <2>3, CreditSteps DEF CreditStep, ApartInv
<1> QED BY <1>2, <1>3, <1>4 DEF ApartInv

---------------------------------------------------------------------------
(* TradeBook.  Every step of the bot is one of TradeBook's, or none.       *)

\* The day of a booked position is the one day it is booked on.
LEMMA DayIsThatDay ==
    ASSUME NEW B, NEW i, NEW d \in Days, i \in B[d], \A e \in Days : i \in B[e] => e = d
    PROVE  (CHOOSE e \in Days : i \in B[e]) = d
  OBVIOUS

\* A step that changes neither lives, rows nor books is none of TradeBook's.
LEMMA OpensOrCloses ==
    ASSUME TypeInv, PosStep, UNCHANGED <<rows, booked>>
    PROVE  [Book!BookNext]_(Book!bookVars)
<1> DEFINE life == [i \in Ids |-> LifeOf(i)]
<1>1. pos \in [Ids -> Positions]
  BY DEF TypeInv, TypeOK, BrokerTypeOK
<1>2. /\ [i \in Ids |-> ShownAs(i)]' = [i \in Ids |-> ShownAs(i)]
      /\ [i \in Ids |-> BookedOn(i)]' = [i \in Ids |-> BookedOn(i)]
  BY DEF ShownAs, BookedOn, OpenRows
<1>4. CASE Ordered \/ OpensOtherwise
  <2>1. PICK i \in Ids : \E who, stop : OpenPosition(i, who, stop)
    BY <1>4 DEF Ordered, OpensOtherwise, PlaceOrder, PlaceOrderLost
  <2> DEFINE new == pos'[i]
  <2>2. pos[i].st = "unused" /\ new.st = "open" /\ pos' = [pos EXCEPT ![i] = new]
    BY <1>1, <2>1 DEF OpenPosition
  <2> HIDE DEF new
  <2>3. life[i] = "none" /\ life' = [life EXCEPT ![i] = "open"]
    BY <1>1, <2>2 DEF LifeOf
  <2>4. Book!Open(i)
    BY <1>2, <2>3 DEF Book!Open
  <2> QED BY <2>4 DEF Book!BookNext
<1>5. CASE Closes
  <2>1. PICK i \in Ids, pnl \in Int : ClosePosition(i, pnl)
    BY <1>5 DEF Closes
  <2> DEFINE new == [pos[i] EXCEPT !.st = "closed", !.stop = NoStop, !.given = NoStop, !.pnl = pnl]
  <2>2. pos[i].st = "open" /\ new.st = "closed" /\ pos' = [pos EXCEPT ![i] = new]
    BY <1>1, <2>1 DEF ClosePosition, IsOpen, Positions
  <2> HIDE DEF new
  <2>3. life[i] = "open" /\ life' = [life EXCEPT ![i] = "closed"]
    BY <1>1, <2>2 DEF LifeOf, Positions
  <2>4. Book!Close(i)
    BY <1>2, <2>3 DEF Book!Close
  <2> QED BY <2>4 DEF Book!BookNext
<1>6. CASE Moves \/ UNCHANGED pos
  <2>1. \A i \in Ids : pos'[i].st = pos[i].st
    BY <1>6, MovesKeepLives
  <2>2. life' = life
    BY <2>1 DEF LifeOf
  <2> QED BY <1>2, <2>2 DEF Book!bookVars
<1> QED BY <1>4, <1>5, <1>6 DEF PosStep

LEMMA SomeRow == ASSUME NEW S, NEW s \in Seq(S), s # <<>> PROVE DOMAIN s # {}
<1>1. Len(s) \in Nat /\ DOMAIN s = 1 .. Len(s)
  OBVIOUS
<1>2. Len(s) = 0 => s = <<>>
  OBVIOUS
<1>3. 1 \in DOMAIN s
  BY <1>1, <1>2
<1> QED BY <1>3

\* Rows are made for positions that are not booked, and closed for positions
\* that are closed.
LEMMA ShowsOrSettles ==
    ASSUME TypeInv, TypeInv', ClosedInv, ClosedInv', BookInv', RowStep, UNCHANGED <<pos, booked>>
    PROVE  [Book!BookNext]_(Book!bookVars)
<1> DEFINE shown == [i \in Ids |-> ShownAs(i)]
           day == [i \in Ids |-> BookedOn(i)]
           life == [i \in Ids |-> LifeOf(i)]
<1>1. life' = life /\ day' = day
  BY DEF LifeOf, BookedOn
<1>2. ASSUME shown' = shown PROVE [Book!BookNext]_(Book!bookVars)
  BY <1>1, <1>2 DEF Book!bookVars
<1>3. CASE UNCHANGED rows
  BY <1>2, <1>3 DEF ShownAs, OpenRows
<1>4. ASSUME NEW i \in Ids, OnlyRowsOf(i) PROVE [Book!BookNext]_(Book!bookVars)
  <2>0. rows'[i] # <<>> => /\ pos[i].st \in {"open", "closed"}
                           /\ OpenRows(i)' = {} => pos[i].st = "closed"
    <3>1. rows'[i] \in Seq(Rows) /\ pos[i].st \in {"unused", "open", "closed"}
      BY DEF TypeInv, TypeOK, DatabaseTypeOK, BrokerTypeOK, Positions
    <3>2. rows'[i] # <<>> => pos'[i].st # "unused"
      BY DEF ClosedInv
    <3>3. rows'[i] # <<>> => DOMAIN rows'[i] # {}
      BY <3>1, SomeRow
    <3>4. pos'[i].st = "open" => DOMAIN rows'[i] = OpenRows(i)'
      BY DEF ClosedInv, ClosedRowMeansClosedPosition, OpenIds, IsOpen
    <3> QED BY <3>1, <3>2, <3>3, <3>4
  <2>1. shown' = [shown EXCEPT ![i] = shown'[i]]
    <3>1. ASSUME NEW j \in Ids, j # i PROVE ShownAs(j)' = ShownAs(j)
      <4>1. rows'[j] = rows[j]
        BY <1>4, <3>1 DEF OnlyRowsOf
      <4>2. OpenRows(j)' = OpenRows(j)
        BY <4>1 DEF OpenRows
      <4> QED BY <4>1, <4>2 DEF ShownAs
    <3>2. shown' = [j \in Ids |-> ShownAs(j)']
      OBVIOUS
    <3> QED BY <3>1, <3>2
  <2>2. CASE shown'[i] = shown[i]
    BY <1>2, <2>1, <2>2
  <2>3. CASE shown'[i] = "open" /\ shown[i] # "open"
    <3>1. rows'[i] # <<>> /\ OpenRows(i)' # {}
      BY <2>3 DEF ShownAs
    <3>2. life[i] # "none"
      BY <2>0, <3>1 DEF LifeOf
    <3>3. day[i] = 0
      BY <3>1 DEF BookInv, Settled, Counted, BookedOn
    <3>4. shown[i] = "closed" => life[i] = "closed"
      <4> SUFFICES ASSUME shown[i] = "closed" PROVE pos[i].st = "closed"
        BY DEF LifeOf
      <4>1. rows[i] # <<>> /\ OpenRows(i) = {}
        BY DEF ShownAs
      <4>2. rows[i] \in Seq(Rows)
        BY DEF TypeInv, TypeOK, DatabaseTypeOK
      <4>3. pos[i].st \in {"unused", "open", "closed"}
        BY DEF TypeInv, TypeOK, BrokerTypeOK, Positions
      <4>4. DOMAIN rows[i] # {}
        BY <4>1, <4>2, SomeRow
      <4>5. i \notin OpenIds
        BY <4>1, <4>4 DEF ClosedInv, ClosedRowMeansClosedPosition
      <4>6. pos[i].st # "unused"
        BY <4>1 DEF ClosedInv
      <4> QED BY <4>3, <4>5, <4>6 DEF OpenIds, IsOpen
    <3>5. shown[i] \in {"none", "closed"}
      BY <2>3 DEF ShownAs
    <3>6. Book!Show(i)
      BY <1>1, <2>1, <2>3, <3>2, <3>3, <3>4, <3>5 DEF Book!Show, Book!Unbooked
    <3> QED BY <3>6 DEF Book!BookNext
  <2>4. CASE shown'[i] = "closed" /\ shown[i] # "closed"
    <3>1. rows'[i] # <<>> /\ OpenRows(i)' = {}
      BY <2>4 DEF ShownAs
    <3>2. shown[i] = "open"
      BY <1>4, <2>4, <3>1 DEF OnlyRowsOf, ShownAs
    <3>3. life[i] = "closed"
      BY <2>0, <3>1 DEF LifeOf
    <3>4. Book!Settle(i)
      BY <1>1, <2>1, <2>4, <3>2, <3>3 DEF Book!Settle
    <3> QED BY <3>4 DEF Book!BookNext
  <2>5. shown'[i] = "none" => shown[i] = "none"
    BY <1>4 DEF OnlyRowsOf, ShownAs
  <2>6. shown'[i] \in {"none", "open", "closed"}
    BY DEF ShownAs
  <2> QED BY <2>2, <2>3, <2>4, <2>5, <2>6
<1> QED BY <1>3, <1>4, RowStepsTouchOne

\* The end of a tick books what the loop has in hand on the tick's day.
LEMMA BooksAtTheEnd ==
    ASSUME TypeInv, BookInv, ApartInv, ApartInv', Persist
    PROVE  [Book!BookNext]_(Book!bookVars)
<1> DEFINE shown == [i \in Ids |-> ShownAs(i)]
           day == [i \in Ids |-> BookedOn(i)]
           life == [i \in Ids |-> LifeOf(i)]
<1>1. /\ UNCHANGED <<pos, rows>>
      /\ booked' = [booked EXCEPT ![rowDay] = @ \cup credit]
      /\ booked \in [Days -> SUBSET Ids] /\ credit \in SUBSET Ids /\ rowDay \in Days
  BY LoopTypeParts DEF Persist, brokerVars, TypeInv, TypeOK, ControlTypeOK, FrameTypeOK
<1>2. shown' = shown /\ life' = life
  BY <1>1 DEF ShownAs, OpenRows, LifeOf
<1>3. ASSUME NEW i \in credit
      PROVE  life[i] = "closed" /\ shown[i] = "closed" /\ day[i] = 0 /\ day'[i] = rowDay
  <2>1. life[i] = "closed"
    BY <1>1 DEF BookInv, Settled, Counted, LifeOf
  <2>2. shown[i] = "closed"
    BY <1>1 DEF BookInv, Settled, Counted, ApartInv, ShownAs
  <2>3. day[i] = 0
    BY <1>1 DEF ApartInv, BookedOn
  <2>4. i \in booked'[rowDay] /\ \A e \in Days : i \in booked'[e] => e = rowDay
    BY <1>1 DEF ApartInv
  <2>5. (CHOOSE e \in Days : i \in booked'[e]) = rowDay
    BY <1>1, <2>4, DayIsThatDay
  <2>6. day'[i] = rowDay
    BY <1>1, <2>4, <2>5 DEF BookedOn
  <2> QED BY <2>1, <2>2, <2>3, <2>6
<1>4. ASSUME NEW i \in Ids \ credit PROVE day'[i] = day[i]
  <2>1. \A d \in Days : i \in booked'[d] <=> i \in booked[d]
    BY <1>1
  <2>2. CASE \A d \in Days : i \notin booked[d]
    BY <2>1, <2>2 DEF BookedOn
  <2>3. ASSUME NEW d \in Days, i \in booked[d] PROVE day'[i] = day[i]
    <3>1. \A e \in Days : i \in booked[e] => e = d
      BY <2>3 DEF ApartInv
    <3>2. (CHOOSE e \in Days : i \in booked[e]) = d
      BY <2>3, <3>1, DayIsThatDay
    <3>3. (CHOOSE e \in Days : i \in booked'[e]) = d
      BY <2>1, <2>3, <3>1, DayIsThatDay
    <3> QED BY <2>1, <2>3, <3>2, <3>3 DEF BookedOn
  <2> QED BY <2>2, <2>3
<1>5. day' = [i \in Ids |-> IF i \in credit THEN rowDay ELSE day[i]]
  BY <1>1, <1>3, <1>4
<1>6. Book!Book(credit, rowDay)
  BY <1>2, <1>3, <1>5 DEF Book!Book, Book!Unbooked
<1>7. rowDay \in 1 .. MaxDay
  BY <1>1 DEF Days
<1> QED BY <1>1, <1>6, <1>7 DEF Book!BookNext

LEMMA BookStarts == Init => Book!BookInit
<1> SUFFICES ASSUME Init PROVE Book!BookInit
  OBVIOUS
<1>1. \A i \in Ids : LifeOf(i) = "none" /\ ShownAs(i) = "none" /\ BookedOn(i) = 0
  BY DEF Init, BrokerInit, DatabaseInit, LoopInit, LifeOf, ShownAs, BookedOn
<1> QED BY <1>1 DEF Book!BookInit, Book!Unbooked

\* Whatever fails, races or dies, the bot takes a position along the life that
\* TradeBook promises: opened, shown, closed, settled and booked on one day,
\* in this order, and booked once.
THEOREM BotImplementsTradeBook == Spec => ImplementsTradeBook
<1>1. TypeInv /\ ClosedInv /\ BookInv /\ OnceInv /\ ApartInv /\ [Next]_vars
        => TypeInv' /\ ClosedInv' /\ BookInv' /\ OnceInv' /\ ApartInv'
  BY TypeInvNext, ClosedInvNext, BookInvNext, OnceInvNext, ApartInvNext
<1>2. TypeInv /\ ClosedInv /\ BookInv /\ OnceInv /\ ApartInv /\ [Next]_vars
        => [Book!BookNext]_(Book!bookVars)
  <2> SUFFICES ASSUME TypeInv, ClosedInv, BookInv, OnceInv, ApartInv, [Next]_vars
               PROVE  [Book!BookNext]_(Book!bookVars)
    OBVIOUS
  <2>1. TypeInv' /\ ClosedInv' /\ BookInv' /\ ApartInv'
    BY <1>1
  <2> QED BY <2>1, PosSteps, StepShapes, OpensOrCloses, ShowsOrSettles, BooksAtTheEnd DEF StepShape
<1>3. Init => TypeInv /\ ClosedInv /\ BookInv /\ OnceInv /\ ApartInv
  BY TypeInvInit, ClosedInvInit, BookInvInit, OnceInvInit, ApartInvInit
<1> QED BY <1>1, <1>2, <1>3, BookStarts, PTL DEF Spec, ImplementsTradeBook, Book!BookSpec
=============================================================================
