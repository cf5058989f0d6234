------------------------ MODULE TradingBotRowProofs ------------------------
(***************************************************************************)
(* What the trades table shows of the positions, for every value of the    *)
(* constants: ClosedRowMeansClosedPosition, OneOpenRow, OutcomeHasOneRow,  *)
(* BookedIsFinal and RowStopNotAhead.                                      *)
(*                                                                         *)
(* Each task that closes a row does so some awaits after it learnt that    *)
(* the position is closed: from a listing that lacked it, or from a call   *)
(* that closed it.  ClosedInv follows that knowledge from where it is      *)
(* acquired to where it is used; it survives every interleaving because a  *)
(* closed position never opens again, and a row is only made for a         *)
(* position that was there before the listing it is compared with.         *)
(*                                                                         *)
(* Nothing in the schema keeps broker ids apart.  What does is that only   *)
(* two steps of one task make a row: reconcile, of a position it found no  *)
(* open row for, and the entry, of a position that is new.  BookInv        *)
(* follows what the tick knows of the rows and positions in its hands from *)
(* the listing to the row; every other step can only close rows, which     *)
(* spoils none of it.                                                      *)
(*                                                                         *)
(* The loop may loosen a stop the owner tightened since the listing, but   *)
(* never below what it was listed with, and the table has shown no more    *)
(* than that since, or a stop the owner gave up.  StopInv follows the      *)
(* stops the tick has in its hands.                                        *)
(***************************************************************************)
EXTENDS TradingBotTypes

\* The rows in some task's hands that it is about to close.
AboutToClose == lost \cup kill.committing \cup closing

ClosedInv ==
    /\ \A i \in Ids : rows[i] # <<>> => pos[i].st # "unused"
    /\ \A e \in found : pos[e.id].st # "unused"
    /\ pc = "rows" => \A i \in Ids : rows[i] # <<>> /\ i \notin ListedIds => pos[i].st = "closed"
    /\ \A r \in AboutToClose : pos[r[1]].st = "closed"
    /\ \A o \in outcomes : o.kind = "close" => pos[o.id].st = "closed"
    /\ ClosedRowMeansClosedPosition

---------------------------------------------------------------------------
(* A position's life goes one way.                                         *)

Onward ==
    \A i \in Ids :
        /\ pos[i].st # "unused" => pos'[i].st # "unused"
        /\ pos[i].st = "closed" => pos'[i].st = "closed"

LEMMA LifeGoesOn == ASSUME TypeInv, [Next]_vars PROVE Onward
<1>1. pos \in [Ids -> Positions]
  BY DEF TypeInv, TypeOK, BrokerTypeOK
<1>2. CASE Ordered
  BY <1>1, <1>2 DEF Ordered, PlaceOrder, PlaceOrderLost, OpenPosition, Onward, Positions
<1>3. CASE Closes
  <2>1. PICK i \in Ids, pnl \in Int : ClosePosition(i, pnl)
    BY <1>3 DEF Closes
  <2>2. pos' = [pos EXCEPT ![i] = [@ EXCEPT !.st = "closed", !.stop = NoStop, !.given = NoStop, !.pnl = pnl]]
    BY <2>1 DEF ClosePosition
  <2> QED BY <1>1, <2>2 DEF Onward, Positions
<1>4. CASE Moves
  BY <1>1, <1>4 DEF Moves, ModifyStopLoss, MoveByHand, Onward, Positions
<1>5. CASE OpensOtherwise
  BY <1>1, <1>5 DEF OpensOtherwise, OpenPosition, Onward, Positions
<1>6. CASE UNCHANGED pos
  BY <1>6 DEF Onward
<1> QED BY <1>2, <1>3, <1>4, <1>5, <1>6, PosSteps DEF PosStep

---------------------------------------------------------------------------
(* What a step may do to the rows.                                         *)

\* The parts of the invariant that say what rows and positions have to do
\* with each other.
RowsAgree ==
    /\ \A i \in Ids : rows[i] # <<>> => pos[i].st # "unused"
    /\ ClosedRowMeansClosedPosition

\* No position gets its first row.
NoFirstRow == \A i \in Ids : rows'[i] # <<>> => rows[i] # <<>>

LEMMA RowsUnchanged ==
    ASSUME TypeInv, RowsAgree, Onward, UNCHANGED rows
    PROVE  RowsAgree' /\ NoFirstRow
<1>1. pos \in [Ids -> Positions] /\ rows \in [Ids -> Seq(Rows)]
  BY DEF TypeInv, TypeOK, BrokerTypeOK, DatabaseTypeOK
<1>2. \A i \in Ids : rows[i] # <<>> => pos'[i].st # "unused"
  BY DEF RowsAgree, Onward
<1>3. \A i \in Ids : pos'[i].st = "open" => DOMAIN rows'[i] = OpenRows(i)'
  <2> SUFFICES ASSUME NEW i \in Ids, pos'[i].st = "open" PROVE DOMAIN rows'[i] = OpenRows(i)'
    OBVIOUS
  <2>1. CASE rows[i] = <<>>
    BY <2>1 DEF OpenRows
  <2>2. CASE rows[i] # <<>>
    <3>1. pos[i].st = "open"
      BY <1>1, <2>2 DEF RowsAgree, Onward, Positions
    <3>2. DOMAIN rows[i] = OpenRows(i)
      BY <3>1 DEF RowsAgree, ClosedRowMeansClosedPosition, OpenIds, IsOpen
    <3> QED BY <3>2 DEF OpenRows
  <2> QED BY <2>1, <2>2
<1> QED BY <1>2, <1>3 DEF RowsAgree, ClosedRowMeansClosedPosition, OpenIds, IsOpen, NoFirstRow

LEMMA RowCreated ==
    ASSUME TypeInv, RowsAgree, UNCHANGED pos, NEW i \in Ids, NEW stop \in Stops,
           CreateTrade(i, stop), pos[i].st # "unused"
    PROVE  RowsAgree'
<1> DEFINE row == [status |-> "open", stop |-> stop]
<1>1. rows \in [Ids -> Seq(Rows)] /\ row \in Rows
  BY DEF TypeInv, TypeOK, DatabaseTypeOK, Rows
<1>2. rows' = [rows EXCEPT ![i] = Append(rows[i], row)]
  BY DEF CreateTrade
<1>3. \A j \in Ids : rows'[j] # <<>> => pos[j].st # "unused"
  BY <1>1, <1>2 DEF RowsAgree
<1>4. ASSUME NEW j \in Ids, pos[j].st = "open" PROVE DOMAIN rows'[j] = OpenRows(j)'
  <2>1. DOMAIN rows[j] = OpenRows(j)
    BY <1>4 DEF RowsAgree, ClosedRowMeansClosedPosition, OpenIds, IsOpen
  <2>2. \A k \in DOMAIN rows[j] : rows[j][k].status = "open"
    BY <2>1 DEF OpenRows
  <2>3. CASE j = i
    <3>1. rows'[i] = Append(rows[i], row)
      BY <1>1, <1>2
    <3>2. \A k \in DOMAIN rows'[i] : rows'[i][k].status = "open"
      <4> SUFFICES ASSUME NEW k \in DOMAIN rows'[i] PROVE rows'[i][k].status = "open"
        OBVIOUS
      <4>1. k \in 1 .. Len(rows[i]) + 1
        BY <1>1, <3>1
      <4>2. CASE k = Len(rows[i]) + 1
        BY <1>1, <3>1, <4>2
      <4>3. CASE k \in 1 .. Len(rows[i])
        BY <1>1, <2>2, <2>3, <3>1, <4>3
      <4> QED BY <1>1, <4>1, <4>2, <4>3
    <3> QED BY <2>3, <3>2 DEF OpenRows
  <2>4. CASE j # i
    <3>1. rows'[j] = rows[j]
      BY <1>1, <1>2, <2>4
    <3> QED BY <2>1, <3>1 DEF OpenRows
  <2> QED BY <2>3, <2>4
<1> QED BY <1>3, <1>4 DEF RowsAgree, ClosedRowMeansClosedPosition, OpenIds, IsOpen

\* A row replaced where it is, its status kept or its position closed.
LEMMA RowReplaced ==
    ASSUME TypeInv, RowsAgree, UNCHANGED pos, NEW i \in Ids, NEW k, NEW row,
           rows' = [rows EXCEPT ![i] = [rows[i] EXCEPT ![k] = row]],
           pos[i].st = "closed" \/ (k \in DOMAIN rows[i] => row.status = rows[i][k].status)
    PROVE  RowsAgree' /\ NoFirstRow
<1>1. rows \in [Ids -> Seq(Rows)]
  BY DEF TypeInv, TypeOK, DatabaseTypeOK
<1>2. \A j \in Ids : DOMAIN rows'[j] = DOMAIN rows[j]
  BY <1>1
<1>3. \A j \in Ids : rows[j] = <<>> => rows'[j] = <<>>
  BY <1>1, <1>2
<1>4. ASSUME NEW j \in Ids, pos[j].st = "open" PROVE DOMAIN rows'[j] = OpenRows(j)'
  <2>1. DOMAIN rows[j] = OpenRows(j)
    BY <1>4 DEF RowsAgree, ClosedRowMeansClosedPosition, OpenIds, IsOpen
  <2>2. \A m \in DOMAIN rows[j] : rows[j][m].status = "open"
    BY <2>1 DEF OpenRows
  <2>3. \A m \in DOMAIN rows[j] : rows'[j][m].status = "open"
    <3>1. CASE j # i
      BY <1>1, <2>2, <3>1
    <3>2. CASE j = i
      <4>1. k \in DOMAIN rows[i] => row.status = "open"
        BY <1>4, <2>2, <3>2
      <4>2. rows'[i] = [rows[i] EXCEPT ![k] = row]
        BY <1>1
      <4> QED BY <2>2, <3>2, <4>1, <4>2
    <3> QED BY <3>1, <3>2
  <2> QED BY <1>2, <2>3 DEF OpenRows
<1> QED BY <1>3, <1>4 DEF RowsAgree, ClosedRowMeansClosedPosition, OpenIds, IsOpen, NoFirstRow

LEMMA RowClosed ==
    ASSUME TypeInv, RowsAgree, UNCHANGED pos, NEW r \in Refs, CloseTrade(r),
           pos[r[1]].st = "closed"
    PROVE  RowsAgree' /\ NoFirstRow
<1> DEFINE row == [rows[r[1]][r[2]] EXCEPT !.status = "closed"]
<1>1. r[1] \in Ids
  BY DEF Refs
<1>2. rows' = [rows EXCEPT ![r[1]] = [rows[r[1]] EXCEPT ![r[2]] = row]]
  BY DEF CloseTrade
<1> HIDE DEF row
<1> QED BY <1>1, <1>2, RowReplaced

LEMMA RowStopMoved ==
    ASSUME TypeInv, RowsAgree, UNCHANGED pos, NEW i \in Ids, NEW stop \in Stops,
           UpdateTradeStop(<<i, 1>>, stop)
    PROVE  RowsAgree' /\ NoFirstRow
<1> DEFINE row == [rows[i][1] EXCEPT !.stop = stop]
<1>1. rows' = [rows EXCEPT ![i] = [rows[i] EXCEPT ![1] = row]]
  BY DEF UpdateTradeStop
<1>2. 1 \in DOMAIN rows[i] => row.status = rows[i][1].status
  <2>1. rows[i] \in Seq(Rows)
    BY DEF TypeInv, TypeOK, DatabaseTypeOK
  <2> QED BY <2>1 DEF Rows
<1> HIDE DEF row
<1> QED BY <1>1, <1>2, RowReplaced
---------------------------------------------------------------------------
(* The invariant is inductive.                                             *)

\* What a step that learns nothing new about positions has to satisfy.
LEMMA ClosedInvKept ==
    ASSUME TypeInv, ClosedInv, Onward, RowsAgree',
           \A e \in found' : e \in found \/ pos'[e.id].st # "unused",
           pc' = "rows" => pc = "rows" /\ found' = found /\ NoFirstRow,
           \A r \in AboutToClose' : r \in AboutToClose \/ pos'[r[1]].st = "closed",
           \A o \in outcomes' : o.kind = "close" =>
               \/ pos'[o.id].st = "closed"
               \/ \E q \in outcomes : q.kind = "close" /\ q.id = o.id
    PROVE  ClosedInv'
<1>1. /\ \A e \in found : e.id \in Ids
      /\ \A r \in AboutToClose : r[1] \in Ids
      /\ \A o \in outcomes : o.id \in Ids
  BY LoopTypeParts
     DEF TypeInv, TypeOK, FrameTypeOK, HandlersTypeOK, KillStates, Listings, Outcomes, Refs, AboutToClose
<1>2. \A e \in found' : pos'[e.id].st # "unused"
  BY <1>1 DEF ClosedInv, Onward
<1>3. pc' = "rows" => \A i \in Ids : rows'[i] # <<>> /\ i \notin ListedIds' => pos'[i].st = "closed"
  BY DEF ClosedInv, Onward, NoFirstRow, ListedIds
<1>4. \A r \in AboutToClose' : pos'[r[1]].st = "closed"
  BY <1>1 DEF ClosedInv, Onward
<1>5. \A o \in outcomes' : o.kind = "close" => pos'[o.id].st = "closed"
  BY <1>1 DEF ClosedInv, Onward
<1> QED BY <1>2, <1>3, <1>4, <1>5 DEF ClosedInv, RowsAgree

\* The same, for a step that leaves the rows alone as well.
LEMMA ClosedInvKeptRows ==
    ASSUME TypeInv, ClosedInv, Onward, UNCHANGED rows,
           found' \subseteq found,
           pc' = "rows" => pc = "rows" /\ found' = found,
           \A r \in AboutToClose' : r \in AboutToClose \/ pos'[r[1]].st = "closed",
           \A o \in outcomes' : o.kind = "close" =>
               \/ pos'[o.id].st = "closed"
               \/ \E q \in outcomes : q.kind = "close" /\ q.id = o.id
    PROVE  ClosedInv'
<1>1. RowsAgree' /\ NoFirstRow
  BY RowsUnchanged DEF ClosedInv, RowsAgree
<1> QED BY <1>1, ClosedInvKept

\* Nothing of the frame survives an exception or a crash.
LEMMA ClosedInvForget ==
    ASSUME TypeInv, ClosedInv, Onward, RowsAgree', Forget, pc' # "rows",
           \A r \in kill'.committing \cup closing' : r \in AboutToClose \/ pos'[r[1]].st = "closed"
    PROVE  ClosedInv'
<1>1. found' = {} /\ lost' = {} /\ outcomes' = {}
  BY DEF Forget
<1> QED BY <1>1, ClosedInvKept DEF AboutToClose

LEMMA ReconcileKeepsClosedInv ==
    ASSUME TypeInv, ClosedInv, Onward, ReconcileStep, UNCHANGED handlerVars
    PROVE  ClosedInv'
<1>1. RowsAgree /\ UNCHANGED <<kill, closing>>
  BY DEF ClosedInv, RowsAgree, handlerVars
<1>2. /\ \A e \in found : e.id \in Ids /\ e.stop \in Stops
      /\ \A r \in lost : r \in Refs /\ r[1] \in Ids
  BY LoopTypeParts DEF TypeInv, TypeOK, FrameTypeOK, Listings, Refs
<1>3. CASE ReconcileList
  <2>1. found' = Listing /\ pc' = "rows" /\ UNCHANGED <<pos, rows, lost, outcomes>>
    BY <1>3 DEF ReconcileList, GoTo, brokerVars, tables
  <2>2. RowsAgree'
    BY <1>1, <2>1, RowsUnchanged
  <2>3. \A e \in Listing : pos[e.id].st = "open"
    BY DEF Listing, OpenIds, IsOpen
  <2>4. ASSUME NEW i \in Ids, rows[i] # <<>>, i \notin ListedIds' PROVE pos[i].st = "closed"
    <3>1. ASSUME i \in OpenIds PROVE FALSE
      <4>1. [id |-> i, stop |-> pos[i].stop] \in found'
        BY <2>1, <3>1 DEF Listing
      <4>2. i \in ListedIds'
        BY <4>1 DEF ListedIds
      <4> QED BY <2>4, <4>2
    <3>2. pos[i].st \in {"unused", "open", "closed"}
      BY DEF TypeInv, TypeOK, BrokerTypeOK, Positions
    <3> QED BY <2>4, <3>1, <3>2 DEF ClosedInv, OpenIds, IsOpen
  <2> QED BY <1>1, <2>1, <2>2, <2>3, <2>4 DEF ClosedInv, RowsAgree, AboutToClose
<1>4. CASE ReconcileRows
  <2>1. lost' = ToClose /\ found' = ToAdopt /\ pc = "rows" /\ pc' = "reconcile" /\ UNCHANGED <<pos, rows, outcomes>>
    BY <1>4 DEF ReconcileRows, GoTo, brokerVars, tables
  <2>2. ASSUME NEW r \in ToClose PROVE pos[r[1]].st = "closed"
    <3>1. PICK i \in KnownIds \ ListedIds : r = <<i, LastOpenRow(i)>>
      BY DEF ToClose
    <3>2. i \in Ids /\ rows[i] # <<>>
      BY <3>1 DEF KnownIds, OpenRows
    <3> QED BY <2>1, <3>1, <3>2 DEF ClosedInv
  <2>3. ToAdopt \subseteq found
    BY DEF ToAdopt
  <2> QED BY <1>1, <2>1, <2>2, <2>3, ClosedInvKeptRows DEF AboutToClose
<1>5. CASE ReconcileDone
  <2>1. found' = found /\ lost' = lost /\ UNCHANGED <<pos, rows>> /\ pc' # "rows" /\ outcomes' \subseteq outcomes
    BY <1>5 DEF ReconcileDone, Forget, frame, brokerVars, tables
  <2> QED BY <1>1, <2>1, ClosedInvKeptRows DEF AboutToClose
<1>6. ASSUME NEW r \in lost, ReconcileClose(r) \/ ReconcileLookupFails(r) PROVE ClosedInv'
  <2>1. /\ CloseTrade(r) /\ lost' = lost \ {r} /\ pc' = "reconcile"
        /\ UNCHANGED <<pos, found, outcomes>>
    BY <1>6 DEF ReconcileClose, ReconcileLookupFails, GoTo, brokerVars
  <2>2. pos[r[1]].st = "closed"
    BY DEF ClosedInv, AboutToClose
  <2>3. RowsAgree'
    BY <1>1, <1>2, <2>1, <2>2, RowClosed
  <2> QED BY <1>1, <2>1, <2>3, ClosedInvKept DEF AboutToClose
<1>7. ASSUME NEW r \in lost, ReconcileHistoryLags(r) PROVE ClosedInv'
  <2>1. CloseTrade(r) /\ Forget /\ pc' # "rows" /\ UNCHANGED pos
    BY <1>7 DEF ReconcileHistoryLags, Raise, brokerVars
  <2>2. pos[r[1]].st = "closed"
    BY DEF ClosedInv, AboutToClose
  <2>3. RowsAgree'
    BY <1>1, <1>2, <2>1, <2>2, RowClosed
  <2> QED BY <1>1, <2>1, <2>3, ClosedInvForget DEF AboutToClose
<1>8. ASSUME NEW e \in found, ReconcileAdopt(e) PROVE ClosedInv'
  <2>1. /\ CreateTrade(e.id, e.stop) /\ found' = found \ {e} /\ pc' = "reconcile"
        /\ UNCHANGED <<pos, lost, outcomes>>
    BY <1>8 DEF ReconcileAdopt, GoTo, brokerVars
  <2>2. pos[e.id].st # "unused"
    BY DEF ClosedInv
  <2>3. RowsAgree'
    BY <1>1, <1>2, <2>1, <2>2, RowCreated
  <2> QED BY <1>1, <2>1, <2>3, ClosedInvKept DEF AboutToClose
<1> QED BY <1>3, <1>4, <1>5, <1>6, <1>7, <1>8 DEF ReconcileStep, ReconcileClose, ReconcileLookupFails

LEMMA ManageKeepsClosedInv ==
    ASSUME TypeInv, ClosedInv, Onward, ManageStep, UNCHANGED handlerVars
    PROVE  ClosedInv'
<1>1. RowsAgree /\ UNCHANGED <<kill, closing>>
  BY DEF ClosedInv, RowsAgree, handlerVars
<1>2. /\ \A e \in found : e.id \in Ids
      /\ pos \in [Ids -> Positions]
  BY LoopTypeParts DEF TypeInv, TypeOK, FrameTypeOK, Listings, BrokerTypeOK
<1>3. CASE FetchPositions
  <2>1. found' = Listing /\ pc' # "rows" /\ UNCHANGED <<pos, rows, lost, outcomes>>
    BY <1>3 DEF FetchPositions, GoTo, brokerVars, tables
  <2>2. RowsAgree'
    BY <1>1, <2>1, RowsUnchanged
  <2>3. \A e \in Listing : pos[e.id].st # "unused"
    BY DEF Listing, OpenIds, IsOpen
  <2> QED BY <1>1, <2>1, <2>2, <2>3, ClosedInvKept DEF AboutToClose
<1>4. CASE ManageDone \/ OutcomesDone
  <2>1. found' \subseteq found /\ pc' # "rows" /\ outcomes' \subseteq outcomes /\ UNCHANGED <<pos, rows, lost>>
    BY <1>4 DEF ManageDone, OutcomesDone, GoTo, brokerVars, tables
  <2> QED BY <1>1, <2>1, ClosedInvKeptRows DEF AboutToClose
<1>5. ASSUME NEW e \in found, NEW p \in Pnls, ManageClose(e, p) PROVE ClosedInv'
  <2>1. /\ pos' = [pos EXCEPT ![e.id] = [@ EXCEPT !.st = "closed", !.stop = NoStop, !.given = NoStop, !.pnl = p]]
        /\ found' \subseteq found /\ pc' # "rows" /\ UNCHANGED <<rows, lost>>
        /\ outcomes' = outcomes \cup {[id |-> e.id, stop |-> e.stop, kind |-> "close", applied |-> FALSE]}
    BY <1>5 DEF ManageClose, ClosePosition, Managed, GoTo, tables
  <2>2. pos'[e.id].st = "closed"
    BY <1>2, <2>1 DEF Positions
  <2>3. \A o \in outcomes' : o \in outcomes \/ pos'[o.id].st = "closed"
    <3> DEFINE new == [id |-> e.id, stop |-> e.stop, kind |-> "close", applied |-> FALSE]
    <3>1. new.id = e.id
      OBVIOUS
    <3>2. outcomes' = outcomes \cup {new}
      BY <2>1
    <3> HIDE DEF new
    <3> QED BY <2>2, <3>1, <3>2
  <2>4. AboutToClose' = AboutToClose
    BY <1>1, <2>1 DEF AboutToClose
  <2> HIDE DEF ClosedInv
  <2> QED BY <2>1, <2>3, <2>4, ClosedInvKeptRows
<1>6. ASSUME NEW e \in found, NEW s \in 0 .. MaxStop, ManageMove(e, s) PROVE ClosedInv'
  <2>1. /\ found' \subseteq found /\ pc' # "rows" /\ UNCHANGED <<rows, lost>>
        /\ outcomes' = outcomes \cup {[id |-> e.id, stop |-> s, kind |-> "move", applied |-> FALSE]}
    BY <1>6 DEF ManageMove, Managed, GoTo, tables
  <2> QED BY <1>1, <2>1, ClosedInvKeptRows DEF AboutToClose
<1>7. ASSUME NEW e \in found, \/ ManageRefused(e)
                              \/ \E p \in Pnls : ManageCloseUnconfirmed(e, p)
      PROVE ClosedInv'
  <2>1. Forget /\ pc' # "rows" /\ UNCHANGED rows
    BY <1>7 DEF ManageRefused, ManageCloseUnconfirmed, Raise, tables
  <2>2. RowsAgree'
    BY <1>1, <2>1, RowsUnchanged
  <2> QED BY <1>1, <2>1, <2>2, ClosedInvForget DEF AboutToClose
<1>8. ASSUME NEW o \in outcomes, ApplyOutcome(o) PROVE ClosedInv'
  <2>1. o \in Outcomes /\ o.id \in Ids /\ o.stop \in Stops /\ UNCHANGED pos
    BY <1>8, LoopTypeParts DEF TypeInv, TypeOK, FrameTypeOK, Outcomes, ApplyOutcome, brokerVars
  <2>2. CASE Len(rows[o.id]) > 1
    <3>1. Forget /\ pc' # "rows" /\ UNCHANGED rows
      BY <1>8, <2>2 DEF ApplyOutcome, Raise
    <3>2. RowsAgree'
      BY <1>1, <3>1, RowsUnchanged
    <3> QED BY <1>1, <3>1, <3>2, ClosedInvForget DEF AboutToClose
  <2>3. CASE ~(Len(rows[o.id]) > 1)
    <3>1. /\ WriteOutcome(o) /\ pc' # "rows" /\ UNCHANGED <<found, lost>>
          /\ outcomes' = (outcomes \ {o}) \cup {[o EXCEPT !.applied = TRUE]}
      BY <1>8, <2>3 DEF ApplyOutcome, GoTo
    <3>2. RowsAgree'
      <4>1. CASE UNCHANGED rows
        BY <1>1, <4>1, RowsUnchanged
      <4>2. CASE UpdateTradeStop(<<o.id, 1>>, o.stop)
        BY <1>1, <2>1, <4>2, RowStopMoved
      <4>3. CASE o.kind = "close" /\ CloseTrade(<<o.id, 1>>)
        <5>1. <<o.id, 1>> \in Refs /\ pos[o.id].st = "closed"
          BY <2>1, <4>3 DEF Refs, ClosedInv
        <5> QED BY <1>1, <2>1, <4>3, <5>1, RowClosed
      <4> QED BY <3>1, <4>1, <4>2, <4>3 DEF WriteOutcome
    <3>3. LET q == [o EXCEPT !.applied = TRUE] IN q.id = o.id /\ q.kind = o.kind
      BY <2>1 DEF Outcomes
    <3> QED BY <1>1, <3>1, <3>2, <3>3, ClosedInvKept DEF AboutToClose
  <2> QED BY <2>2, <2>3
<1> QED BY <1>3, <1>4, <1>5, <1>6, <1>7, <1>8 DEF ManageStep

LEMMA LoopKeepsClosedInv ==
    ASSUME TypeInv, ClosedInv, Onward, Loop
    PROVE  ClosedInv'
<1>1. RowsAgree /\ UNCHANGED <<kill, closing>> /\ UNCHANGED handlerVars
  BY DEF ClosedInv, RowsAgree, handlerVars, Loop
<1>2. CASE TickStart \/ TickPaused \/ Restart \/ BreakerSelect \/ BreakerInsert
         \/ BreakerReselect \/ BreakerReinsert
  <2>1. /\ UNCHANGED <<rows, found, lost, outcomes>>
        /\ pc' = "rows" => pc = "rows"
    BY <1>2 DEF TickStart, TickPaused, Restart, BreakerSelect, BreakerInsert, BreakerReselect, BreakerReinsert,
                GoTo, loopVars, frame, tables
  <2> QED BY <1>1, <2>1, ClosedInvKeptRows DEF AboutToClose
<1>3. CASE TickFails \/ BreakerInsertConflicts
  <2>1. Forget /\ pc' # "rows" /\ UNCHANGED rows
    BY <1>3 DEF TickFails, BreakerInsertConflicts, Raise, tables
  <2>2. RowsAgree'
    BY <1>1, <2>1, RowsUnchanged
  <2> QED BY <1>1, <2>1, <2>2, ClosedInvForget DEF AboutToClose
<1>4. CASE ReconcileStep
  BY <1>1, <1>4, ReconcileKeepsClosedInv
<1>5. CASE ManageStep
  BY <1>1, <1>5, ManageKeepsClosedInv
<1>6. CASE FlipJudged \/ FlipEnds \/ FlipGoesOn \/ NoEntry
  <2>1. UNCHANGED <<rows, found, lost, outcomes>> /\ pc' # "rows"
    BY <1>6 DEF FlipJudged, FlipEnds, FlipGoesOn, NoEntry, GoTo, frame, tables
  <2> QED BY <1>1, <2>1, ClosedInvKeptRows DEF AboutToClose
<1>7. CASE PlaceOrderLate \/ Persist \/ \E i \in Ids : PlaceOrderLost(i)
  <2>1. Forget /\ pc' # "rows" /\ UNCHANGED rows
    BY <1>7 DEF PlaceOrderLate, PlaceOrderLost, Persist, Raise, tables
  <2>2. RowsAgree'
    BY <1>1, <2>1, RowsUnchanged
  <2> QED BY <1>1, <2>1, <2>2, ClosedInvForget DEF AboutToClose
<1>8. ASSUME NEW i \in Ids, PlaceOrder(i) PROVE ClosedInv'
  <2>1. /\ pos' = [pos EXCEPT ![i] = [st |-> "open", by |-> "bot", stop |-> 0, given |-> NoStop, pnl |-> 0]]
        /\ found' = {[id |-> i, stop |-> 0]} /\ pc' # "rows" /\ UNCHANGED <<rows, lost, outcomes>>
    BY <1>8 DEF PlaceOrder, OpenPosition, GoTo, tables
  <2>2. RowsAgree'
    BY <1>1, <2>1, RowsUnchanged
  <2>3. pos'[i].st # "unused"
    BY <2>1 DEF TypeInv, TypeOK, BrokerTypeOK
  <2> QED BY <1>1, <2>1, <2>2, <2>3, ClosedInvKept DEF AboutToClose
<1>9. CASE RecordTrade
  <2>1. PICK e \in found : CreateTrade(e.id, e.stop)
    BY <1>9 DEF RecordTrade
  <2>2. found' = {} /\ pc' # "rows" /\ UNCHANGED <<pos, lost, outcomes>>
    BY <1>9 DEF RecordTrade, GoTo, brokerVars
  <2>3. e.id \in Ids /\ e.stop \in Stops /\ pos[e.id].st # "unused"
    BY LoopTypeParts DEF TypeInv, TypeOK, FrameTypeOK, Listings, ClosedInv
  <2>4. RowsAgree'
    BY <1>1, <2>1, <2>2, <2>3, RowCreated
  <2> QED BY <1>1, <2>2, <2>4, ClosedInvKept DEF AboutToClose
<1> QED BY <1>2, <1>3, <1>4, <1>5, <1>6, <1>7, <1>8, <1>9 DEF Loop, TickStep, BreakerStep, EntryStep

\* A request's step: it may close a position or a row it knows is closed.
LEMMA RequestKeepsClosedInv ==
    ASSUME TypeInv, ClosedInv, Onward, UNCHANGED <<pc, frame>>,
           \/ UNCHANGED rows
           \/ \E r \in kill.committing \cup closing : CloseTrade(r) /\ UNCHANGED pos,
           \A r \in kill'.committing \cup closing' : r \in AboutToClose \/ pos'[r[1]].st = "closed"
    PROVE  ClosedInv'
<1>1. RowsAgree /\ UNCHANGED <<found, lost, outcomes>>
  BY DEF ClosedInv, RowsAgree, frame
<1>2. RowsAgree' /\ NoFirstRow
  <2>1. ASSUME NEW r \in kill.committing \cup closing, CloseTrade(r), UNCHANGED pos
        PROVE  RowsAgree' /\ NoFirstRow
    <3>1. r \in Refs
      BY DEF TypeInv, TypeOK, HandlersTypeOK, KillStates
    <3>2. pos[r[1]].st = "closed"
      BY DEF ClosedInv, AboutToClose
    <3> QED BY <1>1, <2>1, <3>1, <3>2, RowClosed
  <2> QED BY <1>1, <2>1, RowsUnchanged
<1> QED BY <1>1, <1>2, ClosedInvKept DEF AboutToClose

LEMMA HandlersKeepClosedInv ==
    ASSUME TypeInv, ClosedInv, Onward, Asks \/ Serves \/ Polls \/ RequestFails
    PROVE  ClosedInv'
<1>1. /\ UNCHANGED <<pc, frame>>
      /\ pos \in [Ids -> Positions] /\ kill \in KillStates
      /\ \A r \in kill.todo \cup OpenTrades : r[1] \in Ids
  BY OpenTradesType
     DEF TypeInv, TypeOK, BrokerTypeOK, HandlersTypeOK, KillStates, Refs,
         Asks, Serves, Polls, RequestFails, loopVars
<1>2. ASSUME NEW i \in Ids, NEW p, ClosePosition(i, p) PROVE pos'[i].st = "closed"
  BY <1>1, <1>2 DEF ClosePosition, Positions
<1>3. ASSUME NEW r \in OpenTrades, NEW p \in Pnls, TelegramClose(r, p) PROVE ClosedInv'
  <2>1. pos'[r[1]].st = "closed" /\ closing' = {r} /\ UNCHANGED <<rows, kill>>
    BY <1>1, <1>2, <1>3 DEF TelegramClose, CloseStep
  <2> QED BY <1>1, <2>1, RequestKeepsClosedInv DEF AboutToClose
<1>4. ASSUME NEW r \in kill.todo, NEW p \in Pnls, KillClose(r, p) PROVE ClosedInv'
  <2>1. pos'[r[1]].st = "closed" /\ UNCHANGED <<rows, closing>>
    BY <1>1, <1>2, <1>4 DEF KillClose, KillStep
  <2>2. kill'.committing = {r}
    BY <1>1, <1>4 DEF KillClose, KillStep, KillStates
  <2> QED BY <1>1, <2>1, <2>2, RequestKeepsClosedInv DEF AboutToClose
<1>5. ASSUME NEW r \in kill.committing, KillCommit(r) PROVE ClosedInv'
  <2>1. CloseTrade(r) /\ UNCHANGED <<pos, closing>>
    BY <1>5 DEF KillCommit, KillStep, brokerVars
  <2>2. kill'.committing = {}
    BY <1>1, <1>5 DEF KillCommit, KillStep, KillStates
  <2> QED BY <1>1, <2>1, <2>2, RequestKeepsClosedInv DEF AboutToClose
<1>6. ASSUME NEW r \in closing, TelegramCommit(r) PROVE ClosedInv'
  <2>1. CloseTrade(r) /\ closing' = {} /\ UNCHANGED <<pos, kill>>
    BY <1>6 DEF TelegramCommit, CloseStep, brokerVars
  <2> QED BY <1>1, <2>1, RequestKeepsClosedInv DEF AboutToClose
<1>7. ASSUME UNCHANGED rows, kill'.committing \subseteq kill.committing, closing' \subseteq closing
      PROVE  ClosedInv'
  BY <1>1, <1>7, RequestKeepsClosedInv DEF AboutToClose
<1>8. CASE Pause \/ Resume \/ RequestLive(confirmed) \/ RevertPractice
           \/ UpdateFlipConfig \/ UpdateRiskConfig \/ KillPause
  <2>1. UNCHANGED <<rows, closing>>
    BY <1>8 DEF Pause, Resume, RequestLive, RevertPractice, UpdateFlipConfig, UpdateRiskConfig,
                KillPause, SetConfig
  <2>2. kill'.committing \subseteq kill.committing
    <3>1. kill' = kill \/ kill' = KillOff \/ kill' = [KillOff EXCEPT !.st = "list"]
      BY <1>8 DEF Pause, Resume, RequestLive, RevertPractice, UpdateFlipConfig,
                  UpdateRiskConfig, KillPause
    <3> QED BY <3>1 DEF KillOff
  <2> QED BY <1>7, <2>1, <2>2
<1>9. CASE \/ KillList \/ KillDone \/ KillAborts
           \/ \E r \in kill.todo : KillRefused(r) \/ KillCloseFails(r)
  <2>1. UNCHANGED <<rows, closing>>
    BY <1>9 DEF KillList, KillDone, KillAborts, KillRefused, KillCloseFails, KillStep
  <2>2. kill'.committing \subseteq kill.committing
    <3>1. \/ kill' = KillOff
          \/ kill' = [kill EXCEPT !.st = "done"]
          \/ kill' = [kill EXCEPT !.st = "close", !.todo = OpenTrades]
          \/ \E r \in kill.todo : kill' = [kill EXCEPT !.todo = @ \ {r}, !.failed = TRUE]
      BY <1>9 DEF KillList, KillDone, KillAborts, KillRefused, KillCloseFails, KillStep
    <3>2. KillOff.committing = {}
      BY DEF KillOff
    <3> QED BY <1>1, <3>1, <3>2 DEF KillStates
  <2> QED BY <1>7, <2>1, <2>2
<1>10. CASE \/ TelegramAborts \/ PollSelect
            \/ \E d \in poll : PollInsert(d) \/ PollConflicts(d)
  <2>1. UNCHANGED <<rows, kill>> /\ closing' \subseteq closing
    BY <1>10 DEF TelegramAborts, CloseStep, PollSelect, PollInsert, PollConflicts, PollStep
  <2> QED BY <1>7, <2>1
<1> QED BY <1>3, <1>4, <1>5, <1>6, <1>8, <1>9, <1>10 DEF Asks, Serves, Polls, RequestFails

LEMMA ClosedInvInit == Init => ClosedInv
<1> SUFFICES ASSUME Init PROVE ClosedInv
  OBVIOUS
<1>1. /\ \A i \in Ids : rows[i] = <<>> /\ pos[i].st = "unused"
      /\ found = {} /\ lost = {} /\ outcomes = {} /\ closing = {} /\ kill.committing = {}
      /\ pc = "down"
  BY DEF Init, BrokerInit, DatabaseInit, LoopInit, HandlersInit, KillOff
<1> QED BY <1>1 DEF ClosedInv, AboutToClose, ClosedRowMeansClosedPosition, OpenIds, IsOpen

LEMMA ClosedInvNext == TypeInv /\ ClosedInv /\ [Next]_vars => ClosedInv'
<1> SUFFICES ASSUME TypeInv, ClosedInv, [Next]_vars PROVE ClosedInv'
  OBVIOUS
<1>1. Onward
  BY LifeGoesOn
<1>2. CASE Loop
  BY <1>1, <1>2, LoopKeepsClosedInv
<1>3. CASE Dies
  <2>1. Forget /\ pc' # "rows" /\ UNCHANGED rows /\ kill'.committing = {} /\ closing' = {}
    BY <1>3 DEF Dies, Crash, HandlersDie, KillOff, tables
  <2>2. RowsAgree'
    BY <1>1, <2>1, RowsUnchanged DEF ClosedInv, RowsAgree
  <2> QED BY <1>1, <2>1, <2>2, ClosedInvForget
<1>4. CASE Asks \/ Serves \/ Polls \/ RequestFails
  BY <1>1, <1>4, HandlersKeepClosedInv
<1>5. CASE Market \/ DayEnds \/ UNCHANGED vars
  <2>1. UNCHANGED <<rows, pc, frame, kill, closing>>
    BY <1>5 DEF Market, DayEnds, vars, tables, loopVars, handlerVars
  <2> QED BY <1>1, <2>1, RequestKeepsClosedInv DEF AboutToClose
<1> QED BY <1>2, <1>3, <1>4, <1>5 DEF Next

\* A request that failed, a listing that went stale or a tick cut short may
\* leave a row open too long, never closed while its position is open
\* (engine/state.py:86-88, api/kill_switch.py:27-48, telegram_bot/handlers.py:91-106).
THEOREM ClosedRowsAreRight == Spec => []ClosedRowMeansClosedPosition
<1>1. ClosedInv => ClosedRowMeansClosedPosition
  BY DEF ClosedInv
<1> QED BY <1>1, TypeInvInit, TypeInvNext, ClosedInvInit, ClosedInvNext, PTL DEF Spec

---------------------------------------------------------------------------
(* The rows of a position over its life.                                   *)

\* The position's PnL is in the tick's hands or in a breaker row.
Counted(i) == i \in credit \/ \E d \in Days : i \in booked[d]

Settled(i) == pos[i].st = "closed" /\ OpenRows(i) = {}

BookInv ==
    /\ \A i \in Ids : \A k, m \in OpenRows(i) : k = m
    /\ \A i \in Ids : Counted(i) => Settled(i)
    /\ \A e, f \in found : e.id = f.id => e = f
    /\ pc \in {"rows", "reconcile", "record"} => \A e \in found : ~Counted(e.id)
    /\ pc = "reconcile" =>
         /\ \A e \in found : OpenRows(e.id) = {}
         /\ \A r \in lost : OpenRows(r[1]) \subseteq {r[2]}
         /\ \A e \in found, r \in lost : e.id # r[1]
    /\ pc = "manage" => \A e \in found : DOMAIN rows[e.id] \subseteq {1}
    /\ pc = "record" => \A e \in found : DOMAIN rows[e.id] = {}
    /\ pc \notin {"manage", "outcomes"} => outcomes = {}
    /\ \A o \in outcomes : DOMAIN rows[o.id] \subseteq {1}

---------------------------------------------------------------------------
(* What a step may do to the rows, again: no row becomes open.             *)

OnlyCloses ==
    \A i \in Ids : DOMAIN rows'[i] = DOMAIN rows[i] /\ OpenRows(i)' \subseteq OpenRows(i)

LEMMA ReplacedOnlyCloses ==
    ASSUME TypeInv, NEW i \in Ids, NEW k, NEW row,
           rows' = [rows EXCEPT ![i] = [rows[i] EXCEPT ![k] = row]],
           k \in DOMAIN rows[i] => row.status \in {"closed", rows[i][k].status}
    PROVE  OnlyCloses
<1>1. rows \in [Ids -> Seq(Rows)]
  BY DEF TypeInv, TypeOK, DatabaseTypeOK
<1>2. \A j \in Ids : DOMAIN rows'[j] = DOMAIN rows[j]
  BY <1>1
<1>3. ASSUME NEW j \in Ids, NEW m \in DOMAIN rows[j], rows'[j][m].status = "open"
      PROVE  rows[j][m].status = "open"
  <2>1. CASE j # i
    BY <1>1, <1>3, <2>1
  <2>2. CASE j = i
    <3>1. rows'[i] = [rows[i] EXCEPT ![k] = row]
      BY <1>1
    <3> QED BY <1>3, <2>2, <3>1
  <2> QED BY <2>1, <2>2
<1> QED BY <1>2, <1>3 DEF OnlyCloses, OpenRows

LEMMA ClosedOnlyCloses ==
    ASSUME TypeInv, NEW r \in Refs, CloseTrade(r)
    PROVE  OnlyCloses
<1> DEFINE row == [rows[r[1]][r[2]] EXCEPT !.status = "closed"]
<1>1. r[1] \in Ids
  BY DEF Refs
<1>2. rows' = [rows EXCEPT ![r[1]] = [rows[r[1]] EXCEPT ![r[2]] = row]]
  BY DEF CloseTrade
<1>3. r[2] \in DOMAIN rows[r[1]] => row.status = "closed"
  <2>1. rows[r[1]] \in Seq(Rows)
    BY <1>1 DEF TypeInv, TypeOK, DatabaseTypeOK
  <2> QED BY <2>1 DEF Rows
<1> HIDE DEF row
<1> QED BY <1>1, <1>2, <1>3, ReplacedOnlyCloses

LEMMA StopMovedOnlyCloses ==
    ASSUME TypeInv, NEW i \in Ids, NEW stop, UpdateTradeStop(<<i, 1>>, stop)
    PROVE  OnlyCloses
<1> DEFINE row == [rows[i][1] EXCEPT !.stop = stop]
<1>1. rows' = [rows EXCEPT ![i] = [rows[i] EXCEPT ![1] = row]]
  BY DEF UpdateTradeStop
<1>2. 1 \in DOMAIN rows[i] => row.status = rows[i][1].status
  <2>1. rows[i] \in Seq(Rows)
    BY DEF TypeInv, TypeOK, DatabaseTypeOK
  <2> QED BY <2>1 DEF Rows
<1> HIDE DEF row
<1> QED BY <1>1, <1>2, ReplacedOnlyCloses

LEMMA SameOnlyCloses == ASSUME UNCHANGED rows PROVE OnlyCloses
  BY DEF OnlyCloses, OpenRows

\* The one row of a position, once it is closed, leaves none open.
LEMMA ClosedLeavesNone ==
    ASSUME TypeInv, NEW r \in Refs, CloseTrade(r), OpenRows(r[1]) \subseteq {r[2]}
    PROVE  OpenRows(r[1])' = {}
<1>1. OnlyCloses /\ r[1] \in Ids
  BY ClosedOnlyCloses DEF Refs
<1>2. ASSUME NEW k \in OpenRows(r[1])' PROVE FALSE
  <2>1. k = r[2] /\ k \in DOMAIN rows[r[1]]
    BY <1>1 DEF OnlyCloses, OpenRows
  <2>2. rows \in [Ids -> Seq(Rows)]
    BY DEF TypeInv, TypeOK, DatabaseTypeOK
  <2> DEFINE row == [rows[r[1]][r[2]] EXCEPT !.status = "closed"]
  <2>3. row.status = "closed"
    BY <1>1, <2>1, <2>2 DEF Rows
  <2>4. rows'[r[1]][k] = row
    <3>1. rows' = [rows EXCEPT ![r[1]] = [rows[r[1]] EXCEPT ![r[2]] = row]]
      BY DEF CloseTrade
    <3> HIDE DEF row
    <3> QED BY <1>1, <2>1, <2>2, <3>1
  <2> QED BY <1>2, <2>3, <2>4 DEF OpenRows
<1> QED BY <1>2

\* A new row is open, and nothing else changes.
LEMMA CreatedIsLast ==
    ASSUME TypeInv, NEW i \in Ids, NEW stop \in Stops, CreateTrade(i, stop)
    PROVE  /\ \A j \in Ids \ {i} : rows'[j] = rows[j] /\ OpenRows(j)' = OpenRows(j)
           /\ OpenRows(i)' \subseteq OpenRows(i) \cup {Len(rows[i]) + 1}
<1> DEFINE row == [status |-> "open", stop |-> stop]
<1>1. rows \in [Ids -> Seq(Rows)] /\ row \in Rows
  BY DEF TypeInv, TypeOK, DatabaseTypeOK, Rows
<1>2. rows' = [rows EXCEPT ![i] = Append(rows[i], row)]
  BY DEF CreateTrade
<1>3. \A j \in Ids \ {i} : rows'[j] = rows[j]
  BY <1>1, <1>2
<1>4. ASSUME NEW k \in OpenRows(i)', k # Len(rows[i]) + 1 PROVE k \in OpenRows(i)
  <2>1. rows'[i] = Append(rows[i], row)
    BY <1>1, <1>2
  <2>2. k \in 1 .. Len(rows[i]) + 1 /\ rows'[i][k].status = "open"
    BY <1>1, <2>1 DEF OpenRows
  <2>3. k \in 1 .. Len(rows[i]) /\ rows'[i][k] = rows[i][k]
    BY <1>1, <1>4, <2>1, <2>2
  <2> QED BY <1>1, <2>2, <2>3 DEF OpenRows
<1> QED BY <1>3, <1>4 DEF OpenRows

\* A request leaves the rows alone, or closes one.
LEMMA RequestRows ==
    ASSUME TypeInv, Asks \/ Serves \/ Polls \/ RequestFails
    PROVE  UNCHANGED rows \/ (UNCHANGED pos /\ \E r \in Refs : CloseTrade(r))
<1>1. \A r \in kill.committing \cup closing : r \in Refs
  BY DEF TypeInv, TypeOK, HandlersTypeOK, KillStates
<1>2. CASE Asks
  BY <1>2 DEF Asks, Pause, Resume, RequestLive, RevertPractice, UpdateFlipConfig,
              UpdateRiskConfig, KillPause, SetConfig, TelegramClose
<1>3. CASE Serves
  <2>1. CASE (\E r \in kill.committing : KillCommit(r)) \/ \E r \in closing : TelegramCommit(r)
    BY <1>1, <2>1 DEF KillCommit, TelegramCommit, brokerVars
  <2>2. CASE \/ KillList \/ KillDone
             \/ \E r \in kill.todo : KillRefused(r) \/ \E p \in Pnls : KillClose(r, p)
             \/ \E d \in poll : PollInsert(d) \/ PollConflicts(d)
    BY <2>2 DEF KillList, KillDone, KillRefused, KillClose, PollInsert, PollConflicts, PollStep
  <2> QED BY <1>3, <2>1, <2>2 DEF Serves
<1>4. CASE Polls \/ RequestFails
  BY <1>4 DEF Polls, PollSelect, PollStep, RequestFails, KillAborts, TelegramAborts, KillCloseFails
<1> QED BY <1>2, <1>3, <1>4

LEMMA RequestsOnlyClose ==
    ASSUME TypeInv, Asks \/ Serves \/ Polls \/ RequestFails
    PROVE  OnlyCloses
  BY RequestRows, SameOnlyCloses, ClosedOnlyCloses

---------------------------------------------------------------------------
(* The invariant is inductive.                                             *)

\* Where nothing new is counted, and a step neither lists nor makes a row.
LEMMA BookInvKept ==
    ASSUME TypeInv, BookInv, Onward, OnlyCloses,
           found' \subseteq found,
           pc' \in {"rows", "reconcile", "record", "manage"} => pc = pc' /\ lost' \subseteq lost,
           pc' \notin {"manage", "outcomes"} => outcomes' = {},
           \A o \in outcomes' : \/ \E q \in outcomes : q.id = o.id
                                \/ pc = "manage" /\ \E e \in found : e.id = o.id,
           \A i \in Ids : Counted(i)' =>
               \/ Counted(i)
               \/ /\ Settled(i)'
                  /\ pc' \in {"rows", "reconcile", "record"} => \A e \in found' : e.id # i
    PROVE  BookInv'
<1>1. /\ \A e \in found : e.id \in Ids
      /\ \A r \in lost : r[1] \in Ids
      /\ \A o \in outcomes : o.id \in Ids
  BY LoopTypeParts DEF TypeInv, TypeOK, FrameTypeOK, Listings, Outcomes, Refs
<1>2. (\A i \in Ids : \A k, m \in OpenRows(i) : k = m)'
  BY DEF BookInv, OnlyCloses
<1>3. \A i \in Ids : Counted(i)' => Settled(i)'
  <2>1. ASSUME NEW i \in Ids, Counted(i) PROVE Settled(i)'
    <3>1. pos[i].st = "closed" /\ OpenRows(i) = {}
      BY <2>1 DEF BookInv, Settled
    <3>2. pos'[i].st = "closed" /\ OpenRows(i)' = {}
      BY <3>1 DEF Onward, OnlyCloses
    <3> QED BY <3>2 DEF Settled
  <2> QED BY <2>1
<1>4. (\A e, f \in found : e.id = f.id => e = f)'
  BY DEF BookInv
<1>5. pc' \in {"rows", "reconcile", "record"} => \A e \in found' : ~Counted(e.id)'
  BY <1>1 DEF BookInv
<1>6. (pc = "reconcile" =>
         /\ \A e \in found : OpenRows(e.id) = {}
         /\ \A r \in lost : OpenRows(r[1]) \subseteq {r[2]}
         /\ \A e \in found, r \in lost : e.id # r[1])'
  <2> SUFFICES ASSUME pc' = "reconcile"
               PROVE  /\ \A e \in found' : OpenRows(e.id)' = {}
                      /\ \A r \in lost' : OpenRows(r[1])' \subseteq {r[2]}
                      /\ \A e \in found', r \in lost' : e.id # r[1]
    OBVIOUS
  <2>1. pc = "reconcile" /\ lost' \subseteq lost
    OBVIOUS
  <2>2. \A e \in found' : OpenRows(e.id)' = {}
    BY <1>1, <2>1 DEF BookInv, OnlyCloses
  <2>3. \A r \in lost' : OpenRows(r[1])' \subseteq {r[2]}
    BY <1>1, <2>1 DEF BookInv, OnlyCloses
  <2>4. \A e \in found', r \in lost' : e.id # r[1]
    BY <2>1 DEF BookInv
  <2> QED BY <2>2, <2>3, <2>4
<1>7. /\ pc' = "manage" => \A e \in found' : DOMAIN rows'[e.id] \subseteq {1}
      /\ pc' = "record" => \A e \in found' : DOMAIN rows'[e.id] = {}
  BY <1>1 DEF BookInv, OnlyCloses
<1>8. \A o \in outcomes' : DOMAIN rows'[o.id] \subseteq {1}
  <2> SUFFICES ASSUME NEW o \in outcomes' PROVE DOMAIN rows'[o.id] \subseteq {1}
    OBVIOUS
  <2>1. o.id \in Ids /\ DOMAIN rows[o.id] \subseteq {1}
    <3>1. CASE \E q \in outcomes : q.id = o.id
      BY <1>1, <3>1 DEF BookInv
    <3>2. CASE pc = "manage" /\ \E e \in found : e.id = o.id
      BY <1>1, <3>2 DEF BookInv
    <3> QED BY <3>1, <3>2
  <2>2. DOMAIN rows'[o.id] = DOMAIN rows[o.id]
    BY <2>1 DEF OnlyCloses
  <2> QED BY <2>1, <2>2
<1> QED BY <1>2, <1>3, <1>4, <1>5, <1>6, <1>7, <1>8 DEF BookInv

\* The same, for a step after which nothing of the frame is left.
LEMMA BookInvForget ==
    ASSUME TypeInv, BookInv, Onward, OnlyCloses, Forget, UNCHANGED booked,
           pc' \in {"down", "failed", "idle"}
    PROVE  BookInv'
<1>1. found' = {} /\ outcomes' = {} /\ credit' = {}
  BY DEF Forget
<1>2. \A i \in Ids : Counted(i)' => Counted(i)
  BY <1>1 DEF Counted
<1> QED BY <1>1, <1>2, BookInvKept

\* The same, for a step of another task.
LEMMA BookInvOthers ==
    ASSUME TypeInv, BookInv, Onward, OnlyCloses, UNCHANGED <<pc, frame, booked>>
    PROVE  BookInv'
<1>1. UNCHANGED <<found, lost, outcomes, credit>>
  BY DEF frame
<1>2. \A i \in Ids : Counted(i)' => Counted(i)
  BY <1>1 DEF Counted
<1>3. pc' \notin {"manage", "outcomes"} => outcomes' = {}
  BY <1>1 DEF BookInv
<1> QED BY <1>1, <1>2, <1>3, BookInvKept

\* The same, for a step of the tick that counts nothing.
LEMMA BookInvGoesOn ==
    ASSUME TypeInv, BookInv, Onward, OnlyCloses, UNCHANGED <<outcomes, credit, booked>>,
           found' \subseteq found,
           pc' \in {"rows", "reconcile", "record", "manage"} => pc = pc' /\ lost' \subseteq lost,
           pc \in {"manage", "outcomes"} => pc' \in {"manage", "outcomes"}
    PROVE  BookInv'
<1>1. \A i \in Ids : Counted(i)' => Counted(i)
  BY DEF Counted
<1>2. pc' \notin {"manage", "outcomes"} => outcomes' = {}
  BY DEF BookInv
<1> QED BY <1>1, <1>2, BookInvKept

\* A listing has one entry per position, each of them open.
LEMMA ListingParts ==
    /\ \A e, f \in Listing : e.id = f.id => e = f
    /\ \A e \in Listing : e.id \in Ids /\ pos[e.id].st = "open"
  BY DEF Listing, OpenIds, IsOpen

\* What an open position's rows are.
LEMMA OpenHasOneRow ==
    ASSUME TypeInv, ClosedInv, BookInv, NEW i \in Ids, pos[i].st = "open"
    PROVE  DOMAIN rows[i] \subseteq {1} /\ ~Counted(i)
<1>1. DOMAIN rows[i] = OpenRows(i)
  BY DEF ClosedInv, ClosedRowMeansClosedPosition, OpenIds, IsOpen
<1>2. rows[i] \in Seq(Rows)
  BY DEF TypeInv, TypeOK, DatabaseTypeOK
<1>3. \A k \in DOMAIN rows[i] : 1 \in DOMAIN rows[i]
  BY <1>2
<1>4. DOMAIN rows[i] \subseteq {1}
  BY <1>1, <1>3 DEF BookInv
<1>5. ~Counted(i)
  BY DEF BookInv, Settled
<1> QED BY <1>4, <1>5

LEMMA LastOfOne ==
    ASSUME TypeInv, BookInv, NEW i \in Ids, OpenRows(i) # {}
    PROVE  OpenRows(i) \subseteq {LastOpenRow(i)}
<1>1. rows[i] \in Seq(Rows)
  BY DEF TypeInv, TypeOK, DatabaseTypeOK
<1>2. PICK k \in OpenRows(i) : TRUE
  OBVIOUS
<1>3. k \in Nat
  BY <1>1 DEF OpenRows
<1>4. \A j \in OpenRows(i) : j <= k
  BY <1>3 DEF BookInv
<1>5. LastOpenRow(i) \in OpenRows(i)
  BY <1>4 DEF LastOpenRow
<1> QED BY <1>5 DEF BookInv

LEMMA ReconcileKeepsBookInv ==
    ASSUME TypeInv, ClosedInv, BookInv, Onward, ReconcileStep, TypeInv'
    PROVE  BookInv'
<1>1. /\ \A e \in found : e.id \in Ids /\ e.stop \in Stops
      /\ \A r \in lost : r \in Refs /\ r[1] \in Ids
  BY LoopTypeParts DEF TypeInv, TypeOK, FrameTypeOK, Listings, Refs
<1>2. CASE ReconcileList
  <2>1. /\ found' = Listing /\ pc = "listing" /\ pc' = "rows"
        /\ UNCHANGED <<pos, rows, outcomes, credit, booked>>
    BY <1>2 DEF ReconcileList, GoTo, brokerVars, tables
  <2>2. \A i \in Ids : Counted(i)' <=> Counted(i)
    BY <2>1 DEF Counted
  <2>3. \A e \in found' : ~Counted(e.id)'
    BY <2>1, <2>2, ListingParts, OpenHasOneRow
  <2>4. \A e, f \in found' : e.id = f.id => e = f
    BY <2>1, ListingParts
  <2>5. outcomes' = {}
    BY <2>1 DEF BookInv
  <2>6. (\A i \in Ids : \A k, m \in OpenRows(i) : k = m)'
    BY <2>1 DEF BookInv, OpenRows
  <2>7. (\A i \in Ids : Counted(i) => Settled(i))'
    BY <2>1, <2>2 DEF BookInv, Settled, OpenRows
  <2> QED BY <2>1, <2>3, <2>4, <2>5, <2>6, <2>7 DEF BookInv
<1>3. CASE ReconcileRows
  <2>1. /\ lost' = ToClose /\ found' = ToAdopt /\ pc = "rows" /\ pc' = "reconcile"
        /\ UNCHANGED <<pos, rows, outcomes, credit, booked>>
    BY <1>3 DEF ReconcileRows, GoTo, brokerVars, tables
  <2>2. \A i \in Ids : (Counted(i)' <=> Counted(i)) /\ OpenRows(i)' = OpenRows(i)
    BY <2>1 DEF Counted, OpenRows
  <2>3. found' \subseteq found
    BY <2>1 DEF ToAdopt
  <2>4. \A e \in found' : ~Counted(e.id)' /\ OpenRows(e.id)' = {}
    BY <1>1, <2>1, <2>2, <2>3 DEF BookInv, ToAdopt, KnownIds
  <2>5. ASSUME NEW r \in lost'
        PROVE  OpenRows(r[1])' \subseteq {r[2]} /\ \A e \in found' : e.id # r[1]
    <3>1. PICK i \in KnownIds \ ListedIds : r = <<i, LastOpenRow(i)>>
      BY <2>1, <2>5 DEF ToClose
    <3>2. i \in Ids /\ OpenRows(i) # {}
      BY <3>1 DEF KnownIds
    <3>3. OpenRows(i) \subseteq {LastOpenRow(i)}
      BY <3>2, LastOfOne
    <3>4. \A e \in found' : e.id # i
      BY <2>3, <3>1 DEF ListedIds
    <3> QED BY <2>2, <3>1, <3>2, <3>3, <3>4
  <2>6. (\A i \in Ids : \A k, m \in OpenRows(i) : k = m)'
    BY <2>2 DEF BookInv
  <2>7. (\A i \in Ids : Counted(i) => Settled(i))'
    BY <2>1, <2>2 DEF BookInv, Settled
  <2>8. outcomes' = {} /\ \A e, f \in found' : e.id = f.id => e = f
    BY <2>1, <2>3 DEF BookInv
  <2> QED BY <2>1, <2>4, <2>5, <2>6, <2>7, <2>8 DEF BookInv
<1>4. CASE ReconcileDone
  <2>1. /\ UNCHANGED <<rows, booked>> /\ pc = "reconcile" /\ pc' \in {"idle", "account"}
        /\ found' = {} /\ credit' \subseteq credit /\ outcomes' \subseteq outcomes
    BY <1>4 DEF ReconcileDone, Forget, frame, tables
  <2>2. OnlyCloses
    BY <2>1, SameOnlyCloses
  <2>3. \A i \in Ids : Counted(i)' => Counted(i)
    BY <2>1 DEF Counted
  <2>4. outcomes' = {}
    BY <2>1 DEF BookInv
  <2> QED BY <2>1, <2>2, <2>3, <2>4, BookInvKept
<1>5. ASSUME NEW r \in lost, ReconcileClose(r) PROVE BookInv'
  <2>1. /\ CloseTrade(r) /\ pc = "reconcile" /\ pc' = "reconcile" /\ pos[r[1]].st = "closed"
        /\ lost' \subseteq lost /\ credit' = credit \cup {r[1]}
        /\ UNCHANGED <<pos, found, outcomes, booked>>
    BY <1>5 DEF ReconcileClose, GoTo, brokerVars
  <2>2. OnlyCloses
    BY <1>1, <2>1, ClosedOnlyCloses
  <2>3. OpenRows(r[1]) \subseteq {r[2]} /\ \A e \in found : e.id # r[1]
    BY <2>1 DEF BookInv
  <2>4. Settled(r[1])'
    BY <1>1, <2>1, <2>3, ClosedLeavesNone DEF Settled
  <2>5. \A i \in Ids : Counted(i)' => Counted(i) \/ i = r[1]
    BY <2>1 DEF Counted
  <2>6. outcomes' = {}
    BY <2>1 DEF BookInv
  <2> QED BY <2>1, <2>2, <2>3, <2>4, <2>5, <2>6, BookInvKept
<1>6. ASSUME NEW r \in lost, ReconcileLookupFails(r) PROVE BookInv'
  <2>1. /\ CloseTrade(r) /\ pc = "reconcile" /\ pc' = "reconcile" /\ lost' \subseteq lost
        /\ UNCHANGED <<found, outcomes, credit, booked>>
    BY <1>6 DEF ReconcileLookupFails
  <2>2. OnlyCloses
    BY <1>1, <2>1, ClosedOnlyCloses
  <2> QED BY <2>1, <2>2, BookInvGoesOn
<1>7. ASSUME NEW r \in lost, ReconcileHistoryLags(r) PROVE BookInv'
  <2>1. CloseTrade(r) /\ Forget /\ UNCHANGED booked /\ pc' \in {"down", "failed", "idle"}
    BY <1>7 DEF ReconcileHistoryLags, Raise
  <2>2. OnlyCloses
    BY <1>1, <2>1, ClosedOnlyCloses
  <2> QED BY <2>1, <2>2, BookInvForget
<1>8. ASSUME NEW e \in found, ReconcileAdopt(e) PROVE BookInv'
  <2>1. /\ CreateTrade(e.id, e.stop) /\ pc = "reconcile" /\ pc' = "reconcile"
        /\ lost = {} /\ lost' = {} /\ found' = found \ {e}
        /\ UNCHANGED <<pos, outcomes, credit, booked>>
    BY <1>8 DEF ReconcileAdopt, GoTo, brokerVars
  <2>2. /\ \A j \in Ids \ {e.id} : OpenRows(j)' = OpenRows(j)
        /\ OpenRows(e.id)' \subseteq OpenRows(e.id) \cup {Len(rows[e.id]) + 1}
    BY <1>1, <2>1, CreatedIsLast
  <2>3. \A i \in Ids : Counted(i)' <=> Counted(i)
    BY <2>1 DEF Counted
  <2>4. OpenRows(e.id) = {} /\ ~Counted(e.id)
    BY <2>1 DEF BookInv
  <2>5. (\A i \in Ids : \A k, m \in OpenRows(i) : k = m)'
    BY <2>2, <2>4 DEF BookInv
  <2>6. (\A i \in Ids : Counted(i) => Settled(i))'
    BY <2>1, <2>2, <2>3, <2>4 DEF BookInv, Settled
  <2>7. \A f \in found' : f.id \in Ids \ {e.id} /\ f \in found
    BY <1>1, <2>1 DEF BookInv
  <2>8. \A f \in found' : OpenRows(f.id)' = {} /\ ~Counted(f.id)'
    BY <2>1, <2>2, <2>3, <2>7 DEF BookInv
  <2>9. outcomes' = {} /\ \A f, g \in found' : f.id = g.id => f = g
    BY <2>1, <2>7 DEF BookInv
  <2> QED BY <2>1, <2>5, <2>6, <2>8, <2>9 DEF BookInv
<1> QED BY <1>2, <1>3, <1>4, <1>5, <1>6, <1>7, <1>8 DEF ReconcileStep

LEMMA ManageKeepsBookInv ==
    ASSUME TypeInv, ClosedInv, BookInv, Onward, ManageStep
    PROVE  BookInv'
<1>1. /\ \A e \in found : e.id \in Ids
      /\ \A o \in outcomes : o.id \in Ids /\ o \in Outcomes
      /\ pos \in [Ids -> Positions] /\ rows \in [Ids -> Seq(Rows)]
  BY LoopTypeParts
     DEF TypeInv, TypeOK, FrameTypeOK, Listings, Outcomes, BrokerTypeOK, DatabaseTypeOK
<1>2. CASE FetchPositions
  <2>1. /\ found' = Listing /\ pc = "fetch" /\ pc' = "manage"
        /\ UNCHANGED <<pos, rows, outcomes, credit, booked>>
    BY <1>2 DEF FetchPositions, GoTo, brokerVars, tables
  <2>2. \A i \in Ids : (Counted(i)' <=> Counted(i)) /\ OpenRows(i)' = OpenRows(i)
    BY <2>1 DEF Counted, OpenRows
  <2>3. \A e \in found' : DOMAIN rows'[e.id] \subseteq {1}
    BY <2>1, ListingParts, OpenHasOneRow
  <2>4. \A e, f \in found' : e.id = f.id => e = f
    BY <2>1, ListingParts
  <2>5. outcomes' = {}
    BY <2>1 DEF BookInv
  <2>6. (\A i \in Ids : \A k, m \in OpenRows(i) : k = m)'
    BY <2>2 DEF BookInv
  <2>7. (\A i \in Ids : Counted(i) => Settled(i))'
    BY <2>1, <2>2 DEF BookInv, Settled
  <2> QED BY <2>1, <2>3, <2>4, <2>5, <2>6, <2>7 DEF BookInv
<1>3. CASE ManageDone
  <2>1. /\ UNCHANGED <<rows, outcomes, credit, booked>>
        /\ found' = {} /\ pc' = "outcomes"
    BY <1>3 DEF ManageDone, GoTo, tables
  <2> QED BY <2>1, SameOnlyCloses, BookInvGoesOn
<1>4. CASE OutcomesDone
  <2>1. UNCHANGED <<rows, found, credit, booked>> /\ outcomes' = {} /\ pc' = "flip"
    BY <1>4 DEF OutcomesDone, GoTo, tables
  <2>2. \A i \in Ids : Counted(i)' => Counted(i)
    BY <2>1 DEF Counted
  <2> QED BY <2>1, <2>2, SameOnlyCloses, BookInvKept
<1>5. ASSUME NEW e \in found, NEW stop, NEW kind, Managed(e, stop, kind), pc = "manage"
      PROVE  BookInv'
  <2> DEFINE new == [id |-> e.id, stop |-> stop, kind |-> kind, applied |-> FALSE]
  <2>1. /\ UNCHANGED <<rows, lost, credit, booked>> /\ found' \subseteq found /\ pc' = "manage"
        /\ outcomes' = outcomes \cup {new}
    BY <1>5 DEF Managed, GoTo, tables
  <2>2. new.id = e.id
    OBVIOUS
  <2> HIDE DEF new
  <2>3. \A i \in Ids : Counted(i)' => Counted(i)
    BY <2>1 DEF Counted
  <2>4. \A o \in outcomes' : o \in outcomes \/ o.id = e.id
    BY <2>1, <2>2
  <2>5. OnlyCloses
    BY <2>1, SameOnlyCloses
  <2> QED BY <1>5, <2>1, <2>3, <2>4, <2>5, BookInvKept
<1>6. ASSUME NEW e \in found, \/ ManageRefused(e)
                              \/ \E p \in Pnls : ManageCloseUnconfirmed(e, p)
      PROVE BookInv'
  <2>1. Forget /\ UNCHANGED <<rows, booked>> /\ pc' \in {"down", "failed", "idle"}
    BY <1>6 DEF ManageRefused, ManageCloseUnconfirmed, Raise, tables
  <2> QED BY <2>1, SameOnlyCloses, BookInvForget
<1>7. ASSUME NEW o \in outcomes, ApplyOutcome(o) PROVE BookInv'
  <2>1. CASE Len(rows[o.id]) > 1
    <3>1. Forget /\ UNCHANGED <<rows, booked>> /\ pc' \in {"down", "failed", "idle"}
      BY <1>7, <2>1 DEF ApplyOutcome, Raise
    <3> QED BY <3>1, SameOnlyCloses, BookInvForget
  <2>2. CASE ~(Len(rows[o.id]) > 1)
    <3>1. /\ WriteOutcome(o) /\ pc' = "outcomes" /\ UNCHANGED <<pos, found, booked>>
          /\ outcomes' = (outcomes \ {o}) \cup {[o EXCEPT !.applied = TRUE]}
      BY <1>7, <2>2 DEF ApplyOutcome, GoTo, brokerVars
    <3>2. \A q \in outcomes' : \E p \in outcomes : p.id = q.id
      <4>1. [o EXCEPT !.applied = TRUE].id = o.id
        BY <1>1 DEF Outcomes
      <4> QED BY <3>1, <4>1
    <3>3. CASE UNCHANGED <<rows, credit>>
      <4>1. \A i \in Ids : Counted(i)' => Counted(i)
        BY <3>1, <3>3 DEF Counted
      <4> QED BY <3>1, <3>2, <3>3, <4>1, SameOnlyCloses, BookInvKept
    <3>4. CASE UpdateTradeStop(<<o.id, 1>>, o.stop) /\ UNCHANGED credit
      <4>1. \A i \in Ids : Counted(i)' => Counted(i)
        BY <3>1, <3>4 DEF Counted
      <4>2. OnlyCloses
        BY <1>1, <3>4, StopMovedOnlyCloses
      <4> QED BY <3>1, <3>2, <4>1, <4>2, BookInvKept
    <3>5. CASE o.kind = "close" /\ CloseTrade(<<o.id, 1>>) /\ credit' = credit \cup {o.id}
      <4> DEFINE r == <<o.id, 1>>
      <4>1. r \in Refs /\ r[1] = o.id /\ r[2] = 1
        BY <1>1 DEF Refs
      <4>2. OpenRows(o.id) \subseteq {1}
        BY DEF BookInv, OpenRows
      <4> HIDE DEF r
      <4>3. CloseTrade(r)
        BY <3>5 DEF r
      <4>4. OnlyCloses /\ OpenRows(o.id)' = {}
        BY <4>1, <4>2, <4>3, ClosedOnlyCloses, ClosedLeavesNone
      <4>5. pos'[o.id].st = "closed"
        BY <3>1, <3>5 DEF ClosedInv
      <4>6. \A i \in Ids : Counted(i)' => Counted(i) \/ i = o.id
        BY <3>1, <3>5 DEF Counted
      <4>7. Settled(o.id)'
        BY <4>4, <4>5 DEF Settled
      <4> QED BY <3>1, <3>2, <4>4, <4>6, <4>7, BookInvKept
    <3> QED BY <3>1, <3>3, <3>4, <3>5 DEF WriteOutcome
  <2> QED BY <2>1, <2>2
<1> QED BY <1>2, <1>3, <1>4, <1>5, <1>6, <1>7 DEF ManageStep, ManageClose, ManageMove

LEMMA LoopKeepsBookInv ==
    ASSUME TypeInv, ClosedInv, BookInv, Onward, Loop, TypeInv'
    PROVE  BookInv'
<1>1. /\ \A e \in found : e.id \in Ids /\ e.stop \in Stops
      /\ pos \in [Ids -> Positions] /\ rows \in [Ids -> Seq(Rows)]
  BY LoopTypeParts DEF TypeInv, TypeOK, FrameTypeOK, Listings, BrokerTypeOK, DatabaseTypeOK
<1>2. CASE \/ TickStart \/ Restart
           \/ BreakerSelect \/ BreakerInsert \/ BreakerReselect \/ BreakerReinsert
           \/ FlipJudged \/ FlipEnds \/ FlipGoesOn \/ NoEntry
  <2>1. /\ UNCHANGED <<rows, found, outcomes, credit, booked>>
        /\ pc \notin {"manage", "outcomes"}
        /\ pc' \notin {"rows", "reconcile", "record", "manage"}
    BY <1>2 DEF TickStart, Restart, BreakerSelect, BreakerInsert, BreakerReselect, BreakerReinsert,
                FlipJudged, FlipEnds, FlipGoesOn, NoEntry, GoTo, frame, tables
  <2> QED BY <2>1, SameOnlyCloses, BookInvGoesOn
<1>3. CASE TickPaused
  <2>1. UNCHANGED <<rows, pc, frame, booked>>
    BY <1>3 DEF TickPaused, loopVars, tables
  <2> QED BY <2>1, SameOnlyCloses, BookInvOthers
<1>4. CASE TickFails \/ BreakerInsertConflicts \/ PlaceOrderLate \/ \E i \in Ids : PlaceOrderLost(i)
  <2>1. Forget /\ UNCHANGED <<rows, booked>> /\ pc' \in {"down", "failed", "idle"}
    BY <1>4 DEF TickFails, BreakerInsertConflicts, PlaceOrderLate, PlaceOrderLost, Raise, tables
  <2> QED BY <2>1, SameOnlyCloses, BookInvForget
<1>5. CASE ReconcileStep
  BY <1>5, ReconcileKeepsBookInv
<1>6. CASE ManageStep
  BY <1>6, ManageKeepsBookInv
<1>7. ASSUME NEW i \in Ids, PlaceOrder(i) PROVE BookInv'
  <2>1. /\ found' = {[id |-> i, stop |-> 0]} /\ pc = "entry" /\ pc' = "record"
        /\ pos[i].st = "unused" /\ UNCHANGED <<rows, outcomes, credit, booked>>
    BY <1>7 DEF PlaceOrder, OpenPosition, GoTo, tables
  <2>2. \A j \in Ids : (Counted(j)' <=> Counted(j)) /\ OpenRows(j)' = OpenRows(j)
    BY <2>1 DEF Counted, OpenRows
  <2>3. rows[i] = <<>> /\ ~Counted(i)
    BY <2>1 DEF ClosedInv, BookInv, Settled
  <2>4. \A e \in found' : e.id = i
    BY <2>1
  <2>5. (\A j \in Ids : \A k, m \in OpenRows(j) : k = m)'
    BY <2>2 DEF BookInv
  <2>6. (\A j \in Ids : Counted(j) => Settled(j))'
    BY <2>2 DEF BookInv, Settled, Onward
  <2>7. outcomes' = {} /\ \A e, f \in found' : e.id = f.id => e = f
    BY <2>1 DEF BookInv
  <2>8. DOMAIN rows'[i] = {} /\ ~Counted(i)'
    BY <2>1, <2>2, <2>3
  <2> QED BY <2>1, <2>4, <2>5, <2>6, <2>7, <2>8 DEF BookInv
<1>8. CASE RecordTrade
  <2>1. PICK e \in found : CreateTrade(e.id, e.stop)
    BY <1>8 DEF RecordTrade
  <2>2. /\ found' = {} /\ pc = "record" /\ pc' = "persist"
        /\ UNCHANGED <<pos, outcomes, credit, booked>>
    BY <1>8 DEF RecordTrade, GoTo, brokerVars
  <2>3. /\ \A j \in Ids \ {e.id} : OpenRows(j)' = OpenRows(j)
        /\ OpenRows(e.id)' \subseteq OpenRows(e.id) \cup {Len(rows[e.id]) + 1}
    BY <1>1, <2>1, CreatedIsLast
  <2>4. OpenRows(e.id) = {} /\ ~Counted(e.id)
    BY <2>2 DEF BookInv, OpenRows
  <2>5. \A i \in Ids : Counted(i)' <=> Counted(i)
    BY <2>2 DEF Counted
  <2>6. (\A i \in Ids : \A k, m \in OpenRows(i) : k = m)'
    BY <2>3, <2>4 DEF BookInv
  <2>7. (\A i \in Ids : Counted(i) => Settled(i))'
    BY <2>2, <2>3, <2>4, <2>5 DEF BookInv, Settled
  <2>8. outcomes' = {}
    BY <2>2 DEF BookInv
  <2> QED BY <2>2, <2>6, <2>7, <2>8 DEF BookInv
<1>9. CASE Persist
  <2>1. /\ UNCHANGED rows /\ pc' = "idle" /\ Forget
        /\ booked' = [booked EXCEPT ![rowDay] = @ \cup credit]
    BY <1>9 DEF Persist
  <2>2. found' = {} /\ outcomes' = {} /\ credit' = {}
    BY <2>1 DEF Forget
  <2>3. booked \in [Days -> SUBSET Ids]
    BY LoopTypeParts DEF TypeInv, TypeOK, ControlTypeOK
  <2>4. \A i \in Ids : Counted(i)' => Counted(i)
    BY <2>1, <2>2, <2>3 DEF Counted
  <2> QED BY <2>1, <2>2, <2>4, SameOnlyCloses, BookInvKept
<1> QED BY <1>2, <1>3, <1>4, <1>5, <1>6, <1>7, <1>8, <1>9 DEF Loop, TickStep, BreakerStep, EntryStep

LEMMA BookInvInit == Init => BookInv
<1> SUFFICES ASSUME Init PROVE BookInv
  OBVIOUS
<1>1. /\ \A i \in Ids : rows[i] = <<>>
      /\ \A d \in Days : booked[d] = {}
      /\ found = {} /\ outcomes = {} /\ credit = {} /\ pc = "down"
  BY DEF Init, DatabaseInit, LoopInit
<1>2. \A i \in Ids : OpenRows(i) = {} /\ ~Counted(i)
  BY <1>1 DEF OpenRows, Counted
<1> QED BY <1>1, <1>2 DEF BookInv

LEMMA BookInvNext == TypeInv /\ ClosedInv /\ BookInv /\ [Next]_vars /\ TypeInv' => BookInv'
<1> SUFFICES ASSUME TypeInv, ClosedInv, BookInv, [Next]_vars, TypeInv' PROVE BookInv'
  OBVIOUS
<1>1. Onward
  BY LifeGoesOn
<1>2. CASE Loop
  BY <1>1, <1>2, LoopKeepsBookInv
<1>3. CASE Dies
  <2>1. Forget /\ UNCHANGED <<rows, booked>> /\ pc' = "down"
    BY <1>3 DEF Dies, Crash, tables
  <2> QED BY <1>1, <2>1, SameOnlyCloses, BookInvForget
<1>4. CASE Asks \/ Serves \/ Polls \/ RequestFails
  <2>1. UNCHANGED <<pc, frame, booked>>
    BY <1>4 DEF Asks, Serves, Polls, RequestFails, loopVars
  <2> QED BY <1>1, <1>4, <2>1, RequestsOnlyClose, BookInvOthers
<1>5. CASE Market \/ DayEnds \/ UNCHANGED vars
  <2>1. UNCHANGED <<rows, pc, frame, booked>>
    BY <1>5 DEF Market, DayEnds, vars, tables, loopVars
  <2> QED BY <1>1, <2>1, SameOnlyCloses, BookInvOthers
<1> QED BY <1>2, <1>3, <1>4, <1>5 DEF Next

---------------------------------------------------------------------------

LEMMA AtMostOne == ASSUME NEW S, NEW s \in Seq(S), DOMAIN s \subseteq {1} PROVE Len(s) <= 1
<1>1. DOMAIN s = 1 .. Len(s) /\ Len(s) \in Nat
  OBVIOUS
<1>2. Len(s) > 1 => Len(s) \in DOMAIN s
  BY <1>1
<1> QED BY <1>1, <1>2

LEMMA BookInvParts ==
    TypeInv /\ BookInv => OneOpenRow /\ OutcomeHasOneRow /\ BookedIsFinal
<1> SUFFICES ASSUME TypeInv, BookInv PROVE OneOpenRow /\ OutcomeHasOneRow /\ BookedIsFinal
  OBVIOUS
<1>1. ASSUME NEW i \in Ids PROVE Cardinality(OpenRows(i)) <= 1
  <2>1. CASE OpenRows(i) = {}
    BY <2>1, FS_EmptySet
  <2>2. CASE OpenRows(i) # {}
    <3>1. PICK k \in OpenRows(i) : OpenRows(i) = {k}
      BY <2>2 DEF BookInv
    <3>2. Cardinality({k}) = 1
      BY FS_Singleton
    <3> QED BY <3>1, <3>2
  <2> QED BY <2>1, <2>2
<1>2. ASSUME NEW o \in outcomes PROVE Len(rows[o.id]) <= 1
  <2>1. rows[o.id] \in Seq(Rows)
    BY LoopTypeParts DEF TypeInv, TypeOK, FrameTypeOK, Outcomes, DatabaseTypeOK
  <2>2. DOMAIN rows[o.id] \subseteq {1}
    BY DEF BookInv
  <2> QED BY <2>1, <2>2, AtMostOne
<1>3. BookedIsFinal
  <2> SUFFICES ASSUME NEW d \in Days, NEW i \in booked[d] PROVE Settled(i)
    BY DEF BookedIsFinal, Settled
  <2>1. i \in Ids
    BY LoopTypeParts DEF TypeInv, TypeOK, ControlTypeOK
  <2> QED BY <2>1 DEF BookInv, Counted
<1> QED BY <1>1, <1>2, <1>3 DEF OneOpenRow, OutcomeHasOneRow

LEMMA BookInvAlways == Spec => [](TypeInv /\ ClosedInv /\ BookInv)
<1>1. Init => TypeInv /\ ClosedInv /\ BookInv
  BY TypeInvInit, ClosedInvInit, BookInvInit
<1>2. TypeInv /\ ClosedInv /\ BookInv /\ [Next]_vars => (TypeInv /\ ClosedInv /\ BookInv)'
  BY TypeInvNext, ClosedInvNext, BookInvNext
<1> QED BY <1>1, <1>2, PTL DEF Spec

\* However listings and requests race, a broker id has at most one open row
\* (engine/state.py:114-138, engine/trading_loop.py:207-216).
THEOREM NoSecondOpenRow == Spec => []OneOpenRow
  BY BookInvParts, BookInvAlways, PTL

\* The lookup of a managed position's row finds at most one, so that it never
\* raises halfway through the outcomes (db/crud.py:52-54).
THEOREM OutcomesFindTheirRow == Spec => []OutcomeHasOneRow
  BY BookInvParts, BookInvAlways, PTL

\* What is in a breaker row stays closed, at the broker and in the table
\* (engine/trading_loop.py:218-224).
THEOREM BookedStaysClosed == Spec => []BookedIsFinal
  BY BookInvParts, BookInvAlways, PTL

---------------------------------------------------------------------------
(* The stops the rows show.                                                *)

\* The owner gave up a stop at least as tight, or there is none to hold.
GivenUp(i, s) == pos[i].st = "closed" \/ s <= pos[i].given

\* A row of the position may show this stop.
MayShow(i, s) == GivenUp(i, s) \/ s <= pos[i].stop

RowsMayShow == \A i \in Ids : \A k \in DOMAIN rows[i] : MayShow(i, rows[i][k].stop)

StopInv ==
    /\ RowsMayShow
    /\ \A e \in found : MayShow(e.id, e.stop)
    /\ \A o \in outcomes : MayShow(o.id, o.stop) /\ pos[o.id].st # "unused"
    /\ pc = "manage" =>
         /\ \A e \in found : \A k \in DOMAIN rows[e.id] :
               GivenUp(e.id, rows[e.id][k].stop) \/ rows[e.id][k].stop <= e.stop
         /\ \A e \in found, o \in outcomes : e.id # o.id

\* No stop at the broker is loosened but by the owner.
StopsHold ==
    \A i \in Ids : pos[i].st # "unused" =>
        \A s \in Int : /\ GivenUp(i, s) => GivenUp(i, s)'
                       /\ MayShow(i, s) => MayShow(i, s)'

\* No row is made, and no row's stop is written.
ShownStopsHold ==
    \A i \in Ids :
        /\ DOMAIN rows'[i] = DOMAIN rows[i]
        /\ \A k \in DOMAIN rows[i] : rows'[i][k].stop = rows[i][k].stop

LEMMA HeldStopTypes ==
    ASSUME TypeInv
    PROVE  pos \in [Ids -> Positions] /\ \A j \in Ids : pos[j].stop \in Int /\ pos[j].given \in Int
  BY BrokerAssumption DEF TypeInv, TypeOK, BrokerTypeOK, Positions, Stops, NoStop

LEMMA CloseHoldsStops ==
    ASSUME TypeInv, NEW i, NEW pnl, ClosePosition(i, pnl)
    PROVE  StopsHold
<1> DEFINE new == [pos[i] EXCEPT !.st = "closed", !.stop = NoStop, !.given = NoStop, !.pnl = pnl]
<1>1. pos \in [Ids -> Positions] /\ pos' = [pos EXCEPT ![i] = new]
  BY HeldStopTypes DEF ClosePosition
<1>2. i \in Ids => pos'[i].st = "closed"
  BY <1>1 DEF Positions
<1>3. \A j \in Ids : j # i => pos'[j] = pos[j]
  BY <1>1
<1> HIDE DEF new
<1>4. \A j \in Ids : pos'[j].st = "closed" \/ pos'[j] = pos[j]
  BY <1>2, <1>3
<1> QED BY <1>4 DEF StopsHold, MayShow, GivenUp

LEMMA OpenHoldsStops ==
    ASSUME TypeInv, NEW i, NEW who, NEW stop, OpenPosition(i, who, stop)
    PROVE  StopsHold
<1>1. \A j \in Ids : pos[j].st # "unused" => pos'[j] = pos[j]
  BY HeldStopTypes DEF OpenPosition
<1> QED BY <1>1 DEF StopsHold, MayShow, GivenUp

LEMMA SameHoldsStops == ASSUME UNCHANGED pos PROVE StopsHold
  BY DEF StopsHold, MayShow, GivenUp

\* What the owner loosens, he gives up.
LEMMA OwnerHoldsStops == ASSUME TypeInv, NEW i \in Ids, NEW s \in Stops, MoveByHand(i, s) PROVE StopsHold
<1>1. pos \in [Ids -> Positions] /\ s \in Int
  BY HeldStopTypes, BrokerAssumption DEF Stops, NoStop
<1>2. /\ \A j \in Ids : pos'[j].st = pos[j].st /\ (j # i => pos'[j] = pos[j])
      /\ pos'[i].stop = s
      /\ pos'[i].given = IF pos[i].stop > s /\ pos[i].stop > pos[i].given THEN pos[i].stop ELSE pos[i].given
  BY <1>1 DEF MoveByHand, Positions
<1>3. /\ pos[i].stop \in Int /\ pos[i].given \in Int
      /\ pos[i].given <= pos'[i].given
      /\ pos[i].stop <= s \/ pos[i].stop <= pos'[i].given
  BY <1>1, <1>2, HeldStopTypes
<1>4. pos'[i].given \in Int
  BY <1>2, <1>3
<1>5. \A t \in Int : (GivenUp(i, t) => GivenUp(i, t)') /\ (MayShow(i, t) => MayShow(i, t)')
  BY <1>1, <1>2, <1>3, <1>4 DEF MayShow, GivenUp
<1>6. \A j \in Ids : j # i => \A t \in Int : (GivenUp(j, t) => GivenUp(j, t)') /\ (MayShow(j, t) => MayShow(j, t)')
  BY <1>2 DEF MayShow, GivenUp
<1> QED BY <1>5, <1>6 DEF StopsHold

LEMMA MarketHoldsStops == ASSUME TypeInv, BrokerNext PROVE StopsHold
<1>1. CASE OwnerMovesStop
  BY <1>1, OwnerHoldsStops DEF OwnerMovesStop
<1> QED BY <1>1, CloseHoldsStops, OpenHoldsStops
        DEF BrokerNext, ClosedAtBroker, OwnerOpens, LateFill

LEMMA RequestsHoldStops ==
    ASSUME TypeInv, Asks \/ Serves \/ Polls \/ RequestFails
    PROVE  StopsHold
<1>1. UNCHANGED pos \/ \E i, pnl : ClosePosition(i, pnl)
  <2>1. CASE Asks
    BY <2>1 DEF Asks, Pause, Resume, RequestLive, RevertPractice, UpdateFlipConfig,
                UpdateRiskConfig, KillPause, SetConfig, TelegramClose, brokerVars
  <2>2. CASE Serves
    BY <2>2 DEF Serves, KillCommit, TelegramCommit, KillList, KillDone, KillRefused, KillClose,
                PollInsert, PollConflicts, PollStep, brokerVars
  <2>3. CASE Polls \/ RequestFails
    BY <2>3 DEF Polls, PollSelect, PollStep, RequestFails, KillAborts, TelegramAborts,
                KillCloseFails, brokerVars
  <2> QED BY <2>1, <2>2, <2>3
<1> QED BY <1>1, SameHoldsStops, CloseHoldsStops

LEMMA ClosedShowsStops == ASSUME TypeInv, NEW r \in Refs, CloseTrade(r) PROVE ShownStopsHold
<1> DEFINE row == [rows[r[1]][r[2]] EXCEPT !.status = "closed"]
<1>1. r[1] \in Ids /\ rows \in [Ids -> Seq(Rows)]
  BY DEF Refs, TypeInv, TypeOK, DatabaseTypeOK
<1>2. rows' = [rows EXCEPT ![r[1]] = [rows[r[1]] EXCEPT ![r[2]] = row]]
  BY DEF CloseTrade
<1>3. r[2] \in DOMAIN rows[r[1]] => row.stop = rows[r[1]][r[2]].stop
  BY <1>1 DEF Rows
<1> HIDE DEF row
<1> QED BY <1>1, <1>2, <1>3 DEF ShownStopsHold

\* A row that is made shows no more than the stop it is given.
LEMMA CreatedShowsStop ==
    ASSUME TypeInv, NEW i \in Ids, NEW stop \in Stops, CreateTrade(i, stop),
           MayShow(i, stop), RowsMayShow, UNCHANGED pos
    PROVE  RowsMayShow'
<1> DEFINE row == [status |-> "open", stop |-> stop]
<1>1. rows \in [Ids -> Seq(Rows)] /\ row \in Rows /\ row.stop = stop
  BY DEF TypeInv, TypeOK, DatabaseTypeOK, Rows
<1>2. rows' = [rows EXCEPT ![i] = Append(rows[i], row)]
  BY DEF CreateTrade
<1> HIDE DEF row
<1> SUFFICES ASSUME NEW j \in Ids, NEW k \in DOMAIN rows'[j] PROVE MayShow(j, rows'[j][k].stop)
  BY DEF RowsMayShow, MayShow, GivenUp
<1>3. CASE j # i
  <2>1. rows'[j] = rows[j]
    BY <1>1, <1>2, <1>3
  <2> QED BY <2>1 DEF RowsMayShow
<1>4. CASE j = i
  <2>1. rows'[i] = Append(rows[i], row)
    BY <1>1, <1>2
  <2>2. k \in 1 .. Len(rows[i]) + 1
    BY <1>1, <1>4, <2>1
  <2>3. CASE k = Len(rows[i]) + 1
    BY <1>1, <1>4, <2>1, <2>3
  <2>4. CASE k \in 1 .. Len(rows[i])
    BY <1>1, <1>4, <2>1, <2>4 DEF RowsMayShow
  <2> QED BY <1>1, <2>2, <2>3, <2>4
<1> QED BY <1>3, <1>4

\* A row's stop that is written shows no more than the stop it is given.
LEMMA MovedShowsStop ==
    ASSUME TypeInv, NEW i \in Ids, NEW stop, UpdateTradeStop(<<i, 1>>, stop),
           MayShow(i, stop), RowsMayShow, UNCHANGED pos
    PROVE  RowsMayShow'
<1> DEFINE row == [rows[i][1] EXCEPT !.stop = stop]
<1>1. rows \in [Ids -> Seq(Rows)]
  BY DEF TypeInv, TypeOK, DatabaseTypeOK
<1>2. rows' = [rows EXCEPT ![i] = [rows[i] EXCEPT ![1] = row]]
  BY DEF UpdateTradeStop
<1>3. 1 \in DOMAIN rows[i] => row.stop = stop
  BY <1>1 DEF Rows
<1> HIDE DEF row
<1> SUFFICES ASSUME NEW j \in Ids, NEW k \in DOMAIN rows'[j] PROVE MayShow(j, rows'[j][k].stop)
  BY DEF RowsMayShow, MayShow, GivenUp
<1>4. k \in DOMAIN rows[j]
  BY <1>1, <1>2
<1>5. CASE j = i /\ k = 1
  BY <1>1, <1>2, <1>3, <1>4, <1>5
<1>6. CASE ~(j = i /\ k = 1)
  <2>1. rows'[j][k] = rows[j][k]
    BY <1>1, <1>2, <1>4, <1>6
  <2> QED BY <1>4, <2>1 DEF RowsMayShow
<1> QED BY <1>5, <1>6

LEMMA SameShowsStops == ASSUME UNCHANGED rows PROVE ShownStopsHold
  BY DEF ShownStopsHold

---------------------------------------------------------------------------
(* The invariant is inductive.                                             *)

LEMMA StopTypes ==
    ASSUME TypeInv
    PROVE  /\ pos \in [Ids -> Positions] /\ \A i \in Ids : pos[i].stop \in Int /\ pos[i].given \in Int
           /\ rows \in [Ids -> Seq(Rows)] /\ \A i \in Ids : \A k \in DOMAIN rows[i] : rows[i][k].stop \in Int
           /\ \A e \in found : e.id \in Ids /\ e.stop \in Stops /\ e.stop \in Int
           /\ \A o \in outcomes : o \in Outcomes /\ o.id \in Ids /\ o.stop \in Stops /\ o.stop \in Int
<1>1. Stops \subseteq Int
  BY BrokerAssumption DEF Stops, NoStop
<1>2. /\ pos \in [Ids -> Positions] /\ rows \in [Ids -> Seq(Rows)]
      /\ found \in Listings /\ outcomes \subseteq Outcomes
  BY LoopTypeParts DEF TypeInv, TypeOK, FrameTypeOK, BrokerTypeOK, DatabaseTypeOK
<1>3. \A i \in Ids : pos[i].stop \in Int /\ pos[i].given \in Int
  BY <1>1, <1>2 DEF Positions
<1>4. \A i \in Ids : \A k \in DOMAIN rows[i] : rows[i][k].stop \in Int
  <2> SUFFICES ASSUME NEW i \in Ids, NEW k \in DOMAIN rows[i] PROVE rows[i][k].stop \in Int
    OBVIOUS
  <2>1. rows[i] \in Seq(Rows)
    BY <1>2
  <2>2. rows[i][k] \in Rows
    BY <2>1
  <2> QED BY <1>1, <2>2 DEF Rows
<1>5. /\ \A e \in found : e.id \in Ids /\ e.stop \in Stops
      /\ \A o \in outcomes : o \in Outcomes /\ o.id \in Ids /\ o.stop \in Stops
  BY <1>2 DEF Listings, Outcomes
<1> QED BY <1>1, <1>2, <1>3, <1>4, <1>5

\* Where no stop is moved down at the broker, and none is written or listed.
LEMMA StopInvKept ==
    ASSUME TypeInv, TypeInv', ClosedInv, StopInv, Onward, StopsHold, ShownStopsHold,
           found' \subseteq found,
           \A o \in outcomes' : \E q \in outcomes : q.id = o.id /\ q.stop = o.stop,
           pc' = "manage" => pc = "manage"
    PROVE  StopInv'
<1> USE StopTypes
<1>1. ASSUME NEW i \in Ids, NEW k \in DOMAIN rows'[i] PROVE MayShow(i, rows[i][k].stop)'
  <2>1. k \in DOMAIN rows[i] /\ rows'[i][k].stop = rows[i][k].stop /\ rows[i] # <<>>
    BY DEF ShownStopsHold
  <2>2. pos[i].st # "unused" /\ rows[i][k].stop \in Int /\ MayShow(i, rows[i][k].stop)
    BY <2>1 DEF ClosedInv, StopInv, RowsMayShow
  <2> QED BY <2>1, <2>2 DEF StopsHold, MayShow, GivenUp
<1>2. ASSUME NEW e \in found' PROVE MayShow(e.id, e.stop)'
  BY DEF ClosedInv, StopInv, StopsHold
<1>3. ASSUME NEW o \in outcomes' PROVE MayShow(o.id, o.stop)' /\ pos'[o.id].st # "unused"
  <2>1. PICK q \in outcomes : q.id = o.id /\ q.stop = o.stop
    OBVIOUS
  <2>2. MayShow(q.id, q.stop) /\ pos[q.id].st # "unused" /\ q.id \in Ids /\ q.stop \in Int
    BY DEF StopInv
  <2>3. MayShow(q.id, q.stop)' /\ pos'[q.id].st # "unused"
    BY <2>2 DEF StopsHold, Onward
  <2> QED BY <2>1, <2>3 DEF MayShow, GivenUp
<1>4. ASSUME pc' = "manage", NEW e \in found'
      PROVE  /\ \A k \in DOMAIN rows'[e.id] : GivenUp(e.id, rows[e.id][k].stop)' \/ rows'[e.id][k].stop <= e.stop
             /\ \A o \in outcomes' : e.id # o.id
  <2>1. pc = "manage" /\ e \in found /\ e.id \in Ids /\ pos[e.id].st # "unused"
    BY <1>4 DEF ClosedInv
  <2>2. ASSUME NEW k \in DOMAIN rows'[e.id], ~(rows'[e.id][k].stop <= e.stop)
        PROVE  GivenUp(e.id, rows[e.id][k].stop)'
    <3>1. k \in DOMAIN rows[e.id] /\ rows'[e.id][k].stop = rows[e.id][k].stop /\ rows[e.id][k].stop \in Int
      BY <2>1 DEF ShownStopsHold
    <3>2. GivenUp(e.id, rows[e.id][k].stop)
      BY <2>1, <2>2, <3>1 DEF StopInv
    <3> QED BY <2>1, <3>1, <3>2 DEF StopsHold, GivenUp
  <2>3. \A o \in outcomes' : e.id # o.id
    BY <2>1 DEF StopInv
  <2> QED BY <2>2, <2>3
<1> QED BY <1>1, <1>2, <1>3, <1>4 DEF StopInv, RowsMayShow, MayShow, GivenUp

LEMMA StopInvForget ==
    ASSUME TypeInv, TypeInv', ClosedInv, StopInv, Onward, StopsHold, ShownStopsHold,
           Forget, pc' # "manage"
    PROVE  StopInv'
<1>1. found' = {} /\ outcomes' = {}
  BY DEF Forget
<1> QED BY <1>1, StopInvKept

\* Positions and rows being left alone, the tick goes on with what it has.
LEMMA StopInvGoesOn ==
    ASSUME TypeInv, TypeInv', ClosedInv, StopInv, Onward, UNCHANGED <<pos, rows>>,
           found' \subseteq found, outcomes' \subseteq outcomes, pc' # "manage"
    PROVE  StopInv'
  BY StopInvKept, SameHoldsStops, SameShowsStops

LEMMA ReconcileKeepsStopInv ==
    ASSUME TypeInv, TypeInv', ClosedInv, BookInv, StopInv, Onward, ReconcileStep
    PROVE  StopInv'
<1> USE StopTypes
<1>1. \A r \in lost : r \in Refs
  BY LoopTypeParts DEF TypeInv, TypeOK, FrameTypeOK
<1>2. CASE ReconcileList
  <2>1. /\ found' = Listing /\ pc = "listing" /\ pc' = "rows" /\ UNCHANGED <<pos, rows, outcomes>>
    BY <1>2 DEF ReconcileList, GoTo, brokerVars, tables
  <2>2. \A e \in found' : e.stop = pos'[e.id].stop /\ e.id \in Ids
    BY <2>1 DEF Listing, OpenIds
  <2> QED BY <2>1, <2>2 DEF StopInv, RowsMayShow, MayShow, GivenUp
<1>3. CASE ReconcileRows \/ ReconcileDone
  <2>1. UNCHANGED <<pos, rows>> /\ found' \subseteq found /\ outcomes' \subseteq outcomes /\ pc' # "manage"
    BY <1>3 DEF ReconcileRows, ReconcileDone, ToAdopt, Forget, frame, GoTo, brokerVars, tables
  <2> QED BY <2>1, StopInvGoesOn
<1>4. ASSUME NEW r \in lost, ReconcileClose(r) \/ ReconcileLookupFails(r) PROVE StopInv'
  <2>1. CloseTrade(r) /\ UNCHANGED <<pos, found, outcomes>> /\ pc' = "reconcile"
    BY <1>4 DEF ReconcileClose, ReconcileLookupFails, GoTo, brokerVars
  <2>2. StopsHold /\ ShownStopsHold
    BY <1>1, <2>1, SameHoldsStops, ClosedShowsStops
  <2> QED BY <2>1, <2>2, StopInvKept
<1>5. ASSUME NEW r \in lost, ReconcileHistoryLags(r) PROVE StopInv'
  <2>1. CloseTrade(r) /\ UNCHANGED pos /\ Forget /\ pc' # "manage"
    BY <1>5 DEF ReconcileHistoryLags, Raise, brokerVars
  <2>2. StopsHold /\ ShownStopsHold
    BY <1>1, <2>1, SameHoldsStops, ClosedShowsStops
  <2> QED BY <2>1, <2>2, StopInvForget
<1>6. ASSUME NEW e \in found, ReconcileAdopt(e) PROVE StopInv'
  <2>1. /\ CreateTrade(e.id, e.stop) /\ UNCHANGED <<pos, outcomes>>
        /\ found' \subseteq found /\ pc' = "reconcile"
    BY <1>6 DEF ReconcileAdopt, GoTo, brokerVars
  <2>2. RowsMayShow'
    BY <2>1, CreatedShowsStop DEF StopInv
  <2> QED BY <2>1, <2>2 DEF StopInv, MayShow, GivenUp
<1> QED BY <1>2, <1>3, <1>4, <1>5, <1>6 DEF ReconcileStep

LEMMA ManageKeepsStopInv ==
    ASSUME TypeInv, TypeInv', ClosedInv, BookInv, StopInv, Onward, ManageStep
    PROVE  StopInv'
<1> USE StopTypes
<1>1. CASE FetchPositions
  <2>1. /\ found' = Listing /\ pc = "fetch" /\ pc' = "manage" /\ UNCHANGED <<pos, rows, outcomes>>
    BY <1>1 DEF FetchPositions, GoTo, brokerVars, tables
  <2>2. \A e \in found' : e.stop = pos'[e.id].stop /\ e.id \in Ids
    BY <2>1 DEF Listing, OpenIds
  <2>3. outcomes' = {}
    BY <2>1 DEF BookInv
  <2>4. ASSUME NEW e \in found', NEW k \in DOMAIN rows'[e.id]
        PROVE  GivenUp(e.id, rows[e.id][k].stop)' \/ rows'[e.id][k].stop <= e.stop
    BY <2>1, <2>2 DEF StopInv, RowsMayShow, MayShow, GivenUp
  <2> QED BY <2>1, <2>2, <2>3, <2>4 DEF StopInv, RowsMayShow, MayShow, GivenUp
<1>2. CASE ManageDone \/ OutcomesDone
  <2>1. UNCHANGED <<pos, rows>> /\ found' \subseteq found /\ outcomes' \subseteq outcomes /\ pc' # "manage"
    BY <1>2 DEF ManageDone, OutcomesDone, GoTo, brokerVars, tables
  <2> QED BY <2>1, StopInvGoesOn
<1>3. ASSUME NEW e \in found, NEW stop \in Int, NEW kind, Managed(e, stop, kind), pc = "manage",
             \A i \in Ids : i # e.id => pos'[i] = pos[i],
             pos'[e.id].st = "closed" \/ (stop > e.stop /\ pos' = [pos EXCEPT ![e.id].stop = stop]),
             pos'[e.id].st # "unused"
      PROVE  StopInv'
  <2> DEFINE new == [id |-> e.id, stop |-> stop, kind |-> kind, applied |-> FALSE]
  <2>1. /\ UNCHANGED rows /\ found' = found \ {e} /\ pc' = "manage" /\ outcomes' = outcomes \cup {new}
    BY <1>3 DEF Managed, GoTo, tables
  <2>2. new.id = e.id /\ new.stop = stop
    OBVIOUS
  <2> HIDE DEF new
  <2>3. \A f \in found' : f \in found /\ f.id # e.id
    BY <2>1 DEF BookInv
  <2>4. \A o \in outcomes : o.id # e.id
    BY <1>3 DEF StopInv
  <2>5. /\ \A k \in DOMAIN rows[e.id] : MayShow(e.id, rows[e.id][k].stop)'
        /\ MayShow(e.id, stop)'
    <3>1. CASE pos'[e.id].st = "closed"
      BY <3>1 DEF MayShow, GivenUp
    <3>2. CASE stop > e.stop /\ pos' = [pos EXCEPT ![e.id].stop = stop]
      <4>1. /\ pos'[e.id].st = pos[e.id].st /\ pos'[e.id].given = pos[e.id].given
            /\ pos'[e.id].stop = stop
        BY <3>2 DEF Positions
      <4>2. ASSUME NEW k \in DOMAIN rows[e.id] PROVE MayShow(e.id, rows[e.id][k].stop)'
        <5>1. rows[e.id][k].stop \in Int /\ (GivenUp(e.id, rows[e.id][k].stop) \/ rows[e.id][k].stop <= e.stop)
          BY <1>3 DEF StopInv
        <5> QED BY <2>1, <3>2, <4>1, <5>1 DEF MayShow, GivenUp
      <4> QED BY <4>1, <4>2 DEF MayShow
    <3> QED BY <1>3, <3>1, <3>2
  <2>6. RowsMayShow'
    <3> SUFFICES ASSUME NEW i \in Ids, NEW k \in DOMAIN rows[i] PROVE MayShow(i, rows[i][k].stop)'
      BY <2>1 DEF RowsMayShow
    <3>1. CASE i = e.id
      BY <2>5, <3>1
    <3>2. CASE i # e.id
      BY <1>3, <2>1, <3>2 DEF StopInv, RowsMayShow, MayShow, GivenUp
    <3> QED BY <3>1, <3>2
  <2>7. \A f \in found' : MayShow(f.id, f.stop)'
    BY <1>3, <2>3 DEF StopInv, MayShow, GivenUp
  <2>8. \A o \in outcomes' : MayShow(o.id, o.stop)' /\ pos'[o.id].st # "unused"
    <3> SUFFICES ASSUME NEW o \in outcomes' PROVE MayShow(o.id, o.stop)' /\ pos'[o.id].st # "unused"
      OBVIOUS
    <3>1. CASE o = new
      BY <1>3, <2>2, <2>5, <3>1
    <3>2. CASE o \in outcomes
      BY <1>3, <2>4, <3>2 DEF StopInv, MayShow, GivenUp
    <3> QED BY <2>1, <3>1, <3>2
  <2>9. /\ \A f \in found' : \A k \in DOMAIN rows'[f.id] :
              GivenUp(f.id, rows[f.id][k].stop)' \/ rows'[f.id][k].stop <= f.stop
        /\ \A f \in found', o \in outcomes' : f.id # o.id
    <3>1. ASSUME NEW f \in found', NEW k \in DOMAIN rows'[f.id]
          PROVE  GivenUp(f.id, rows[f.id][k].stop)' \/ rows'[f.id][k].stop <= f.stop
      BY <1>3, <2>1, <2>3 DEF StopInv, GivenUp
    <3>2. ASSUME NEW f \in found', NEW o \in outcomes' PROVE f.id # o.id
      BY <1>3, <2>1, <2>2, <2>3 DEF StopInv
    <3> QED BY <3>1, <3>2
  <2> QED BY <2>1, <2>6, <2>7, <2>8, <2>9 DEF StopInv
<1>4. ASSUME NEW e \in found, NEW p \in Pnls, ManageClose(e, p) PROVE StopInv'
  <2> DEFINE closed == [pos[e.id] EXCEPT !.st = "closed", !.stop = NoStop, !.given = NoStop, !.pnl = p]
  <2>1. pc = "manage" /\ Managed(e, e.stop, "close") /\ pos' = [pos EXCEPT ![e.id] = closed]
    BY <1>4 DEF ManageClose, ClosePosition
  <2>2. closed.st = "closed"
    BY DEF Positions
  <2> HIDE DEF closed
  <2>3. /\ \A i \in Ids : i # e.id => pos'[i] = pos[i]
        /\ pos'[e.id].st = "closed" /\ e.stop \in Int /\ pos'[e.id].st # "unused"
    BY <2>1, <2>2
  <2> QED BY <1>3, <2>1, <2>3
<1>5. ASSUME NEW e \in found, NEW s \in 0 .. MaxStop, ManageMove(e, s) PROVE StopInv'
  <2>1. /\ pc = "manage" /\ Managed(e, s, "move") /\ s > e.stop /\ pos[e.id].st = "open"
        /\ pos' = [pos EXCEPT ![e.id].stop = s]
    BY <1>5 DEF ManageMove, ModifyStopLoss, IsOpen
  <2>2. s \in Int
    BY BrokerAssumption
  <2>3. (\A i \in Ids : i # e.id => pos'[i] = pos[i]) /\ pos'[e.id].st = "open"
    BY <2>1 DEF Positions
  <2> QED BY <1>3, <2>1, <2>2, <2>3
<1>6. ASSUME NEW e \in found, \/ ManageRefused(e)
                              \/ \E p \in Pnls : ManageCloseUnconfirmed(e, p)
      PROVE StopInv'
  <2>1. Forget /\ UNCHANGED rows /\ pc' # "manage"
    BY <1>6 DEF ManageRefused, ManageCloseUnconfirmed, Raise, tables
  <2>2. StopsHold
    BY <1>6, SameHoldsStops, CloseHoldsStops DEF ManageRefused, ManageCloseUnconfirmed, brokerVars
  <2> QED BY <2>1, <2>2, SameShowsStops, StopInvForget
<1>7. ASSUME NEW o \in outcomes, ApplyOutcome(o) PROVE StopInv'
  <2>1. UNCHANGED pos /\ StopsHold
    BY <1>7, SameHoldsStops DEF ApplyOutcome, brokerVars
  <2>2. CASE Len(rows[o.id]) > 1
    <3>1. Forget /\ UNCHANGED rows /\ pc' # "manage"
      BY <1>7, <2>2 DEF ApplyOutcome, Raise
    <3> QED BY <2>1, <3>1, SameShowsStops, StopInvForget
  <2>3. CASE ~(Len(rows[o.id]) > 1)
    <3> DEFINE done == [o EXCEPT !.applied = TRUE]
    <3>1. /\ WriteOutcome(o) /\ pc' = "outcomes" /\ UNCHANGED found
          /\ outcomes' = (outcomes \ {o}) \cup {done}
      BY <1>7, <2>3 DEF ApplyOutcome, GoTo
    <3>2. done.id = o.id /\ done.stop = o.stop
      BY DEF Outcomes
    <3> HIDE DEF done
    <3>3. \A q \in outcomes' : \E p \in outcomes : p.id = q.id /\ p.stop = q.stop
      BY <3>1, <3>2
    <3>4. CASE UNCHANGED rows
      BY <2>1, <3>1, <3>3, <3>4, SameShowsStops, StopInvKept
    <3>5. CASE CloseTrade(<<o.id, 1>>)
      <4>1. <<o.id, 1>> \in Refs
        BY DEF Refs
      <4>2. ShownStopsHold
        BY <3>5, <4>1, ClosedShowsStops
      <4> QED BY <2>1, <3>1, <3>3, <4>2, StopInvKept
    <3>6. CASE UpdateTradeStop(<<o.id, 1>>, o.stop)
      <4>1. RowsMayShow'
        BY <2>1, <3>6, MovedShowsStop DEF StopInv
      <4>2. \A q \in outcomes' : MayShow(q.id, q.stop) /\ pos[q.id].st # "unused"
        BY <3>1, <3>2 DEF StopInv
      <4> QED BY <2>1, <3>1, <4>1, <4>2 DEF StopInv, MayShow, GivenUp
    <3> QED BY <3>1, <3>4, <3>5, <3>6 DEF WriteOutcome
  <2> QED BY <2>2, <2>3
<1> QED BY <1>1, <1>2, <1>4, <1>5, <1>6, <1>7 DEF ManageStep

LEMMA LoopKeepsStopInv ==
    ASSUME TypeInv, TypeInv', ClosedInv, BookInv, StopInv, Onward, Loop
    PROVE  StopInv'
<1> USE StopTypes
<1>1. CASE \/ TickStart \/ Restart
           \/ BreakerSelect \/ BreakerInsert \/ BreakerReselect \/ BreakerReinsert
           \/ FlipJudged \/ FlipEnds \/ FlipGoesOn \/ NoEntry
  <2>1. UNCHANGED <<pos, rows, found, outcomes>> /\ pc' # "manage"
    BY <1>1 DEF TickStart, Restart, BreakerSelect, BreakerInsert, BreakerReselect, BreakerReinsert,
                FlipJudged, FlipEnds, FlipGoesOn, NoEntry, GoTo, frame, brokerVars, tables
  <2> QED BY <2>1, StopInvGoesOn
<1>2. CASE TickPaused
  <2>1. UNCHANGED <<pos, rows, found, outcomes>> /\ pc' # "manage"
    BY <1>2 DEF TickPaused, loopVars, frame, brokerVars, tables
  <2> QED BY <2>1, StopInvGoesOn
<1>3. CASE TickFails \/ BreakerInsertConflicts \/ PlaceOrderLate \/ Persist
  <2>1. Forget /\ UNCHANGED <<pos, rows>> /\ pc' # "manage"
    BY <1>3 DEF TickFails, BreakerInsertConflicts, PlaceOrderLate, Persist, Raise, brokerVars, tables
  <2> QED BY <2>1, SameHoldsStops, SameShowsStops, StopInvForget
<1>4. ASSUME NEW i \in Ids, PlaceOrderLost(i) PROVE StopInv'
  <2>1. Forget /\ OpenPosition(i, "bot", 0) /\ UNCHANGED rows /\ pc' # "manage"
    BY <1>4 DEF PlaceOrderLost, Raise, tables
  <2> QED BY <2>1, OpenHoldsStops, SameShowsStops, StopInvForget
<1>5. CASE ReconcileStep
  BY <1>5, ReconcileKeepsStopInv
<1>6. CASE ManageStep
  BY <1>6, ManageKeepsStopInv
<1>7. ASSUME NEW i \in Ids, PlaceOrder(i) PROVE StopInv'
  <2>1. /\ OpenPosition(i, "bot", 0) /\ found' = {[id |-> i, stop |-> 0]}
        /\ pc = "entry" /\ pc' = "record" /\ UNCHANGED <<rows, outcomes>>
    BY <1>7 DEF PlaceOrder, GoTo, tables
  <2>2. pos'[i].stop = 0
    BY <2>1 DEF OpenPosition
  <2>3. \A e \in found' : e.id = i /\ e.stop = 0
    BY <2>1
  <2>4. outcomes' = {}
    BY <2>1 DEF BookInv
  <2>5. RowsMayShow'
    <3> SUFFICES ASSUME NEW j \in Ids, NEW k \in DOMAIN rows[j] PROVE MayShow(j, rows[j][k].stop)'
      BY <2>1 DEF RowsMayShow
    <3>1. pos[j].st # "unused"
      BY DEF ClosedInv
    <3>2. pos'[j] = pos[j]
      BY <2>1, <3>1 DEF OpenPosition
    <3> QED BY <2>1, <3>2 DEF StopInv, RowsMayShow, MayShow, GivenUp
  <2> QED BY <2>1, <2>2, <2>3, <2>4, <2>5 DEF StopInv, MayShow, GivenUp
<1>8. CASE RecordTrade
  <2>1. PICK e \in found : CreateTrade(e.id, e.stop)
    BY <1>8 DEF RecordTrade
  <2>2. found' = {} /\ pc = "record" /\ pc' = "persist" /\ UNCHANGED <<pos, outcomes>>
    BY <1>8 DEF RecordTrade, GoTo, brokerVars
  <2>3. RowsMayShow'
    BY <2>1, <2>2, CreatedShowsStop DEF StopInv
  <2> QED BY <2>2, <2>3 DEF StopInv, MayShow, GivenUp
<1> QED BY <1>1, <1>2, <1>3, <1>4, <1>5, <1>6, <1>7, <1>8 DEF Loop, TickStep, BreakerStep, EntryStep

LEMMA StopInvInit == Init => StopInv
<1> SUFFICES ASSUME Init PROVE StopInv
  OBVIOUS
<1>1. (\A i \in Ids : rows[i] = <<>>) /\ found = {} /\ outcomes = {}
  BY DEF Init, DatabaseInit, LoopInit
<1> QED BY <1>1 DEF StopInv, RowsMayShow

LEMMA StopInvNext ==
    TypeInv /\ TypeInv' /\ ClosedInv /\ BookInv /\ StopInv /\ [Next]_vars => StopInv'
<1> SUFFICES ASSUME TypeInv, TypeInv', ClosedInv, BookInv, StopInv, [Next]_vars PROVE StopInv'
  OBVIOUS
<1>1. Onward
  BY LifeGoesOn
<1>2. CASE Loop
  BY <1>1, <1>2, LoopKeepsStopInv
<1>3. CASE Dies
  <2>1. Forget /\ UNCHANGED <<pos, rows>> /\ pc' # "manage"
    BY <1>3 DEF Dies, Crash, brokerVars, tables
  <2> QED BY <1>1, <2>1, SameHoldsStops, SameShowsStops, StopInvForget
<1>4. CASE Asks \/ Serves \/ Polls \/ RequestFails
  <2>1. UNCHANGED <<pc, found, outcomes>>
    BY <1>4 DEF Asks, Serves, Polls, RequestFails, loopVars, frame
  <2>2. StopsHold /\ ShownStopsHold
    BY <1>4, RequestsHoldStops, RequestRows, SameShowsStops, ClosedShowsStops
  <2> QED BY <1>1, <2>1, <2>2, StopInvKept
<1>5. CASE Market
  <2>1. UNCHANGED <<pc, found, outcomes, rows>>
    BY <1>5 DEF Market, loopVars, frame, tables
  <2>2. StopsHold
    BY <1>5, MarketHoldsStops DEF Market
  <2> QED BY <1>1, <2>1, <2>2, SameShowsStops, StopInvKept
<1>6. CASE DayEnds \/ UNCHANGED vars
  <2>1. UNCHANGED <<pc, found, outcomes, rows, pos>>
    BY <1>6 DEF DayEnds, vars, loopVars, frame, tables, brokerVars
  <2> QED BY <1>1, <2>1, SameHoldsStops, SameShowsStops, StopInvKept
<1> QED BY <1>2, <1>3, <1>4, <1>5, <1>6 DEF Next

\* The stop in the table is in force at the broker, or the broker holds a
\* tighter one, or the owner held such a one and gave it up in the terminal,
\* which a known row never follows (engine/state.py:91-93); whatever the loop
\* and its failures did to either (engine/position_manager.py:35-36,
\* engine/trading_loop.py:127-134).
THEOREM RowsAheadOnlyByOwner == Spec => []RowStopNotAhead
<1>1. StopInv => RowStopNotAhead
  BY DEF StopInv, RowsMayShow, MayShow, GivenUp, RowStopNotAhead, OpenIds, IsOpen
<1>2. TypeInv /\ ClosedInv /\ BookInv /\ StopInv /\ [Next]_vars => (TypeInv /\ ClosedInv /\ BookInv /\ StopInv)'
  BY TypeInvNext, ClosedInvNext, BookInvNext, StopInvNext
<1>3. Init => TypeInv /\ ClosedInv /\ BookInv /\ StopInv
  BY TypeInvInit, ClosedInvInit, BookInvInit, StopInvInit
<1> QED BY <1>1, <1>2, <1>3, PTL DEF Spec
=============================================================================
