------------------------ MODULE BacktestReplayProofs -------------------------
(***************************************************************************)
(* What the replay of a backtest does to its account, for every history,   *)
(* strategy and setting.                                                   *)
(***************************************************************************)
EXTENDS BacktestRun, SumProofs

---------------------------------------------------------------------------
(* Sums over positions and over trades                                     *)

OpenPnl(positions, price) == SumFunction([p \in positions |-> Pnl(p, price)])

On(trades, d) == {c \in trades : c.day = d}
PnlOn(trades, d) == SumFunction([c \in On(trades, d) |-> c.pnl])

AtEnd(trades) == {c \in trades : c.reason = "backtest_end"}
VolumeAtEnd(trades) == SumFunction([c \in AtEnd(trades) |-> c.position.volume])

LEMMA SignIsOne == ASSUME NEW side PROVE Sign(side) \in {1, -1}
  BY DEF Sign

LEMMA PositionFields ==
    ASSUME NEW p \in SimPositions
    PROVE  /\ p.id \in Nat /\ p.side \in Sides /\ p.volume \in Nat /\ p.entry \in Int
           /\ p.stop \in Int /\ p.target \subseteq Int /\ p.opened \in Nat /\ p.risk \in Int
  BY DEF SimPositions

LEMMA Worthwhile == ASSUME NEW p \in SimPositions PROVE p.volume * Contract \in Nat
  BY PositionFields, BacktestAssumption

LEMMA Associates == ASSUME NEW a \in Int, NEW b \in Int, NEW c \in Int PROVE (a * b) * c = a * (b * c)
  OBVIOUS

\* The PnL is what a unit of price is worth, times the way the price went.
LEMMA PnlIsWorth ==
    ASSUME NEW p \in SimPositions, NEW price \in Int
    PROVE  /\ Pnl(p, price) = (Sign(p.side) * (price - p.entry)) * (p.volume * Contract)
           /\ Pnl(p, price) \in Int
<1> DEFINE way == Sign(p.side) * (price - p.entry)
<1>1. p.entry \in Int /\ p.volume \in Int /\ Contract \in Int /\ Sign(p.side) \in {1, -1}
  BY PositionFields, SignIsOne, BacktestAssumption
<1>2. way \in Int
  BY <1>1
<1>3. Pnl(p, price) = (way * p.volume) * Contract
  BY DEF Pnl
<1> HIDE DEF way
<1>4. Pnl(p, price) = way * (p.volume * Contract) /\ Pnl(p, price) \in Int
  BY <1>1, <1>2, <1>3, Associates
<1> QED BY <1>4 DEF way

LEMMA OpenPnlType ==
    ASSUME NEW S, IsFiniteSet(S), \A p \in S : p \in SimPositions, NEW price \in Int
    PROVE  OpenPnl(S, price) \in Int
<1> DEFINE f == [p \in S |-> Pnl(p, price)]
<1>1. DOMAIN f = S /\ \A p \in S : f[p] \in Int
  BY PnlIsWorth
<1> HIDE DEF f
<1>2. SumFunction(f) \in Int
  BY <1>1, TotalType
<1> QED BY <1>2 DEF f, OpenPnl

LEMMA OpenPnlOfNone == ASSUME NEW price PROVE OpenPnl({}, price) = 0
  BY TotalOfNone DEF OpenPnl

LEMMA OpenPnlOfOthers ==
    ASSUME NEW S, IsFiniteSet(S), \A p \in S : p \in SimPositions, NEW price \in Int, NEW p \in S
    PROVE  OpenPnl(S, price) = OpenPnl(S \ {p}, price) + Pnl(p, price)
<1> DEFINE f == [q \in S |-> Pnl(q, price)]
           g == [q \in S \ {p} |-> Pnl(q, price)]
<1>1. /\ IsFiniteSet(DOMAIN g) /\ p \notin DOMAIN g /\ DOMAIN f = DOMAIN g \cup {p}
      /\ \A q \in DOMAIN g : f[q] = g[q]
      /\ \A q \in DOMAIN f : f[q] \in Int
      /\ f[p] = Pnl(p, price)
  BY PnlIsWorth, FS_Subset
<1> HIDE DEF f, g
<1>2. SumFunction(f) = SumFunction(g) + f[p]
  BY <1>1, TotalGrows
<1> QED BY <1>1, <1>2 DEF f, g, OpenPnl

LEMMA TradeFields ==
    ASSUME NEW c \in Trades
    PROVE  /\ c.position \in SimPositions /\ c.price \in Int /\ c.pnl \in Int
           /\ c.bar \in 0 .. MaxBars /\ c.day \in Nat
  BY DEF Trades

LEMMA PnlOnNone == ASSUME NEW T, NEW d, On(T, d) = {} PROVE PnlOn(T, d) = 0
  BY TotalOfNone DEF PnlOn

\* A trade more on its day.
LEMMA PnlOnGrows ==
    ASSUME NEW T, IsFiniteSet(T), \A c \in T : c \in Trades, NEW e \in Trades, e \notin T
    PROVE  PnlOn(T \cup {e}, e.day) = PnlOn(T, e.day) + e.pnl
<1> DEFINE f == [c \in On(T \cup {e}, e.day) |-> c.pnl]
           g == [c \in On(T, e.day) |-> c.pnl]
<1>1. On(T \cup {e}, e.day) = On(T, e.day) \cup {e} /\ e \notin On(T, e.day)
  BY DEF On
<1>2. IsFiniteSet(On(T, e.day))
  BY FS_Subset DEF On
<1>3. \A c \in On(T \cup {e}, e.day) : c.pnl \in Int
  BY TradeFields DEF On
<1>4. /\ IsFiniteSet(DOMAIN g) /\ e \notin DOMAIN g /\ DOMAIN f = DOMAIN g \cup {e}
      /\ \A c \in DOMAIN g : f[c] = g[c]
      /\ \A c \in DOMAIN f : f[c] \in Int
      /\ f[e] = e.pnl
  BY <1>1, <1>2, <1>3
<1> HIDE DEF f, g
<1>5. SumFunction(f) = SumFunction(g) + f[e]
  BY <1>4, TotalGrows
<1> QED BY <1>4, <1>5 DEF f, g, PnlOn

LEMMA VolumeAtEndOfNone == ASSUME NEW T, AtEnd(T) = {} PROVE VolumeAtEnd(T) = 0
  BY TotalOfNone DEF VolumeAtEnd

LEMMA VolumeAtEndGrows ==
    ASSUME NEW T, IsFiniteSet(T), \A c \in T : c \in Trades,
           NEW e \in Trades, e \notin T, e.reason = "backtest_end"
    PROVE  /\ VolumeAtEnd(T \cup {e}) = VolumeAtEnd(T) + e.position.volume
           /\ VolumeAtEnd(T) \in Int
<1> DEFINE f == [c \in AtEnd(T \cup {e}) |-> c.position.volume]
           g == [c \in AtEnd(T) |-> c.position.volume]
<1>1. AtEnd(T \cup {e}) = AtEnd(T) \cup {e} /\ e \notin AtEnd(T)
  BY DEF AtEnd
<1>2. IsFiniteSet(AtEnd(T))
  BY FS_Subset DEF AtEnd
<1>3. \A c \in AtEnd(T \cup {e}) : c.position.volume \in Int
  BY TradeFields, PositionFields DEF AtEnd
<1>4. /\ IsFiniteSet(DOMAIN g) /\ e \notin DOMAIN g /\ DOMAIN f = DOMAIN g \cup {e}
      /\ \A c \in DOMAIN g : f[c] = g[c] /\ g[c] \in Int
      /\ \A c \in DOMAIN f : f[c] \in Int
      /\ f[e] = e.position.volume
  BY <1>1, <1>2, <1>3
<1> HIDE DEF f, g
<1>5. SumFunction(f) = SumFunction(g) + f[e] /\ SumFunction(g) \in Int
  BY <1>4, TotalGrows, TotalType
<1> QED BY <1>4, <1>5 DEF f, g, VolumeAtEnd

\* The rows the trades are stored as; only a position's own trade has its id.
RowsOf(trades) == {TradeRow(c) : c \in trades}

LEMMA TradeRowFields ==
    ASSUME NEW c PROVE TradeRow(c).id = c.position.id /\ TradeRow(c).pnl = c.pnl
  BY DEF TradeRow

LEMMA RowsAreFinite == ASSUME NEW T, IsFiniteSet(T) PROVE IsFiniteSet(RowsOf(T))
<1> DEFINE f == [c \in T |-> TradeRow(c)]
<1>1. f \in Surjection(T, RowsOf(T))
  BY DEF Surjection, RowsOf
<1> QED BY <1>1, FS_Surjection

LEMMA TotalPnlType ==
    ASSUME NEW T, IsFiniteSet(T), \A t \in T : t.pnl \in Int PROVE TotalPnl(T) \in Int
<1> DEFINE f == [t \in T |-> t.pnl]
<1>1. DOMAIN f = T /\ \A t \in T : f[t] \in Int
  OBVIOUS
<1> HIDE DEF f
<1>2. SumFunction(f) \in Int
  BY <1>1, TotalType
<1> QED BY <1>2 DEF f, TotalPnl

LEMMA TotalPnlGrows ==
    ASSUME NEW T, IsFiniteSet(T), \A c \in T : c \in Trades, NEW e \in Trades,
           \A c \in T : c.position.id # e.position.id
    PROVE  /\ TotalPnl(RowsOf(T \cup {e})) = TotalPnl(RowsOf(T)) + e.pnl
           /\ TotalPnl(RowsOf(T)) \in Int
<1> DEFINE R == RowsOf(T)
           r == TradeRow(e)
           f == [t \in R \cup {r} |-> t.pnl]
           g == [t \in R |-> t.pnl]
<1>1. RowsOf(T \cup {e}) = R \cup {r}
  BY DEF RowsOf
<1>2. r \notin R
  BY TradeRowFields DEF RowsOf
<1>3. IsFiniteSet(R)
  BY RowsAreFinite
<1>4. r.pnl = e.pnl /\ \A t \in R \cup {r} : t.pnl \in Int
  BY TradeRowFields, TradeFields DEF RowsOf
<1> HIDE DEF R, r
<1>5. /\ IsFiniteSet(DOMAIN g) /\ r \notin DOMAIN g /\ DOMAIN f = DOMAIN g \cup {r}
      /\ \A c \in DOMAIN g : f[c] = g[c]
      /\ \A c \in DOMAIN f : f[c] \in Int
      /\ f[r] = e.pnl
  BY <1>2, <1>3, <1>4
<1>6. TotalPnl(R \cup {r}) = SumFunction(f) /\ TotalPnl(R) = SumFunction(g)
  BY DEF TotalPnl
<1> HIDE DEF f, g
<1>7. SumFunction(f) = SumFunction(g) + f[r]
  BY <1>5, TotalGrows
<1>8. TotalPnl(R) \in Int
  BY <1>3, <1>4, TotalPnlType
<1> QED BY <1>1, <1>5, <1>6, <1>7, <1>8 DEF R
---------------------------------------------------------------------------
(* The invariant                                                           *)

Size == Cardinality(open) + Cardinality(closed)

\* Positions are told apart by their ids: those given out so far are no larger
\* than the number of positions, open and closed, so that the next one is new.
PositionsInv ==
    /\ IsFiniteSet(open) /\ IsFiniteSet(closed)
    /\ \A p \in open : p.opened <= n /\ p.id <= Size
    /\ \A p, q \in open : p.id = q.id => p = q
    /\ \A c \in closed : c.position.id <= Size
    /\ \A c \in closed, p \in open : c.position.id # p.id

\* What each part of the loop's body finds.
StageInv ==
    /\ phase # "bar" => n > 0
    /\ n = 0 => open = {} /\ closed = {}
    /\ phase # "manage" => todo = {}
    /\ phase \in {"hits", "manage"} => \A p \in open : p.opened < n
    /\ Len(curve) = IF phase \in {"bar", "end"} THEN n ELSE n - 1

\* The breaker has the day's trades, and has halted the day if one of them
\* reached its limit.
BreakerInv ==
    /\ \A c \in closed : c.day <= day
    /\ snap.day = day
    /\ phase # "end" =>
         /\ snap.pnl = PnlOn(closed, day)
         /\ On(closed, day) # {} /\ LimitReached(snap.start, snap.pnl, LossPct) => snap.halted

\* Every close and nothing else moves the balance.
BalanceInv == balance = Capital + TotalPnl(RowsOf(closed))

\* Where a bar is over the last equity is the account's, from which the closes
\* at the end of the data take their spread.
CurveInv ==
    /\ phase # "end" => AtEnd(closed) = {}
    /\ (phase = "bar" /\ n > 0) => curve[n] = balance + OpenPnl(open, bar.close)
    /\ phase = "end" =>
         curve[n] = balance + OpenPnl(open, bar.close) + (HalfSpread * Contract) * VolumeAtEnd(closed)

\* At this price a position has lost no more than its share of what it was
\* meant to risk, and half the spread.
WithinRisk(p, price) ==
    200 * ((Sign(p.side) * (p.entry - price)) * (p.volume * Contract))
      <= 3 * p.risk + 200 * (HalfSpread * (p.volume * Contract))

\* So it is at the stop and the target; and once a bar's stops are taken, its
\* close is on the right side of what stops there are.
RiskInv ==
    /\ \A p \in open : WithinRisk(p, p.stop) /\ \A t \in p.target : WithinRisk(p, t)
    /\ phase # "hits" => \A p \in open : ~Tighter(p.side, p.stop, bar.close)
    /\ LossIsBounded

ReplayInv ==
    /\ BacktestTypeOK /\ PositionsInv /\ StageInv
    /\ BreakerInv /\ BalanceInv /\ CurveInv /\ RiskInv
    /\ ExitFollowsEntry

---------------------------------------------------------------------------
(* The shapes of a step                                                    *)

\* A position is closed, and the breaker told of it.
Closes(p, price, reason) ==
    /\ phase \in {"hits", "manage"}
    /\ p \in open /\ price \in Int /\ reason \in {"sl_hit", "tp_hit", "manual"}
    /\ phase = "hits" => price = p.stop \/ price \in p.target
    /\ phase = "manage" => price = ExitPrice(p.side)
    /\ CloseAt(p, price, reason)
    /\ snap' = RecordPnl(snap, Pnl(p, price), LossPct)
    /\ todo' = todo \ {p}
    /\ UNCHANGED <<phase, market, curve>>

\* One is closed at the end of the data.
Ends(p) ==
    /\ phase = "end"
    /\ p \in open /\ ExitPrice(p.side) \in Int
    /\ CloseAt(p, ExitPrice(p.side), "backtest_end")
    /\ UNCHANGED <<phase, market, snap, todo, curve>>

\* A stop is moved up to where it is no better than the bar's close.
Moves(p, s) ==
    /\ phase = "manage"
    /\ p \in open /\ s \in Int
    /\ Tighter(p.side, s, p.stop) /\ ~Tighter(p.side, s, bar.close)
    /\ open' = (open \ {p}) \cup {[p EXCEPT !.stop = s]}
    /\ todo' = todo \ {p}
    /\ UNCHANGED <<phase, market, closed, balance, snap, curve>>

\* The loop goes on, with the account as it is.
GoesOn ==
    /\ UNCHANGED <<market, account, snap>>
    /\ \/ phase = "hits" /\ Breached = {} /\ phase' = "manage" /\ todo' = open /\ curve' = curve
       \/ phase = "manage" /\ phase' = "manage" /\ todo' \subseteq todo /\ curve' = curve
       \/ phase = "manage" /\ phase' = "entry" /\ todo' = {} /\ curve' = curve
       \/ phase = "entry" /\ phase' = "failed" /\ todo' = todo /\ curve' = curve
       \/ phase = "entry" /\ phase' = "bar" /\ todo' = todo /\ BarEnds(open)
       \/ phase = "bar" /\ n = last /\ phase' = "end" /\ todo' = todo /\ curve' = curve

\* Of positions that are open, one is the first.
LEMMA FirstIsOne ==
    ASSUME BacktestTypeOK, NEW S \in SUBSET open, S # {}
    PROVE  First(S) \in S
<1> DEFINE ids == {p.id : p \in S}
<1>1. ids \subseteq Nat /\ ids # {}
  BY PositionFields DEF BacktestTypeOK
<1>2. PICK m \in ids : \A y \in ids : ~(<<y, m>> \in OpToRel(<, Nat))
  BY <1>1, NatLessThanWellFounded, WFMin
<1>3. \A y \in ids : m <= y
  <2> HIDE DEF ids
  <2> TAKE y \in ids
  <2>1. ~(y < m)
    BY <1>1, <1>2 DEF OpToRel
  <2>2. y \in Int /\ m \in Int
    BY <1>1
  <2> QED BY <2>1, <2>2
<1>4. \E p \in S : \A q \in S : p.id <= q.id
  BY <1>3
<1> QED BY <1>4 DEF First

LEMMA BarFields ==
    ASSUME BacktestTypeOK
    PROVE  /\ bar.low \in Nat /\ bar.high \in Nat /\ bar.close \in Nat
           /\ bar.low <= bar.close /\ bar.close <= bar.high
           /\ view.half \in Nat /\ n \in Nat /\ last \in Nat /\ day \in Nat
<1>1. /\ bar \in Bars /\ view \in BarViews
      /\ last \in 0 .. MaxBars /\ n \in 0 .. last /\ day \in 0 .. n
  BY DEF BacktestTypeOK
<1>2. bar \in [low : Nat, high : Nat, close : Nat] /\ bar.low <= bar.close /\ bar.close <= bar.high
  <2>1. bar \in {b \in [low : Nat, high : Nat, close : Nat] : b.low <= b.close /\ b.close <= b.high}
    BY <1>1, BacktestAssumption
  <2> QED BY <2>1
<1>3. bar.low \in Nat /\ bar.high \in Nat /\ bar.close \in Nat
  BY <1>2
<1>4. view \in Views
  BY <1>1, BacktestAssumption
<1>5. view.half \in Nat
  BY <1>4 DEF Views
<1>6. n \in Nat /\ last \in Nat /\ day \in Nat
  BY <1>1
<1> QED BY <1>2, <1>3, <1>5, <1>6

LEMMA PricesAreNumbers ==
    ASSUME BacktestTypeOK, NEW side
    PROVE  ExitPrice(side) \in Int /\ FillPrice(side) \in Int
<1>1. bar.close \in Int /\ HalfSpread \in Int /\ Sign(side) \in {1, -1}
  BY BarFields, SignIsOne, BacktestAssumption
<1> QED BY <1>1 DEF ExitPrice, FillPrice

\* A stop the strategy asks for is a price, tighter than the one there is and
\* no better than the bar's close.
LEMMA NewStopsTighten ==
    ASSUME BacktestTypeOK, NEW p \in SimPositions, NEW s \in NewStops(p, bar.close, view)
    PROVE  s \in Int /\ Tighter(p.side, s, p.stop) /\ ~Tighter(p.side, s, bar.close)
<1>1. /\ bar.close \in Int /\ view.half \in Nat /\ TrailAtr \in Nat
      /\ BreakevenAtr \in Nat /\ TrailTriggerAtr \in Nat
  BY BarFields, StrategyAssumption
<1>2. p.entry \in Int /\ Sign(p.side) \in {1, -1}
  BY PositionFields, SignIsOne
<1>3. s \in Candidates(p, bar.close, view) /\ Tighter(p.side, s, p.stop)
  BY DEF NewStops
<1> DEFINE sign == Sign(p.side)
           width == TrailAtr * view.half
           low == BreakevenAtr * view.half
<1>4. width \in Nat /\ low \in Nat
  BY <1>1
<1>5. \/ s = bar.close - sign * TrailAtr * view.half
      \/ s = p.entry /\ sign * (bar.close - p.entry) >= low
  BY <1>3 DEF Candidates, FavorableMove
<1>6. sign * TrailAtr * view.half = sign * width
  BY <1>1, <1>2
<1> HIDE DEF sign, width, low
<1>7. sign \in {1, -1}
  BY <1>2 DEF sign
<1>8. s \in Int /\ ~(sign * (s - bar.close) > 0)
  BY <1>1, <1>2, <1>4, <1>5, <1>6, <1>7
<1> QED BY <1>3, <1>8 DEF Tighter, sign

LEMMA ReplaySteps ==
    ASSUME ReplayInv, ReplayNext
    PROVE  \/ NextBar
           \/ \E p, price, reason : Closes(p, price, reason)
           \/ \E p : Ends(p)
           \/ \E p, s : Moves(p, s)
           \/ \E side \in Sides : Enter(side)
           \/ GoesOn
<1> USE DEF ReplayInv
<1>1. ASSUME Hit PROVE \E p, price, reason : Closes(p, price, reason)
  <2>1. Breached \in SUBSET open /\ Breached # {} /\ phase = "hits"
    BY <1>1 DEF Hit, Breached
  <2> DEFINE p == First(Breached)
  <2>2. p \in open
    BY <2>1, FirstIsOne
  <2>3. PICK hit \in Hits(p) : CloseAt(p, hit.price, hit.reason)
                               /\ snap' = RecordPnl(snap, Pnl(p, hit.price), LossPct)
    BY <1>1 DEF Hit
  <2>4. UNCHANGED <<phase, market, todo, curve>>
    BY <1>1 DEF Hit
  <2> HIDE DEF p
  <2>5. p \in SimPositions /\ p.stop \in Int /\ p.target \subseteq Int
    BY <2>2, PositionFields DEF BacktestTypeOK
  <2>6. hit.price = p.stop \/ hit.price \in p.target
    BY DEF Hits, TargetsHit
  <2>7. hit.reason \in {"sl_hit", "tp_hit"} /\ hit.price \in Int
    BY <2>5, <2>6 DEF Hits
  <2>8. todo' = todo \ {p}
    BY <2>1, <2>4 DEF StageInv
  <2>9. Closes(p, hit.price, hit.reason)
    BY <2>1, <2>2, <2>3, <2>4, <2>6, <2>7, <2>8 DEF Closes
  <2> QED BY <2>9
<1>2. ASSUME phase = "manage", todo # {} PROVE First(todo) \in open /\ First(todo) \in SimPositions
  <2>1. todo \in SUBSET open
    BY DEF BacktestTypeOK
  <2> QED BY <1>2, <2>1, FirstIsOne DEF BacktestTypeOK
<1>3. ASSUME ManageClose PROVE \E p, price, reason : Closes(p, price, reason)
  <2> DEFINE p == First(todo)
  <2>1. phase = "manage" /\ todo # {}
    BY <1>3 DEF ManageClose
  <2>2. /\ CloseAt(p, ExitPrice(p.side), "manual") /\ todo' = todo \ {p}
        /\ snap' = RecordPnl(snap, Pnl(p, ExitPrice(p.side)), LossPct)
        /\ UNCHANGED <<phase, market, curve>>
    BY <1>3 DEF ManageClose
  <2>3. p \in open
    BY <1>2, <2>1
  <2>4. ExitPrice(p.side) \in Int
    BY PricesAreNumbers
  <2> HIDE DEF p
  <2>5. Closes(p, ExitPrice(p.side), "manual")
    BY <2>1, <2>2, <2>3, <2>4 DEF Closes
  <2> QED BY <2>5
<1>4. ASSUME ManageMove PROVE \E p, s : Moves(p, s)
  <2> DEFINE p == First(todo)
  <2>1. phase = "manage" /\ todo # {} /\ todo' = todo \ {p}
        /\ UNCHANGED <<phase, market, closed, balance, snap, curve>>
    BY <1>4 DEF ManageMove
  <2>2. PICK s \in NewStops(p, bar.close, view) : open' = (open \ {p}) \cup {[p EXCEPT !.stop = s]}
    BY <1>4 DEF ManageMove
  <2>3. p \in open /\ p \in SimPositions
    BY <1>2, <2>1
  <2> HIDE DEF p
  <2>4. s \in Int /\ Tighter(p.side, s, p.stop) /\ ~Tighter(p.side, s, bar.close)
    BY <2>2, <2>3, NewStopsTighten
  <2>5. Moves(p, s)
    BY <2>1, <2>2, <2>3, <2>4 DEF Moves
  <2> QED BY <2>5
<1>5. ASSUME ListPositions PROVE GoesOn
  BY <1>5 DEF ListPositions, GoesOn
<1>6. ASSUME ManageHold PROVE GoesOn
  <2>1. /\ phase = "manage" /\ phase' = "manage" /\ todo' \subseteq todo /\ curve' = curve
        /\ UNCHANGED <<market, account, snap>>
    BY <1>6 DEF ManageHold
  <2> QED BY <2>1 DEF GoesOn
<1>7. ASSUME ManageDone PROVE GoesOn
  BY <1>7 DEF ManageDone, GoesOn
<1>8. ASSUME NoEntry PROVE GoesOn
  BY <1>8 DEF NoEntry, GoesOn
<1>9. ASSUME EndOfData PROVE GoesOn
  BY <1>9 DEF EndOfData, GoesOn
<1>10. ASSUME NEW side \in Sides, EntryRaises(side) PROVE GoesOn
  BY <1>10 DEF EntryRaises, GoesOn
<1>11. ASSUME CloseRest PROVE \E p : Ends(p)
  <2> DEFINE p == First(open)
  <2>1. phase = "end" /\ open # {} /\ CloseAt(p, ExitPrice(p.side), "backtest_end")
        /\ UNCHANGED <<phase, market, snap, todo, curve>>
    BY <1>11 DEF CloseRest
  <2>2. p \in open
    BY <2>1, FirstIsOne
  <2>3. ExitPrice(p.side) \in Int
    BY PricesAreNumbers
  <2> HIDE DEF p
  <2>4. Ends(p)
    BY <2>1, <2>2, <2>3 DEF Ends
  <2> QED BY <2>4
<1> QED BY <1>1, <1>3, <1>4, <1>5, <1>6, <1>7, <1>8, <1>9, <1>10, <1>11 DEF ReplayNext

---------------------------------------------------------------------------
(* Its types                                                               *)

LEMMA CloseMakesTrade ==
    ASSUME ReplayInv, NEW p \in open, NEW price \in Int,
           NEW reason \in {"sl_hit", "tp_hit", "manual", "backtest_end"}, CloseAt(p, price, reason)
    PROVE  \E c \in Trades :
             /\ c.position = p /\ c.price = price /\ c.pnl = Pnl(p, price) /\ c.reason = reason
             /\ c.bar = n /\ c.day = day
             /\ c \notin closed /\ closed' = closed \cup {c}
<1> DEFINE c == [position |-> p, price |-> price, pnl |-> Pnl(p, price), reason |-> reason,
                 bar |-> n, day |-> day]
<1>1. closed' = closed \cup {c}
  BY DEF CloseAt
<1>2. p \in SimPositions /\ n \in 0 .. MaxBars
  <2>1. p \in SimPositions /\ last \in 0 .. MaxBars /\ n \in 0 .. last
    BY DEF ReplayInv, BacktestTypeOK
  <2>2. MaxBars \in Nat
    BY BacktestAssumption
  <2> QED BY <2>1, <2>2
<1>3. c \in Trades
  BY <1>2, PnlIsWorth, BarFields DEF Trades, ReplayInv
<1>4. c \notin closed
  BY DEF ReplayInv, PositionsInv
<1> QED BY <1>1, <1>3, <1>4

LEMMA EquityType ==
    ASSUME BacktestTypeOK, NEW S, IsFiniteSet(S), \A p \in S : p \in SimPositions, NEW price \in Int
    PROVE  EquityOf(S, price) \in Int /\ EquityOf(S, price) = balance + OpenPnl(S, price)
<1>1. EquityOf(S, price) = balance + OpenPnl(S, price)
  BY DEF EquityOf, OpenPnl
<1>2. balance \in Int /\ OpenPnl(S, price) \in Int
  BY OpenPnlType DEF BacktestTypeOK
<1> QED BY <1>1, <1>2

LEMMA EquityIsANumber ==
    ASSUME ReplayInv
    PROVE  EquityOf(open, bar.close) \in Int /\ Equity(bar.close) \in Int
<1>1. IsFiniteSet(open) /\ \A p \in open : p \in SimPositions
  BY DEF ReplayInv, BacktestTypeOK, PositionsInv
<1> QED BY <1>1, EquityType, BarFields DEF ReplayInv, Equity

\* A size is a number, and what it may lose is in proportion to the risk.
LEMMA SizesAreNumbers ==
    ASSUME NEW r \in Int, NEW u \in Int, NEW v, v = SizePosition(r, u, Volumes)
    PROVE  /\ v \in Nat
           /\ v # Refused => 2 * v * u <= 3 * r
<1>1. Volumes.min \in Nat \ {0} /\ Volumes.max \in Nat \ {0} /\ Volumes.step \in Nat \ {0}
  BY BacktestAssumption DEF Specs
<1>2. CASE u <= 0
  BY <1>2 DEF SizePosition, Refused
<1>3. CASE u > 0
  <2> DEFINE d == u * Volumes.step
             k == RoundHalfEven(r, d)
             w == k * Volumes.step
  <2>1. d \in Int /\ d > 0
    BY <1>1, <1>3
  <2> HIDE DEF d
  <2>2. k \in Int
    BY <2>1 DEF RoundHalfEven
  <2>3. SizedVolume(r, u, Volumes) = Larger(Volumes.min, Smaller(Volumes.max, w))
    BY DEF SizedVolume, d
  <2> HIDE DEF k
  <2>4. w \in Int
    BY <1>1, <2>2
  <2> HIDE DEF w
  <2>5. SizedVolume(r, u, Volumes) \in Nat
    BY <1>1, <2>3, <2>4 DEF Larger, Smaller
  <2>6. \/ v = Refused
        \/ v = SizedVolume(r, u, Volumes) /\ ~TooRisky(v, r, u)
    BY DEF SizePosition
  <2> DEFINE cost == 2 * v * u
  <2>7. v # Refused => cost \in Int /\ ~(cost > 3 * r)
    BY <2>5, <2>6 DEF TooRisky
  <2> HIDE DEF cost
  <2>8. v # Refused => cost <= 3 * r
    BY <2>7
  <2> QED BY <2>5, <2>6, <2>8 DEF Refused, cost
<1> QED BY <1>2, <1>3

\* The position an entry opens.
LEMMA NewPositionType ==
    ASSUME ReplayInv, NEW side \in Sides
    PROVE  /\ NewPosition(side) \in SimPositions
           /\ NewPosition(side).id = Size + 1
           /\ Size \in Nat
<1>1. n \in Nat /\ bar.close \in Nat /\ view.half \in Nat /\ StopAtr \in Nat /\ RewardRisk \in Nat
      /\ Contract \in Nat /\ RiskPct \in Nat
  BY BarFields, BacktestAssumption, StrategyAssumption DEF ReplayInv
<1>2. Cardinality(open) \in Nat /\ Cardinality(closed) \in Nat
  BY FS_CardinalityType DEF ReplayInv, PositionsInv
<1>3. Risk \in Int
  BY <1>1, EquityIsANumber DEF Risk
<1> DEFINE width == StopAtr * view.half
<1>4. LotRisk(side) \in Int
  <2>1. 100 * StopAtr \in Int
    BY <1>1
  <2>2. 100 * StopAtr * view.half \in Int
    BY <1>1, <2>1
  <2> QED BY <1>1, <2>2 DEF LotRisk
<1>5. Volume(side) \in Nat
  BY <1>3, <1>4, SizesAreNumbers DEF Volume
<1>6. FillPrice(side) \in Int
  BY PricesAreNumbers DEF ReplayInv
<1>7. Sign(side) \in {1, -1}
  BY SignIsOne
<1>8. EntryStop(side, bar.close, view) \in Int
  <2>1. Sign(side) * StopAtr \in Int
    BY <1>1, <1>7
  <2>2. Sign(side) * StopAtr * view.half \in Int
    BY <1>1, <2>1
  <2> QED BY <1>1, <2>2 DEF EntryStop
<1>9. EntryTarget(side, bar.close, view) \subseteq Int
  <2> SUFFICES ASSUME NEW r \in {RewardRisk} \ {0}
               PROVE  bar.close + Sign(side) * r * StopAtr * view.half \in Int
    BY DEF EntryTarget
  <2>1. Sign(side) * r \in Int
    BY <1>1, <1>7
  <2> DEFINE a == Sign(side) * r
             b == a * StopAtr
  <2>2. b \in Int
    <3> HIDE DEF a
    <3> QED BY <1>1, <2>1 DEF a
  <2>3. b * view.half \in Int
    <3> HIDE DEF a, b
    <3> QED BY <1>1, <2>2
  <2>4. bar.close + b * view.half \in Int
    <3> HIDE DEF a, b
    <3> QED BY <1>1, <2>2, <2>3
  <2> QED BY <2>4
<1>10. NewPosition(side).id = Size + 1 /\ Size \in Nat
  BY <1>2 DEF NewPosition, Size
<1> QED BY <1>1, <1>2, <1>3, <1>5, <1>6, <1>8, <1>9, <1>10 DEF NewPosition, SimPositions

---------------------------------------------------------------------------
(* What a close keeps                                                      *)

Reasons == {"sl_hit", "tp_hit", "manual", "backtest_end"}

LossBounded(p, pnl) == -200 * pnl <= 3 * p.risk + 400 * HalfSpread * p.volume * Contract

LEMMA CloseKeepsPositions ==
    ASSUME ReplayInv, NEW p \in open, NEW price \in Int, NEW reason \in Reasons,
           CloseAt(p, price, reason), UNCHANGED market
    PROVE  PositionsInv' /\ Cardinality(open') <= MaxOpen
<1>1. PICK c \in Trades : c.position = p /\ c \notin closed /\ closed' = closed \cup {c}
  BY CloseMakesTrade DEF Reasons
<1>2. open' = open \ {p} /\ n' = n
  BY DEF CloseAt, market
<1> USE DEF ReplayInv
<1>3. /\ IsFiniteSet(open') /\ Cardinality(open') = Cardinality(open) - 1
      /\ IsFiniteSet(closed') /\ Cardinality(closed') = Cardinality(closed) + 1
      /\ Cardinality(open) \in Nat /\ Cardinality(closed) \in Nat
  BY <1>1, <1>2, FS_AddElement, FS_RemoveElement, FS_CardinalityType DEF PositionsInv
<1>4. Size' = Size
  BY <1>3 DEF Size
<1>5. MaxOpen \in Nat /\ Cardinality(open) <= MaxOpen
  BY BacktestAssumption DEF BacktestTypeOK
<1>6. \A q \in open' : q \in open
  BY <1>2
<1>7. \A d \in closed' : d \in closed \/ d = c
  BY <1>1
<1>8. \A q \in open' : q.opened <= n' /\ q.id <= Size'
  BY <1>2, <1>4, <1>6 DEF PositionsInv
<1>9. \A q, r \in open' : q.id = r.id => q = r
  BY <1>6 DEF PositionsInv
<1>10. \A d \in closed' : d.position.id <= Size'
  BY <1>1, <1>4, <1>7 DEF PositionsInv
<1>11. \A d \in closed', q \in open' : d.position.id # q.id
  BY <1>1, <1>2, <1>7 DEF PositionsInv
<1> QED BY <1>3, <1>5, <1>8, <1>9, <1>10, <1>11 DEF PositionsInv

LEMMA CloseKeepsTypes ==
    ASSUME ReplayInv, NEW p \in open, NEW price \in Int, NEW reason \in Reasons,
           CloseAt(p, price, reason)
    PROVE  /\ \A q \in open' : q \in SimPositions
           /\ \A c \in closed' : c \in Trades
           /\ balance' \in Int
<1>1. PICK c \in Trades : closed' = closed \cup {c}
  BY CloseMakesTrade DEF Reasons
<1>2. open' = open \ {p} /\ balance' = balance + Pnl(p, price)
  BY DEF CloseAt
<1>3. p \in SimPositions
  BY DEF ReplayInv, BacktestTypeOK
<1>4. Pnl(p, price) \in Int
  BY <1>3, PnlIsWorth
<1> QED BY <1>1, <1>2, <1>4 DEF ReplayInv, BacktestTypeOK

\* The balance moves by what is booked.
LEMMA CloseKeepsBalance ==
    ASSUME ReplayInv, NEW p \in open, NEW price \in Int, NEW reason \in Reasons,
           CloseAt(p, price, reason)
    PROVE  BalanceInv'
<1>1. PICK c \in Trades : c.position = p /\ c.pnl = Pnl(p, price) /\ closed' = closed \cup {c}
  BY CloseMakesTrade DEF Reasons
<1>2. balance' = balance + c.pnl
  BY <1>1 DEF CloseAt
<1>3. IsFiniteSet(closed) /\ (\A d \in closed : d \in Trades) /\ \A d \in closed : d.position.id # p.id
  BY DEF ReplayInv, PositionsInv, BacktestTypeOK
<1>4. /\ TotalPnl(RowsOf(closed \cup {c})) = TotalPnl(RowsOf(closed)) + c.pnl
      /\ TotalPnl(RowsOf(closed)) \in Int
  BY <1>1, <1>3, TotalPnlGrows
<1>5. balance = Capital + TotalPnl(RowsOf(closed)) /\ Capital \in Int /\ c.pnl \in Int
  BY BacktestAssumption, TradeFields DEF ReplayInv, BalanceInv
<1>6. balance' = Capital + TotalPnl(RowsOf(closed \cup {c}))
  BY <1>2, <1>4, <1>5
<1>7. balance' = Capital + TotalPnl(RowsOf(closed'))
  BY <1>1, <1>6
<1> QED BY <1>7 DEF BalanceInv

LEMMA CloseKeepsTrades ==
    ASSUME ReplayInv, NEW p \in open, NEW price \in Int, NEW reason \in Reasons,
           CloseAt(p, price, reason), LossBounded(p, Pnl(p, price)),
           p.opened < n \/ reason = "backtest_end"
    PROVE  /\ LossIsBounded' /\ ExitFollowsEntry'
           /\ \A c \in closed' : c.day <= day
<1>1. PICK c \in Trades :
        /\ c.position = p /\ c.pnl = Pnl(p, price) /\ c.reason = reason /\ c.bar = n /\ c.day = day
        /\ closed' = closed \cup {c}
  BY CloseMakesTrade DEF Reasons
<1>2. LossBounded(c.position, c.pnl)
  BY <1>1
<1>3. \A d \in closed' : d \in closed \/ d = c
  BY <1>1
<1>4. \A d \in closed : LossBounded(d.position, d.pnl)
  BY DEF ReplayInv, RiskInv, LossIsBounded, LossBounded
<1>5. \A d \in closed' : LossBounded(d.position, d.pnl)
  BY <1>2, <1>3, <1>4
<1>6. LossIsBounded'
  BY <1>5 DEF LossIsBounded, LossBounded
<1>7. \A d \in closed' : d.reason = "backtest_end" \/ d.position.opened < d.bar
  BY <1>1, <1>3 DEF ReplayInv, ExitFollowsEntry
<1>8. day \in Nat
  BY BarFields DEF ReplayInv
<1>9. \A d \in closed' : d.day <= day
  BY <1>1, <1>3, <1>8 DEF ReplayInv, BreakerInv
<1> QED BY <1>6, <1>7, <1>9 DEF ExitFollowsEntry

---------------------------------------------------------------------------
(* What a close may lose                                                   *)

LEMMA ProductGrows == ASSUME NEW a \in Int, NEW b \in Int, NEW w \in Nat, a <= b PROVE a * w <= b * w
  OBVIOUS

\* LossBounded, with the worth of the position taken together.
LEMMA BoundInWorth ==
    ASSUME NEW p \in SimPositions, NEW price \in Int
    PROVE  /\ (Sign(p.side) * (p.entry - price)) * (p.volume * Contract) \in Int
           /\ HalfSpread * (p.volume * Contract) \in Nat
           /\ LossBounded(p, Pnl(p, price)) <=>
                200 * ((Sign(p.side) * (p.entry - price)) * (p.volume * Contract))
                  <= 3 * p.risk + 400 * (HalfSpread * (p.volume * Contract))
<1> DEFINE w == p.volume * Contract
           away == Sign(p.side) * (p.entry - price)
           way == Sign(p.side) * (price - p.entry)
<1>1. w \in Nat /\ p.entry \in Int /\ p.risk \in Int /\ Sign(p.side) \in {1, -1}
      /\ p.volume \in Int /\ Contract \in Int /\ HalfSpread \in Nat
  BY Worthwhile, PositionFields, SignIsOne, BacktestAssumption
<1>2. away \in Int /\ way \in Int /\ away = -way
  BY <1>1
<1>3. Pnl(p, price) = way * w
  BY PnlIsWorth
<1>4. 400 * HalfSpread * p.volume * Contract = 400 * (HalfSpread * w)
  <2>1. (400 * HalfSpread * p.volume) * Contract = (400 * HalfSpread) * (p.volume * Contract)
    BY <1>1, Associates
  <2> HIDE DEF w
  <2>2. (400 * HalfSpread) * w = 400 * (HalfSpread * w)
    BY <1>1, Associates
  <2> QED BY <2>1, <2>2 DEF w
<1> DEFINE spread == HalfSpread * w
           loss == away * w
           gain == way * w
<1> HIDE DEF w, away, way
<1>5. spread \in Nat /\ loss \in Int /\ gain \in Int /\ loss = -gain
  BY <1>1, <1>2
<1>6. LossBounded(p, gain) <=> -200 * gain <= 3 * p.risk + 400 * spread
  BY <1>4 DEF LossBounded
<1> HIDE DEF spread, loss, gain
<1>7. LossBounded(p, gain) <=> 200 * loss <= 3 * p.risk + 400 * spread
  BY <1>1, <1>5, <1>6
<1> QED BY <1>3, <1>5, <1>7 DEF spread, loss, gain, away, w

\* A stop or a target that is hit.
LEMMA WithinIsBounded ==
    ASSUME NEW p \in SimPositions, NEW price \in Int, WithinRisk(p, price)
    PROVE  LossBounded(p, Pnl(p, price))
<1> DEFINE loss == (Sign(p.side) * (p.entry - price)) * (p.volume * Contract)
           spread == HalfSpread * (p.volume * Contract)
<1>1. loss \in Int /\ spread \in Nat /\ p.risk \in Int
  BY BoundInWorth, PositionFields
<1>2. 200 * loss <= 3 * p.risk + 200 * spread
  BY DEF WithinRisk
<1>3. LossBounded(p, Pnl(p, price)) <=> 200 * loss <= 3 * p.risk + 400 * spread
  BY BoundInWorth
<1> HIDE DEF loss, spread
<1> QED BY <1>1, <1>2, <1>3

\* A close at a bar the stop of which was not hit.
LEMMA ExitIsBounded ==
    ASSUME BacktestTypeOK, NEW p \in SimPositions, WithinRisk(p, p.stop),
           ~Tighter(p.side, p.stop, bar.close)
    PROVE  LossBounded(p, Pnl(p, ExitPrice(p.side)))
<1> DEFINE w == p.volume * Contract
           price == ExitPrice(p.side)
           sign == Sign(p.side)
           gone == sign * (p.entry - price)
           most == sign * (p.entry - p.stop)
<1>1. /\ w \in Nat /\ p.entry \in Int /\ p.stop \in Int /\ p.risk \in Int /\ HalfSpread \in Nat
      /\ bar.close \in Nat /\ sign \in {1, -1} /\ price \in Int
  BY Worthwhile, PositionFields, SignIsOne, BacktestAssumption, BarFields, PricesAreNumbers
<1>2. price = bar.close - sign * HalfSpread
  BY DEF ExitPrice
<1>3. ~(sign * (p.stop - bar.close) > 0)
  BY DEF Tighter
<1> HIDE DEF sign, price
<1>4. gone \in Int /\ most \in Int /\ gone <= most + HalfSpread
  BY <1>1, <1>2, <1>3
<1>5. 200 * (most * w) <= 3 * p.risk + 200 * (HalfSpread * w)
  BY DEF WithinRisk, sign
<1>6. LossBounded(p, Pnl(p, price)) <=> 200 * (gone * w) <= 3 * p.risk + 400 * (HalfSpread * w)
  BY <1>1, BoundInWorth DEF sign
<1> HIDE DEF w, gone, most
<1>7. gone * w <= (most + HalfSpread) * w
  BY <1>1, <1>4, ProductGrows
<1>8. (most + HalfSpread) * w = most * w + HalfSpread * w /\ most * w \in Int /\ HalfSpread * w \in Int
      /\ gone * w \in Int
  BY <1>1, <1>4
<1> DEFINE g == gone * w
           m == most * w
           h == HalfSpread * w
<1>9. g <= m + h /\ m \in Int /\ h \in Int /\ g \in Int /\ 200 * m <= 3 * p.risk + 200 * h
  BY <1>5, <1>7, <1>8
<1> HIDE DEF g, m, h
<1>10. 200 * g <= 3 * p.risk + 400 * h
  BY <1>1, <1>9
<1> QED BY <1>6, <1>10 DEF g, h, price

---------------------------------------------------------------------------
(* The steps                                                               *)

\* Whatever leaves the positions alone keeps them apart.
LEMMA SameKeepsPositions ==
    ASSUME ReplayInv, UNCHANGED <<open, closed>>, n' \in Nat, n <= n'
    PROVE  PositionsInv'
<1>1. n \in Nat /\ \A p \in open : p.opened \in Nat
  BY BarFields, PositionFields DEF ReplayInv, BacktestTypeOK
<1>2. Size' = Size
  BY DEF Size
<1> QED BY <1>1, <1>2 DEF ReplayInv, PositionsInv

\* A bar's first half: nothing but the breaker's day.
LEMMA NextBarKeeps ==
    ASSUME ReplayInv, NextBar
    PROVE  ReplayInv'
<1> USE DEF ReplayInv
<1>1. /\ phase = "bar" /\ phase' = "hits" /\ n < last /\ n' = n + 1 /\ last' = last
      /\ UNCHANGED <<open, closed, balance, todo, curve>>
  BY DEF NextBar, account
<1>2. n \in Nat /\ last \in Nat /\ day \in Nat /\ last <= MaxBars /\ MaxBars \in Nat /\ day <= n
  <2>1. n \in Nat /\ last \in Nat /\ day \in Nat
    BY BarFields
  <2>2. MaxBars \in Nat /\ last \in 0 .. MaxBars /\ day \in 0 .. n
    BY BacktestAssumption DEF BacktestTypeOK
  <2> QED BY <2>1, <2>2
<1>3. bar' \in Bars /\ view' \in BarViews
  BY DEF NextBar
<1>4. hist' \in Seq(Hists) /\ Len(hist') \in Window .. Window + 1
  <2>1. PICK h \in Hists : hist' = Append(IF Len(hist) > Window THEN Tail(hist) ELSE hist, h)
    BY DEF NextBar
  <2>2. hist \in Seq(Hists) /\ Len(hist) \in Window .. Window + 1 /\ Window \in Nat \ {0}
    BY StrategyAssumption DEF BacktestTypeOK
  <2>3. CASE Len(hist) > Window
    <3>1. hist # <<>> /\ Len(hist) = Window + 1
      BY <2>2, <2>3
    <3>2. Tail(hist) \in Seq(Hists) /\ Len(Tail(hist)) = Window
      BY <2>2, <3>1
    <3> QED BY <2>1, <2>2, <2>3, <3>2
  <2>4. CASE ~(Len(hist) > Window)
    <3>1. Len(hist) = Window
      BY <2>2, <2>4
    <3> QED BY <2>1, <2>2, <2>4, <3>1
  <2> QED BY <2>3, <2>4
<1>5. day' \in (IF n = 0 THEN {1} ELSE {day, day + 1})
  BY DEF NextBar
<1>6. day' \in 0 .. n'
  BY <1>1, <1>2, <1>5
<1>7. PositionsInv'
  BY <1>1, <1>2, SameKeepsPositions
<1>8. \A p \in open : p.opened <= n /\ p.opened \in Nat
  BY PositionFields DEF PositionsInv, BacktestTypeOK
<1>9. StageInv'
  BY <1>1, <1>2, <1>8 DEF StageInv
<1> DEFINE equity == Equity(bar'.close)
<1>10. equity \in Int /\ bar'.close \in Nat
  <2>1. bar'.close \in Nat
    BY <1>3, BacktestAssumption
  <2>2. IsFiniteSet(open) /\ \A p \in open : p \in SimPositions
    BY DEF PositionsInv, BacktestTypeOK
  <2>3. EquityOf(open, bar'.close) \in Int
    BY <2>1, <2>2, EquityType
  <2> QED BY <2>1, <2>3 DEF Equity
<1>11. snap' = IF snap.day # day' THEN StartNewDay(day', equity) ELSE snap
  BY DEF NextBar, RolledOver, IsNewTradingDay
<1> HIDE DEF equity
<1>12. snap' \in [day : Nat, start : Int, pnl : Int, halted : BOOLEAN]
  BY <1>2, <1>6, <1>10, <1>11 DEF StartNewDay, BacktestTypeOK
<1>13. BacktestTypeOK'
  <2>1. Len(curve') \in {n', n' - 1} /\ curve' \in Seq(Int)
    BY <1>1, <1>2 DEF StageInv, BacktestTypeOK
  <2>2. n' \in 0 .. last' /\ last' \in 0 .. MaxBars
    BY <1>1, <1>2
  <2> QED BY <1>1, <1>3, <1>4, <1>6, <1>12, <2>1, <2>2 DEF BacktestTypeOK
<1>14. BreakerInv'
  <2>1. \A c \in closed : c.day <= day'
    <3>1. \A c \in closed : c.day <= day /\ c.day \in Nat
      BY TradeFields DEF BreakerInv, BacktestTypeOK
    <3>2. CASE n = 0
      BY <3>2 DEF StageInv
    <3>3. CASE n # 0
      BY <1>2, <1>5, <3>1, <3>3
    <3> QED BY <3>2, <3>3
  <2>2. snap.day = day
    BY DEF BreakerInv
  <2>3. CASE day' = day
    BY <1>1, <1>11, <2>1, <2>2, <2>3 DEF BreakerInv
  <2>4. CASE day' # day
    <3>1. \A c \in closed : c.day # day'
      <4>1. CASE n = 0
        BY <4>1 DEF StageInv
      <4>2. CASE n # 0
        <5>1. day' = day + 1
          BY <1>5, <2>4, <4>2
        <5>2. \A c \in closed : c.day <= day /\ c.day \in Nat
          BY TradeFields DEF BreakerInv, BacktestTypeOK
        <5> QED BY <1>2, <5>1, <5>2
      <4> QED BY <4>1, <4>2
    <3>2. On(closed, day') = {}
      BY <3>1 DEF On
    <3>3. snap'.day = day' /\ snap'.pnl = 0
      BY <1>11, <2>2, <2>4 DEF StartNewDay
    <3>4. PnlOn(closed, day') = 0
      BY <3>2, PnlOnNone
    <3>5. PnlOn(closed', day') = 0 /\ On(closed', day') = {}
      BY <1>1, <3>2, <3>4
    <3> QED BY <1>1, <2>1, <3>3, <3>5 DEF BreakerInv
  <2> QED BY <2>3, <2>4
<1>15. BalanceInv'
  BY <1>1 DEF BalanceInv
<1>16. CurveInv'
  BY <1>1 DEF CurveInv
<1>17. RiskInv'
  BY <1>1 DEF RiskInv, LossIsBounded
<1>18. ExitFollowsEntry'
  BY <1>1 DEF ExitFollowsEntry
<1> QED BY <1>7, <1>9, <1>13, <1>14, <1>15, <1>16, <1>17, <1>18

LEMMA RecordPnlFields ==
    ASSUME NEW s \in [day : Nat, start : Int, pnl : Int, halted : BOOLEAN], NEW pnl \in Int,
           NEW t, t = RecordPnl(s, pnl, LossPct)
    PROVE  /\ t \in [day : Nat, start : Int, pnl : Int, halted : BOOLEAN]
           /\ t.day = s.day /\ t.start = s.start /\ t.pnl = s.pnl + pnl
           /\ LimitReached(s.start, s.pnl + pnl, LossPct) => t.halted
<1> DEFINE b == LimitReached(s.start, s.pnl + pnl, LossPct)
<1>1. t = [s EXCEPT !.pnl = s.pnl + pnl, !.halted = @ \/ b]
  BY DEF RecordPnl
<1>2. b \in BOOLEAN
  BY DEF LimitReached
<1> HIDE DEF b
<1>3. t = [day |-> s.day, start |-> s.start, pnl |-> s.pnl + pnl, halted |-> s.halted \/ b]
  BY <1>1, <1>2
<1> DEFINE h == s.halted \/ b
<1>4. s.day \in Nat /\ s.start \in Int /\ s.pnl + pnl \in Int
  OBVIOUS
<1>5. h \in BOOLEAN /\ (b => h)
  BY <1>2, Zenon
<1> HIDE DEF h
<1>6. t = [day |-> s.day, start |-> s.start, pnl |-> s.pnl + pnl, halted |-> h]
  BY <1>3 DEF h
<1>7. /\ t \in [day : Nat, start : Int, pnl : Int, halted : BOOLEAN]
      /\ t.day = s.day /\ t.start = s.start /\ t.pnl = s.pnl + pnl /\ t.halted = h
  BY <1>4, <1>5, <1>6
<1>8. b => t.halted
  BY <1>5, <1>7, Zenon
<1> QED BY <1>7, <1>8 DEF b

\* A close the breaker is told of.
LEMMA ClosesKeeps ==
    ASSUME ReplayInv, NEW p, NEW price, NEW reason, Closes(p, price, reason)
    PROVE  ReplayInv'
<1> USE DEF ReplayInv
<1>1. /\ p \in open /\ price \in Int /\ reason \in Reasons /\ reason # "backtest_end"
      /\ phase \in {"hits", "manage"} /\ phase' = phase /\ CloseAt(p, price, reason)
      /\ todo' = todo \ {p} /\ curve' = curve
  BY DEF Closes, Reasons
<1>2. UNCHANGED <<last, n, bar, view, hist, day>> /\ UNCHANGED market
  BY DEF Closes, market
<1>3. p \in SimPositions /\ p.opened < n
  BY <1>1 DEF BacktestTypeOK, StageInv
<1>4. LossBounded(p, Pnl(p, price))
  <2>1. CASE phase = "hits"
    <3>1. WithinRisk(p, price)
      BY <1>1, <2>1 DEF Closes, RiskInv
    <3> QED BY <1>1, <1>3, <3>1, WithinIsBounded
  <2>2. CASE phase = "manage"
    <3>1. price = ExitPrice(p.side) /\ WithinRisk(p, p.stop) /\ ~Tighter(p.side, p.stop, bar.close)
      BY <1>1, <2>2 DEF Closes, RiskInv
    <3> QED BY <1>3, <3>1, ExitIsBounded
  <2> QED BY <1>1, <2>1, <2>2
<1>5. PositionsInv' /\ Cardinality(open') <= MaxOpen
  BY <1>1, <1>2, CloseKeepsPositions
<1>6. /\ \A q \in open' : q \in SimPositions
      /\ \A c \in closed' : c \in Trades
      /\ balance' \in Int
  BY <1>1, CloseKeepsTypes
<1>7. BalanceInv'
  BY <1>1, CloseKeepsBalance
<1>8. LossIsBounded' /\ ExitFollowsEntry' /\ \A c \in closed' : c.day <= day
  BY <1>1, <1>3, <1>4, CloseKeepsTrades
<1>9. PICK c \in Trades :
        /\ c.position = p /\ c.pnl = Pnl(p, price) /\ c.reason = reason /\ c.day = day
        /\ c \notin closed /\ closed' = closed \cup {c}
  BY <1>1, CloseMakesTrade DEF Reasons
<1>10. c.pnl \in Int /\ snap \in [day : Nat, start : Int, pnl : Int, halted : BOOLEAN]
  BY TradeFields DEF BacktestTypeOK
<1>11. snap' = RecordPnl(snap, c.pnl, LossPct)
  BY <1>9 DEF Closes
<1>12. /\ snap' \in [day : Nat, start : Int, pnl : Int, halted : BOOLEAN]
       /\ snap'.day = snap.day /\ snap'.start = snap.start /\ snap'.pnl = snap.pnl + c.pnl
       /\ LimitReached(snap.start, snap.pnl + c.pnl, LossPct) => snap'.halted
  <2> DEFINE t == RecordPnl(snap, c.pnl, LossPct)
  <2>1. /\ t \in [day : Nat, start : Int, pnl : Int, halted : BOOLEAN]
        /\ t.day = snap.day /\ t.start = snap.start /\ t.pnl = snap.pnl + c.pnl
        /\ LimitReached(snap.start, snap.pnl + c.pnl, LossPct) => t.halted
    BY <1>10, RecordPnlFields
  <2>2. snap' = t
    BY <1>11
  <2> HIDE DEF t
  <2> QED BY <2>1, <2>2
<1>13. open' = open \ {p}
  BY <1>1 DEF CloseAt
<1>14. BacktestTypeOK'
  <2>1. todo' \subseteq open'
    BY <1>1, <1>13 DEF BacktestTypeOK
  <2> QED BY <1>1, <1>2, <1>5, <1>6, <1>12, <2>1 DEF BacktestTypeOK
<1>15. StageInv'
  <2>1. n > 0 /\ phase # "bar" /\ phase # "end"
    BY <1>1 DEF StageInv
  <2>2. n # 0
    BY <2>1, BarFields
  <2>3. todo' \subseteq todo /\ open' \subseteq open
    BY <1>1, <1>13
  <2> QED BY <1>1, <1>2, <2>1, <2>2, <2>3 DEF StageInv
<1>16. BreakerInv'
  <2>1. phase # "end"
    BY <1>1
  <2>2. IsFiniteSet(closed) /\ \A d \in closed : d \in Trades
    BY DEF PositionsInv, BacktestTypeOK
  <2>3. PnlOn(closed \cup {c}, c.day) = PnlOn(closed, c.day) + c.pnl
    BY <1>9, <2>2, PnlOnGrows
  <2>4. PnlOn(closed', day') = PnlOn(closed, day) + c.pnl
    BY <1>2, <1>9, <2>3
  <2>5. snap'.pnl = PnlOn(closed', day') /\ snap'.day = day' /\ (\A d \in closed' : d.day <= day')
    BY <1>2, <1>8, <1>12, <2>1, <2>4 DEF BreakerInv
  <2>6. LimitReached(snap'.start, snap'.pnl, LossPct) => snap'.halted
    BY <1>12
  <2> QED BY <2>5, <2>6 DEF BreakerInv
<1>17. CurveInv'
  <2>1. AtEnd(closed') = {}
    BY <1>1, <1>9 DEF AtEnd, CurveInv
  <2> QED BY <1>1, <2>1 DEF CurveInv
<1>18. RiskInv'
  <2>1. \A q \in open' : q \in open
    BY <1>13
  <2> QED BY <1>1, <1>2, <1>8, <2>1 DEF RiskInv
<1> QED BY <1>5, <1>7, <1>8, <1>14, <1>15, <1>16, <1>17, <1>18

\* The spread is all a close at the end of the data takes from the equity.
LEMMA ExitCostsSpread ==
    ASSUME BacktestTypeOK, NEW p \in SimPositions
    PROVE  /\ ExitPrice(p.side) \in Int
           /\ Pnl(p, ExitPrice(p.side)) = Pnl(p, bar.close) - (HalfSpread * Contract) * p.volume
           /\ (HalfSpread * Contract) * p.volume \in Int
<1> DEFINE sign == Sign(p.side)
           w == p.volume * Contract
           price == ExitPrice(p.side)
           way == sign * (bar.close - p.entry)
<1>1. /\ w \in Nat /\ p.entry \in Int /\ p.volume \in Nat /\ HalfSpread \in Nat /\ Contract \in Nat
      /\ bar.close \in Nat /\ sign \in {1, -1} /\ price \in Int
  BY Worthwhile, PositionFields, SignIsOne, BacktestAssumption, BarFields, PricesAreNumbers
<1>2. sign * (price - p.entry) = way - HalfSpread /\ way \in Int
  <2>1. price = bar.close - sign * HalfSpread
    BY DEF ExitPrice
  <2> HIDE DEF sign, price
  <2> QED BY <1>1, <2>1
<1>3. Pnl(p, price) = (sign * (price - p.entry)) * w /\ Pnl(p, bar.close) = way * w
  BY <1>1, PnlIsWorth
<1>4. (HalfSpread * Contract) * p.volume = HalfSpread * w
  <2>1. (HalfSpread * Contract) * p.volume = HalfSpread * (Contract * p.volume)
    BY <1>1, Associates
  <2>2. Contract * p.volume = p.volume * Contract
    BY <1>1
  <2> QED BY <2>1, <2>2
<1>5. Pnl(p, price) = (way - HalfSpread) * w
  BY <1>2, <1>3
<1> HIDE DEF way, w
<1>6. (way - HalfSpread) * w = way * w - HalfSpread * w /\ HalfSpread * w \in Int
  BY <1>1, <1>2
<1> QED BY <1>1, <1>3, <1>4, <1>5, <1>6

LEMMA EndsKeeps ==
    ASSUME ReplayInv, NEW p, Ends(p)
    PROVE  ReplayInv'
<1> USE DEF ReplayInv
<1> DEFINE price == ExitPrice(p.side)
<1>1. /\ p \in open /\ price \in Int /\ "backtest_end" \in Reasons
      /\ phase = "end" /\ phase' = phase /\ CloseAt(p, price, "backtest_end")
      /\ todo' = todo /\ curve' = curve /\ snap' = snap
  BY DEF Ends, Reasons
<1>2. UNCHANGED <<last, n, bar, view, hist, day>> /\ UNCHANGED market
  BY DEF Ends, market
<1>3. p \in SimPositions
  BY <1>1 DEF BacktestTypeOK
<1>4. LossBounded(p, Pnl(p, price))
  <2>1. WithinRisk(p, p.stop) /\ ~Tighter(p.side, p.stop, bar.close)
    BY <1>1 DEF RiskInv
  <2> QED BY <1>3, <2>1, ExitIsBounded
<1>5. PositionsInv' /\ Cardinality(open') <= MaxOpen
  BY <1>1, <1>2, CloseKeepsPositions
<1>6. /\ \A q \in open' : q \in SimPositions
      /\ \A c \in closed' : c \in Trades
      /\ balance' \in Int
  BY <1>1, CloseKeepsTypes
<1>7. BalanceInv'
  BY <1>1, CloseKeepsBalance
<1>8. LossIsBounded' /\ ExitFollowsEntry' /\ \A c \in closed' : c.day <= day
  BY <1>1, <1>4, CloseKeepsTrades
<1>9. PICK c \in Trades :
        /\ c.position = p /\ c.reason = "backtest_end"
        /\ c \notin closed /\ closed' = closed \cup {c}
  BY <1>1, CloseMakesTrade DEF Reasons
<1>10. open' = open \ {p} /\ balance' = balance + Pnl(p, price)
  BY <1>1 DEF CloseAt
<1>11. n # 0 /\ todo = {}
  BY <1>1 DEF StageInv
<1>12. BacktestTypeOK'
  BY <1>1, <1>2, <1>5, <1>6, <1>11 DEF BacktestTypeOK
<1>13. StageInv'
  BY <1>1, <1>2, <1>11 DEF StageInv
<1>14. BreakerInv'
  BY <1>1, <1>2, <1>8 DEF BreakerInv
<1>15. CurveInv'
  <2> DEFINE rest == OpenPnl(open \ {p}, bar.close)
             cost == (HalfSpread * Contract) * p.volume
             volume == VolumeAtEnd(closed)
             unit == HalfSpread * Contract
  <2>1. /\ IsFiniteSet(open) /\ (\A q \in open : q \in SimPositions)
        /\ IsFiniteSet(closed) /\ (\A d \in closed : d \in Trades)
        /\ bar.close \in Int /\ balance \in Int
    BY BarFields DEF PositionsInv, BacktestTypeOK
  <2>2. OpenPnl(open, bar.close) = rest + Pnl(p, bar.close)
    BY <1>1, <2>1, OpenPnlOfOthers
  <2>3. rest \in Int
    BY <2>1, OpenPnlType, FS_Subset
  <2>4. HalfSpread \in Int /\ Contract \in Int
    BY BacktestAssumption
  <2>5. unit \in Int /\ Pnl(p, bar.close) \in Int
    BY <1>3, <2>1, <2>4, PnlIsWorth
  <2>6. Pnl(p, price) = Pnl(p, bar.close) - cost /\ cost \in Int
    BY <1>3, ExitCostsSpread
  <2>7. VolumeAtEnd(closed') = volume + p.volume /\ volume \in Int
    BY <1>9, <2>1, VolumeAtEndGrows
  <2>8. curve[n] = balance + OpenPnl(open, bar.close) + unit * volume
    BY <1>1 DEF CurveInv
  <2>9. p.volume \in Int
    BY <1>3, PositionFields
  <2> HIDE DEF rest, unit, volume, price
  <2>10. unit * (volume + p.volume) = unit * volume + cost /\ unit * volume \in Int
    BY <2>5, <2>7, <2>9 DEF unit
  <2> HIDE DEF cost
  <2>11. curve[n] = balance' + rest + unit * (volume + p.volume)
    BY <1>10, <2>1, <2>2, <2>3, <2>5, <2>6, <2>8, <2>10
  <2>12. curve'[n'] = balance' + OpenPnl(open', bar'.close) + unit * VolumeAtEnd(closed')
    BY <1>1, <1>2, <1>10, <2>7, <2>11 DEF rest
  <2> QED BY <1>1, <2>12 DEF CurveInv, unit
<1>16. RiskInv'
  <2>1. \A q \in open' : q \in open
    BY <1>10
  <2> QED BY <1>1, <1>2, <1>8, <2>1 DEF RiskInv
<1> QED BY <1>5, <1>7, <1>8, <1>12, <1>13, <1>14, <1>15, <1>16

\* A tighter stop risks less.
LEMMA TighterRisksLess ==
    ASSUME NEW p \in SimPositions, NEW s \in Int, Tighter(p.side, s, p.stop), WithinRisk(p, p.stop)
    PROVE  WithinRisk(p, s)
<1> DEFINE sign == Sign(p.side)
           w == p.volume * Contract
           old == sign * (p.entry - p.stop)
           new == sign * (p.entry - s)
<1>1. w \in Nat /\ p.entry \in Int /\ p.stop \in Int /\ sign \in {1, -1} /\ p.risk \in Int
      /\ HalfSpread \in Nat
  BY Worthwhile, PositionFields, SignIsOne, BacktestAssumption
<1>2. sign * (s - p.stop) > 0
  BY DEF Tighter
<1>3. 200 * (old * w) <= 3 * p.risk + 200 * (HalfSpread * w)
  BY DEF WithinRisk
<1>4. WithinRisk(p, s) <=> 200 * (new * w) <= 3 * p.risk + 200 * (HalfSpread * w)
  BY DEF WithinRisk
<1> HIDE DEF sign, w
<1>5. old \in Int /\ new \in Int /\ new <= old
  BY <1>1, <1>2
<1> HIDE DEF old, new
<1>6. new * w <= old * w
  BY <1>1, <1>5, ProductGrows
<1> DEFINE a == new * w
           b == old * w
           c == HalfSpread * w
<1>7. a \in Int /\ b \in Int /\ c \in Int
  BY <1>1, <1>5
<1> HIDE DEF a, b, c
<1>8. 200 * a <= 3 * p.risk + 200 * c
  <2>1. a <= b /\ 200 * b <= 3 * p.risk + 200 * c
    BY <1>3, <1>6 DEF a, b, c
  <2> QED BY <1>1, <1>7, <2>1
<1> QED BY <1>4, <1>8 DEF a, c

LEMMA MovesKeeps ==
    ASSUME ReplayInv, NEW p, NEW s, Moves(p, s)
    PROVE  ReplayInv'
<1> USE DEF ReplayInv
<1> DEFINE q == [p EXCEPT !.stop = s]
<1>1. /\ p \in open /\ s \in Int /\ Tighter(p.side, s, p.stop) /\ ~Tighter(p.side, s, bar.close)
      /\ open' = (open \ {p}) \cup {q}
      /\ phase = "manage" /\ phase' = phase /\ todo' = todo \ {p}
      /\ UNCHANGED <<closed, balance, snap, curve>>
  BY DEF Moves
<1>2. UNCHANGED <<last, n, bar, view, hist, day>>
  BY DEF Moves, market
<1>3. p \in SimPositions
  BY <1>1 DEF BacktestTypeOK
<1>4. /\ q \in SimPositions /\ q.stop = s
      /\ q.id = p.id /\ q.opened = p.opened /\ q.side = p.side /\ q.entry = p.entry
      /\ q.volume = p.volume /\ q.target = p.target /\ q.risk = p.risk
  BY <1>1, <1>3 DEF SimPositions
<1> HIDE DEF q
<1>5. q \notin open \ {p}
  BY <1>1, <1>4 DEF PositionsInv
<1>6. IsFiniteSet(open') /\ Cardinality(open') = Cardinality(open)
  <2>1. /\ IsFiniteSet(open \ {p}) /\ Cardinality(open \ {p}) = Cardinality(open) - 1
        /\ Cardinality(open) \in Nat
    BY <1>1, FS_RemoveElement, FS_CardinalityType DEF PositionsInv
  <2>2. IsFiniteSet(open') /\ Cardinality(open') = Cardinality(open \ {p}) + 1
    BY <1>1, <1>5, <2>1, FS_AddElement
  <2> QED BY <2>1, <2>2
<1>7. Size' = Size
  BY <1>1, <1>6 DEF Size
<1>8. \A r \in open' : (r \in open /\ r # p) \/ r = q
  BY <1>1
<1>9. PositionsInv'
  <2>1. \A r \in open' : r.opened <= n' /\ r.id <= Size'
    BY <1>1, <1>2, <1>4, <1>7, <1>8 DEF PositionsInv
  <2>2. \A r, t \in open' : r.id = t.id => r = t
    BY <1>1, <1>4, <1>8 DEF PositionsInv
  <2>3. \A c \in closed', r \in open' : c.position.id # r.id
    BY <1>1, <1>4, <1>8 DEF PositionsInv
  <2>4. \A c \in closed' : c.position.id <= Size'
    BY <1>1, <1>7 DEF PositionsInv
  <2>5. IsFiniteSet(closed')
    BY <1>1 DEF PositionsInv
  <2> QED BY <1>6, <2>1, <2>2, <2>3, <2>4, <2>5 DEF PositionsInv
<1>10. BacktestTypeOK'
  <2>1. todo' \subseteq open'
    BY <1>1 DEF BacktestTypeOK
  <2>2. \A r \in open' : r \in SimPositions
    BY <1>4, <1>8 DEF BacktestTypeOK
  <2>3. Cardinality(open') <= MaxOpen
    BY <1>6 DEF BacktestTypeOK
  <2> QED BY <1>1, <1>2, <2>1, <2>2, <2>3 DEF BacktestTypeOK
<1>11. StageInv'
  <2>1. \A r \in open' : r.opened < n
    BY <1>1, <1>4, <1>8 DEF StageInv
  <2>2. n > 0
    BY <1>1 DEF StageInv
  <2>3. n # 0
    BY <2>2
  <2> QED BY <1>1, <1>2, <2>1, <2>2, <2>3 DEF StageInv
<1>12. BreakerInv' /\ BalanceInv' /\ ExitFollowsEntry'
  BY <1>1, <1>2 DEF BreakerInv, BalanceInv, ExitFollowsEntry
<1>13. CurveInv'
  BY <1>1 DEF CurveInv
<1>14. RiskInv'
  <2>1. WithinRisk(p, p.stop) /\ \A t \in p.target : WithinRisk(p, t)
    BY <1>1 DEF RiskInv
  <2>2. WithinRisk(p, s)
    BY <1>1, <1>3, <2>1, TighterRisksLess
  <2>3. WithinRisk(q, q.stop) /\ \A t \in q.target : WithinRisk(q, t)
    BY <1>4, <2>1, <2>2 DEF WithinRisk
  <2>4. ~Tighter(q.side, q.stop, bar.close)
    BY <1>1, <1>4
  <2>5. \A r \in open' : WithinRisk(r, r.stop) /\ \A t \in r.target : WithinRisk(r, t)
    BY <1>8, <2>3 DEF RiskInv
  <2>6. \A r \in open' : ~Tighter(r.side, r.stop, bar'.close)
    BY <1>1, <1>2, <1>8, <2>4 DEF RiskInv
  <2>7. LossIsBounded'
    BY <1>1 DEF RiskInv, LossIsBounded
  <2> QED BY <2>5, <2>6, <2>7 DEF RiskInv
<1> QED BY <1>9, <1>10, <1>11, <1>12, <1>13, <1>14

\* The stop and the target of a new position, however it was sized.
LEMMA EntryIsWithinRisk ==
    ASSUME ReplayInv, NEW side \in Sides, NEW q, q = NewPosition(side), q.volume # Refused
    PROVE  /\ WithinRisk(q, q.stop) /\ \A t \in q.target : WithinRisk(q, t)
           /\ ~Tighter(q.side, q.stop, bar.close)
<1> DEFINE sign == Sign(side)
           width == StopAtr * view.half
           w == q.volume * Contract
           close == bar.close
<1>1. /\ close \in Nat /\ width \in Nat /\ sign \in {1, -1} /\ HalfSpread \in Nat /\ Contract \in Nat
      /\ StopAtr \in Nat /\ view.half \in Nat /\ RewardRisk \in Nat
  <2>1. /\ close \in Nat /\ HalfSpread \in Nat /\ Contract \in Nat
        /\ StopAtr \in Nat /\ view.half \in Nat /\ RewardRisk \in Nat
    BY BarFields, BacktestAssumption, StrategyAssumption DEF ReplayInv
  <2>2. width \in Nat /\ sign \in {1, -1}
    BY <2>1, SignIsOne
  <2> QED BY <2>1, <2>2
<1>2. q \in SimPositions
  BY NewPositionType
<1>3. /\ q.side = side /\ q.entry = close + sign * HalfSpread /\ q.risk = Risk
      /\ q.volume = Volume(side)
      /\ q.stop = EntryStop(side, close, view) /\ q.target = EntryTarget(side, close, view)
  BY DEF NewPosition, FillPrice
<1>4. q.volume \in Nat /\ q.risk \in Int /\ w \in Nat /\ q.entry \in Int
  BY <1>2, PositionFields, Worthwhile
<1>5. q.stop = close - sign * width
  <2>1. sign * StopAtr * view.half = sign * (StopAtr * view.half)
    BY <1>1
  <2> QED BY <1>3, <2>1 DEF EntryStop
\* What the stop may cost was within the intended risk.
<1>6. 200 * (width * w) <= 3 * q.risk
  <2> DEFINE u == LotRisk(side)
             v == q.volume
  <2>1. u = 100 * (width * Contract) /\ width * Contract \in Nat
    <3>1. 100 * StopAtr * view.half = 100 * width
      BY <1>1
    <3> HIDE DEF width
    <3>2. (100 * width) * Contract = 100 * (width * Contract) /\ width * Contract \in Nat
      BY <1>1
    <3> QED BY <3>1, <3>2 DEF LotRisk
  <2>2. 2 * v * u <= 3 * q.risk
    <3>1. u \in Int
      BY <2>1
    <3>2. v = SizePosition(q.risk, u, Volumes) /\ v # Refused
      BY <1>3 DEF Volume
    <3> HIDE DEF u, v
    <3> QED BY <1>4, <3>1, <3>2, SizesAreNumbers
  <2>3. 2 * v * u = 200 * (width * w)
    <3> DEFINE wc == width * Contract
    <3>1. 2 * v * u = (2 * v) * (100 * wc) /\ wc \in Nat
      BY <2>1
    <3> HIDE DEF wc
    <3>2. (2 * v) * (100 * wc) = 200 * (v * wc)
      BY <1>4, <3>1
    <3>3. v * wc = width * w
      <4> HIDE DEF width
      <4>1. v * (width * Contract) = width * (v * Contract)
        BY <1>1, <1>4
      <4> QED BY <4>1 DEF wc
    <3> QED BY <3>1, <3>2, <3>3
  <2> QED BY <2>2, <2>3
<1> DEFINE cost == width * w
           spread == HalfSpread * w
<1> HIDE DEF width, w, sign, close
<1>7. cost \in Nat /\ spread \in Nat
  BY <1>1, <1>4
<1>8. ASSUME NEW price \in Int, NEW way \in Nat, price = close + sign * way
      PROVE  WithinRisk(q, price)
  <2>1. sign * (q.entry - price) = HalfSpread - way
    BY <1>1, <1>3, <1>8
  <2>2. sign * (q.entry - price) \in Int /\ sign * (q.entry - price) <= HalfSpread
    BY <1>1, <1>8, <2>1
  <2> DEFINE away == sign * (q.entry - price)
             loss == away * w
  <2>3. loss \in Int /\ loss <= spread
    <3> HIDE DEF away
    <3> QED BY <1>1, <1>4, <2>2, ProductGrows DEF away, spread
  <2>4. WithinRisk(q, price) <=> 200 * loss <= 3 * q.risk + 200 * spread
    BY <1>3 DEF WithinRisk, sign, w, spread
  <2>5. 200 * cost <= 3 * q.risk
    BY <1>6 DEF cost
  <2> HIDE DEF loss, cost, spread
  <2> QED BY <1>4, <1>7, <2>3, <2>4, <2>5
<1>9. WithinRisk(q, q.stop)
  <2>1. q.stop \in Int
    BY <1>2, PositionFields
  <2> DEFINE away == sign * (q.entry - q.stop)
             loss == away * w
  <2>2. away = HalfSpread + width
    BY <1>1, <1>3, <1>5
  <2>3. loss = spread + cost
    <3> HIDE DEF away
    <3> QED BY <1>1, <1>4, <2>2 DEF spread, cost
  <2>4. WithinRisk(q, q.stop) <=> 200 * loss <= 3 * q.risk + 200 * spread
    BY <1>3 DEF WithinRisk, sign, w, spread
  <2>5. 200 * cost <= 3 * q.risk
    BY <1>6 DEF cost
  <2> HIDE DEF loss, cost, spread
  <2> QED BY <1>4, <1>7, <2>3, <2>4, <2>5
<1>10. \A t \in q.target : WithinRisk(q, t)
  <2> TAKE t \in q.target
  <2>1. t \in Int
    BY <1>2, PositionFields
  <2>2. PICK r \in {RewardRisk} \ {0} : t = close + sign * r * StopAtr * view.half
    BY <1>3 DEF EntryTarget, sign
  <2>3. sign * r * StopAtr * view.half = sign * (r * width) /\ r * width \in Nat
    <3>1. r \in Nat
      BY <1>1
    <3>2. (sign * r) * StopAtr = sign * (r * StopAtr) /\ r * StopAtr \in Nat
      BY <1>1, <3>1
    <3>3. (sign * (r * StopAtr)) * view.half = sign * ((r * StopAtr) * view.half)
      BY <1>1, <3>2
    <3>4. (r * StopAtr) * view.half = r * (StopAtr * view.half)
      BY <1>1, <3>1, Associates
    <3>5. r * width \in Nat
      BY <1>1, <3>1
    <3> QED BY <3>2, <3>3, <3>4, <3>5 DEF width
  <2> DEFINE way == r * width
  <2>4. way \in Nat /\ t = close + sign * way
    BY <2>2, <2>3
  <2> HIDE DEF way
  <2> QED BY <1>8, <2>1, <2>4
<1>11. ~Tighter(q.side, q.stop, bar.close)
  <2>1. ~(sign * (q.stop - close) > 0)
    BY <1>1, <1>5
  <2> QED BY <1>3, <2>1 DEF Tighter, sign, close
<1> QED BY <1>9, <1>10, <1>11

\* The last value of a curve that has grown.
LEMMA CurveGrows ==
    ASSUME NEW c \in Seq(Int), NEW k \in Nat, Len(c) = k - 1, k > 0, NEW e \in Int
    PROVE  /\ Append(c, e) \in Seq(Int) /\ Len(Append(c, e)) = k
           /\ Append(c, e)[k] = e
  OBVIOUS

LEMMA EnterKeeps ==
    ASSUME ReplayInv, NEW side \in Sides, Enter(side)
    PROVE  ReplayInv'
<1> USE DEF ReplayInv
<1> DEFINE q == NewPosition(side)
<1>1. /\ phase = "entry" /\ phase' = "bar" /\ open' = open \cup {q}
      /\ UNCHANGED <<closed, balance, snap, todo>>
      /\ curve' = Append(curve, EquityOf(open', bar.close))
  BY DEF Enter, BarEnds
<1>2. UNCHANGED <<last, n, bar, view, hist, day>>
  BY DEF Enter, market
<1>3. q \in SimPositions /\ q.id = Size + 1 /\ Size \in Nat
  BY NewPositionType
<1>4. q.opened = n /\ q.volume # Refused
  BY DEF NewPosition, Enter
<1>5. WithinRisk(q, q.stop) /\ (\A t \in q.target : WithinRisk(q, t)) /\ ~Tighter(q.side, q.stop, bar.close)
  BY <1>4, EntryIsWithinRisk
<1> HIDE DEF q
<1>6. q \notin open /\ \A p \in open : p.id # q.id /\ p.id \in Nat /\ p.id <= Size
  BY <1>3, PositionFields DEF PositionsInv, BacktestTypeOK
<1>7. \A r \in open' : r \in open \/ r = q
  BY <1>1
<1>8. /\ IsFiniteSet(open') /\ Cardinality(open') = Cardinality(open) + 1
      /\ Cardinality(open) \in Nat /\ Cardinality(closed) \in Nat
  BY <1>1, <1>6, FS_AddElement, FS_CardinalityType DEF PositionsInv
<1>9. Size' = Size + 1
  BY <1>1, <1>8 DEF Size
<1>10. n \in Nat /\ n > 0 /\ todo = {}
  BY <1>1, BarFields DEF StageInv
<1>11. PositionsInv'
  <2>1. \A r \in open' : r.opened <= n' /\ r.id <= Size'
    BY <1>2, <1>3, <1>4, <1>6, <1>7, <1>9, <1>10 DEF PositionsInv
  <2>2. \A r, t \in open' : r.id = t.id => r = t
    BY <1>6, <1>7 DEF PositionsInv
  <2>3. \A c \in closed : c.position.id \in Nat /\ c.position.id <= Size
    BY TradeFields, PositionFields DEF PositionsInv, BacktestTypeOK
  <2>4. \A c \in closed', r \in open' : c.position.id # r.id
    BY <1>1, <1>3, <1>7, <2>3 DEF PositionsInv
  <2>5. \A c \in closed' : c.position.id <= Size'
    BY <1>1, <1>3, <1>9, <2>3
  <2>6. IsFiniteSet(closed')
    BY <1>1 DEF PositionsInv
  <2> QED BY <1>8, <2>1, <2>2, <2>4, <2>5, <2>6 DEF PositionsInv
<1>12. \A r \in open' : r \in SimPositions
  BY <1>3, <1>7 DEF BacktestTypeOK
<1> DEFINE equity == EquityOf(open', bar.close)
<1>13. equity \in Int /\ equity = balance + OpenPnl(open', bar.close)
  <2> DEFINE S == open'
  <2>1. IsFiniteSet(S) /\ (\A r \in S : r \in SimPositions) /\ bar.close \in Int
    BY <1>8, <1>12, BarFields
  <2> HIDE DEF S
  <2>2. EquityOf(S, bar.close) \in Int /\ EquityOf(S, bar.close) = balance + OpenPnl(S, bar.close)
    BY <2>1, EquityType
  <2> QED BY <2>2 DEF S
<1>14. curve' = Append(curve, equity)
  BY <1>1
<1> HIDE DEF equity
<1>15. curve' \in Seq(Int) /\ Len(curve') = n /\ curve'[n] = equity
  <2>1. curve \in Seq(Int) /\ Len(curve) = n - 1
    BY <1>1 DEF StageInv, BacktestTypeOK
  <2>2. Append(curve, equity) \in Seq(Int) /\ Len(Append(curve, equity)) = n
        /\ Append(curve, equity)[n] = equity
    BY <1>10, <1>13, <2>1, CurveGrows
  <2> QED BY <1>14, <2>2
<1>16. BacktestTypeOK'
  <2>1. Cardinality(open') <= MaxOpen
    <3>1. MaxOpen \in Nat /\ Cardinality(open) < MaxOpen
      BY BacktestAssumption DEF Enter, MayEnter, CanOpenNewPosition
    <3> QED BY <1>8, <3>1
  <2>2. todo' \subseteq open'
    BY <1>1, <1>10
  <2>3. curve' \in Seq(Int) /\ Len(curve') \in {n', n' - 1}
    BY <1>2, <1>15
  <2> QED BY <1>1, <1>2, <1>12, <2>1, <2>2, <2>3 DEF BacktestTypeOK
<1>17. StageInv'
  BY <1>1, <1>2, <1>10, <1>15 DEF StageInv
<1>18. BreakerInv' /\ BalanceInv' /\ ExitFollowsEntry'
  BY <1>1, <1>2 DEF BreakerInv, BalanceInv, ExitFollowsEntry
<1>19. CurveInv'
  BY <1>1, <1>2, <1>13, <1>15 DEF CurveInv
<1>20. RiskInv'
  <2>1. \A r \in open' : WithinRisk(r, r.stop) /\ \A t \in r.target : WithinRisk(r, t)
    BY <1>5, <1>7 DEF RiskInv
  <2>2. \A r \in open' : ~Tighter(r.side, r.stop, bar'.close)
    BY <1>1, <1>2, <1>5, <1>7 DEF RiskInv
  <2>3. LossIsBounded'
    BY <1>1 DEF RiskInv, LossIsBounded
  <2> QED BY <2>1, <2>2, <2>3 DEF RiskInv
<1> QED BY <1>11, <1>16, <1>17, <1>18, <1>19, <1>20

\* Where no stop was hit the bar closed on its right side.
LEMMA NotBreached ==
    ASSUME BacktestTypeOK, Breached = {}, NEW p \in open
    PROVE  ~Tighter(p.side, p.stop, bar.close)
<1>1. /\ bar.low \in Int /\ bar.high \in Int /\ bar.close \in Int /\ bar.low <= bar.close
      /\ bar.close <= bar.high
  BY BarFields
<1>2. p.stop \in Int /\ p.side \in {"buy", "sell"}
  BY PositionFields DEF BacktestTypeOK, Sides
<1>3. ~StopHit(p)
  BY DEF Breached, Hits
<1> QED BY <1>1, <1>2, <1>3 DEF StopHit, Worst, Tighter, Sign

LEMMA GoesOnKeeps ==
    ASSUME ReplayInv, GoesOn, last > 0
    PROVE  ReplayInv'
<1> USE DEF ReplayInv
<1>1. UNCHANGED <<last, n, bar, view, hist, day, open, closed, balance, snap>>
  BY DEF GoesOn, market, account
<1>2. n \in Nat /\ last \in Nat /\ curve \in Seq(Int)
  BY BarFields DEF BacktestTypeOK
<1>3. PositionsInv'
  BY <1>1, <1>2, SameKeepsPositions
<1>4. BalanceInv' /\ ExitFollowsEntry'
  BY <1>1 DEF BalanceInv, ExitFollowsEntry
<1>5. phase # "end"
  BY DEF GoesOn
<1>6. BreakerInv'
  BY <1>1, <1>5 DEF BreakerInv
<1>7. LossIsBounded'
  BY <1>1 DEF RiskInv, LossIsBounded
<1> DEFINE equity == EquityOf(open, bar.close)
<1>8. equity \in Int /\ equity = balance + OpenPnl(open, bar.close)
  <2>1. IsFiniteSet(open) /\ (\A r \in open : r \in SimPositions) /\ bar.close \in Int
    BY BarFields DEF PositionsInv, BacktestTypeOK
  <2> QED BY <2>1, EquityType
<1> DEFINE Stands == BacktestTypeOK' /\ StageInv' /\ CurveInv' /\ RiskInv'
<1>9. ASSUME phase = "hits", Breached = {}, phase' = "manage", todo' = open, curve' = curve
      PROVE  Stands
  <2>1. \A p \in open : ~Tighter(p.side, p.stop, bar.close)
    BY <1>9, NotBreached
  <2>2. RiskInv'
    BY <1>1, <1>7, <2>1 DEF RiskInv
  <2>3. BacktestTypeOK'
    BY <1>1, <1>9 DEF BacktestTypeOK
  <2>4. StageInv'
    BY <1>1, <1>9 DEF StageInv
  <2>5. CurveInv'
    BY <1>1, <1>9 DEF CurveInv
  <2> QED BY <2>2, <2>3, <2>4, <2>5
<1>10. ASSUME phase \in {"manage", "entry"}, phase' \in {"manage", "entry", "failed"},
              phase' = "manage" => phase = "manage",
              todo' \subseteq todo, phase' # "manage" => todo' = {}, curve' = curve
       PROVE  Stands
  <2>1. RiskInv'
    BY <1>1, <1>7, <1>10 DEF RiskInv
  <2>2. BacktestTypeOK'
    BY <1>1, <1>10 DEF BacktestTypeOK
  <2>3. StageInv'
    BY <1>1, <1>10 DEF StageInv
  <2>4. CurveInv'
    BY <1>1, <1>10 DEF CurveInv
  <2> QED BY <2>1, <2>2, <2>3, <2>4
<1>11. ASSUME phase = "entry", phase' = "bar", todo' = todo, BarEnds(open)
       PROVE  Stands
  <2>1. todo = {} /\ n > 0 /\ Len(curve) = n - 1
    BY <1>11 DEF StageInv
  <2>2. curve' = Append(curve, equity)
    BY <1>11 DEF BarEnds
  <2> HIDE DEF equity
  <2>3. Append(curve, equity) \in Seq(Int) /\ Len(Append(curve, equity)) = n
        /\ Append(curve, equity)[n] = equity
    BY <1>2, <1>8, <2>1, CurveGrows
  <2>4. curve' \in Seq(Int) /\ Len(curve') = n /\ curve'[n] = equity
    BY <2>2, <2>3
  <2>5. RiskInv'
    BY <1>1, <1>7, <1>11 DEF RiskInv
  <2>6. BacktestTypeOK'
    BY <1>1, <1>11, <2>1, <2>4 DEF BacktestTypeOK
  <2>7. StageInv'
    BY <1>1, <1>11, <2>1, <2>4 DEF StageInv
  <2>8. CurveInv'
    BY <1>1, <1>8, <1>11, <2>4 DEF CurveInv
  <2> QED BY <2>5, <2>6, <2>7, <2>8
<1>12. ASSUME phase = "bar", n = last, phase' = "end", todo' = todo, curve' = curve
       PROVE  Stands
  <2>1. RiskInv'
    BY <1>1, <1>7, <1>12 DEF RiskInv
  <2>2. BacktestTypeOK'
    BY <1>1, <1>12 DEF BacktestTypeOK
  <2>3. n > 0
    BY <1>12
  <2>4. StageInv'
    BY <1>1, <1>12, <2>3 DEF StageInv
  <2>5. CurveInv'
    <3>1. curve[n] = balance + OpenPnl(open, bar.close) /\ AtEnd(closed) = {}
      BY <1>12, <2>3 DEF CurveInv
    <3>2. VolumeAtEnd(closed) = 0
      BY <3>1, VolumeAtEndOfNone
    <3>3. HalfSpread \in Int /\ Contract \in Int
      BY BacktestAssumption
    <3>4. (HalfSpread * Contract) * VolumeAtEnd(closed) = 0
      BY <3>2, <3>3
    <3> DEFINE spread == (HalfSpread * Contract) * VolumeAtEnd(closed)
               sum == balance + OpenPnl(open, bar.close)
    <3>5. spread = 0 /\ sum \in Int /\ curve[n] = sum
      BY <1>8, <3>1, <3>4
    <3> HIDE DEF spread, sum
    <3>6. curve[n] = sum + spread
      BY <3>5
    <3>7. phase' # "bar" /\ curve' = curve
      BY <1>12
    <3>8. curve'[n'] = balance' + OpenPnl(open', bar'.close) + (HalfSpread * Contract) * VolumeAtEnd(closed')
      BY <1>1, <3>6, <3>7 DEF sum, spread
    <3> QED BY <1>12, <3>7, <3>8 DEF CurveInv
  <2> QED BY <2>1, <2>2, <2>4, <2>5
<1>13. Stands
  <2> HIDE DEF Stands
  <2>1. phase # "manage" => todo = {}
    BY DEF StageInv
  <2> QED BY <1>9, <1>10, <1>11, <1>12, <2>1 DEF GoesOn
<1> QED BY <1>3, <1>4, <1>6, <1>13

LEMMA ReplayInvNext == ASSUME ReplayInv, last > 0, ReplayNext PROVE ReplayInv'
  BY ReplaySteps, NextBarKeeps, ClosesKeeps, EndsKeeps, MovesKeeps, EnterKeeps, GoesOnKeeps

---------------------------------------------------------------------------
(* The replay in its run                                                   *)

\* The replay a run begins, and the one that stands for none.
Begins(bars) ==
    /\ bars \in 0 .. MaxBars
    /\ FreshReplay(bars)
    /\ hist' \in [1 .. Window -> Hists]

LEMMA HistIsSequence ==
    ASSUME NEW h \in [1 .. Window -> Hists]
    PROVE  h \in Seq(Hists) /\ Len(h) = Window
<1>1. Window \in Nat
  BY StrategyAssumption
<1> QED BY <1>1

\* A simulator and its results, before the first bar.
Fresh ==
    /\ phase = "bar" /\ last \in 0 .. MaxBars /\ n = 0 /\ bar = NoBar /\ view = NoView /\ day = 0
    /\ hist \in [1 .. Window -> Hists]
    /\ open = {} /\ closed = {} /\ balance = Capital /\ snap = StartNewDay(0, Capital)
    /\ todo = {} /\ curve = <<>>

LEMMA NewDayFields ==
    ASSUME NEW d \in Nat, NEW e \in Int
    PROVE  /\ StartNewDay(d, e).day = d /\ StartNewDay(d, e).pnl = 0
           /\ StartNewDay(d, e) \in [day : Nat, start : Int, pnl : Int, halted : BOOLEAN]
  BY DEF StartNewDay

LEMMA FreshHasInv == Fresh => ReplayInv
<1> SUFFICES ASSUME Fresh PROVE ReplayInv
  OBVIOUS
<1> USE DEF Fresh
<1>1. /\ MaxBars \in Nat /\ Capital \in Nat /\ MaxOpen \in Nat
      /\ Window \in Nat /\ Bars # {} /\ BarViews # {}
  BY BacktestAssumption, StrategyAssumption
<1>2. bar \in Bars /\ view \in BarViews
  BY <1>1 DEF NoBar, NoView
<1>3. hist \in Seq(Hists) /\ Len(hist) \in Window .. Window + 1
  BY <1>1, HistIsSequence
<1>4. IsFiniteSet({}) /\ Cardinality({}) = 0
  BY FS_EmptySet
<1>5. /\ snap.day = 0 /\ snap.pnl = 0
      /\ snap \in [day : Nat, start : Int, pnl : Int, halted : BOOLEAN]
  <2> DEFINE s == StartNewDay(0, Capital)
  <2>1. Capital \in Int /\ 0 \in Nat
    BY <1>1
  <2>2. /\ s.day = 0 /\ s.pnl = 0
        /\ s \in [day : Nat, start : Int, pnl : Int, halted : BOOLEAN]
    BY <2>1, NewDayFields
  <2>3. snap = s
    OBVIOUS
  <2> HIDE DEF s
  <2> QED BY <2>2, <2>3
<1>6. curve \in Seq(Int) /\ Len(curve) = 0
  OBVIOUS
<1>7. BacktestTypeOK
  <2>1. n \in 0 .. last /\ day \in 0 .. n /\ balance \in Int /\ Cardinality(open) <= MaxOpen
        /\ todo \subseteq open /\ Len(curve) \in {n, n - 1}
    BY <1>1, <1>4, <1>6
  <2> QED BY <1>2, <1>3, <1>5, <1>6, <2>1 DEF BacktestTypeOK
<1>8. PositionsInv /\ StageInv
  BY <1>4, <1>6 DEF PositionsInv, StageInv
<1>9. PnlOn({}, 0) = 0 /\ On({}, 0) = {} /\ AtEnd({}) = {}
  BY PnlOnNone DEF On, AtEnd
<1>10. BreakerInv /\ CurveInv /\ RiskInv /\ ExitFollowsEntry
  BY <1>5, <1>9 DEF BreakerInv, CurveInv, RiskInv, LossIsBounded, ExitFollowsEntry
<1>11. BalanceInv
  <2>1. RowsOf(closed) = {}
    BY DEF RowsOf
  <2> DEFINE f == [t \in {} |-> t.pnl]
  <2>2. DOMAIN f = {}
    OBVIOUS
  <2>3. TotalPnl({}) = SumFunction(f)
    BY DEF TotalPnl
  <2> HIDE DEF f
  <2>4. TotalPnl({}) = 0
    BY <2>2, <2>3, TotalOfNone
  <2>5. TotalPnl(RowsOf(closed)) = 0
    BY <2>1, <2>4
  <2> QED BY <1>1, <2>5 DEF BalanceInv
<1> QED BY <1>7, <1>8, <1>10, <1>11 DEF ReplayInv

LEMMA BeginsWithInv == ASSUME NEW bars, Begins(bars) PROVE ReplayInv'
<1>1. Fresh'
  BY DEF Begins, FreshReplay, Fresh
<1>2. Fresh' => ReplayInv'
  BY FreshHasInv, PTL
<1> QED BY <1>1, <1>2

\* A replay that is under way has a bar to visit.
LastInv == task = "replay" => last > 0

LEMMA NoHistIsOne == ASSUME BacktestTypeOK PROVE NoHist \in [1 .. Window -> Hists]
<1>1. hist \in Seq(Hists) /\ Len(hist) >= 1
  BY StrategyAssumption DEF BacktestTypeOK
<1>2. [i \in 1 .. Window |-> hist[1]] \in [1 .. Window -> Hists]
  BY <1>1
<1> QED BY <1>2 DEF NoHist

\* Every other step of the run leaves the replay alone or begins it afresh.
LEMMA ReplayOrFresh ==
    ASSUME ReplayInv, [Next]_vars
    PROVE  \/ ReplayNext /\ task = "replay" /\ task' = task
           \/ UNCHANGED replay /\ (task' = "replay" => task = "replay")
           \/ \E bars : Begins(bars) /\ (task' = "replay" => bars > 0)
<1>1. 0 \in 0 .. MaxBars
  BY BacktestAssumption
<1>2. ASSUME Forget PROVE Begins(0)
  BY <1>1, <1>2, NoHistIsOne DEF Forget, Begins, ReplayInv
<1>3. CASE Prepare
  <2>1. PICK bars \in 1 .. MaxBars : FreshReplay(bars)
    BY <1>3 DEF Prepare
  <2>2. bars \in 0 .. MaxBars /\ bars > 0
    BY BacktestAssumption
  <2>3. Begins(bars)
    BY <1>3, <2>1, <2>2 DEF Prepare, Begins
  <2> QED BY <2>2, <2>3
<1>4. CASE RequestFails \/ GetRunFails \/ PageEmptied \/ PageFails \/ PrepareRaises \/ ReplayRaises
           \/ StoreResultFails \/ StoreResultUnread \/ StoreTrades \/ StoreTradesFails
           \/ Handle \/ HandleFails \/ HandleRefused \/ Dies
  <2>1. Forget /\ task' # "replay"
    BY <1>4 DEF RequestFails, GetRunFails, PageEmptied, PageFails, PrepareRaises, ReplayRaises,
       StoreResultFails, StoreResultUnread, StoreTrades, StoreTradesFails,
       Handle, HandleFails, HandleRefused, Dies, Raise, End
  <2> QED BY <1>2, <2>1
<1>5. CASE Request \/ GetRun \/ LoadPage \/ NoMorePages \/ StoreResult \/ Rest \/ UNCHANGED vars
  BY <1>5 DEF Request, GetRun, LoadPage, NoMorePages, StoreResult, Rest, vars
<1>6. CASE ReplayStep
  BY <1>6 DEF ReplayStep
<1> QED BY <1>3, <1>4, <1>5, <1>6 DEF Next

\* A step of the replay does not change how many bars there are.
LEMMA LastStays == ASSUME ReplayNext PROVE last' = last
  BY DEF ReplayNext, NextBar, Hit, ListPositions, ManageClose, ManageMove, ManageHold, ManageDone,
     NoEntry, EndOfData, CloseRest, Enter, EntryRaises, market

LEMMA ReplayInvStep == ASSUME ReplayInv, LastInv, [Next]_vars PROVE ReplayInv' /\ LastInv'
<1>1. CASE ReplayNext /\ task = "replay" /\ task' = task
  BY <1>1, ReplayInvNext, LastStays DEF LastInv
<1>2. CASE UNCHANGED replay /\ (task' = "replay" => task = "replay")
  <2>1. UNCHANGED <<phase, last, n, bar, view, hist, day, open, closed, balance, snap, todo, curve>>
    BY <1>2 DEF replay, market, account
  <2>2. BacktestTypeOK'
    BY <2>1 DEF ReplayInv, BacktestTypeOK
  <2>3. PositionsInv' /\ StageInv'
    BY <2>1 DEF ReplayInv, PositionsInv, StageInv, Size
  <2>4. BreakerInv' /\ BalanceInv' /\ CurveInv' /\ ExitFollowsEntry'
    BY <2>1 DEF ReplayInv, BreakerInv, BalanceInv, CurveInv, ExitFollowsEntry
  <2>5. RiskInv'
    BY <2>1 DEF ReplayInv, RiskInv, LossIsBounded
  <2> QED BY <1>2, <2>1, <2>2, <2>3, <2>4, <2>5 DEF ReplayInv, LastInv
<1>3. CASE \E bars : Begins(bars) /\ (task' = "replay" => bars > 0)
  <2>1. PICK bars : Begins(bars) /\ (task' = "replay" => bars > 0)
    BY <1>3
  <2>2. last' = bars
    BY <2>1 DEF Begins, FreshReplay
  <2> QED BY <2>1, <2>2, BeginsWithInv DEF LastInv
<1> QED BY <1>1, <1>2, <1>3, ReplayOrFresh

LEMMA ReplayInvInit == Init => ReplayInv /\ LastInv
<1> SUFFICES ASSUME Init PROVE ReplayInv /\ LastInv
  OBVIOUS
<1>1. Fresh /\ task = "none"
  <2>1. MaxBars \in 0 .. MaxBars
    BY BacktestAssumption
  <2> QED BY <2>1 DEF Init, ReplayInit, Fresh
<1> QED BY <1>1, FreshHasInv DEF LastInv

LEMMA ReplayInvAlways == Spec => [](ReplayInv /\ LastInv)
  BY ReplayInvInit, ReplayInvStep, PTL DEF Spec

---------------------------------------------------------------------------
(* What follows                                                            *)

\* The replay's state is always of its types: the positions within the cap,
\* the curve a value a bar (backtest/engine.py:54-107).
THEOREM BacktestTypes == Spec => []BacktestTypeOK
<1>1. ReplayInv => BacktestTypeOK
  BY DEF ReplayInv
<1> QED BY <1>1, ReplayInvAlways, PTL

\* The breaker has seen every close of its day and no other
\* (backtest/engine.py:70-85).
THEOREM BreakerIsTold == Spec => []BreakerSeesEveryClose
<1>1. ReplayInv => BreakerSeesEveryClose
  BY DEF ReplayInv, BreakerInv, BreakerSeesEveryClose, PnlOn, On, DayPnl
<1> QED BY <1>1, ReplayInvAlways, PTL

\* No exit is priced by the bar of its own entry, of which part lay before it
\* (backtest/engine.py:72-97).
THEOREM ExitsFollowEntries == Spec => []ExitFollowsEntry
<1>1. ReplayInv => ExitFollowsEntry
  BY DEF ReplayInv
<1> QED BY <1>1, ReplayInvAlways, PTL

\* However a trade ends, its loss is bounded by what it was meant to risk and
\* the spread (backtest/simulator.py:84-196, risk/position_sizing.py:35-45).
THEOREM LossesAreBounded == Spec => []LossIsBounded
<1>1. ReplayInv => LossIsBounded
  BY DEF ReplayInv, RiskInv
<1> QED BY <1>1, ReplayInvAlways, PTL

\* The curve ends at the balance the run ends with, but for the last spreads
\* (backtest/engine.py:99-107).
THEOREM CurveEndsAtBalance == Spec => []CurveLeadsToBalance
<1>1. ReplayInv => CurveLeadsToBalance
  <2> SUFFICES ASSUME ReplayInv, phase = "end"
               PROVE  Last(curve) = Equity(bar.close) +
                        HalfSpread * Contract * VolumeAtEnd(closed)
    BY DEF CurveLeadsToBalance, VolumeAtEnd, AtEnd
  <2>1. Len(curve) = n
    BY DEF ReplayInv, StageInv
  <2>2. Equity(bar.close) = balance + OpenPnl(open, bar.close)
    BY DEF Equity, EquityOf, OpenPnl
  <2> QED BY <2>1, <2>2 DEF ReplayInv, CurveInv, Last
<1> QED BY <1>1, ReplayInvAlways, PTL

\* A position with an id no open one had is a new one.
LEMMA OnlyEnterOpens ==
    ASSUME ReplayInv, [Next]_vars, NEW q \in open', \A p \in open : p.id # q.id
    PROVE  \E side \in Sides : Enter(side)
<1>1. CASE ReplayNext
  <2>1. ASSUME NEW p, NEW s, Moves(p, s) PROVE FALSE
    <3>1. p \in open /\ p \in SimPositions /\ q \in (open \ {p}) \cup {[p EXCEPT !.stop = s]}
      BY <2>1 DEF Moves, ReplayInv, BacktestTypeOK
    <3>2. [p EXCEPT !.stop = s].id = p.id
      BY <3>1 DEF SimPositions
    <3> QED BY <3>1, <3>2
  <2>2. ASSUME NextBar \/ GoesOn PROVE FALSE
    BY <2>2 DEF NextBar, GoesOn, account
  <2>3. ASSUME NEW p, NEW price, NEW reason, CloseAt(p, price, reason) PROVE FALSE
    BY <2>3 DEF CloseAt
  <2>4. ASSUME NEW p, NEW price, NEW reason, Closes(p, price, reason) PROVE FALSE
    BY <2>3, <2>4 DEF Closes
  <2>5. ASSUME NEW p, Ends(p) PROVE FALSE
    BY <2>3, <2>5 DEF Ends
  <2> QED BY <1>1, <2>1, <2>2, <2>4, <2>5, ReplaySteps
<1>2. CASE UNCHANGED replay
  BY <1>2 DEF replay, account
<1>3. CASE \E bars : Begins(bars)
  BY <1>3 DEF Begins, FreshReplay
<1> QED BY <1>1, <1>2, <1>3, ReplayOrFresh

\* Nothing is opened on a day whose trades have reached the limit, those of
\* the very bar included (backtest/engine.py:70-97).
THEOREM EntriesBeforeLimit == Spec => EntryBeforeLimit
<1> DEFINE Held == ((\E q \in open' : \A p \in open : p.id # q.id) /\ \E c \in closed : c.day = day)
                     => ~LimitReached(snap.start, DayPnl, LossPct)
<1>1. ReplayInv /\ [Next]_vars => [Held]_replay
  <2> SUFFICES ASSUME ReplayInv, [Next]_vars, NEW q \in open', \A p \in open : p.id # q.id,
                      NEW c \in closed, c.day = day
               PROVE  ~LimitReached(snap.start, DayPnl, LossPct)
    OBVIOUS
  <2>1. PICK side \in Sides : Enter(side)
    BY OnlyEnterOpens
  <2>2. phase = "entry" /\ ~snap.halted
    BY <2>1 DEF Enter, MayEnter, IsHalted
  <2>3. On(closed, day) # {}
    BY DEF On
  <2>4. snap.pnl = DayPnl
    BY <2>2 DEF ReplayInv, BreakerInv, PnlOn, On, DayPnl
  <2>5. ~LimitReached(snap.start, snap.pnl, LossPct)
    BY <2>2, <2>3 DEF ReplayInv, BreakerInv
  <2> QED BY <2>4, <2>5
<1> QED BY <1>1, ReplayInvAlways, PTL DEF Spec, EntryBeforeLimit

\* Whatever the indicators do, no stop is ever loosened
\* (strategy/ema_atr_rsi_macd.py:146-167).
THEOREM StopsNeverLoosen == Spec => StopOnlyTightens
<1> DEFINE Held == \A p \in open, q \in open' : (p.id = q.id) => ~Tighter(p.side, p.stop, q.stop)
<1>1. ReplayInv /\ [Next]_vars => [Held]_replay
  <2> SUFFICES ASSUME ReplayInv, [Next]_vars, NEW p \in open, NEW q \in open', p.id = q.id,
                      ~UNCHANGED replay
               PROVE  ~Tighter(p.side, p.stop, q.stop)
    OBVIOUS
  <2>1. p \in SimPositions /\ p.stop \in Int /\ p.id \in Nat
    BY PositionFields DEF ReplayInv, BacktestTypeOK
  <2>2. Sign(p.side) \in {1, -1}
    BY SignIsOne
  <2>3. p = q => ~Tighter(p.side, p.stop, q.stop)
    BY <2>1, <2>2 DEF Tighter
  <2>4. q \in open => p = q
    BY DEF ReplayInv, PositionsInv
  <2>5. ASSUME NEW m, NEW s, Moves(m, s) PROVE ~Tighter(p.side, p.stop, q.stop)
    <3>1. /\ m \in open /\ m \in SimPositions /\ s \in Int /\ Tighter(m.side, s, m.stop)
          /\ q \in (open \ {m}) \cup {[m EXCEPT !.stop = s]}
      BY <2>5 DEF Moves, ReplayInv, BacktestTypeOK
    <3>2. CASE q \in open \ {m}
      BY <2>3, <2>4, <3>2
    <3>3. CASE q = [m EXCEPT !.stop = s]
      <4>1. q.id = m.id /\ q.stop = s
        BY <3>1, <3>3 DEF SimPositions
      <4>2. p = m
        BY <3>1, <4>1 DEF ReplayInv, PositionsInv
      <4> QED BY <2>1, <2>2, <3>1, <4>1, <4>2 DEF Tighter
    <3> QED BY <3>1, <3>2, <3>3
  <2>6. ASSUME NEW side \in Sides, Enter(side) PROVE ~Tighter(p.side, p.stop, q.stop)
    <3>1. open' = open \cup {NewPosition(side)} /\ NewPosition(side).id = Size + 1 /\ Size \in Nat
      BY <2>6, NewPositionType DEF Enter
    <3>2. p.id <= Size
      BY DEF ReplayInv, PositionsInv
    <3>3. p.id # Size + 1
      BY <2>1, <3>1, <3>2
    <3> QED BY <2>3, <2>4, <3>1, <3>3
  <2>7. ASSUME open' \subseteq open PROVE ~Tighter(p.side, p.stop, q.stop)
    BY <2>3, <2>4, <2>7
  <2>8. ASSUME NEW m, NEW price, NEW reason, CloseAt(m, price, reason) PROVE open' \subseteq open
    BY <2>8 DEF CloseAt
  <2>9. CASE ReplayNext
    <3>1. ASSUME NEW m, NEW price, NEW reason, Closes(m, price, reason) PROVE open' \subseteq open
      BY <2>8, <3>1 DEF Closes
    <3>2. ASSUME NEW m, Ends(m) PROVE open' \subseteq open
      BY <2>8, <3>2 DEF Ends
    <3>3. ASSUME NextBar \/ GoesOn PROVE open' \subseteq open
      BY <3>3 DEF NextBar, GoesOn, account
    <3> QED BY <2>5, <2>6, <2>7, <2>9, <3>1, <3>2, <3>3, ReplaySteps
  <2>10. CASE \E bars : Begins(bars)
    BY <2>10 DEF Begins, FreshReplay
  <2> QED BY <2>9, <2>10, ReplayOrFresh
<1> QED BY <1>1, ReplayInvAlways, PTL DEF Spec, StopOnlyTightens
=============================================================================
