------------------------ MODULE PositionSizingProofs ------------------------
(***************************************************************************)
(* Lot sizing for every risk, stop and symbol: Affordable, Bounded and     *)
(* Monotone.  Products and quotients are named before they are compared,   *)
(* for each leaf to be linear.                                             *)
(***************************************************************************)
EXTENDS MCPositionSizing, TLAPS

LEMMA TimesGrows == ASSUME NEW a \in Nat, NEW b \in Nat, NEW c \in Nat, a <= b PROVE a * c <= b * c
  OBVIOUS

LEMMA TimesPositive == ASSUME NEW a \in Nat \ {0}, NEW b \in Nat \ {0} PROVE a * b \in Nat \ {0}
  OBVIOUS

LEMMA Division ==
    ASSUME NEW n \in Nat, NEW d \in Nat \ {0}
    PROVE  /\ n \div d \in Nat /\ n % d \in 0 .. d - 1
           /\ (n \div d) * d \in Nat
           /\ n = (n \div d) * d + (n % d)
  OBVIOUS

LEMMA DivisionGrows ==
    ASSUME NEW n \in Nat, NEW m \in Nat, NEW d \in Nat \ {0}, n <= m
    PROVE  n \div d <= m \div d
<1> DEFINE q == n \div d
           p == m \div d
<1>1. q \in Nat /\ p \in Nat /\ n >= q * d /\ m < p * d + d
  BY Division
<1>2. q * d \in Nat /\ p * d \in Nat /\ (p + 1) * d = p * d + d
  BY <1>1
<1> HIDE DEF q, p
<1>3. p + 1 <= q => (p + 1) * d <= q * d
  BY <1>1, TimesGrows
<1>4. q <= p
  BY <1>1, <1>2, <1>3
<1> QED BY <1>4 DEF q, p

LEMMA RoundHalfEvenType ==
    ASSUME NEW n \in Nat, NEW d \in Nat \ {0}
    PROVE  RoundHalfEven(n, d) \in {n \div d, n \div d + 1} /\ RoundHalfEven(n, d) \in Nat
  BY Division DEF RoundHalfEven

\* Rounding moves what is divided by half a divisor at most; by no more than
\* half of what it was where it holds the divisor at least once.
LEMMA RoundHalfEvenClose ==
    ASSUME NEW n \in Nat, NEW d \in Nat \ {0}, d <= n
    PROVE  2 * (RoundHalfEven(n, d) * d) <= 3 * n
<1> DEFINE q == n \div d
           r == n % d
           p == q * d
<1>1. q \in Nat /\ p \in Nat /\ r \in 0 .. d - 1 /\ n = p + r
  BY Division
<1>2. RoundHalfEven(n, d) = q \/ (RoundHalfEven(n, d) = q + 1 /\ d <= 2 * r)
  BY <1>1 DEF RoundHalfEven
<1>3. d <= p
  <2>1. q # 0
    <3> SUFFICES ASSUME q = 0 PROVE FALSE
      OBVIOUS
    <3>1. p = 0
      BY <1>1
    <3> HIDE DEF p, q, r
    <3> QED BY <1>1, <3>1
  <2> HIDE DEF q
  <2>2. 1 * d <= q * d
    BY <1>1, <2>1, TimesGrows
  <2> QED BY <2>2
<1>4. (q + 1) * d = p + d
  <2> HIDE DEF q
  <2> QED BY <1>1
<1>5. RoundHalfEven(n, d) * d = p \/ (RoundHalfEven(n, d) * d = p + d /\ d <= 2 * r)
  <2> HIDE DEF q, r
  <2> QED BY <1>2, <1>4
<1> HIDE DEF q, r, p
<1> QED BY <1>1, <1>3, <1>5

LEMMA RoundHalfEvenGrows ==
    ASSUME NEW n \in Nat, NEW m \in Nat, NEW d \in Nat \ {0}, n <= m
    PROVE  RoundHalfEven(n, d) <= RoundHalfEven(m, d)
<1> DEFINE q == n \div d
           p == m \div d
<1>1. q <= p /\ q \in Nat /\ p \in Nat
  BY Division, DivisionGrows
<1>2. RoundHalfEven(n, d) \in {q, q + 1} /\ RoundHalfEven(m, d) \in {p, p + 1}
  BY RoundHalfEvenType
<1>3. CASE q < p
  <2> HIDE DEF q, p
  <2> QED BY <1>1, <1>2, <1>3
<1>4. CASE q = p
  <2>1. n % d \in Int /\ m % d \in Int /\ q * d \in Nat
    BY Division
  <2>2. n = q * d + (n % d)
    BY Division
  <2>3. m = q * d + (m % d)
    BY <1>4, Division
  <2>4. n % d <= m % d
    <3> DEFINE a == n % d
               b == m % d
               c == q * d
    <3> HIDE DEF a, b, c
    <3>1. a \in Int /\ b \in Int /\ c \in Nat /\ n = c + a /\ m = c + b
      BY <2>1, <2>2, <2>3 DEF a, b, c
    <3>2. a <= b
      BY <3>1
    <3> QED BY <3>2 DEF a, b
  <2> QED BY <1>1, <1>4, <2>1, <2>4 DEF RoundHalfEven
<1> QED BY <1>1, <1>3, <1>4

\* Less than one divisor is rounded to one at most.
LEMMA RoundsToOne ==
    ASSUME NEW n \in Nat, NEW d \in Nat \ {0}, ~(d <= n)
    PROVE  RoundHalfEven(n, d) \in {0, 1}
<1> DEFINE q == n \div d
<1>1. q \in Nat /\ q * d \in Nat /\ q * d <= n
  BY Division
<1>2. q = 0
  <2> HIDE DEF q
  <2>1. 1 <= q => 1 * d <= q * d
    BY <1>1, TimesGrows
  <2> QED BY <1>1, <2>1
<1> QED BY <1>2, RoundHalfEvenType

---------------------------------------------------------------------------
(* The volume before the overage is looked at.                             *)

Stepped(r, u, s) == RoundHalfEven(r, u * s.step) * s.step

LEMMA SteppedParts ==
    ASSUME NEW r \in Nat, NEW u \in Nat \ {0}, NEW s \in Specs
    PROVE  /\ u * s.step \in Nat \ {0}
           /\ RoundHalfEven(r, u * s.step) \in Nat
           /\ Stepped(r, u, s) \in Nat
           /\ SizedVolume(r, u, s) \in Nat \ {0}
           /\ s.min <= SizedVolume(r, u, s)
           /\ SizedVolume(r, u, s) = s.min \/ SizedVolume(r, u, s) <= Stepped(r, u, s)
<1>1. s.step \in Nat \ {0} /\ s.min \in Nat \ {0} /\ s.max \in Nat \ {0}
  BY DEF Specs
<1>2. u * s.step \in Nat \ {0}
  BY <1>1, TimesPositive
<1>3. RoundHalfEven(r, u * s.step) \in Nat
  BY <1>2, RoundHalfEvenType
<1>4. Stepped(r, u, s) \in Nat
  BY <1>1, <1>3 DEF Stepped
<1>5. SizedVolume(r, u, s) = Larger(s.min, Smaller(s.max, Stepped(r, u, s)))
  BY DEF SizedVolume, Stepped
<1> QED BY <1>1, <1>2, <1>3, <1>4, <1>5 DEF Larger, Smaller

LEMMA SizedVolumeGrows ==
    ASSUME NEW r \in Nat, NEW m \in Nat, NEW u \in Nat \ {0}, NEW s \in Specs, r <= m
    PROVE  SizedVolume(r, u, s) <= SizedVolume(m, u, s)
<1>1. s.step \in Nat \ {0} /\ s.min \in Nat \ {0} /\ s.max \in Nat \ {0}
  BY DEF Specs
<1>2. Stepped(r, u, s) <= Stepped(m, u, s)
  BY <1>1, SteppedParts, RoundHalfEvenGrows, TimesGrows DEF Stepped
<1>3. Stepped(r, u, s) \in Nat /\ Stepped(m, u, s) \in Nat
  BY SteppedParts
<1>4. \A x \in {r, m} : SizedVolume(x, u, s) = Larger(s.min, Smaller(s.max, Stepped(x, u, s)))
  BY DEF SizedVolume, Stepped
<1> QED BY <1>1, <1>2, <1>3, <1>4 DEF Larger, Smaller

\* A risk that holds one step is not overshot by rounding, however it is
\* rounded and clamped; nor one that holds the minimum by the minimum.
LEMMA NotTooRisky ==
    ASSUME NEW r \in Nat, NEW u \in Nat \ {0}, NEW s \in Specs,
           \/ SizedVolume(r, u, s) = s.min /\ u * s.min <= r
           \/ SizedVolume(r, u, s) <= Stepped(r, u, s) /\ u * s.step <= r
    PROVE  ~TooRisky(SizedVolume(r, u, s), r, u)
<1> DEFINE v == SizedVolume(r, u, s)
           k == RoundHalfEven(r, u * s.step)
           d == u * s.step
           w == Stepped(r, u, s)
<1>1. s.step \in Nat \ {0} /\ s.min \in Nat \ {0}
  BY DEF Specs
<1>2. v \in Nat /\ d \in Nat \ {0} /\ k \in Nat /\ w \in Nat
  BY SteppedParts
<1>3. CASE v = s.min /\ u * s.min <= r
  <2>1. v * u <= r
    BY <1>1, <1>3
  <2> HIDE DEF v
  <2>2. ~TooRisky(v, r, u)
    BY <1>2, <2>1 DEF TooRisky
  <2> QED BY <2>2 DEF v
<1>4. CASE v <= w /\ d <= r
  <2>1. 2 * (k * d) <= 3 * r
    BY <1>2, <1>4, RoundHalfEvenClose
  <2>2. k * d = w * u
    <3> HIDE DEF k
    <3>1. w = k * s.step
      BY DEF Stepped, k
    <3> HIDE DEF w
    <3> QED BY <1>1, <1>2, <3>1
  <2>3. v * u <= w * u
    <3> HIDE DEF v, w
    <3> QED BY <1>2, <1>4, TimesGrows
  <2>4. v * u \in Nat /\ w * u \in Nat
    <3> HIDE DEF v, w
    <3> QED BY <1>2
  <2> HIDE DEF v, w, k, d
  <2>5. 2 * (v * u) <= 3 * r
    BY <2>1, <2>2, <2>3, <2>4
  <2>6. ~TooRisky(v, r, u)
    BY <1>2, <2>5 DEF TooRisky
  <2> QED BY <2>6 DEF v
<1> QED BY <1>3, <1>4

---------------------------------------------------------------------------
(* SizePosition, for every input.                                          *)

LEMMA SizeParts ==
    ASSUME NEW r \in Nat, NEW u \in Nat, NEW s \in Specs
    PROVE  \/ /\ SizePosition(r, u, s) = Refused
              /\ u = 0 \/ TooRisky(SizedVolume(r, u, s), r, u)
           \/ /\ SizePosition(r, u, s) = SizedVolume(r, u, s)
              /\ u # 0 /\ ~TooRisky(SizedVolume(r, u, s), r, u)
  BY DEF SizePosition

LEMMA AffordableAlways ==
    ASSUME NEW r \in Nat, NEW u \in Nat, NEW s \in Specs
    PROVE  AffordableIsSized(r, u, s)
<1> SUFFICES ASSUME u > 0, r >= u * s.min, r >= u * s.step
             PROVE  SizePosition(r, u, s) # Refused
  BY DEF AffordableIsSized
<1>1. u \in Nat \ {0} /\ s.min \in Nat /\ s.step \in Nat /\ u * s.min \in Nat /\ u * s.step \in Nat
  BY DEF Specs
<1>2. /\ SizedVolume(r, u, s) # 0
      /\ SizedVolume(r, u, s) = s.min \/ SizedVolume(r, u, s) <= Stepped(r, u, s)
  BY <1>1, SteppedParts
<1>3. u * s.min <= r /\ u * s.step <= r
  BY <1>1
<1>4. ~TooRisky(SizedVolume(r, u, s), r, u)
  BY <1>1, <1>2, <1>3, NotTooRisky
<1> QED BY <1>2, <1>4, SizeParts DEF Refused

LEMMA BoundedAlways ==
    ASSUME NEW r \in Nat, NEW u \in Nat, NEW s \in Specs
    PROVE  SizeIsBounded(r, u, s)
<1> DEFINE v == SizePosition(r, u, s)
<1> SUFFICES ASSUME v # Refused, s.min <= s.max
             PROVE  2 * v * u <= 3 * r /\ s.min <= v /\ v <= s.max
  BY DEF SizeIsBounded
<1>1. v = SizedVolume(r, u, s) /\ u # 0 /\ ~TooRisky(v, r, u)
  BY SizeParts
<1>2. v \in Nat /\ s.min <= v /\ Stepped(r, u, s) \in Nat
  BY <1>1, SteppedParts
<1>3. 2 * v * u <= 3 * r
  <2> HIDE DEF v
  <2>1. 2 * v * u \in Nat /\ ~(2 * v * u > 3 * r)
    BY <1>1, <1>2 DEF TooRisky
  <2> QED BY <2>1
<1>4. v <= s.max
  <2>1. v = Larger(s.min, Smaller(s.max, Stepped(r, u, s))) /\ s.min \in Nat /\ s.max \in Nat
    BY <1>1 DEF SizedVolume, Stepped, Specs
  <2> QED BY <1>2, <2>1 DEF Larger, Smaller
<1> QED BY <1>2, <1>3, <1>4

LEMMA MonotoneAlways ==
    ASSUME NEW r \in Nat, NEW m \in Nat, NEW u \in Nat, NEW s \in Specs
    PROVE  SizeIsMonotone(r, m, u, s)
<1> DEFINE v == SizedVolume(r, u, s)
           w == SizedVolume(m, u, s)
<1> SUFFICES ASSUME r <= m, s.step <= s.min
             PROVE  SizePosition(r, u, s) <= SizePosition(m, u, s)
  BY DEF SizeIsMonotone
<1>1. CASE SizePosition(r, u, s) = Refused
  <2>1. SizePosition(m, u, s) \in Nat
    <3>1. u # 0 => w \in Nat
      BY SteppedParts
    <3> QED BY <3>1, SizeParts DEF Refused
  <2> QED BY <1>1, <2>1 DEF Refused
<1>2. CASE SizePosition(r, u, s) # Refused
  <2>1. SizePosition(r, u, s) = v /\ u \in Nat \ {0} /\ ~TooRisky(v, r, u)
    BY <1>2, SizeParts
  <2>2. v <= w /\ v \in Nat /\ w \in Nat /\ s.min <= v
    BY <2>1, SizedVolumeGrows, SteppedParts
  <2>3. ~TooRisky(w, m, u)
    <3>1. CASE w = v
      <4> HIDE DEF v, w
      <4>1. 2 * v * u \in Nat /\ ~(2 * v * u > 3 * r)
        BY <2>1, <2>2 DEF TooRisky
      <4>2. ~(2 * v * u > 3 * m)
        BY <4>1
      <4> QED BY <3>1, <4>2 DEF TooRisky
    <3>2. CASE w # v
      <4>1. s.min \in Nat /\ s.step \in Nat \ {0} /\ s.min < w /\ w <= Stepped(m, u, s)
        <5>1. s.min \in Nat /\ s.step \in Nat \ {0}
          BY DEF Specs
        <5>2. w = s.min \/ w <= Stepped(m, u, s)
          BY <2>1, SteppedParts
        <5> HIDE DEF v, w
        <5> QED BY <2>2, <3>2, <5>1, <5>2
      <4>2. u * s.step <= m
        <5> SUFFICES ASSUME ~(u * s.step <= m) PROVE FALSE
          OBVIOUS
        <5>1. RoundHalfEven(m, u * s.step) \in {0, 1}
          BY <2>1, <4>1, RoundsToOne, TimesPositive
        <5>2. Stepped(m, u, s) \in {0, s.step}
          BY <4>1, <5>1 DEF Stepped
        <5> HIDE DEF w
        <5> QED BY <2>2, <4>1, <5>2
      <4> QED BY <2>1, <4>1, <4>2, NotTooRisky
    <3> QED BY <3>1, <3>2
  <2>4. SizePosition(m, u, s) = w
    BY <2>1, <2>3, SizeParts
  <2> QED BY <2>1, <2>2, <2>4
<1> QED BY <1>1, <1>2

---------------------------------------------------------------------------

Requested == risk \in Nat /\ unitRisk \in Nat /\ spec \in Specs

LEMMA RequestedAlways == Spec => []Requested
<1>1. Init => Requested
  BY SizingAssumption DEF Init, Requested, Specs
<1>2. Requested /\ [Next]_<<risk, unitRisk, spec>> => Requested'
  BY DEF Requested, Next
<1> QED BY <1>1, <1>2, PTL DEF Spec

\* What can afford the broker's minimum and one volume step is given a size
\* (risk/position_sizing.py:33-45).
THEOREM AffordableIsGivenASize == Spec => []Affordable
<1>1. Requested => Affordable
  BY AffordableAlways DEF Requested, Affordable
<1> QED BY <1>1, RequestedAlways, PTL

\* No size is worth more than one and a half times the risk, nor outside the
\* broker's limits (risk/position_sizing.py:35-45).
THEOREM SizesAreBounded == Spec => []Bounded
<1>1. Requested => Bounded
  BY BoundedAlways DEF Requested, Bounded
<1> QED BY <1>1, RequestedAlways, PTL

\* Who may lose more is never given less (risk/position_sizing.py:35-45).
THEOREM SizesGrowWithRisk == Spec => Monotone
<1>1. Requested /\ Requested' /\ [Next]_<<risk, unitRisk, spec>>
        => [SizeIsMonotone(risk, risk', unitRisk, spec)]_<<risk, unitRisk, spec>>
  BY MonotoneAlways DEF Requested
<1> QED BY <1>1, RequestedAlways, PTL DEF Spec, Monotone
=============================================================================
