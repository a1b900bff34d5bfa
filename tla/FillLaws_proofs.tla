-------------------------- MODULE FillLaws_proofs --------------------------
(***************************************************************************)
(* The laws of FillLaws hold for every order, venue, leverage, rate and    *)
(* price, and for every setting of the scales and steps: the rounding of   *)
(* core/math.py never favours the account, whatever it rounds.             *)
(***************************************************************************)
EXTENDS FillLaws, FiniteSetTheorems, TLAPS

USE ScalesArePositive, FillLawsAssumption

-----------------------------------------------------------------------------
(* Division.  Each rounding is known by the bounds it is the best of.      *)

(* A larger factor makes a larger product. *)
LEMMA ProductGrows ==
  ASSUME NEW m \in Int, NEW n \in Int, m <= n, NEW k \in Nat
  PROVE  m * k <= n * k
  <1>1. (n - m) * k >= 0
    OBVIOUS
  <1>2. (n - m) * k = n * k - m * k
    OBVIOUS
  <1> QED BY <1>1, <1>2

LEMMA ProductGrowsStrictly ==
  ASSUME NEW m \in Int, NEW n \in Int, m < n, NEW k \in Nat \ {0}
  PROVE  m * k < n * k
  <1>1. (n - m) * k >= k
    BY ProductGrows
  <1>2. (n - m) * k = n * k - m * k
    OBVIOUS
  <1> QED BY <1>1, <1>2

(* A factor that is cancelled. *)
LEMMA ProductTells ==
  ASSUME NEW m \in Int, NEW n \in Int, NEW k \in Nat \ {0}, m * k <= n * k
  PROVE  m <= n
  <1>1. CASE n < m
    BY <1>1, ProductGrowsStrictly
  <1> QED BY <1>1

LEMMA PosProduct ==
  ASSUME NEW m \in Nat \ {0}, NEW n \in Nat \ {0}
  PROVE  m * n \in Nat \ {0}
  OBVIOUS

LEMMA DivIs ==
  ASSUME NEW num \in Int, NEW den \in Nat \ {0}
  PROVE  /\ num \div den \in Int
         /\ (num \div den) * den <= num
         /\ num < (num \div den) * den + den
  OBVIOUS

(* The floor of a fraction is the greatest whole number not above it. *)
LEMMA FloorIsGreatest ==
  ASSUME NEW num \in Int, NEW den \in Nat \ {0}, NEW n \in Int
  PROVE  /\ floor_fraction(num, den) \in Int
         /\ n <= floor_fraction(num, den) <=> n * den <= num
  <1> DEFINE q == num \div den
  <1>1. q \in Int /\ q * den <= num /\ num < (q + 1) * den
    BY DivIs
  <1> HIDE DEF q
  <1>2. ASSUME n <= q PROVE n * den <= num
    BY <1>1, <1>2, ProductGrows
  <1>3. ASSUME q + 1 <= n PROVE num < n * den
    BY <1>1, <1>3, ProductGrows
  <1> QED BY <1>1, <1>2, <1>3 DEF floor_fraction, q

(* The ceiling of a fraction is the least whole number not below it. *)
LEMMA CeilIsLeast ==
  ASSUME NEW num \in Int, NEW den \in Nat \ {0}, NEW n \in Int
  PROVE  /\ ceil_fraction(num, den) \in Int
         /\ ceil_fraction(num, den) <= n <=> num <= n * den
  <1>1. /\ floor_fraction(-num, den) \in Int
        /\ -n <= floor_fraction(-num, den) <=> (-n) * den <= -num
    BY FloorIsGreatest
  <1>2. ceil_fraction(num, den) = -floor_fraction(-num, den)
    BY DEF ceil_fraction, floor_fraction
  <1>3. (-n) * den = -(n * den)
    OBVIOUS
  <1> QED BY <1>1, <1>2, <1>3

LEMMA CeilCovers ==
  ASSUME NEW num \in Int, NEW den \in Nat \ {0}
  PROVE  ceil_fraction(num, den) \in Int /\ num <= ceil_fraction(num, den) * den
  <1>1. ceil_fraction(num, den) \in Int
    BY CeilIsLeast
  <1> QED BY <1>1, CeilIsLeast

LEMMA CeilGrows ==
  ASSUME NEW num \in Int, NEW more \in Int, num <= more, NEW den \in Nat \ {0}
  PROVE  ceil_fraction(num, den) <= ceil_fraction(more, den)
  <1>1. ceil_fraction(more, den) \in Int /\ more <= ceil_fraction(more, den) * den
    BY CeilCovers
  <1> QED BY <1>1, CeilIsLeast

LEMMA CeilNat ==
  ASSUME NEW num \in Nat, NEW den \in Nat \ {0}
  PROVE  ceil_fraction(num, den) \in Nat
  <1>1. ceil_fraction(0, den) <= ceil_fraction(num, den)
    BY CeilGrows
  <1>2. ~(ceil_fraction(0, den) <= -1)
    BY CeilIsLeast
  <1> QED BY <1>1, <1>2, CeilCovers

LEMMA FloorGrows ==
  ASSUME NEW num \in Int, NEW more \in Int, num <= more, NEW den \in Nat \ {0}
  PROVE  num \div den \in Int /\ num \div den <= more \div den
  <1>1. PICK n \in Int : n = num \div den /\ n * den <= num
    BY DivIs
  <1>2. n * den <= more
    BY <1>1
  <1>3. n <= floor_fraction(more, den)
    BY <1>2, FloorIsGreatest
  <1> QED BY <1>1, <1>3 DEF floor_fraction

(* What is rounded to a step stays between zero and what it was. *)
LEMMA StepBounds ==
  ASSUME NEW n \in Nat, NEW step \in Nat \ {0}
  PROVE  floor_to_step(n, step) \in 0..n
  <1>1. n \div step \in Nat /\ (n \div step) * step <= n
    BY DivIs
  <1>2. (n \div step) * step \in Nat
    BY <1>1
  <1>3. floor_to_step(n, step) = IF n = 0 THEN 0 ELSE (n \div step) * step
    BY <1>1 DEF floor_to_step, sign, abs
  <1> QED BY <1>1, <1>2, <1>3

-----------------------------------------------------------------------------
(* Square roots.  isqrt counts the numbers whose square is not above its    *)
(* argument; as they are the first numbers, the count is the last of them. *)

(* A square grows with its root. *)
LEMMA SquareGrows ==
  ASSUME NEW m \in Nat, NEW n \in Nat, m <= n
  PROVE  m * m <= n * n
  <1>1. m * m <= n * m /\ n * m <= n * n
    BY ProductGrows
  <1> QED BY <1>1

LEMMA IsqrtIs ==
  ASSUME NEW n \in Nat
  PROVE  /\ isqrt(n) \in Nat
         /\ isqrt(n) * isqrt(n) <= n
         /\ n < (isqrt(n) + 1) * (isqrt(n) + 1)
  <1> DEFINE Roots == {r \in 1..n : r * r <= n}
             c     == isqrt(n)
  <1>1. IsFiniteSet(Roots)
    <2>1. IsFiniteSet(1..n)
      BY FS_Interval
    <2> QED BY <2>1, FS_Subset
  <1>2. c \in Nat /\ Cardinality(Roots) = c
    BY <1>1, FS_CardinalityType DEF isqrt
  <1>3. ASSUME NEW r \in Roots, NEW k \in 1..r PROVE k \in Roots
    <2>1. k * k <= r * r
      BY SquareGrows
    <2> QED BY <2>1
  <1>4. IsFiniteSet(1..c) /\ Cardinality(1..c) = c
    <2> HIDE DEF c
    <2>1. IsFiniteSet(1..c) /\ Cardinality(1..c) = IF 1 > c THEN 0 ELSE c - 1 + 1
      BY <1>2, FS_Interval
    <2> QED BY <1>2, <2>1
  <1>5. Roots \subseteq 1..c \/ 1..c \subseteq Roots
    <2>1. ASSUME NEW r \in Roots, r \notin 1..c PROVE 1..c \subseteq Roots
      <3>1. r \in Nat /\ c < r
        BY <1>2, <2>1
      <3>2. 1..c \subseteq 1..r
        BY <1>2, <3>1
      <3> QED BY <1>3, <3>2
    <2> QED BY <2>1
  <1>6. Roots = 1..c
    BY <1>1, <1>2, <1>4, <1>5, FS_Subset
  <1>7. c * c <= n
    <2>1. CASE c = 0
      BY <2>1
    <2>2. CASE c > 0
      <3>1. c \in Roots
        BY <1>2, <1>6, <2>2
      <3> QED BY <3>1
    <2> QED BY <1>2, <2>1, <2>2
  <1>8. n < (c + 1) * (c + 1)
    <2>1. SUFFICES ASSUME (c + 1) * (c + 1) <= n PROVE FALSE
      BY <1>2
    <2>2. c + 1 <= (c + 1) * (c + 1)
      BY <1>2
    <2>3. c + 1 \in Roots
      BY <1>2, <2>1, <2>2
    <2> QED BY <1>2, <1>6, <2>3
  <1> QED BY <1>2, <1>7, <1>8

(* The rounded-up root of a fraction is the least whole number whose square *)
(* is not below it.                                                         *)
LEMMA CeilSqrtIs ==
  ASSUME NEW num \in Nat, NEW den \in Nat \ {0}
  PROVE  LET c == ceil_sqrt_fraction(num, den)
         IN  /\ c \in Nat
             /\ num <= c * c * den
             /\ c > 0 => (c - 1) * (c - 1) * den < num
  <1>1. PICK n \in Nat : n = num \div den /\ n * den <= num /\ num < (n + 1) * den
    BY DivIs
  <1>2. PICK r \in Nat : r = isqrt(n) /\ r * r <= n /\ n + 1 <= (r + 1) * (r + 1)
    <2>1. PICK r \in Nat : r = isqrt(n)
      BY IsqrtIs
    <2>2. r * r <= n /\ n < (r + 1) * (r + 1)
      BY <2>1, IsqrtIs
    <2>3. (r + 1) * (r + 1) \in Nat
      OBVIOUS
    <2> QED BY <2>1, <2>2, <2>3
  <1>3. ceil_sqrt_fraction(num, den) = IF r * r * den = num THEN r ELSE r + 1
    BY <1>1, <1>2 DEF ceil_sqrt_fraction
  <1>4. r * r * den <= num
    <2>1. (r * r) * den <= n * den
      BY <1>2, ProductGrows
    <2> QED BY <1>1, <2>1
  <1>5. num < (r + 1) * (r + 1) * den
    <2>1. (n + 1) * den <= ((r + 1) * (r + 1)) * den
      BY <1>2, ProductGrows
    <2> QED BY <1>1, <2>1
  <1>6. CASE r * r * den = num
    <2>1. r > 0 => (r - 1) * (r - 1) * den < num
      <3>1. SUFFICES ASSUME r > 0 PROVE ((r - 1) * (r - 1)) * den < (r * r) * den
        BY <1>6
      <3>2. (r - 1) * (r - 1) < r * r
        <4>1. (r - 1) * (r - 1) = r * r - r - r + 1
          OBVIOUS
        <4> QED BY <3>1, <4>1
      <3> QED BY <3>2, ProductGrowsStrictly
    <2> QED BY <1>3, <1>6, <2>1
  <1>7. CASE r * r * den # num
    <2>1. ceil_sqrt_fraction(num, den) = r + 1
      BY <1>3, <1>7
    <2>2. r * r * den < num
      BY <1>4, <1>7
    <2>3. (r + 1) - 1 = r
      OBVIOUS
    <2> QED BY <1>5, <2>1, <2>2, <2>3
  <1> QED BY <1>6, <1>7

LEMMA CeilSqrtGrows ==
  ASSUME NEW num \in Nat, NEW more \in Nat, num <= more, NEW den \in Nat \ {0}
  PROVE  ceil_sqrt_fraction(num, den) <= ceil_sqrt_fraction(more, den)
  <1>1. PICK c \in Nat : /\ c = ceil_sqrt_fraction(num, den)
                         /\ c > 0 => (c - 1) * (c - 1) * den < num
    BY CeilSqrtIs
  <1>2. PICK m \in Nat : m = ceil_sqrt_fraction(more, den) /\ more <= m * m * den
    BY CeilSqrtIs
  <1>3. SUFFICES ASSUME m < c PROVE FALSE
    BY <1>1, <1>2
  <1>4. m * m <= (c - 1) * (c - 1)
    BY <1>3, SquareGrows
  <1>5. (m * m) * den <= ((c - 1) * (c - 1)) * den
    BY <1>4, ProductGrows
  <1> QED BY <1>1, <1>2, <1>3, <1>5

-----------------------------------------------------------------------------
(* A fill.  Only the multiplier tells the two profiles apart: the quantity *)
(* is the same, every cost is at least as large under the stress profile.  *)

Order == [side : {"buy", "sell"}, requested : Nat, ref_px : Nat \ {0}, bar_volume : Nat]

Venue == [participation_cap : 0..RateScale, half_spread : Nat, impact_coeff : Nat,
          impact_model : {"linear", "sqrt"}, taker_fee_rate : 0..RateScale]

Quantity(requested) ==
  participation_fill(requested, order.bar_volume, venue.participation_cap).filled

Scaled(rate, p) == apply_cost_multiplier(rate, multiplier(p))

Spread(p) == half_spread_ticks(order.ref_px, Scaled(venue.half_spread, p))

Impact(qty, p) ==
  impact_ticks(order.ref_px, qty, order.bar_volume,
               Scaled(venue.impact_coeff, p), venue.impact_model)

Away(qty, p) == Spread(p) + Impact(qty, p)

LEMMA ScaledGrows ==
  ASSUME NEW rate \in Nat
  PROVE  /\ Scaled(rate, "primary") = rate
         /\ Scaled(rate, "stress_2x") = 2 * rate
  <1>1. ASSUME NEW k \in Nat PROVE ceil_fraction(rate * (k * CostScale), CostScale) = rate * k
    <2>1. PICK n \in Nat : n = rate * k /\ rate * (k * CostScale) = n * CostScale
      OBVIOUS
    <2>2. PICK num \in Nat : num = n * CostScale
      OBVIOUS
    <2>3. PICK c \in Int : c = ceil_fraction(num, CostScale) /\ num <= c * CostScale
      BY CeilCovers
    <2>4. c <= n
      BY <2>2, <2>3, CeilIsLeast
    <2>5. n <= c
      BY <2>2, <2>3, ProductTells
    <2> QED BY <2>1, <2>2, <2>3, <2>4, <2>5
  <1>2. 1 * CostScale = CostScale /\ rate * 1 = rate /\ rate * 2 = 2 * rate
    OBVIOUS
  <1>3. multiplier("primary") = CostScale /\ multiplier("stress_2x") = 2 * CostScale
    BY DEF multiplier
  <1>4. ceil_fraction(rate * CostScale, CostScale) = rate
    BY <1>1, <1>2
  <1>5. ceil_fraction(rate * (2 * CostScale), CostScale) = 2 * rate
    BY <1>1, <1>2
  <1> QED BY <1>3, <1>4, <1>5 DEF Scaled, apply_cost_multiplier

(* Nothing is filled in a bar without volume, nor more than was asked for. *)
LEMMA QuantityIs ==
  ASSUME order \in Order, venue \in Venue, NEW requested \in Nat
  PROVE  /\ Quantity(requested) \in 0..requested
         /\ order.bar_volume = 0 => Quantity(requested) = 0
  <1>1. PICK volume \in Nat, cap \in Nat :
          volume = order.bar_volume /\ cap = venue.participation_cap
    BY DEF Order, Venue
  <1> DEFINE room == floor_fraction(volume * cap, RateScale)
             capacity == participation_capacity(volume, cap)
  <1>2. room \in Nat /\ (volume = 0 => room = 0)
    <2>1. volume * cap \in Nat /\ (volume = 0 => volume * cap = 0)
      OBVIOUS
    <2>2. room \in Int /\ 0 <= room /\ (volume = 0 => room <= 0)
      <3>1. PICK n \in Nat : n = volume * cap /\ (volume = 0 => n = 0)
        BY <2>1
      <3>2. floor_fraction(n, RateScale) \in Int /\ 0 <= floor_fraction(n, RateScale)
        BY FloorIsGreatest
      <3>3. n = 0 => ~(1 <= floor_fraction(n, RateScale))
        BY FloorIsGreatest
      <3> QED BY <3>1, <3>2, <3>3
    <2> QED BY <2>2
  <1>3. capacity \in 0..room
    <2> HIDE DEF room
    <2>1. capacity = floor_to_step(room, QtyStep)
      BY DEF participation_capacity, room
    <2> QED BY <1>2, <2>1, StepBounds
  <1>4. PICK most \in Nat : /\ most = smaller(requested, capacity)
                            /\ most <= requested /\ most <= capacity
    BY <1>3 DEF smaller
  <1>5. Quantity(requested) = floor_to_step(most, QtyStep)
    BY <1>1, <1>4 DEF Quantity, participation_fill
  <1>6. Quantity(requested) \in 0..most
    BY <1>5, StepBounds
  <1> HIDE DEF room, capacity
  <1> QED BY <1>1, <1>2, <1>3, <1>4, <1>6

(* The impact of a dearer coefficient is not smaller. *)
LEMMA ImpactGrows ==
  ASSUME NEW ref \in Nat \ {0}, NEW qty \in Nat, NEW volume \in Nat,
         volume = 0 => qty = 0, NEW model \in {"linear", "sqrt"},
         NEW coeff \in Nat, NEW dearer \in Nat, coeff <= dearer
  PROVE  /\ impact_ticks(ref, qty, volume, coeff, model) \in Nat
         /\ impact_ticks(ref, qty, volume, dearer, model) \in Nat
         /\ impact_ticks(ref, qty, volume, coeff, model)
              <= impact_ticks(ref, qty, volume, dearer, model)
  <1>1. ASSUME NEW rate \in Nat, qty = 0 \/ rate = 0
        PROVE  impact_ticks(ref, qty, volume, rate, model) = 0
    BY <1>1 DEF impact_ticks
  <1>2. CASE qty = 0
    BY <1>1, <1>2
  <1>3. CASE qty > 0 /\ model = "linear"
    <2> DEFINE num(rate) == ref * rate * qty
               den == RateScale * volume
    <2>1. volume \in Nat \ {0} /\ den \in Nat \ {0}
      BY <1>3, PosProduct
    <2>2. ASSUME NEW rate \in Nat, rate > 0
          PROVE  impact_ticks(ref, qty, volume, rate, model)
                   = ceil_fraction(num(rate), den)
      BY <1>3, <2>2 DEF impact_ticks
    <2>3. ASSUME NEW rate \in Nat PROVE num(rate) \in Nat
      OBVIOUS
    <2>4. num(coeff) <= num(dearer)
      <3>1. coeff * (ref * qty) <= dearer * (ref * qty)
        BY ProductGrows
      <3> QED BY <3>1
    <2> HIDE DEF num, den
    <2>5. /\ ceil_fraction(num(coeff), den) \in Nat
          /\ ceil_fraction(num(dearer), den) \in Nat
      BY <2>1, <2>3, CeilNat
    <2>6. ceil_fraction(num(coeff), den) <= ceil_fraction(num(dearer), den)
      BY <2>1, <2>3, <2>4, CeilGrows
    <2>7. CASE coeff = 0
      BY <1>1, <2>2, <2>5, <2>7
    <2>8. CASE coeff > 0
      BY <2>2, <2>5, <2>6, <2>8
    <2> QED BY <2>7, <2>8
  <1>4. CASE qty > 0 /\ model = "sqrt"
    <2> DEFINE num(rate) == ref * ref * rate * rate * qty
               den == RateScale * RateScale * volume
    <2>1. volume \in Nat \ {0} /\ den \in Nat \ {0}
      <3>1. volume \in Nat \ {0}
        BY <1>4
      <3>2. RateScale * RateScale \in Nat \ {0}
        BY PosProduct
      <3> QED BY <3>1, <3>2, PosProduct
    <2>2. ASSUME NEW rate \in Nat, rate > 0
          PROVE  impact_ticks(ref, qty, volume, rate, model)
                   = ceil_sqrt_fraction(num(rate), den)
      BY <1>4, <2>2 DEF impact_ticks
    <2>3. ASSUME NEW rate \in Nat PROVE num(rate) \in Nat
      OBVIOUS
    <2>4. num(coeff) <= num(dearer)
      <3>1. coeff * coeff <= dearer * dearer
        BY SquareGrows
      <3>2. (coeff * coeff) * (ref * ref * qty) <= (dearer * dearer) * (ref * ref * qty)
        <4>1. PICK a \in Nat, b \in Nat, k \in Nat :
                a = coeff * coeff /\ b = dearer * dearer /\ k = ref * ref * qty
          OBVIOUS
        <4>2. a * k <= b * k
          BY <3>1, <4>1, ProductGrows
        <4> QED BY <4>1, <4>2
      <3> QED BY <3>2
    <2> HIDE DEF num, den
    <2>5. /\ ceil_sqrt_fraction(num(coeff), den) \in Nat
          /\ ceil_sqrt_fraction(num(dearer), den) \in Nat
      BY <2>1, <2>3, CeilSqrtIs
    <2>6. ceil_sqrt_fraction(num(coeff), den) <= ceil_sqrt_fraction(num(dearer), den)
      BY <2>1, <2>3, <2>4, CeilSqrtGrows
    <2>7. CASE coeff = 0
      BY <1>1, <2>2, <2>5, <2>7
    <2>8. CASE coeff > 0
      BY <2>2, <2>5, <2>6, <2>8
    <2> QED BY <2>7, <2>8
  <1> QED BY <1>2, <1>3, <1>4

(* The ticks a price is moved away are as many or more under stress. *)
LEMMA AwayGrows ==
  ASSUME order \in Order, venue \in Venue, NEW requested \in Nat
  PROVE  LET qty == Quantity(requested)
         IN  /\ Away(qty, "primary") \in Nat /\ Away(qty, "stress_2x") \in Nat
             /\ Away(qty, "primary") <= Away(qty, "stress_2x")
  <1>1. PICK ref \in Nat \ {0}, volume \in Nat :
          ref = order.ref_px /\ volume = order.bar_volume
    BY DEF Order
  <1>2. PICK half \in Nat, coeff \in Nat, model \in {"linear", "sqrt"} :
          half = venue.half_spread /\ coeff = venue.impact_coeff
            /\ model = venue.impact_model
    BY DEF Venue
  <1>3. PICK qty \in Nat : qty = Quantity(requested) /\ (volume = 0 => qty = 0)
    BY <1>1, QuantityIs
  <1>4. /\ Spread("primary") \in Nat /\ Spread("stress_2x") \in Nat
        /\ Spread("primary") <= Spread("stress_2x")
    <2>1. PICK m \in Nat, n \in Nat : m = ref * half /\ n = ref * (2 * half) /\ m <= n
      OBVIOUS
    <2>2. /\ ceil_fraction(m, RateScale) \in Nat /\ ceil_fraction(n, RateScale) \in Nat
          /\ ceil_fraction(m, RateScale) <= ceil_fraction(n, RateScale)
      <3>1. m <= n
        BY <2>1
      <3> HIDE <2>1
      <3>2. ceil_fraction(m, RateScale) <= ceil_fraction(n, RateScale)
        BY <3>1, CeilGrows
      <3> QED BY <3>2, CeilNat
    <2>3. Spread("primary") = ceil_fraction(m, RateScale)
          /\ Spread("stress_2x") = ceil_fraction(n, RateScale)
      BY <1>1, <1>2, <2>1, ScaledGrows DEF Spread, half_spread_ticks
    <2> QED BY <2>2, <2>3
  <1>5. /\ Impact(qty, "primary") \in Nat /\ Impact(qty, "stress_2x") \in Nat
        /\ Impact(qty, "primary") <= Impact(qty, "stress_2x")
    <2>1. PICK dearer \in Nat : dearer = 2 * coeff /\ coeff <= dearer
      OBVIOUS
    <2>2. /\ Impact(qty, "primary") = impact_ticks(ref, qty, volume, coeff, model)
          /\ Impact(qty, "stress_2x") = impact_ticks(ref, qty, volume, dearer, model)
      BY <1>1, <1>2, <2>1, ScaledGrows DEF Impact
    <2>3. /\ impact_ticks(ref, qty, volume, coeff, model) \in Nat
          /\ impact_ticks(ref, qty, volume, dearer, model) \in Nat
          /\ impact_ticks(ref, qty, volume, coeff, model)
               <= impact_ticks(ref, qty, volume, dearer, model)
      <3>1. coeff <= dearer /\ (volume = 0 => qty = 0)
        BY <1>3, <2>1
      <3> HIDE <1>1, <1>2, <1>3, <2>1
      <3> QED BY <3>1, ImpactGrows
    <2> QED BY <2>2, <2>3
  <1> QED BY <1>3, <1>4, <1>5 DEF Away

-----------------------------------------------------------------------------
(* What a run reaches: nothing, the order filled, the order filled and back. *)

Shape ==
  /\ order \in Order /\ venue \in Venue
  /\ \/ /\ opened = [p \in Profiles |-> NotYet]
        /\ closed = [p \in Profiles |-> NotYet]
     \/ /\ opened = [p \in Profiles |-> Execute(order.side, order.requested, p)]
        /\ \A p \in Profiles : FillIsPriced(opened[p])
        /\ \/ closed = [p \in Profiles |-> NotYet]
           \/ /\ closed = [p \in Profiles |->
                             Execute(Opposite(order.side), opened[p].filled, p)]
              /\ \A p \in Profiles : FillIsPriced(closed[p])

LEMMA ShapeInit == Init => Shape
  BY DEF Init, Shape, Order, Venue

LEMMA ShapeStep == Shape /\ [Next]_vars => Shape'
  <1> SUFFICES ASSUME Shape, [Next]_vars PROVE Shape'
    OBVIOUS
  <1>1. CASE UNCHANGED vars
    BY <1>1 DEF Shape, vars, Execute, FillIsPriced
  <1>2. CASE Open
    <2>1. order' = order /\ venue' = venue /\ closed' = closed
      BY <1>2 DEF Open
    <2>2. opened' = [p \in Profiles |-> Execute(order.side, order.requested, p)]
      BY <1>2 DEF Open
    <2>3. \A p \in Profiles : FillIsPriced(opened'[p])
      BY <1>2 DEF Open
    <2>4. \A side, n, p : Execute(side, n, p)' = Execute(side, n, p)
      BY <2>1 DEF Execute
    <2> HIDE DEF Execute, FillIsPriced
    <2>5. CASE closed = [p \in Profiles |-> NotYet]
      BY <2>1, <2>2, <2>3, <2>4, <2>5 DEF Shape
    <2>6. CASE closed # [p \in Profiles |-> NotYet]
      <3>1. opened' = opened
        BY <2>2, <2>6 DEF Shape
      <3> QED BY <2>1, <3>1 DEF Shape, Execute, FillIsPriced
    <2> QED BY <2>5, <2>6
  <1>3. CASE Close
    <2>1. order' = order /\ venue' = venue /\ opened' = opened
      BY <1>3 DEF Close
    <2>2. /\ closed' = [p \in Profiles |->
                          Execute(Opposite(order.side), opened[p].filled, p)]
          /\ \A p \in Profiles : FillIsPriced(closed'[p])
      BY <1>3 DEF Close
    <2>3. opened # [p \in Profiles |-> NotYet]
      BY <1>3 DEF Close, NotYet, Profiles
    <2> QED BY <2>1, <2>2, <2>3 DEF Shape, Execute, FillIsPriced
  <1> QED BY <1>1, <1>2, <1>3 DEF Next

(* What calculate_fill returns, from the quantity and the ticks away.      *)
LEMMA Executed ==
  ASSUME Shape, NEW side \in {"buy", "sell"}, NEW requested \in Nat, NEW p \in Profiles
  PROVE  LET fill == Execute(side, requested, p)
             qty  == Quantity(requested)
         IN  /\ fill.side = side /\ fill.filled = qty
             /\ fill.fill_px = IF side = "buy" THEN order.ref_px + Away(qty, p)
                                               ELSE order.ref_px - Away(qty, p)
             /\ fill.notional = notional_micro(qty, fill.fill_px)
             /\ fill.fee = fee_micro(fill.notional, Scaled(venue.taker_fee_rate, p))
  BY DEF Execute, calculate_fill, Quantity, Away, Spread, Impact, Scaled,
         fill_price_ticks, participation_fill

LEMMA NotionalGrows ==
  ASSUME NEW qty \in Nat, NEW px \in Nat, NEW more \in Nat, px <= more
  PROVE  /\ notional_micro(qty, px) \in Nat /\ notional_micro(qty, more) \in Nat
         /\ notional_micro(qty, px) <= notional_micro(qty, more)
  <1>1. PICK m \in Nat, n \in Nat :
          m = qty * px * TickSize /\ n = qty * more * TickSize /\ m <= n
    <2>1. px * (qty * TickSize) <= more * (qty * TickSize)
      BY ProductGrows
    <2> QED BY <2>1
  <1>2. notional_micro(qty, px) = m \div QtyScale
        /\ notional_micro(qty, more) = n \div QtyScale
    BY <1>1 DEF notional_micro, abs
  <1>3. m \div QtyScale \in Nat /\ n \div QtyScale \in Nat
    OBVIOUS
  <1>4. m \div QtyScale <= n \div QtyScale
    <2>1. m <= n
      BY <1>1
    <2> HIDE <1>1
    <2> QED BY <2>1, FloorGrows
  <1> QED BY <1>2, <1>3, <1>4

LEMMA FeeGrows ==
  ASSUME NEW value \in Nat, NEW rate \in Nat, NEW dearer \in Nat, rate <= dearer
  PROVE  /\ fee_micro(value, rate) \in Nat /\ fee_micro(value, dearer) \in Nat
         /\ fee_micro(value, rate) <= fee_micro(value, dearer)
  <1>1. PICK m \in Nat, n \in Nat : m = value * rate /\ n = value * dearer
    OBVIOUS
  <1>2. m <= n
    <2>1. rate * value <= dearer * value
      BY ProductGrows
    <2> QED BY <1>1, <2>1
  <1>3. /\ fee_micro(value, rate) = ceil_fraction(m, RateScale)
        /\ fee_micro(value, dearer) = ceil_fraction(n, RateScale)
    BY <1>1 DEF fee_micro
  <1>4. /\ ceil_fraction(m, RateScale) \in Nat /\ ceil_fraction(n, RateScale) \in Nat
        /\ ceil_fraction(m, RateScale) <= ceil_fraction(n, RateScale)
    BY <1>2, CeilNat, CeilGrows
  <1> QED BY <1>3, <1>4

(* What a sale brings in after a fee of at most the notional grows with    *)
(* the notional.                                                           *)
LEMMA ProceedsGrow ==
  ASSUME NEW value \in Nat, NEW more \in Nat, value <= more, NEW rate \in 0..RateScale
  PROVE  value - fee_micro(value, rate) <= more - fee_micro(more, rate)
  <1>1. PICK m \in Nat, n \in Nat : m = value * rate /\ n = more * rate
    OBVIOUS
  <1>2. PICK c \in Int : c = ceil_fraction(m, RateScale) /\ m <= c * RateScale
    <2>1. ceil_fraction(m, RateScale) \in Int /\ m <= ceil_fraction(m, RateScale) * RateScale
      BY CeilCovers
    <2> QED BY <2>1
  <1>3. n <= (more - value + c) * RateScale
    <2>1. rate * (more - value) <= RateScale * (more - value)
      BY ProductGrows
    <2>2. n - m = rate * (more - value)
      BY <1>1
    <2>3. (more - value + c) * RateScale = RateScale * (more - value) + c * RateScale
      OBVIOUS
    <2> QED BY <1>1, <1>2, <2>1, <2>2, <2>3
  <1>4. ceil_fraction(n, RateScale) <= more - value + c
    <2>1. PICK k \in Int : k = more - value + c
      OBVIOUS
    <2>2. n <= k * RateScale
      BY <1>3, <2>1
    <2>3. ceil_fraction(n, RateScale) <= k
      BY <2>2, CeilIsLeast
    <2> QED BY <2>1, <2>3
  <1>5. ceil_fraction(n, RateScale) \in Int
    BY CeilCovers
  <1> QED BY <1>1, <1>2, <1>4, <1>5 DEF fee_micro

(* The numbers of a fill that has a price. *)
LEMMA FillIs ==
  ASSUME Shape, NEW side \in {"buy", "sell"}, NEW requested \in Nat, NEW p \in Profiles,
         FillIsPriced(Execute(side, requested, p))
  PROVE  LET fill == Execute(side, requested, p)
         IN  /\ fill.filled \in Nat /\ fill.fill_px \in Nat \ {0}
             /\ fill.notional \in Nat /\ fill.fee \in Nat
             /\ side = "buy" => fill.fill_px >= order.ref_px
             /\ side = "sell" => fill.fill_px <= order.ref_px
  <1> DEFINE fill == Execute(side, requested, p)
             qty  == Quantity(requested)
  <1>1. order \in Order /\ venue \in Venue
    BY DEF Shape
  <1>2. qty \in Nat /\ Away(qty, p) \in Nat /\ order.ref_px \in Nat \ {0}
    BY <1>1, QuantityIs, AwayGrows DEF Profiles, Order
  <1>3. /\ fill.filled = qty
        /\ fill.fill_px = IF side = "buy" THEN order.ref_px + Away(qty, p)
                                          ELSE order.ref_px - Away(qty, p)
        /\ fill.notional = notional_micro(qty, fill.fill_px)
        /\ fill.fee = fee_micro(fill.notional, Scaled(venue.taker_fee_rate, p))
    BY Executed
  <1>4. fill.fill_px > 0
    BY DEF FillIsPriced
  <1> HIDE DEF fill, qty
  <1>5. fill.fill_px \in Nat \ {0}
    BY <1>2, <1>3, <1>4
  <1>6. fill.notional \in Nat
    <2>1. PICK px \in Nat : px = fill.fill_px
      BY <1>5
    <2>2. PICK n \in Nat : n = qty
      BY <1>2
    <2>3. px <= px
      OBVIOUS
    <2>4. notional_micro(n, px) \in Nat
      BY <2>3, NotionalGrows
    <2> QED BY <1>3, <2>1, <2>2, <2>4
  <1>7. Scaled(venue.taker_fee_rate, p) \in Nat
    <2>1. venue.taker_fee_rate \in Nat
      BY <1>1 DEF Venue
    <2>2. 2 * venue.taker_fee_rate \in Nat
      BY <2>1
    <2> QED BY <2>1, <2>2, ScaledGrows DEF Profiles
  <1>8. fill.fee \in Nat
    BY <1>3, <1>6, <1>7, FeeGrows
  <1>9. /\ side = "buy" => fill.fill_px >= order.ref_px
        /\ side = "sell" => fill.fill_px <= order.ref_px
    BY <1>2, <1>3
  <1> QED BY <1>2, <1>3, <1>5, <1>6, <1>8, <1>9 DEF fill

-----------------------------------------------------------------------------
(* MATH-5.  A dearer fill pays less: a purchase costs more and its fee is   *)
(* higher; of a sale the fee may be lower, but never by more than the sale  *)
(* brings in less.                                                          *)

LEMMA StressLaw == Shape => StressNeverCheaper
  <1> SUFFICES ASSUME Shape, IsOpen PROVE /\ opened["stress_2x"].filled = opened["primary"].filled
                                          /\ NetCash(opened["stress_2x"])
                                               <= NetCash(opened["primary"])
    BY DEF StressNeverCheaper
  <1> DEFINE fill == Execute(order.side, order.requested, "primary")
             dear == Execute(order.side, order.requested, "stress_2x")
             qty  == Quantity(order.requested)
             rate == venue.taker_fee_rate
  <1>1. /\ opened["primary"] = fill /\ opened["stress_2x"] = dear
        /\ FillIsPriced(fill) /\ FillIsPriced(dear)
    <2>1. opened = [p \in Profiles |-> Execute(order.side, order.requested, p)]
          /\ \A p \in Profiles : FillIsPriced(opened[p])
      BY DEF Shape, IsOpen, Profiles
    <2> QED BY <2>1 DEF Profiles
  <1>2. /\ order.side \in {"buy", "sell"} /\ order.requested \in Nat
        /\ order.ref_px \in Nat \ {0} /\ rate \in 0..RateScale
        /\ order \in Order /\ venue \in Venue
    BY DEF Shape, Order, Venue
  <1>3. qty \in Nat
    BY <1>2, QuantityIs
  <1> HIDE DEF qty
  <1>0. /\ Scaled(rate, "primary") = rate /\ Scaled(rate, "stress_2x") = 2 * rate
    BY <1>2, ScaledGrows
  <1>4. /\ Away(qty, "primary") \in Nat /\ Away(qty, "stress_2x") \in Nat
        /\ Away(qty, "primary") <= Away(qty, "stress_2x")
    BY <1>2, AwayGrows DEF qty
  <1>5. /\ fill.side = order.side /\ fill.filled = qty
        /\ fill.fill_px = IF order.side = "buy" THEN order.ref_px + Away(qty, "primary")
                                                ELSE order.ref_px - Away(qty, "primary")
        /\ fill.notional = notional_micro(qty, fill.fill_px)
        /\ fill.fee = fee_micro(fill.notional, rate)
    BY <1>0, <1>2, Executed DEF Profiles, qty
  <1>6. /\ dear.side = order.side /\ dear.filled = qty
        /\ dear.fill_px = IF order.side = "buy" THEN order.ref_px + Away(qty, "stress_2x")
                                                ELSE order.ref_px - Away(qty, "stress_2x")
        /\ dear.notional = notional_micro(qty, dear.fill_px)
        /\ dear.fee = fee_micro(dear.notional, 2 * rate)
    BY <1>0, <1>2, Executed DEF Profiles, qty
  <1>7. /\ fill.fill_px \in Nat /\ dear.fill_px \in Nat
        /\ fill.notional \in Nat /\ dear.notional \in Nat
        /\ fill.fee \in Nat /\ dear.fee \in Nat
    BY <1>1, <1>2, FillIs DEF Profiles
  <1> HIDE DEF fill, dear, rate
  <1>8. PICK cheap \in Nat : cheap = fee_micro(dear.notional, rate) /\ cheap <= dear.fee
    <2>1. rate \in Nat /\ 2 * rate \in Nat /\ rate <= 2 * rate
      BY <1>2
    <2> QED BY <1>6, <1>7, <2>1, FeeGrows
  <1>9. CASE order.side = "buy"
    <2>1. fill.fill_px <= dear.fill_px
      BY <1>2, <1>4, <1>5, <1>6, <1>9
    <2>2. fill.notional <= dear.notional
      <3>1. notional_micro(qty, fill.fill_px) <= notional_micro(qty, dear.fill_px)
        BY <1>3, <1>7, <2>1, NotionalGrows
      <3> QED BY <1>5, <1>6, <3>1
    <2>3. fill.fee <= cheap
      <3>1. PICK m \in Nat, n \in Nat : m = fill.notional * rate /\ n = dear.notional * rate
                                        /\ m <= n
        <4>1. fill.notional * rate <= dear.notional * rate
          BY <1>2, <1>7, <2>2, ProductGrows
        <4>2. fill.notional * rate \in Nat /\ dear.notional * rate \in Nat
          BY <1>2, <1>7
        <4> QED BY <4>1, <4>2
      <3>2. ceil_fraction(m, RateScale) <= ceil_fraction(n, RateScale)
        <4>1. m <= n
          BY <3>1
        <4> QED BY <4>1, CeilGrows
      <3> QED BY <1>5, <1>8, <3>1, <3>2 DEF fee_micro
    <2> QED BY <1>1, <1>5, <1>6, <1>7, <1>8, <1>9, <2>2, <2>3 DEF NetCash
  <1>10. CASE order.side = "sell"
    <2>1. dear.fill_px <= fill.fill_px
      BY <1>2, <1>4, <1>5, <1>6, <1>10
    <2>2. dear.notional <= fill.notional
      <3>1. notional_micro(qty, dear.fill_px) <= notional_micro(qty, fill.fill_px)
        BY <1>3, <1>7, <2>1, NotionalGrows
      <3> QED BY <1>5, <1>6, <3>1
    <2>3. dear.notional - cheap <= fill.notional - fill.fee
      BY <1>2, <1>5, <1>7, <1>8, <2>2, ProceedsGrow
    <2> QED BY <1>1, <1>5, <1>6, <1>7, <1>8, <1>10, <2>3 DEF NetCash
  <1> QED BY <1>1, <1>2, <1>5, <1>6, <1>9, <1>10

-----------------------------------------------------------------------------
(* Rounding never pays.                                                    *)

(* Buying not below the reference and selling not above it loses.          *)
LEMMA RoundTripLoses ==
  ASSUME NEW low \in Nat, NEW high \in Nat, low <= high, NEW qty \in Nat
  PROVE  /\ realized_pnl_micro(1, qty, high, low) <= 0
         /\ realized_pnl_micro(-1, qty, low, high) <= 0
  <1>1. PICK n \in Nat : n = (high - low) * (qty * TickSize)
    OBVIOUS
  <1>2. /\ (low - high) * (1 * qty) * TickSize = -n
        /\ (high - low) * (-1 * qty) * TickSize = -n
    BY <1>1
  <1>3. PICK m \in Int : m = -n /\ m <= 0
    OBVIOUS
  <1>4. m \div QtyScale <= 0
    <2>1. m <= 0
      BY <1>3
    <2>2. m \div QtyScale <= 0 \div QtyScale
      BY <2>1, FloorGrows
    <2>3. 0 \div QtyScale = 0
      OBVIOUS
    <2>4. m \div QtyScale \in Int
      BY DivIs
    <2> QED BY <2>2, <2>3, <2>4
  <1> QED BY <1>2, <1>3, <1>4 DEF realized_pnl_micro

LEMMA RoundTripLaw == Shape => RoundTripNeverProfits
  <1> SUFFICES ASSUME Shape, IsClosed, NEW p \in Profiles
               PROVE  realized_pnl_micro(IF order.side = "buy" THEN 1 ELSE -1,
                                         closed[p].filled, opened[p].fill_px,
                                         closed[p].fill_px)
                        - opened[p].fee - closed[p].fee <= 0
    BY DEF RoundTripNeverProfits
  <1> DEFINE out  == Execute(order.side, order.requested, p)
             home == Execute(Opposite(order.side), out.filled, p)
  <1>1. /\ opened[p] = out /\ closed[p] = home
        /\ FillIsPriced(out) /\ FillIsPriced(home)
    <2>1. /\ opened = [r \in Profiles |-> Execute(order.side, order.requested, r)]
          /\ closed = [r \in Profiles |->
                         Execute(Opposite(order.side), opened[r].filled, r)]
          /\ \A r \in Profiles : FillIsPriced(opened[r]) /\ FillIsPriced(closed[r])
      BY DEF Shape, IsClosed, Profiles
    <2> QED BY <2>1
  <1>2. /\ order.side \in {"buy", "sell"} /\ order.requested \in Nat
        /\ order.ref_px \in Nat \ {0}
    BY DEF Shape, Order
  <1>3. /\ out.filled \in Nat /\ out.fill_px \in Nat /\ out.fee \in Nat
        /\ order.side = "buy" => out.fill_px >= order.ref_px
        /\ order.side = "sell" => out.fill_px <= order.ref_px
    BY <1>1, <1>2, FillIs
  <1>4. Opposite(order.side) \in {"buy", "sell"}
        /\ (Opposite(order.side) = "buy" <=> order.side = "sell")
    BY <1>2 DEF Opposite
  <1> HIDE DEF out
  <1>5. /\ home.filled \in Nat /\ home.fill_px \in Nat /\ home.fee \in Nat
        /\ order.side = "sell" => home.fill_px >= order.ref_px
        /\ order.side = "buy" => home.fill_px <= order.ref_px
    BY <1>1, <1>3, <1>4, FillIs
  <1> HIDE DEF home
  <1>6. realized_pnl_micro(IF order.side = "buy" THEN 1 ELSE -1,
                           home.filled, out.fill_px, home.fill_px) <= 0
    <2>1. CASE order.side = "buy"
      <3>1. home.fill_px <= out.fill_px
        BY <1>2, <1>3, <1>5, <2>1
      <3>2. realized_pnl_micro(1, home.filled, out.fill_px, home.fill_px) <= 0
        BY <1>3, <1>5, <3>1, RoundTripLoses
      <3> QED BY <2>1, <3>2
    <2>2. CASE order.side = "sell"
      <3>1. out.fill_px <= home.fill_px
        BY <1>2, <1>3, <1>5, <2>2
      <3>2. realized_pnl_micro(-1, home.filled, out.fill_px, home.fill_px) <= 0
        BY <1>3, <1>5, <3>1, RoundTripLoses
      <3> QED BY <2>2, <3>2
    <2> QED BY <1>2, <2>1, <2>2
  <1>7. realized_pnl_micro(IF order.side = "buy" THEN 1 ELSE -1,
                           home.filled, out.fill_px, home.fill_px) \in Int
    <2>1. ASSUME NEW s \in {1, -1}
          PROVE  realized_pnl_micro(s, home.filled, out.fill_px, home.fill_px) \in Int
      <3>1. PICK n \in Int : n = (home.fill_px - out.fill_px) * (s * home.filled) * TickSize
        BY <1>3, <1>5
      <3>2. n \div QtyScale \in Int
        BY DivIs
      <3> QED BY <3>1, <3>2 DEF realized_pnl_micro
    <2> QED BY <2>1
  <1> QED BY <1>1, <1>3, <1>5, <1>6, <1>7

(* Two halves of an amount, each rounded up, are not less than the amount. *)
LEMMA FundingIsZeroSum ==
  ASSUME NEW held \in Int, NEW px \in Nat, NEW rate \in Int
  PROVE  funding_cash_flow_micro(held, px, rate)
           + funding_cash_flow_micro(-held, px, rate) <= 0
  <1>1. PICK num \in Int, less \in Int :
          /\ num = held * px * TickSize * rate
          /\ less = (-held) * px * TickSize * rate /\ less = -num
    OBVIOUS
  <1>2. PICK den \in Nat \ {0} : den = QtyScale * RateScale
    BY PosProduct
  <1>3. PICK a \in Int : a = ceil_fraction(num, den) /\ num <= a * den
    <2>1. ceil_fraction(num, den) \in Int /\ num <= ceil_fraction(num, den) * den
      BY CeilCovers
    <2> QED BY <2>1
  <1>4. PICK b \in Int : b = ceil_fraction(less, den) /\ less <= b * den
    <2>1. ceil_fraction(less, den) \in Int /\ less <= ceil_fraction(less, den) * den
      BY CeilCovers
    <2> QED BY <2>1
  <1>5. -b <= a
    <2>1. (-b) * den <= a * den
      BY <1>1, <1>3, <1>4
    <2>2. -b \in Int
      OBVIOUS
    <2> QED BY <2>1, <2>2, ProductTells
  <1> QED BY <1>1, <1>2, <1>3, <1>4, <1>5 DEF funding_cash_flow_micro

LEMMA HeldIs ==
  ASSUME Shape, IsOpen
  PROVE  /\ Held \in Int
         /\ Held > 0 => order.side = "buy"
         /\ Held < 0 => order.side = "sell"
         /\ opened["primary"].fill_px \in Nat \ {0}
         /\ opened["primary"].filled = Quantity(order.requested)
  <1> DEFINE fill == Execute(order.side, order.requested, "primary")
  <1>1. opened["primary"] = fill /\ FillIsPriced(fill)
    <2>1. opened = [p \in Profiles |-> Execute(order.side, order.requested, p)]
          /\ \A p \in Profiles : FillIsPriced(opened[p])
      BY DEF Shape, IsOpen, Profiles
    <2> QED BY <2>1 DEF Profiles
  <1>2. order.side \in {"buy", "sell"} /\ order.requested \in Nat
    BY DEF Shape, Order
  <1>3. /\ fill.filled \in Nat /\ fill.fill_px \in Nat \ {0}
        /\ fill.filled = Quantity(order.requested)
    BY <1>1, <1>2, FillIs, Executed DEF Profiles
  <1> HIDE DEF fill
  <1> QED BY <1>1, <1>2, <1>3 DEF Held

LEMMA FundingLaw == Shape => FundingNeverCreatesMoney
  <1> SUFFICES ASSUME Shape, IsOpen, NEW rate \in FundingRates, NEW px \in Prices
               PROVE  funding_cash_flow_micro(Held, px, rate)
                        + funding_cash_flow_micro(-Held, px, rate) <= 0
    BY DEF FundingNeverCreatesMoney
  <1>1. rate \in Int /\ px \in Nat
    OBVIOUS
  <1> QED BY <1>1, HeldIs, FundingIsZeroSum

-----------------------------------------------------------------------------
(* The impact model.                                                       *)

LEMMA SqrtLaw == Shape => SqrtImpactIsTheLeastCeiling
  <1> SUFFICES ASSUME Shape, IsOpen, venue.impact_model = "sqrt",
                      opened["primary"].filled > 0
               PROVE  SqrtImpactIsTheLeastCeiling
    BY DEF SqrtImpactIsTheLeastCeiling
  <1>1. PICK qty \in Nat \ {0} : qty = opened["primary"].filled
    <2>1. order.requested \in Nat
      BY DEF Shape, Order
    <2>2. opened["primary"].filled \in Nat
      BY <2>1, HeldIs, QuantityIs DEF Shape
    <2> QED BY <2>2
  <1>2. PICK ref \in Nat \ {0}, volume \in Nat \ {0} :
          ref = order.ref_px /\ volume = order.bar_volume
    <2>1. order.ref_px \in Nat \ {0} /\ order.bar_volume \in Nat /\ order.requested \in Nat
      BY DEF Shape, Order
    <2>2. order.bar_volume # 0
      BY <1>1, <2>1, HeldIs, QuantityIs DEF Shape
    <2> QED BY <2>1, <2>2
  <1>3. PICK coeff \in Nat : coeff = venue.impact_coeff
    BY DEF Shape, Venue
  <1> DEFINE scaled == ref * coeff
             ticks  == impact_ticks(ref, qty, volume, coeff, "sqrt")
             Covers(n) == n * n * RateScale * RateScale * volume >= scaled * scaled * qty
  <1>4. Covers(ticks) /\ (ticks > 0 => ~Covers(ticks - 1))
    <2>1. CASE coeff = 0
      <3>1. ticks = 0 /\ scaled = 0
        BY <2>1 DEF impact_ticks
      <3> QED BY <3>1
    <2>2. CASE coeff > 0
      <3>1. PICK num \in Nat, den \in Nat \ {0} :
              /\ num = ref * ref * coeff * coeff * qty
              /\ den = RateScale * RateScale * volume
        <4>1. RateScale * RateScale \in Nat \ {0}
          BY PosProduct
        <4>2. RateScale * RateScale * volume \in Nat \ {0}
          BY <4>1, PosProduct
        <4>3. ref * ref * coeff * coeff * qty \in Nat
          OBVIOUS
        <4> QED BY <4>2, <4>3
      <3>2. ticks = ceil_sqrt_fraction(num, den)
        BY <2>2, <3>1 DEF impact_ticks
      <3>3. PICK c \in Nat : /\ c = ceil_sqrt_fraction(num, den)
                             /\ num <= c * c * den
                             /\ c > 0 => (c - 1) * (c - 1) * den < num
        BY CeilSqrtIs
      <3>4. ASSUME NEW n \in Int PROVE Covers(n) <=> num <= n * n * den
        <4>1. scaled * scaled * qty = num
          BY <3>1
        <4>2. n * n * RateScale * RateScale * volume = n * n * den
          BY <3>1
        <4>3. n * n * den \in Int
          BY <3>1
        <4> QED BY <4>1, <4>2, <4>3
      <3> HIDE DEF Covers, ticks
      <3>5. c > 0 => ~(num <= (c - 1) * (c - 1) * den)
        <4>1. (c - 1) * (c - 1) * den \in Int
          OBVIOUS
        <4> QED BY <3>3, <4>1
      <3>6. Covers(c) /\ (c > 0 => ~Covers(c - 1))
        BY <3>3, <3>4, <3>5
      <3> QED BY <3>2, <3>3, <3>6
    <2> QED BY <2>1, <2>2
  <1> HIDE DEF ticks
  <1> QED BY <1>1, <1>2, <1>3, <1>4 DEF SqrtImpactIsTheLeastCeiling, ticks

-----------------------------------------------------------------------------
(* The liquidation trigger.  Both sides of the law compare one product with *)
(* the entry's: the rounding of the trigger is the comparison (CeilIsLeast, *)
(* FloorIsGreatest).                                                        *)

LEMMA LongTrigger ==
  ASSUME NEW entry \in Nat \ {0}, NEW lev \in Nat \ {0},
         NEW maint \in 0..(RateScale - 1), NEW px \in Nat \ {0}, NEW held \in Int, held > 0
  PROVE  LET liq == liquidation_price_ticks(entry, 1, lev, maint)
         IN  liquidation_crossed(held, liq, [h |-> px, l |-> px, c |-> px])
               <=> Excess(1, entry, lev, maint, px - 1) < 0
  <1>1. PICK num \in Int, den \in Nat \ {0}, below \in Nat :
          /\ num = entry * (lev - LevScale) * RateScale
          /\ den = lev * (RateScale - maint)
          /\ below = px - 1
    <2>1. RateScale - maint \in Nat \ {0}
      OBVIOUS
    <2>2. lev * (RateScale - maint) \in Nat \ {0}
      BY <2>1, PosProduct
    <2>3. entry * (lev - LevScale) * RateScale \in Int /\ px - 1 \in Nat
      OBVIOUS
    <2> QED BY <2>2, <2>3
  <1>2. Excess(1, entry, lev, maint, px - 1) = below * den - num
    BY <1>1 DEF Excess
  <1>3. below * den \in Nat
    OBVIOUS
  <1>4. CASE lev <= LevScale
    <2>1. liquidation_price_ticks(entry, 1, lev, maint) = 0
      BY <1>4 DEF liquidation_price_ticks
    <2>2. num <= 0
      <3>1. (LevScale - lev) * (entry * RateScale) >= 0
        BY <1>4
      <3>2. num = -((LevScale - lev) * (entry * RateScale))
        BY <1>1
      <3> QED BY <3>1, <3>2
    <2> QED BY <1>2, <1>3, <2>1, <2>2 DEF liquidation_crossed
  <1>5. CASE lev > LevScale
    <2>1. liquidation_price_ticks(entry, 1, lev, maint) = ceil_fraction(num, den)
      BY <1>1, <1>5 DEF liquidation_price_ticks
    <2>2. PICK c \in Int : /\ c = ceil_fraction(num, den)
                           /\ c <= below <=> num <= below * den
      BY CeilIsLeast
    <2>3. px <= c <=> ~(c <= below)
      BY <1>1
    <2>4. px <= c => c > 0
      OBVIOUS
    <2> QED BY <1>2, <1>3, <2>1, <2>2, <2>3, <2>4 DEF liquidation_crossed
  <1> QED BY <1>4, <1>5

LEMMA ShortTrigger ==
  ASSUME NEW entry \in Nat \ {0}, NEW lev \in Nat \ {0},
         NEW maint \in 0..(RateScale - 1), NEW px \in Nat \ {0}, NEW held \in Int, held < 0
  PROVE  LET liq == liquidation_price_ticks(entry, -1, lev, maint)
         IN  liquidation_crossed(held, liq, [h |-> px, l |-> px, c |-> px])
               <=> Excess(-1, entry, lev, maint, px + 1) < 0
  <1>1. PICK num \in Int, den \in Nat \ {0}, above \in Nat :
          /\ num = entry * (lev + LevScale) * RateScale
          /\ den = lev * (RateScale + maint)
          /\ above = px + 1
    <2>1. RateScale + maint \in Nat \ {0}
      OBVIOUS
    <2>2. lev * (RateScale + maint) \in Nat \ {0}
      BY <2>1, PosProduct
    <2>3. entry * (lev + LevScale) * RateScale \in Int /\ px + 1 \in Nat
      OBVIOUS
    <2> QED BY <2>2, <2>3
  <1>2. Excess(-1, entry, lev, maint, px + 1) = num - above * den
    BY <1>1 DEF Excess
  <1>3. above * den \in Nat
    OBVIOUS
  <1>4. liquidation_price_ticks(entry, -1, lev, maint) = floor_fraction(num, den)
    BY <1>1 DEF liquidation_price_ticks
  <1>5. PICK c \in Int : /\ c = floor_fraction(num, den)
                         /\ above <= c <=> above * den <= num
    BY FloorIsGreatest
  <1>6. px >= c <=> ~(above <= c)
    BY <1>1
  <1> QED BY <1>2, <1>3, <1>4, <1>5, <1>6 DEF liquidation_crossed

LEMMA TriggerLaw == Shape => TriggerIsTight
  <1> SUFFICES ASSUME Shape, IsOpen, Held # 0,
                      NEW lev \in Leverages, NEW maint \in MaintRates, NEW px \in Prices
               PROVE  LET s     == sign(Held)
                          entry == opened["primary"].fill_px
                          liq   == liquidation_price_ticks(entry, s, lev, maint)
                      IN  liquidation_crossed(Held, liq, [h |-> px, l |-> px, c |-> px])
                            <=> Excess(s, entry, lev, maint, px - s) < 0
    BY DEF TriggerIsTight
  <1>1. PICK held \in Int, entry \in Nat \ {0} :
          held = Held /\ entry = opened["primary"].fill_px
    BY HeldIs
  <1>2. lev \in Nat \ {0} /\ maint \in 0..(RateScale - 1) /\ px \in Nat \ {0}
    OBVIOUS
  <1>3. CASE held > 0
    <2>1. sign(held) = 1
      BY <1>3 DEF sign
    <2> QED BY <1>1, <1>2, <1>3, <2>1, LongTrigger
  <1>4. CASE held < 0
    <2>1. sign(held) = -1
      BY <1>4 DEF sign
    <2>2. px - (-1) = px + 1
      BY <1>2
    <2> QED BY <1>1, <1>2, <1>4, <2>1, <2>2, ShortTrigger
  <1> QED BY <1>1, <1>3, <1>4

-----------------------------------------------------------------------------
(* The laws, of every run.                                                 *)

LEMMA ShapeHolds == Spec => []Shape
  BY ShapeInit, ShapeStep, PTL DEF Spec

(* MATH-5: for the same quantity the stress profile pays an account at most *)
(* what the primary one pays, for any spread, impact and fee of at most the *)
(* notional (calculate_fill under the two multipliers).                     *)
THEOREM StressIsNeverCheaper == Spec => []StressNeverCheaper
  BY ShapeHolds, StressLaw, PTL

(* No rounding of a round trip or of a settlement pays the account          *)
(* (realized_pnl_micro, funding_cash_flow_micro).                           *)
THEOREM RoundingPaysNobody == Spec => []RoundingNeverPays
  <1>1. Shape => RoundingNeverPays
    BY RoundTripLaw, FundingLaw DEF RoundingNeverPays
  <1> QED BY <1>1, ShapeHolds, PTL

(* The square-root impact is the least sufficient number of ticks, and a    *)
(* liquidation triggers at the first tick at which the margin no longer     *)
(* holds one tick on (ceil_sqrt_fraction, liquidation_price_ticks).         *)
THEOREM PricesAreExactAlways == Spec => []PricesAreExact
  <1>1. Shape => PricesAreExact
    BY SqrtLaw, TriggerLaw DEF PricesAreExact
  <1> QED BY <1>1, ShapeHolds, PTL

=============================================================================
