------------------------ MODULE EpisodeEngine_proofs ------------------------
(***************************************************************************)
(* The safety of an episode for every market, every set of bars, every     *)
(* decision and every length: the state keeps its type, cash is conserved, *)
(* a position is always backed by an entry and a leverage, and a killed    *)
(* profile stays flat and never trades (IInv); the ledger and the counters *)
(* follow the turns (LedgerHolds); every move is in the log, and the log   *)
(* of a turn can be read back (TrailHolds); and the steps are finite.      *)
(* First come the operators of FillMath and Account: the type of what they *)
(* return, what an order may fill, and that every account operation        *)
(* conserves cash and keeps a position backed by an entry and a leverage.  *)
(***************************************************************************)
EXTENDS EpisodeEngine, FiniteSetTheorems, SequenceTheorems, TLAPS

-----------------------------------------------------------------------------
(* Rounding. *)

(* The floor of a quotient is an integer (the // of every division). *)
LEMMA DivType ==
  ASSUME NEW a \in Int, NEW b \in Nat \ {0}
  PROVE  a \div b \in Int
  OBVIOUS

(* Scales multiply to a positive divisor. *)
LEMMA PosProduct ==
  ASSUME NEW a \in Nat \ {0}, NEW b \in Nat \ {0}
  PROVE  a * b \in Nat \ {0}
  OBVIOUS

(* abs and sign have the range their names say. *)
LEMMA AbsType ==
  ASSUME NEW n \in Int
  PROVE  abs(n) \in Nat /\ (n # 0 => abs(n) > 0)
  BY DEF abs

LEMMA SignType ==
  ASSUME NEW n \in Int
  PROVE  /\ sign(n) \in {-1, 0, 1}
         /\ sign(n) = 0 <=> n = 0
         /\ n = sign(n) * abs(n)
  BY DEF sign, abs

LEMMA CeilType ==
  ASSUME NEW num \in Int, NEW den \in Nat \ {0}
  PROVE  ceil_fraction(num, den) \in Int
  BY DivType DEF ceil_fraction

LEMMA CeilNat ==
  ASSUME NEW num \in Nat, NEW den \in Nat \ {0}
  PROVE  ceil_fraction(num, den) \in Nat
  <1>1. (-num) \div den <= 0
    OBVIOUS
  <1> QED BY <1>1, DivType DEF ceil_fraction

LEMMA FloorType ==
  ASSUME NEW num \in Int, NEW den \in Nat \ {0}
  PROVE  floor_fraction(num, den) \in Int
  BY DivType DEF floor_fraction

(* Rounding a non-negative quantity to a step never makes it larger. *)
LEMMA StepType ==
  ASSUME NEW n \in Int, NEW step \in Nat \ {0}
  PROVE  /\ floor_to_step(n, step) \in Int
         /\ n >= 0 => floor_to_step(n, step) \in 0..n
  <1>1. abs(n) \div step \in Nat /\ (abs(n) \div step) * step <= abs(n)
    BY AbsType
  <1>2. floor_to_step(n, step) = sign(n) * ((abs(n) \div step) * step)
    BY <1>1, SignType DEF floor_to_step
  <1>3. (abs(n) \div step) * step \in 0..abs(n)
    BY <1>1, AbsType
  <1> QED BY <1>2, <1>3 DEF sign, abs

(* The integer square root counts the squares below its argument. *)
LEMMA SqrtType ==
  ASSUME NEW num \in Int, NEW den \in Nat \ {0}
  PROVE  ceil_sqrt_fraction(num, den) \in Nat
  <1> DEFINE n == num \div den
             S == {r \in 1..n : r * r <= n}
  <1>1. n \in Int
    BY DivType
  <1>2. IsFiniteSet(1..n)
    BY <1>1, FS_Interval
  <1>3. IsFiniteSet(S)
    BY <1>2, FS_Subset
  <1>4. isqrt(n) \in Nat
    BY <1>3, FS_CardinalityType DEF isqrt
  <1> QED BY <1>4 DEF ceil_sqrt_fraction

-----------------------------------------------------------------------------
(* Sizing and filling an order. *)

(* A target of zero leverage is a quantity of zero: it can always be met. *)
LEMMA ZeroTarget ==
  ASSUME NEW equity_now \in Int, NEW ref_px \in Nat \ {0}
  PROVE  target_quantity(0, equity_now, ref_px) = 0
  <1> USE ScalesArePositive
  <1>1. LevScale * ref_px * TickSize \in Nat \ {0}
    BY PosProduct
  <1>2. floor_fraction(abs(0) * equity_now * QtyScale, LevScale * ref_px * TickSize)
          \in Int
    BY <1>1, FloorType, AbsType
  <1>3. raw_target_quantity(0, equity_now, ref_px) = 0
    BY <1>2 DEF raw_target_quantity, sign
  <1>4. abs(0) \div QtyStep \in Int
    BY DivType, AbsType
  <1> QED BY <1>3, <1>4 DEF target_quantity, floor_to_step, sign

LEMMA TargetType ==
  ASSUME NEW target_lev \in Int, NEW equity_now \in Int, NEW ref_px \in Nat \ {0}
  PROVE  target_quantity(target_lev, equity_now, ref_px) \in Int
  <1> USE ScalesArePositive
  <1>1. LevScale * ref_px * TickSize \in Nat \ {0}
    BY PosProduct
  <1>2. abs(target_lev) * equity_now * QtyScale \in Int
    BY AbsType
  <1>3. floor_fraction(abs(target_lev) * equity_now * QtyScale,
                       LevScale * ref_px * TickSize) \in Int
    BY <1>1, <1>2, FloorType
  <1>4. sign(target_lev) \in Int
    BY SignType
  <1>5. raw_target_quantity(target_lev, equity_now, ref_px) \in Int
    BY <1>3, <1>4 DEF raw_target_quantity
  <1> QED BY <1>5, StepType DEF target_quantity

LEMMA SmallerType ==
  ASSUME NEW m \in Int, NEW n \in Int
  PROVE  smaller(m, n) \in {m, n} /\ smaller(m, n) <= m /\ smaller(m, n) <= n
  BY DEF smaller

LEMMA CapacityType ==
  ASSUME NEW bar_volume \in Nat, NEW cap \in Nat
  PROVE  /\ participation_capacity(bar_volume, cap) \in Nat
         /\ bar_volume = 0 => participation_capacity(bar_volume, cap) = 0
  <1> USE ScalesArePositive
  <1>1. bar_volume * cap \in Nat /\ (bar_volume = 0 => bar_volume * cap = 0)
    OBVIOUS
  <1>2. floor_fraction(bar_volume * cap, RateScale) \in Nat
    BY <1>1 DEF floor_fraction
  <1>3. bar_volume = 0 => floor_fraction(bar_volume * cap, RateScale) = 0
    BY <1>1 DEF floor_fraction
  <1> QED BY <1>2, <1>3, StepType DEF participation_capacity

(* What is filled is never more than was requested, the rest is cancelled, *)
(* and nothing is filled in a bar without volume (participation_fill).     *)
LEMMA ParticipationBounds ==
  ASSUME NEW requested \in Nat, NEW bar_volume \in Nat, NEW cap \in Nat
  PROVE  \E filled \in 0..requested, capacity \in Nat :
           /\ bar_volume = 0 => filled = 0
           /\ participation_fill(requested, bar_volume, cap)
                = [requested |-> requested, capacity |-> capacity,
                   filled |-> filled, cancelled |-> requested - filled]
  <1> DEFINE capacity == participation_capacity(bar_volume, cap)
             most     == smaller(requested, capacity)
             filled   == floor_to_step(most, QtyStep)
  <1> USE ScalesArePositive
  <1>1. capacity \in Nat /\ (bar_volume = 0 => capacity = 0)
    BY CapacityType
  <1>2. most \in Nat /\ most <= requested /\ most <= capacity
    BY <1>1, SmallerType
  <1>3. filled \in 0..most
    BY <1>2, StepType
  <1>4. filled \in 0..requested /\ (bar_volume = 0 => filled = 0)
    BY <1>1, <1>2, <1>3
  <1>5. participation_fill(requested, bar_volume, cap)
          = [requested |-> requested, capacity |-> capacity,
             filled |-> filled, cancelled |-> requested - filled]
    BY DEF participation_fill
  <1> HIDE DEF capacity, filled
  <1> QED BY <1>1, <1>4, <1>5

(* The scaled rates and the ticks and amounts they give are numbers. *)
LEMMA MultiplierType ==
  ASSUME NEW rate \in Nat, NEW mult \in Nat
  PROVE  apply_cost_multiplier(rate, mult) \in Nat
  <1>1. rate * mult \in Nat
    OBVIOUS
  <1> QED BY <1>1, CeilNat, ScalesArePositive DEF apply_cost_multiplier

LEMMA NotionalType ==
  ASSUME NEW qty \in Int, NEW px \in Int
  PROVE  notional_micro(qty, px) \in Int
  <1>1. abs(qty) * px * TickSize \in Int
    BY AbsType, ScalesArePositive
  <1> QED BY <1>1, DivType, ScalesArePositive DEF notional_micro

LEMMA FeeType ==
  ASSUME NEW value \in Int, NEW rate \in Nat
  PROVE  fee_micro(value, rate) \in Int
  <1>1. value * rate \in Int
    OBVIOUS
  <1> QED BY <1>1, CeilType, ScalesArePositive DEF fee_micro

LEMMA ImpactType ==
  ASSUME NEW ref_px \in Nat, NEW filled \in Nat, NEW bar_volume \in Nat,
         NEW coeff \in Nat, NEW model \in {"linear", "sqrt"},
         bar_volume = 0 => filled = 0
  PROVE  impact_ticks(ref_px, filled, bar_volume, coeff, model) \in Int
  <1>1. CASE filled = 0 \/ coeff = 0
    BY <1>1 DEF impact_ticks
  <1>2. CASE ~(filled = 0 \/ coeff = 0)
    <2> USE ScalesArePositive
    <2>1. bar_volume \in Nat \ {0}
      BY <1>2
    <2>2. RateScale * bar_volume \in Nat \ {0}
      BY <2>1, PosProduct
    <2>3. RateScale * RateScale \in Nat \ {0}
      BY PosProduct
    <2>4. RateScale * RateScale * bar_volume \in Nat \ {0}
      BY <2>1, <2>3, PosProduct
    <2>5. CASE model = "linear"
      <3>1. ref_px * coeff * filled \in Int
        OBVIOUS
      <3>2. ceil_fraction(ref_px * coeff * filled, RateScale * bar_volume) \in Int
        BY <2>2, <3>1, CeilType
      <3> QED BY <1>2, <2>5, <3>2 DEF impact_ticks
    <2>6. CASE model = "sqrt"
      <3>1. ref_px * ref_px * coeff * coeff * filled \in Int
        OBVIOUS
      <3>2. ceil_sqrt_fraction(ref_px * ref_px * coeff * coeff * filled,
                               RateScale * RateScale * bar_volume) \in Int
        BY <2>4, <3>1, SqrtType
      <3> QED BY <1>2, <2>6, <3>2 DEF impact_ticks
    <2> QED BY <2>5, <2>6
  <1> QED BY <1>1, <1>2

FillType ==
  [side : {"buy", "sell"}, requested : Nat, capacity : Nat, filled : Nat,
   cancelled : Nat, fill_px : Int, notional : Int, reference_notional : Int,
   fee : Int, slippage : Int]

(* The price of a quantity that trades within its bar, and its slippage. *)
LEMMA FillPxType ==
  ASSUME NEW side, NEW filled \in Nat, NEW bar_volume \in Nat,
         NEW ref_px \in Nat \ {0}, NEW half_spread \in Nat, NEW coeff \in Nat,
         NEW model \in {"linear", "sqrt"}, bar_volume = 0 => filled = 0
  PROVE  fill_price_ticks(side, ref_px, half_spread_ticks(ref_px, half_spread),
                          impact_ticks(ref_px, filled, bar_volume, coeff, model))
           \in Int
  <1> USE ScalesArePositive
  <1>1. half_spread_ticks(ref_px, half_spread) \in Int
    <2>1. ref_px * half_spread \in Int
      OBVIOUS
    <2> QED BY <2>1, CeilType DEF half_spread_ticks
  <1>2. impact_ticks(ref_px, filled, bar_volume, coeff, model) \in Int
    BY ImpactType
  <1> QED BY <1>1, <1>2 DEF fill_price_ticks

LEMMA SlippageType ==
  ASSUME NEW px \in Int, NEW ref_px \in Nat \ {0}
  PROVE  slippage_1e8(px, ref_px) \in Int
  <1>1. (px - ref_px) * RateScale \in Int
    BY ScalesArePositive
  <1> QED BY <1>1, FloorType DEF slippage_1e8

(* A fill that stays within its request. *)
FillOf(fill, side, requested) ==
  /\ fill \in FillType
  /\ fill.side = side
  /\ fill.filled \in 0..requested
  /\ fill.cancelled = requested - fill.filled

(* calculate_fill returns a fill that stays within its request. *)
LEMMA CalculatedFill ==
  ASSUME NEW side \in {"buy", "sell"}, NEW requested \in Nat,
         NEW bar_volume \in Nat, NEW ref_px \in Nat \ {0},
         NEW market \in MarketSpec, NEW mult \in Nat
  PROVE  FillOf(calculate_fill(side, requested, bar_volume, ref_px, market, mult),
                side, requested)
  <1>1. PICK cap \in Nat : cap = market.participation_cap
    BY ScalesArePositive DEF MarketSpec
  <1>2. PICK filled \in 0..requested, capacity \in Nat :
          /\ bar_volume = 0 => filled = 0
          /\ participation_fill(requested, bar_volume, cap)
               = [requested |-> requested, capacity |-> capacity,
                  filled |-> filled, cancelled |-> requested - filled]
    BY ParticipationBounds
  <1>3. PICK srate \in Nat : srate = apply_cost_multiplier(market.half_spread, mult)
    BY MultiplierType DEF MarketSpec
  <1>4. PICK irate \in Nat : irate = apply_cost_multiplier(market.impact_coeff, mult)
    BY MultiplierType DEF MarketSpec
  <1>5. PICK frate \in Nat : frate = apply_cost_multiplier(market.taker_fee_rate, mult)
    BY MultiplierType DEF MarketSpec
  <1>6. PICK model \in {"linear", "sqrt"} : model = market.impact_model
    BY DEF MarketSpec
  <1>7. PICK px \in Int : px = fill_price_ticks(side, ref_px,
                         half_spread_ticks(ref_px, srate),
                         impact_ticks(ref_px, filled, bar_volume, irate, model))
    <2> filled \in Nat /\ (bar_volume = 0 => filled = 0)
      BY <1>2
    <2> HIDE <1>1, <1>2
    <2> QED BY FillPxType
  <1>8. PICK value \in Int : value = notional_micro(filled, px)
    BY NotionalType
  <1>9. PICK ref_value \in Int : ref_value = notional_micro(filled, ref_px)
    BY NotionalType
  <1>10. PICK fee \in Int : fee = fee_micro(value, frate)
    BY FeeType
  <1>11. PICK slippage \in Int : slippage = slippage_1e8(px, ref_px)
    BY SlippageType
  <1> DEFINE fill ==
        [side |-> side, requested |-> requested, capacity |-> capacity,
         filled |-> filled, cancelled |-> requested - filled, fill_px |-> px,
         notional |-> value, reference_notional |-> ref_value,
         fee |-> fee, slippage |-> slippage]
  <1>12. calculate_fill(side, requested, bar_volume, ref_px, market, mult) = fill
    BY <1>1, <1>2, <1>3, <1>4, <1>5, <1>6, <1>7, <1>8, <1>9, <1>10, <1>11
       DEF calculate_fill
  <1>13. fill \in FillType
    BY DEF FillType
  <1>14. FillOf(fill, side, requested)
    BY <1>13 DEF FillOf
  <1> QED BY <1>12, <1>14

-----------------------------------------------------------------------------
(* The account operations.  Each returns an account, moves cash by what it  *)
(* books, and leaves the position it holds backed.                          *)

(* A position has an entry and a leverage in 1..cap, a flat account neither. *)
Backed(a, cap) ==
  IF a.qty = 0 THEN a.entry = 0 /\ a.lev = 0
               ELSE a.entry > 0 /\ a.lev \in 1..cap

LEMMA PnlType ==
  ASSUME NEW m \in Int, NEW n \in Int, NEW q \in Int
  PROVE  ((m - n) * q * TickSize) \div QtyScale \in Int
  <1>1. (m - n) * q * TickSize \in Int
    BY ScalesArePositive
  <1> QED BY <1>1, DivType, ScalesArePositive

LEMMA UpnlType ==
  ASSUME NEW a \in AccountType, NEW mark_px \in Int
  PROVE  upnl(a, mark_px) \in Int
  <1>1. a.qty \in Int /\ a.entry \in Int
    BY DEF AccountType
  <1> QED BY <1>1, PnlType DEF upnl, flat, unrealized_pnl_micro

LEMMA RealizedType ==
  ASSUME NEW s \in Int, NEW closed \in Int, NEW entry \in Int, NEW px \in Int
  PROVE  realized_pnl_micro(s, closed, entry, px) \in Int
  <1>1. s * closed \in Int
    OBVIOUS
  <1> QED BY <1>1, PnlType DEF realized_pnl_micro

LEMMA FundingFlowType ==
  ASSUME NEW qty \in Int, NEW index_px \in Int, NEW rate \in Int
  PROVE  funding_cash_flow_micro(qty, index_px, rate) \in Int
  <1> USE ScalesArePositive
  <1>1. qty * index_px * TickSize * rate \in Int
    OBVIOUS
  <1>2. QtyScale * RateScale \in Nat \ {0}
    BY PosProduct
  <1>3. ceil_fraction(qty * index_px * TickSize * rate, QtyScale * RateScale) \in Int
    BY <1>1, <1>2, CeilType
  <1> QED BY <1>3 DEF funding_cash_flow_micro

(* Amounts booked with the cash they move keep an account conserved. *)
LEMMA Moved ==
  ASSUME NEW a \in AccountType, NEW b \in AccountType,
         \/ \E flow \in Int :
              /\ b.cash = a.cash + flow /\ b.funding = a.funding - flow
              /\ b.realized = a.realized /\ b.fees = a.fees
              /\ b.penalty = a.penalty
         \/ \E realized \in Int, fee \in Int :
              /\ b.cash = a.cash + realized - fee /\ b.funding = a.funding
              /\ b.realized = a.realized + realized /\ b.fees = a.fees + fee
              /\ b.penalty = a.penalty
         \/ \E realized \in Int, penalty \in Int :
              /\ b.cash = a.cash + realized - penalty /\ b.funding = a.funding
              /\ b.realized = a.realized + realized /\ b.fees = a.fees
              /\ b.penalty = a.penalty + penalty
  PROVE  Conserved(a) => Conserved(b)
  <1>1. PICK c \in Int, r \in Int, f \in Int, u \in Int, p \in Int :
          a.cash = c /\ a.realized = r /\ a.fees = f /\ a.funding = u /\ a.penalty = p
    BY DEF AccountType
  <1>2. PICK start \in Int : start = StartNav
    BY AccountAssumption
  <1>3. Conserved(a) => c - start = r - f - u - p
    BY <1>1, <1>2 DEF Conserved
  <1>4. CASE \E flow \in Int :
              /\ b.cash = a.cash + flow /\ b.funding = a.funding - flow
              /\ b.realized = a.realized /\ b.fees = a.fees
              /\ b.penalty = a.penalty
    <2>1. PICK flow \in Int :
              /\ b.cash = c + flow /\ b.funding = u - flow
              /\ b.realized = r /\ b.fees = f /\ b.penalty = p
      BY <1>1, <1>4
    <2> QED BY <1>2, <1>3, <2>1 DEF Conserved
  <1>5. CASE \E realized \in Int, fee \in Int :
              /\ b.cash = a.cash + realized - fee /\ b.funding = a.funding
              /\ b.realized = a.realized + realized /\ b.fees = a.fees + fee
              /\ b.penalty = a.penalty
    <2>1. PICK realized \in Int, fee \in Int :
              /\ b.cash = c + realized - fee /\ b.funding = u
              /\ b.realized = r + realized /\ b.fees = f + fee /\ b.penalty = p
      BY <1>1, <1>5
    <2> QED BY <1>2, <1>3, <2>1 DEF Conserved
  <1>6. CASE \E realized \in Int, penalty \in Int :
              /\ b.cash = a.cash + realized - penalty /\ b.funding = a.funding
              /\ b.realized = a.realized + realized /\ b.fees = a.fees
              /\ b.penalty = a.penalty + penalty
    <2>1. PICK realized \in Int, penalty \in Int :
              /\ b.cash = c + realized - penalty /\ b.funding = u
              /\ b.realized = r + realized /\ b.fees = f /\ b.penalty = p + penalty
      BY <1>1, <1>6
    <2> QED BY <1>2, <1>3, <2>1 DEF Conserved
  <1> QED BY <1>4, <1>5, <1>6

(* A settlement moves cash and the funding total and nothing else. *)
LEMMA FundingKeeps ==
  ASSUME NEW a \in AccountType, NEW settlement \in Settlement
  PROVE  \E b \in AccountType :
           /\ b = applied_funding(a, settlement)
           /\ b.qty = a.qty /\ b.entry = a.entry /\ b.lev = a.lev
           /\ b.killed = a.killed
           /\ b.qty = 0 => b = a
           /\ Conserved(a) => Conserved(b)
  <1> USE AccountAssumption
  <1>1. PICK rate \in Int :
          rate = clamp_funding_rate(settlement.rate, Market.funding_floor,
                                    Market.funding_cap)
    BY DEF clamp_funding_rate, smaller, Settlement, MarketSpec
  <1>2. PICK index_px \in Int : index_px = settlement.index_px
    BY DEF Settlement
  <1>3. PICK qty \in Int : qty = a.qty
    BY DEF AccountType
  <1>4. PICK flow \in Int : flow = funding_cash_flow_micro(qty, index_px, rate)
    BY FundingFlowType
  <1>5. qty = 0 => flow = 0
    <2> SUFFICES ASSUME qty = 0 PROVE flow = 0
      OBVIOUS
    <2> USE ScalesArePositive
    <2>1. QtyScale * RateScale \in Nat \ {0}
      BY PosProduct
    <2>2. qty * index_px * TickSize * rate = 0
      OBVIOUS
    <2>3. (-0) \div (QtyScale * RateScale) = 0
      BY <2>1
    <2> QED BY <2>2, <2>3, <1>4 DEF funding_cash_flow_micro, ceil_fraction
  <1> DEFINE b == [a EXCEPT !.cash = @ + flow, !.funding = @ - flow]
  <1>6. applied_funding(a, settlement) = b
    BY <1>1, <1>2, <1>3, <1>4 DEF applied_funding
  <1>7. b \in AccountType
    <2>1. a.cash + flow \in Int /\ a.funding - flow \in Int
      BY DEF AccountType
    <2> QED BY <2>1 DEF AccountType
  <1>8. /\ b.qty = a.qty /\ b.entry = a.entry /\ b.lev = a.lev
        /\ b.killed = a.killed
    BY DEF AccountType
  <1>9. b.qty = 0 => b = a
    <2>1. a.cash + 0 = a.cash /\ a.funding - 0 = a.funding
      BY DEF AccountType
    <2>2. flow = 0 => b = [a EXCEPT !.cash = a.cash, !.funding = a.funding]
      BY <2>1
    <2>3. [a EXCEPT !.cash = a.cash, !.funding = a.funding] = a
      BY DEF AccountType
    <2> QED BY <1>3, <1>5, <1>8, <2>2, <2>3
  <1>10. Conserved(a) => Conserved(b)
    <2>1. /\ b.cash = a.cash + flow /\ b.funding = a.funding - flow
          /\ b.realized = a.realized /\ b.fees = a.fees /\ b.penalty = a.penalty
      BY DEF AccountType
    <2> HIDE DEF b
    <2> QED BY <1>7, <2>1, Moved
  <1> QED BY <1>6, <1>7, <1>8, <1>9, <1>10

(* The entry of a position that grows is an average of positive prices. *)
LEMMA AverageEntry ==
  ASSUME NEW e \in Nat \ {0}, NEW px \in Nat \ {0}, NEW m \in Nat, NEW n \in Nat,
         m + n > 0
  PROVE  (e * m + px * n) \div (m + n) \in Nat \ {0}
  <1>1. e * m >= m /\ px * n >= n
    OBVIOUS
  <1>2. e * m + px * n \in Nat /\ e * m + px * n >= m + n
    BY <1>1
  <1>3. PICK total \in Nat, size \in Nat \ {0} :
          total = e * m + px * n /\ size = m + n /\ total >= size
    BY <1>2
  <1>4. total \div size \in Nat \ {0}
    BY <1>3
  <1> QED BY <1>3, <1>4

(* Where an order toward target takes a position: an order never overshoots *)
(* its target, so an order to flatten neither grows nor turns the position. *)
LEMMA Toward ==
  ASSUME NEW old \in Int, NEW target \in Int, NEW new \in Int,
         NEW dist \in Nat, dist = abs(target - old), NEW filled \in Nat,
         filled <= dist,
         \/ target > old /\ new = old + filled
         \/ target <= old /\ new = old - filled
  PROVE  /\ new # 0 /\ sign(new) # sign(old) => target # 0
         /\ abs(new) > abs(old) => target # 0
         /\ abs(new) > abs(old) /\ sign(new) = sign(old) => abs(new) = abs(old) + filled
         /\ filled = dist => new = target
  <1>1. CASE target > old
    BY <1>1 DEF abs, sign
  <1>2. CASE target <= old
    BY <1>2 DEF abs, sign
  <1> QED BY <1>1, <1>2

(* A priced fill on the way from a backed position to the quantity new, of   *)
(* an order whose target leverage lev, at most cap, means the quantity target. *)
Fills(a, fill, lev, cap, target, new) ==
  /\ Backed(a, cap) /\ abs(lev) <= cap /\ (lev = 0 => target = 0)
  /\ fill.fill_px > 0
  /\ fill.filled \in 0..abs(target - a.qty)
  /\ fill.cancelled = abs(target - a.qty) - fill.filled
  /\ new = a.qty + (IF target > a.qty THEN fill.filled ELSE -fill.filled)

(* An account with another position. *)
Repositioned(a, qty, entry, lev) ==
  [a EXCEPT !.qty = qty, !.entry = entry, !.lev = lev]

LEMMA RepositionedType ==
  ASSUME NEW a \in AccountType, NEW qty \in Int, NEW entry \in Int, NEW lev \in Nat
  PROVE  \E b \in AccountType :
           /\ b = Repositioned(a, qty, entry, lev)
           /\ b.qty = qty /\ b.entry = entry /\ b.lev = lev /\ b.killed = a.killed
           /\ b.cash = a.cash /\ b.funding = a.funding /\ b.realized = a.realized
           /\ b.fees = a.fees /\ b.penalty = a.penalty
  <1> DEFINE b == [a EXCEPT !.qty = qty, !.entry = entry, !.lev = lev]
  <1>1. b \in AccountType
    BY DEF AccountType
  <1>2. /\ b.qty = qty /\ b.entry = entry /\ b.lev = lev /\ b.killed = a.killed
        /\ b.cash = a.cash /\ b.funding = a.funding /\ b.realized = a.realized
        /\ b.fees = a.fees /\ b.penalty = a.penalty
    BY DEF AccountType
  <1>3. b = Repositioned(a, qty, entry, lev)
    BY DEF Repositioned
  <1> HIDE DEF b
  <1> QED BY <1>1, <1>2, <1>3

(* The position after a fill on the way to target: flat without an entry or  *)
(* a leverage, or with both (the three branches of _apply_position_fill).    *)
LEMMA PositionAfter ==
  ASSUME NEW a \in AccountType, NEW fill \in FillType, NEW lev \in Int,
         NEW cap \in Nat, NEW target \in Int, NEW new \in Int,
         Fills(a, fill, lev, cap, target, new)
  PROVE  \E e \in Int, l \in Nat :
           /\ position_after(a, new, fill, lev)
                = Repositioned(a, new, e, l)
           /\ IF new = 0 THEN e = 0 /\ l = 0 ELSE e > 0 /\ l \in 1..cap
  <1>1. PICK old \in Int, entry \in Int, oldlev \in Nat, filled \in Nat :
          old = a.qty /\ entry = a.entry /\ oldlev = a.lev /\ filled = fill.filled
    BY DEF AccountType, FillType
  <1>2. PICK px \in Nat \ {0} : px = fill.fill_px
    BY DEF FillType, Fills
  <1>3. IF old = 0 THEN entry = 0 /\ oldlev = 0
                   ELSE entry > 0 /\ oldlev \in 1..cap
    BY <1>1 DEF Backed, Fills
  <1>4. PICK dist \in Nat : dist = abs(target - old)
    BY AbsType
  <1>5. filled \in 0..dist /\ fill.cancelled = dist - filled
    BY <1>1, <1>4 DEF Fills
  <1>6. /\ new # 0 /\ sign(new) # sign(old) => target # 0
        /\ abs(new) > abs(old) => target # 0
        /\ abs(new) > abs(old) /\ sign(new) = sign(old)
             => abs(new) = abs(old) + filled
        /\ filled = dist => new = target
    <2>1. \/ target > old /\ new = old + filled
          \/ target <= old /\ new = old - filled
      BY <1>1 DEF Fills
    <2>2. filled <= dist
      BY <1>5
    <2> QED BY <1>4, <2>1, <2>2, Toward
  <1>7. PICK newlev \in Nat : newlev = abs(lev)
    BY AbsType
  <1>8. target # 0 => newlev \in 1..cap
    BY <1>7, AbsType DEF Fills
  <1>9. CASE new = 0
    <2>1. position_after(a, new, fill, lev)
            = Repositioned(a, new, 0, 0)
      BY <1>9 DEF position_after, Repositioned
    <2> QED BY <1>9, <2>1
  <1>10. CASE new # 0 /\ sign(new) # sign(old)
    <2>1. position_after(a, new, fill, lev)
            = Repositioned(a, new, px, newlev)
      BY <1>1, <1>2, <1>7, <1>10 DEF position_after, Repositioned
    <2>2. newlev \in 1..cap
      BY <1>6, <1>8, <1>10
    <2> WITNESS px \in Int, newlev \in Nat
    <2> QED BY <1>10, <2>1, <2>2
  <1>11. CASE new # 0 /\ sign(new) = sign(old) /\ abs(new) > abs(old)
    <2>1. newlev \in 1..cap
      BY <1>6, <1>8, <1>11
    <2>2. old # 0
      BY <1>11, SignType
    <2>3. PICK size \in Nat : size = abs(old)
      BY AbsType
    <2>4. size > 0
      BY <2>2, <2>3, AbsType
    <2>5. abs(new) = size + filled
      BY <1>6, <1>11, <2>3
    <2>6. entry \in Nat \ {0}
      BY <1>3, <2>2
    <2>7. (entry * size + px * filled) \div (size + filled) \in Nat \ {0}
      <3>1. size + filled > 0
        BY <2>4
      <3> QED BY <2>6, <3>1, AverageEntry
    <2>8. PICK e \in Nat \ {0} : e = (entry * size + px * filled) \div (size + filled)
      BY <2>7
    <2>9. position_after(a, new, fill, lev)
            = Repositioned(a, new, e, newlev)
      BY <1>1, <1>2, <1>7, <1>11, <2>3, <2>5, <2>8 DEF position_after, Repositioned
    <2>10. new # 0 /\ e > 0
      BY <1>11
    <2> HIDE <2>8
    <2> WITNESS e \in Int, newlev \in Nat
    <2> QED BY <2>1, <2>9, <2>10
  <1>12. CASE new # 0 /\ sign(new) = sign(old) /\ ~(abs(new) > abs(old))
    <2>1. old # 0
      BY <1>12, SignType
    <2>2. PICK l \in Nat : l = IF fill.cancelled = 0 THEN newlev ELSE oldlev
      OBVIOUS
    <2>3. l \in 1..cap
      <3>1. dist - filled = 0 => filled = dist
        BY <1>5
      <3>2. fill.cancelled = 0 => target # 0
        BY <1>6, <1>4, <1>5, <1>12, <3>1
      <3> QED BY <1>3, <1>8, <2>1, <2>2, <3>2
    <2>4. position_after(a, new, fill, lev)
            = Repositioned(a, new, entry, l)
      BY <1>1, <1>7, <1>12, <2>2 DEF position_after, Repositioned
    <2>5. entry > 0
      BY <1>3, <2>1
    <2> QED BY <1>12, <2>3, <2>4, <2>5
  <1> QED BY <1>9, <1>10, <1>11, <1>12

(* A fill moves cash by what it realises and its fee, and leaves a position *)
(* that is backed (_apply_position_fill).                                   *)
LEMMA FillKeeps ==
  ASSUME NEW a \in AccountType, NEW fill \in FillType, fill.fill_px > 0,
         NEW lev \in Int, NEW cap \in Nat, abs(lev) <= cap, Backed(a, cap),
         NEW target \in Int, lev = 0 => target = 0,
         fill.filled \in 0..abs(target - a.qty),
         fill.cancelled = abs(target - a.qty) - fill.filled,
         fill.side = (IF target - a.qty > 0 THEN "buy" ELSE "sell")
  PROVE  \E b \in AccountType :
           /\ b = apply_position_fill(a, fill, lev)
           /\ Backed(b, cap) /\ b.killed = a.killed
           /\ Conserved(a) => Conserved(b)
  <1>1. PICK old \in Int : old = a.qty
    BY DEF AccountType
  <1>2. PICK filled \in Nat : filled = fill.filled /\ filled \in 0..abs(target - a.qty)
    BY DEF FillType
  <1>3. PICK new \in Int : new = old + (IF target > old THEN filled ELSE -filled)
    OBVIOUS
  <1>4. target - old > 0 <=> target > old
    OBVIOUS
  <1>5. PICK signed \in Int : signed = IF fill.side = "buy" THEN filled ELSE -filled
    OBVIOUS
  <1>6. new = old + signed
    BY <1>1, <1>3, <1>4, <1>5
  <1>7. PICK closed \in Int : closed = closed_quantity(old, new, signed)
    <2>1. abs(old) \in Int /\ abs(signed) \in Int
      BY AbsType
    <2>2. smaller(abs(old), abs(signed)) \in Int
      BY <2>1, SmallerType
    <2> QED BY <2>2 DEF closed_quantity
  <1>8. PICK entry \in Int, px \in Int : entry = a.entry /\ px = fill.fill_px
    BY DEF AccountType, FillType
  <1>9. PICK realized \in Int :
          realized = IF closed = 0 THEN 0
                     ELSE realized_pnl_micro(sign(old), closed, entry, px)
    <2>1. sign(old) \in Int
      BY SignType
    <2> QED BY <2>1, RealizedType
  <1>10. PICK fee \in Int, value \in Int, ref_value \in Int :
           /\ fee = fill.fee /\ value = fill.notional
           /\ ref_value = fill.reference_notional
    BY DEF FillType
  <1>11. PICK cost \in Int : cost = abs(value - ref_value)
    BY AbsType
  <1> DEFINE booked == [a EXCEPT !.cash     = @ + realized - fee,
                               !.fees     = @ + fee,
                               !.realized = @ + realized,
                               !.turnover = @ + value,
                               !.fillcost = @ + cost]
  <1>12. apply_position_fill(a, fill, lev) = position_after(booked, new, fill, lev)
    BY <1>1, <1>2, <1>5, <1>6, <1>7, <1>8, <1>9, <1>10, <1>11
       DEF apply_position_fill
  <1>13. booked \in AccountType
    <2>1. /\ a.cash + realized - fee \in Int /\ a.fees + fee \in Int
          /\ a.realized + realized \in Int /\ a.turnover + value \in Int
          /\ a.fillcost + cost \in Int
      BY DEF AccountType
    <2> QED BY <2>1 DEF AccountType
  <1>14. /\ booked.qty = a.qty /\ booked.entry = a.entry /\ booked.lev = a.lev
         /\ booked.killed = a.killed
         /\ booked.cash = a.cash + realized - fee /\ booked.funding = a.funding
         /\ booked.realized = a.realized + realized /\ booked.fees = a.fees + fee
         /\ booked.penalty = a.penalty
    BY DEF AccountType
  <1> HIDE DEF booked
  <1>15. Backed(booked, cap)
    BY <1>14 DEF Backed
  <1>16. PICK p \in AccountType : p = booked
    BY <1>13
  <1>17. PICK e \in Int, l \in Nat :
           /\ position_after(p, new, fill, lev)
                = Repositioned(p, new, e, l)
           /\ IF new = 0 THEN e = 0 /\ l = 0 ELSE e > 0 /\ l \in 1..cap
    <2>1. p.qty = old /\ Backed(p, cap)
      BY <1>1, <1>14, <1>15, <1>16
    <2>2. Fills(p, fill, lev, cap, target, new)
      BY <1>1, <1>2, <1>3, <2>1 DEF Fills
    <2> QED BY <2>2, PositionAfter
  <1>18. PICK b \in AccountType :
           /\ b = Repositioned(p, new, e, l)
           /\ b.qty = new /\ b.entry = e /\ b.lev = l /\ b.killed = p.killed
           /\ b.cash = p.cash /\ b.funding = p.funding /\ b.realized = p.realized
           /\ b.fees = p.fees /\ b.penalty = p.penalty
    BY RepositionedType
  <1>19. b = apply_position_fill(a, fill, lev)
    BY <1>12, <1>16, <1>17, <1>18
  <1>20. Backed(b, cap)
    BY <1>17, <1>18 DEF Backed
  <1>21. Conserved(a) => Conserved(b)
    <2>1. /\ b.cash = a.cash + realized - fee /\ b.funding = a.funding
          /\ b.realized = a.realized + realized /\ b.fees = a.fees + fee
          /\ b.penalty = a.penalty
      BY <1>14, <1>16, <1>18
    <2> QED BY <2>1, Moved
  <1>22. b.killed = a.killed
    BY <1>14, <1>16, <1>18
  <1> QED BY <1>18, <1>19, <1>20, <1>21, <1>22

(* A forced close at a price leaves the account flat, and books what it      *)
(* realises and charges.                                                     *)
LEMMA LiquidatedKeeps ==
  ASSUME NEW a \in AccountType, NEW fill_bar \in Bar, NEW cap \in Nat
  PROVE  \E b \in AccountType :
           /\ b = liquidated(a, fill_bar)
           /\ b.qty = 0 /\ Backed(b, cap) /\ b.killed = a.killed
           /\ Conserved(a) => Conserved(b)
  <1> USE AccountAssumption
  <1>1. PICK qty \in Int, entry \in Int : qty = a.qty /\ entry = a.entry
    BY DEF AccountType
  <1>2. PICK s \in Int, size \in Int : s = sign(qty) /\ size = abs(qty)
    <2>1. sign(qty) \in Int /\ abs(qty) \in Int
      BY DEF sign, abs
    <2> QED BY <2>1
  <1>3. PICK px \in Int : px = conservative_liquidation_close_price(s, fill_bar)
    BY DEF conservative_liquidation_close_price, Bar
  <1>4. PICK realized \in Int : realized = realized_pnl_micro(s, size, entry, px)
    BY RealizedType
  <1>5. PICK value \in Int : value = notional_micro(qty, px)
    BY NotionalType
  <1>6. PICK rate \in Nat : rate = Market.liquidation_penalty
    BY DEF MarketSpec
  <1>7. PICK penalty \in Int : penalty = fee_micro(value, rate)
    BY FeeType
  <1> DEFINE b == [a EXCEPT !.qty = 0, !.entry = 0, !.lev = 0,
                            !.cash     = @ + realized - penalty,
                            !.realized = @ + realized,
                            !.penalty  = @ + penalty,
                            !.turnover = @ + value]
  <1>8. liquidated(a, fill_bar) = b
    BY <1>1, <1>2, <1>3, <1>4, <1>5, <1>6, <1>7
       DEF liquidated, realized_on_close, liquidation_penalty_micro
  <1>9. b \in AccountType
    <2> HIDE DEF b
    <2>0. a.cash \in Int /\ a.realized \in Int /\ a.penalty \in Int /\ a.turnover \in Int
      BY DEF AccountType
    <2>1. PICK c \in Int : c = a.cash + realized - penalty
      BY <2>0
    <2>2. PICK r \in Int : r = a.realized + realized
      BY <2>0
    <2>3. PICK p \in Int : p = a.penalty + penalty
      BY <2>0
    <2>4. PICK t \in Int : t = a.turnover + value
      BY <2>0
    <2>5. PICK c0 \in AccountType : c0 = Repositioned(a, 0, 0, 0)
      <3>1. \A n \in Int, m \in Int, l \in Nat : Repositioned(a, n, m, l) \in AccountType
        BY RepositionedType
      <3> QED BY <3>1
    <2> DEFINE d == [c0 EXCEPT !.cash = c, !.realized = r, !.penalty = p,
                               !.turnover = t]
    <2>6. d \in AccountType
      BY DEF AccountType
    <2>7. b = d
      BY <2>1, <2>2, <2>3, <2>4, <2>5 DEF AccountType, Repositioned, b
    <2> QED BY <2>6, <2>7
  <1>10. /\ b.qty = 0 /\ b.entry = 0 /\ b.lev = 0 /\ b.killed = a.killed
         /\ b.cash = a.cash + realized - penalty /\ b.funding = a.funding
         /\ b.realized = a.realized + realized /\ b.fees = a.fees
         /\ b.penalty = a.penalty + penalty
    BY DEF AccountType
  <1> HIDE DEF b
  <1>11. Conserved(a) => Conserved(b)
    BY <1>9, <1>10, Moved
  <1> QED BY <1>8, <1>9, <1>10, <1>11 DEF Backed

LEMMA KilledKeeps ==
  ASSUME NEW a \in AccountType, NEW fill_bar \in Bar, NEW cap \in Nat, NEW mult \in Nat,
         Backed(a, cap)
  PROVE  \E b \in AccountType :
           /\ b = killed(a, fill_bar, mult)
           /\ b.qty = 0 /\ Backed(b, cap) /\ b.killed
           /\ Conserved(a) => Conserved(b)
  <1> USE AccountAssumption
  <1>1. PICK qty \in Int, entry \in Int : qty = a.qty /\ entry = a.entry
    BY DEF AccountType
  <1>2. PICK s \in Int, size \in Int : s = sign(qty) /\ size = abs(qty)
    <2>1. sign(qty) \in Int /\ abs(qty) \in Int
      BY DEF sign, abs
    <2> QED BY <2>1
  <1>3. PICK px \in Int : px = fill_bar.c
    BY DEF Bar
  <1>4. PICK realized \in Int : realized = realized_pnl_micro(s, size, entry, px)
    BY RealizedType
  <1>5. PICK value \in Int : value = notional_micro(qty, px)
    BY NotionalType
  <1>6. PICK rate \in Nat : rate = apply_cost_multiplier(Market.taker_fee_rate, mult)
    BY MultiplierType DEF MarketSpec
  <1>7. PICK fee \in Int : fee = fee_micro(value, rate)
    BY FeeType
  <1>8. CASE qty = 0
    <2> DEFINE b == [a EXCEPT !.killed = TRUE]
    <2>1. killed(a, fill_bar, mult) = b
      BY <1>1, <1>8 DEF killed, flat
    <2>2. /\ b \in AccountType /\ b.qty = a.qty /\ b.entry = a.entry /\ b.lev = a.lev
          /\ b.killed /\ b.cash = a.cash /\ b.realized = a.realized
          /\ b.fees = a.fees /\ b.funding = a.funding /\ b.penalty = a.penalty
      BY DEF AccountType
    <2> HIDE DEF b
    <2>3. Conserved(a) => Conserved(b)
      BY <2>2 DEF Conserved
    <2>4. b.qty = 0 /\ Backed(b, cap)
      BY <1>1, <1>8, <2>2 DEF Backed
    <2> QED BY <2>1, <2>2, <2>3, <2>4
  <1>9. CASE qty # 0
    <2> DEFINE b == [a EXCEPT !.qty = 0, !.entry = 0, !.lev = 0,
                              !.cash     = @ + realized - fee,
                              !.realized = @ + realized,
                              !.fees     = @ + fee,
                              !.turnover = @ + value,
                              !.killed   = TRUE]
    <2>1. killed(a, fill_bar, mult) = b
      BY <1>1, <1>2, <1>3, <1>4, <1>5, <1>6, <1>7, <1>9
         DEF killed, flat, realized_on_close
    <2>2. b \in AccountType
      <3> HIDE DEF b
      <3>0. a.cash \in Int /\ a.realized \in Int /\ a.fees \in Int /\ a.turnover \in Int
        BY DEF AccountType
      <3>1. PICK c \in Int : c = a.cash + realized - fee
        BY <3>0
      <3>2. PICK r \in Int : r = a.realized + realized
        BY <3>0
      <3>3. PICK f \in Int : f = a.fees + fee
        BY <3>0
      <3>4. PICK t \in Int : t = a.turnover + value
        BY <3>0
      <3>5. PICK c0 \in AccountType : c0 = Repositioned(a, 0, 0, 0)
        <4>1. \A n \in Int, m \in Int, l \in Nat : Repositioned(a, n, m, l) \in AccountType
          BY RepositionedType
        <4> QED BY <4>1
      <3> DEFINE d == [c0 EXCEPT !.cash = c, !.realized = r, !.fees = f,
                                 !.turnover = t, !.killed = TRUE]
      <3>6. d \in AccountType
        BY DEF AccountType
      <3>7. b = d
        BY <3>1, <3>2, <3>3, <3>4, <3>5 DEF AccountType, Repositioned, b
      <3> QED BY <3>6, <3>7
    <2>3. /\ b.qty = 0 /\ b.entry = 0 /\ b.lev = 0 /\ b.killed
          /\ b.cash = a.cash + realized - fee /\ b.funding = a.funding
          /\ b.realized = a.realized + realized /\ b.fees = a.fees + fee
          /\ b.penalty = a.penalty
      BY DEF AccountType
    <2> HIDE DEF b
    <2>4. Conserved(a) => Conserved(b)
      BY <2>2, <2>3, Moved
    <2> QED BY <2>1, <2>2, <2>3, <2>4 DEF Backed
  <1> QED BY <1>8, <1>9

-----------------------------------------------------------------------------
(* The snapshot of a backed account is a row, conserved if the account is. *)

LEMMA MaintenanceRateType ==
  ASSUME NEW notional \in Int
  PROVE  maintenance_rate(notional) \in 0..(RateScale - 1)
  <1> DEFINE tiers     == Market.margin_tiers
             too_small == {i \in DOMAIN tiers : \A j \in 1..i : notional > tiers[j].cap}
             n         == smaller(Cardinality(too_small) + 1, Len(tiers))
  <1>1. /\ tiers \in Seq([cap : Nat, rate : 0..(RateScale - 1)])
        /\ Len(tiers) > 0
    BY AccountAssumption DEF MarketSpec
  <1>2. Len(tiers) \in Nat /\ DOMAIN tiers = 1..Len(tiers)
    BY <1>1
  <1>3. IsFiniteSet(1..Len(tiers))
    BY <1>2, FS_Interval
  <1>4. IsFiniteSet(too_small)
    BY <1>2, <1>3, FS_Subset
  <1>5. Cardinality(too_small) \in Nat
    BY <1>4, FS_CardinalityType
  <1>6. n \in 1..Len(tiers)
    <2> HIDE DEF too_small, tiers
    <2> QED BY <1>1, <1>2, <1>5 DEF smaller
  <1>7. tiers[n] \in [cap : Nat, rate : 0..(RateScale - 1)]
    <2> DEFINE Tier == [cap : Nat, rate : 0..(RateScale - 1)]
    <2> HIDE DEF n, tiers, Tier
    <2>1. tiers \in Seq(Tier)
      BY <1>1 DEF Tier
    <2>2. tiers[n] \in Tier
      BY <1>6, <2>1
    <2> QED BY <2>2 DEF Tier
  <1>8. tiers[n].rate \in 0..(RateScale - 1)
    BY <1>7
  <1> QED BY <1>8 DEF maintenance_rate

LEMMA LiquidationPriceType ==
  ASSUME NEW entry \in Int, NEW s \in Int, NEW lev \in Nat \ {0},
         NEW rate \in 0..(RateScale - 1)
  PROVE  liquidation_price_ticks(entry, s, lev, rate) \in Int
  <1> USE ScalesArePositive
  <1>1. rate \in Nat /\ RateScale - rate \in Nat \ {0} /\ RateScale + rate \in Nat \ {0}
    OBVIOUS
  <1>2. lev * (RateScale - rate) \in Nat \ {0}
    BY <1>1, PosProduct
  <1>3. lev * (RateScale + rate) \in Nat \ {0}
    BY <1>1, PosProduct
  <1>4. /\ entry * (lev - LevScale) * RateScale \in Int
        /\ entry * (lev + LevScale) * RateScale \in Int
    OBVIOUS
  <1>5. ceil_fraction(entry * (lev - LevScale) * RateScale,
                      lev * (RateScale - rate)) \in Int
    BY <1>2, <1>4, CeilType
  <1>6. floor_fraction(entry * (lev + LevScale) * RateScale,
                       lev * (RateScale + rate)) \in Int
    BY <1>3, <1>4, FloorType
  <1> QED BY <1>5, <1>6 DEF liquidation_price_ticks

LEMMA MarginType ==
  ASSUME NEW qty \in Int, NEW entry \in Int, NEW lev \in Nat \ {0}
  PROVE  margin_used_micro(qty, entry, lev) \in Int
  <1> USE ScalesArePositive
  <1>1. QtyScale * lev \in Nat \ {0}
    BY PosProduct
  <1>2. abs(qty) * entry * TickSize * LevScale \in Int
    BY AbsType
  <1>3. floor_fraction(abs(qty) * entry * TickSize * LevScale, QtyScale * lev) \in Int
    BY <1>1, <1>2, FloorType
  <1> QED BY <1>3 DEF margin_used_micro

LEMMA SnapshotType ==
  ASSUME NEW a \in AccountType, NEW cap \in Nat, Backed(a, cap),
         NEW fill_bar, fill_bar.c \in Nat \ {0}
  PROVE  \E row \in RowType :
           /\ row = snapshot(a, fill_bar)
           /\ Conserved(a) => Conserved(row)
           /\ /\ row.cash = a.cash /\ row.qty = a.qty
              /\ row.fees = a.fees /\ row.penalty = a.penalty
           /\ a.qty = 0 => row.nav = a.cash
  <1>1. PICK qty \in Int, entry \in Int, lev \in Nat, cash \in Int, c \in Int :
          qty = a.qty /\ entry = a.entry /\ lev = a.lev /\ cash = a.cash /\ c = fill_bar.c
    BY DEF AccountType
  <1>2. qty # 0 => lev \in Nat \ {0}
    BY <1>1 DEF Backed
  <1>3. PICK profit \in Int : profit = upnl(a, c) /\ (qty = 0 => profit = 0)
    BY <1>1, UpnlType DEF upnl, flat
  <1>4. PICK nav \in Int : nav = cash + profit
    OBVIOUS
  <1>5. PICK value \in Int : value = notional_micro(qty, c)
    BY NotionalType
  <1>6. PICK rate \in 0..(RateScale - 1) : rate = maintenance_rate(value)
    BY MaintenanceRateType
  <1>7. PICK s \in Int : s = sign(qty)
    BY SignType
  <1>8. PICK margin \in Int :
          margin = IF qty = 0 THEN 0 ELSE margin_used_micro(qty, entry, lev)
    BY <1>2, MarginType
  <1>9. PICK liq \in Int :
          liq = IF qty = 0 THEN 0 ELSE liquidation_price_ticks(entry, s, lev, rate)
    BY <1>2, LiquidationPriceType
  <1> DEFINE row ==
        [qty |-> qty, entry |-> entry, mark |-> c, upnl |-> profit, cash |-> cash,
         nav |-> nav, fees |-> a.fees, funding |-> a.funding,
         realized |-> a.realized, penalty |-> a.penalty,
         margin |-> margin, liq_px |-> liq]
  <1>10. snapshot(a, fill_bar) = row
    BY <1>1, <1>3, <1>4, <1>5, <1>6, <1>7, <1>8, <1>9
       DEF snapshot, flat, equity, liquidation_px
  <1>11. row \in RowType
    BY DEF RowType, AccountType
  <1>12. Conserved(a) => Conserved(row)
    BY <1>1 DEF Conserved
  <1>13. qty = 0 => nav = cash
    BY <1>3, <1>4
  <1> QED BY <1>1, <1>10, <1>11, <1>12, <1>13

-----------------------------------------------------------------------------
(* The episode. *)

Cap == smaller(Market.leverage_cap, GrossCap)

(* Within a turn the tape holds its bar and decision; the primary profile    *)
(* writes the tape as it goes.                                               *)
TapeReaches ==
  /\ stage \in {"carry", "order", "hold", "mark", "close"} => turn < Len(tape)
  /\ profile = "primary" => Len(tape) = IF stage = "decide" THEN turn ELSE turn + 1

AccountSound ==
  /\ Conserved(account)
  /\ Backed(account, Cap)
  /\ KilledStaysFlat

RowsSound ==
  /\ Len(rows[profile]) > 0
  /\ \A p \in Profiles : \A i \in DOMAIN rows[p] : Conserved(rows[p][i])

(***************************************************************************)
(* The inductive invariant.  CashConserved alone is not inductive: a fill  *)
(* is exact only for a position with an entry, a bar is only in play while *)
(* the tape reaches it, and a killed account is safe because its position  *)
(* cannot be other than zero when the gates let only a flattening through. *)
(***************************************************************************)
IInv == TypeOK /\ TapeReaches /\ AccountSound /\ RowsSound

-----------------------------------------------------------------------------
(* What the state of a turn offers its actions. *)

LEMMA CapType == Cap \in Nat
  <1>1. Market.leverage_cap \in Nat /\ GrossCap \in Nat
    BY AccountAssumption, EpisodeAssumption DEF MarketSpec
  <1> QED BY <1>1 DEF Cap, smaller

LEMMA TurnInRange ==
  ASSUME TypeOK
  PROVE  turn \in Nat /\ BarsTotal \in Nat /\ turn < BarsTotal
  <1>1. turn \in 0..(BarsTotal - 1) /\ BarsTotal \in Nat
    BY EpisodeAssumption DEF TypeOK
  <1> QED BY <1>1

LEMMA BarInPlay ==
  ASSUME TypeOK, turn < Len(tape)
  PROVE  /\ bar \in Bar /\ bar.c \in Nat \ {0} /\ bar.o \in Nat \ {0} /\ bar.v \in Nat
         /\ decision \in Decision /\ decision.lev \in Int
         /\ decision_mark \in Int
  <1>1. tape \in Seq(TurnType) /\ turn \in Nat
    <2>1. tape \in Seq(TurnType) /\ turn \in 0..(BarsTotal - 1) /\ BarsTotal \in Nat
      BY EpisodeAssumption DEF TypeOK
    <2> QED BY <2>1
  <1>2. turn + 1 \in 1..Len(tape) /\ (turn # 0 => turn \in 1..Len(tape))
    BY <1>1
  <1>3. tape[turn + 1] \in TurnType
    BY <1>1, <1>2
  <1>4. turn # 0 => tape[turn] \in TurnType
    BY <1>1, <1>2
  <1>5. bar \in Bar /\ decision \in Decision
    BY <1>3, EpisodeAssumption DEF bar, decision, TurnType
  <1>6. turn # 0 => tape[turn].bar \in Bar
    BY <1>4, EpisodeAssumption DEF TurnType
  <1>7. decision_mark \in Int
    BY <1>6, EpisodeAssumption DEF decision_mark, Bar
  <1> QED BY <1>5, <1>7 DEF Bar, Decision

(* What passing the gates means for the order that follows. *)
LEMMA PassedGates ==
  ASSUME TypeOK, turn < Len(tape), failed_gates = {}
  PROVE  abs(decision.lev) <= Cap /\ (account.killed => decision.lev = 0)
  <1>1. \A g \in DOMAIN gate_passes : gate_passes[g]
    BY DEF failed_gates
  <1>2. /\ gate_passes.leverage_cap_market /\ gate_passes.leverage_cap_gross
        /\ gate_passes.drawdown_kill_switch
    BY <1>1 DEF gate_passes
  <1>3. /\ abs(decision.lev) <= Market.leverage_cap
        /\ abs(decision.lev) <= GrossCap
        /\ ~account.killed \/ decision.lev = 0
    BY <1>2 DEF gate_passes
  <1> QED BY <1>3 DEF Cap, smaller

(* The quantity an order asks for, as a number. *)
LEMMA Requested ==
  ASSUME TypeOK, turn < Len(tape)
  PROVE  \E target \in Int :
           /\ decision.lev = 0 => target = 0
           /\ requested_delta = target - account.qty
  <1>1. PICK mark \in Int, lev \in Int, px \in Nat \ {0} :
          mark = decision_mark /\ lev = decision.lev /\ px = bar.o
    BY BarInPlay
  <1>2. PICK nav \in Int : nav = nav_at_decision
    <2>1. PICK a \in AccountType : a = account
      BY DEF TypeOK
    <2>2. upnl(a, mark) \in Int /\ a.cash \in Int
      BY UpnlType DEF AccountType
    <2>3. a.cash + upnl(a, mark) \in Int
      BY <2>2
    <2> QED BY <1>1, <2>1, <2>3 DEF nav_at_decision, equity
  <1>3. PICK target \in Int : target = target_quantity(lev, nav, px)
    BY TargetType
  <1>4. lev = 0 => target = 0
    BY <1>3, ZeroTarget
  <1> QED BY <1>1, <1>2, <1>3, <1>4 DEF requested_delta

LEMMA MultiplierNow ==
  ASSUME TypeOK
  PROVE  multiplier \in Nat
  BY ScalesArePositive, EpisodeAssumption DEF multiplier

(* An order that is filled leaves a sound account, and a killed profile has *)
(* none to fill: its gates let only a flattening through and it is flat.    *)
LEMMA FilledOrder ==
  ASSUME TypeOK, turn < Len(tape), AccountSound, Priced
  PROVE  \E b \in AccountType :
           /\ b = apply_position_fill(account, order_fill, decision.lev)
           /\ Conserved(b) /\ Backed(b, Cap) /\ ~b.killed /\ ~account.killed
  <1>1. PICK target \in Int : /\ decision.lev = 0 => target = 0
                              /\ requested_delta = target - account.qty
    BY Requested
  <1>2. PICK a \in AccountType, old \in Int : a = account /\ old = a.qty
    BY DEF TypeOK, AccountType
  <1>3. PICK lev \in Int, px \in Nat \ {0}, volume \in Nat :
          lev = decision.lev /\ px = bar.o /\ volume = bar.v
    BY BarInPlay
  <1>4. abs(lev) <= Cap /\ (a.killed => lev = 0)
    BY <1>2, <1>3, PassedGates DEF Priced, Passed
  <1>5. PICK dist \in Nat : dist = abs(target - old)
    BY AbsType
  <1>6. PICK side \in {"buy", "sell"} : side = IF target - old > 0 THEN "buy" ELSE "sell"
    OBVIOUS
  <1>7. PICK mult \in Nat : mult = multiplier
    BY MultiplierNow
  <1>8. PICK fill \in FillType :
          /\ fill = calculate_fill(side, dist, volume, px, Market, mult)
          /\ fill.side = side
          /\ fill.filled \in 0..dist
          /\ fill.cancelled = dist - fill.filled
    <2>1. PICK market \in MarketSpec : market = Market
      BY AccountAssumption
    <2>2. FillOf(calculate_fill(side, dist, volume, px, market, mult), side, dist)
      BY CalculatedFill
    <2> QED BY <2>1, <2>2 DEF FillOf
  <1>9. order_fill = fill
    BY <1>1, <1>2, <1>3, <1>5, <1>6, <1>7, <1>8 DEF order_fill
  <1>10. fill.fill_px > 0
    BY <1>9 DEF Priced, FillIsPriced
  <1>11. PICK cap \in Nat : cap = Cap
    BY CapType
  <1>12. PICK b \in AccountType :
           /\ b = apply_position_fill(a, fill, lev)
           /\ Backed(b, cap) /\ b.killed = a.killed
           /\ Conserved(a) => Conserved(b)
    <2>1. /\ abs(lev) <= cap /\ Backed(a, cap) /\ (lev = 0 => target = 0)
          /\ fill.filled \in 0..abs(target - a.qty)
          /\ fill.cancelled = abs(target - a.qty) - fill.filled
          /\ fill.side = (IF target - a.qty > 0 THEN "buy" ELSE "sell")
      BY <1>1, <1>2, <1>3, <1>4, <1>5, <1>6, <1>8, <1>11 DEF AccountSound
    <2> QED BY <1>10, <2>1, FillKeeps
  <1>13. ~a.killed
    <2> SUFFICES ASSUME a.killed PROVE FALSE
      OBVIOUS
    <2>1. old = 0
      BY <1>2 DEF AccountSound, KilledStaysFlat, flat
    <2>2. target = 0
      BY <1>1, <1>3, <1>4
    <2>3. requested_delta # 0
      BY DEF Priced
    <2> QED BY <1>1, <1>2, <2>1, <2>2, <2>3
  <1> QED BY <1>2, <1>3, <1>9, <1>11, <1>12, <1>13 DEF AccountSound

(* Keeping the quantity and taking over the leverage of a decision. *)
LEMMA Releveraged ==
  ASSUME TypeOK, turn < Len(tape), AccountSound, Passed, requested_delta = 0,
         account.qty # 0
  PROVE  \E b \in AccountType :
           /\ b = [account EXCEPT !.lev = abs(decision.lev)]
           /\ Conserved(b) /\ Backed(b, Cap) /\ ~b.killed
  <1>1. PICK target \in Int : /\ decision.lev = 0 => target = 0
                              /\ requested_delta = target - account.qty
    BY Requested
  <1>2. PICK a \in AccountType, qty \in Int : a = account /\ qty = a.qty
    BY DEF TypeOK, AccountType
  <1>3. PICK lev \in Int : lev = decision.lev
    BY BarInPlay
  <1>4. abs(lev) <= Cap /\ (a.killed => lev = 0)
    BY <1>2, <1>3, PassedGates DEF Passed
  <1>5. lev # 0
    BY <1>1, <1>2, <1>3
  <1>6. PICK cap \in Nat : cap = Cap
    BY CapType
  <1>7. PICK l \in Nat : l = abs(lev) /\ l > 0
    BY <1>5, AbsType
  <1> DEFINE b == [a EXCEPT !.lev = l]
  <1>8. b \in AccountType
    BY DEF AccountType
  <1>9. /\ b.lev = l /\ b.qty = a.qty /\ b.entry = a.entry /\ b.killed = a.killed
        /\ b.cash = a.cash /\ b.realized = a.realized /\ b.fees = a.fees
        /\ b.funding = a.funding /\ b.penalty = a.penalty
    BY DEF AccountType
  <1>10. b = [account EXCEPT !.lev = abs(decision.lev)]
    BY <1>2, <1>3, <1>7
  <1> HIDE DEF b
  <1>11. Conserved(b)
    BY <1>2, <1>9 DEF AccountSound, Conserved
  <1>12. Backed(b, Cap)
    <2>1. l \in 1..cap
      BY <1>4, <1>6, <1>7
    <2>2. a.entry > 0
      BY <1>2 DEF AccountSound, Backed
    <2> QED BY <1>2, <1>6, <1>9, <2>1, <2>2 DEF Backed
  <1>13. ~b.killed
    BY <1>4, <1>5, <1>9
  <1> QED BY <1>8, <1>10, <1>11, <1>12, <1>13

(* Two ways to change the rows: a row more, the last row taken again. *)
LEMMA RowAppended ==
  ASSUME TypeOK, RowsSound, NEW row \in RowType, Conserved(row),
         rows' = [rows EXCEPT ![profile] = Append(@, row)], profile' = profile
  PROVE  rows' \in [Profiles -> Seq(RowType)] /\ RowsSound'
  <1>1. rows \in [Profiles -> Seq(RowType)] /\ profile \in Profiles
    BY DEF TypeOK
  <1>2. PICK old \in Seq(RowType) : old = rows[profile]
    BY <1>1
  <1>3. PICK new \in Seq(RowType) : new = Append(old, row)
    BY AppendProperties
  <1>4. rows' = [rows EXCEPT ![profile] = new]
    BY <1>2, <1>3
  <1>5. rows' \in [Profiles -> Seq(RowType)] /\ rows'[profile'] = new
    BY <1>1, <1>4
  <1>6. Len(new) > 0
    BY <1>3
  <1>7. \A i \in DOMAIN new : Conserved(new[i])
    <2> SUFFICES ASSUME NEW i \in DOMAIN new PROVE Conserved(new[i])
      OBVIOUS
    <2>1. CASE i \in DOMAIN old
      <3>1. new[i] = old[i]
        BY <1>3, <2>1
      <3>2. Conserved(old[i])
        BY <1>1, <1>2, <2>1 DEF RowsSound
      <3> QED BY <3>1, <3>2
    <2>2. CASE i \notin DOMAIN old
      <3>1. new[i] = row
        BY <1>3, <2>2
      <3> QED BY <3>1
    <2> QED BY <2>1, <2>2
  <1>8. \A p \in Profiles : \A i \in DOMAIN rows'[p] : Conserved(rows'[p][i])
    <2> SUFFICES ASSUME NEW p \in Profiles, NEW i \in DOMAIN rows'[p]
                 PROVE Conserved(rows'[p][i])
      OBVIOUS
    <2>1. CASE p = profile
      <3>1. rows'[p] = new
        BY <1>1, <1>4, <2>1
      <3> QED BY <1>7, <3>1
    <2>2. CASE p # profile
      <3>1. rows'[p] = rows[p]
        BY <1>1, <1>4, <2>2
      <3> QED BY <3>1 DEF RowsSound
    <2> QED BY <2>1, <2>2
  <1> QED BY <1>5, <1>6, <1>8 DEF RowsSound, Conserved

LEMMA RowRetaken ==
  ASSUME TypeOK, RowsSound, NEW row \in RowType, Conserved(row),
         rows' = [rows EXCEPT ![profile][Len(rows[profile])] = row],
         profile' = profile
  PROVE  rows' \in [Profiles -> Seq(RowType)] /\ RowsSound'
  <1>1. rows \in [Profiles -> Seq(RowType)] /\ profile \in Profiles
    BY DEF TypeOK
  <1>2. PICK old \in Seq(RowType) : old = rows[profile] /\ Len(old) > 0
    BY <1>1 DEF RowsSound
  <1>3. PICK n \in Nat : n = Len(old) /\ n \in DOMAIN old
    BY <1>2
  <1>4. PICK new \in Seq(RowType) : new = [old EXCEPT ![n] = row]
    <2>1. n \in 1..Len(old)
      BY <1>2, <1>3
    <2> QED BY <2>1, ExceptSeq
  <1>5. rows' = [rows EXCEPT ![profile] = new]
    BY <1>2, <1>3, <1>4
  <1>6. rows' \in [Profiles -> Seq(RowType)] /\ rows'[profile'] = new
    BY <1>1, <1>5
  <1>7. Len(new) > 0 /\ DOMAIN new = DOMAIN old
    BY <1>2, <1>4
  <1>8. \A i \in DOMAIN new : Conserved(new[i])
    <2> SUFFICES ASSUME NEW i \in DOMAIN new PROVE Conserved(new[i])
      OBVIOUS
    <2>1. CASE i = n
      <3>1. new[i] = row
        BY <1>3, <1>4, <2>1
      <3> QED BY <3>1
    <2>2. CASE i # n
      <3>1. new[i] = old[i] /\ i \in DOMAIN old
        BY <1>4, <1>7, <2>2
      <3>2. Conserved(old[i])
        BY <1>1, <1>2, <3>1 DEF RowsSound
      <3> QED BY <3>1, <3>2
    <2> QED BY <2>1, <2>2
  <1>9. \A p \in Profiles : \A i \in DOMAIN rows'[p] : Conserved(rows'[p][i])
    <2> SUFFICES ASSUME NEW p \in Profiles, NEW i \in DOMAIN rows'[p]
                 PROVE Conserved(rows'[p][i])
      OBVIOUS
    <2>1. CASE p = profile
      <3>1. rows'[p] = new
        BY <1>1, <1>5, <2>1
      <3> QED BY <1>8, <3>1
    <2>2. CASE p # profile
      <3>1. rows'[p] = rows[p]
        BY <1>1, <1>5, <2>2
      <3> QED BY <3>1 DEF RowsSound
    <2> QED BY <2>1, <2>2
  <1> QED BY <1>6, <1>7, <1>9 DEF RowsSound, Conserved

(* A step that leaves the account and the rows alone keeps them sound. *)
LEMMA Quiet ==
  ASSUME AccountSound, RowsSound, UNCHANGED <<profile, account, rows>>
  PROVE  AccountSound' /\ RowsSound'
  BY DEF AccountSound, RowsSound, Conserved, Backed, Cap, KilledStaysFlat, flat

-----------------------------------------------------------------------------
(* The invariant holds at the start, and every action keeps it. *)

LEMMA OpeningRow ==
  \E row \in RowType : row = opening_row /\ Conserved(row)
  <1>1. /\ StartNav \in Int
        /\ opened_account \in AccountType /\ opened_account.qty = 0
        /\ Backed(opened_account, Cap) /\ Conserved(opened_account)
    BY AccountAssumption DEF opened_account, AccountType, Backed, Conserved
  <1> DEFINE b == [c |-> OpeningMark]
  <1>2. b.c \in Nat \ {0}
    BY EpisodeAssumption
  <1> HIDE DEF b
  <1>3. PICK row \in RowType : row = snapshot(opened_account, b) /\ Conserved(row)
    <2>1. PICK a \in AccountType : a = opened_account
      BY <1>1
    <2>2. PICK cap \in Nat : cap = Cap
      BY CapType
    <2>3. Backed(a, cap) /\ Conserved(a)
      BY <1>1, <2>1, <2>2
    <2> QED BY <1>2, <2>1, <2>3, SnapshotType
  <1> QED BY <1>3 DEF opening_row, b

LEMMA OpenedSound ==
  /\ opened_account \in AccountType
  /\ Conserved(opened_account) /\ Backed(opened_account, Cap)
  /\ ~opened_account.killed
  BY AccountAssumption DEF opened_account, AccountType, Backed, Conserved

LEMMA InitIInv == Init => IInv
  <1> SUFFICES ASSUME Init PROVE IInv
    OBVIOUS
  <1> USE DEF Init
  <1>1. PICK row \in RowType : row = opening_row /\ Conserved(row)
    BY OpeningRow
  <1>2. PICK first \in Seq(RowType), none \in Seq(RowType) :
          /\ first = <<row>> /\ none = <<>>
    <2>1. <<row>> \in Seq(RowType) /\ << >> \in Seq(RowType)
      OBVIOUS
    <2> QED BY <2>1
  <1>3. rows = [p \in Profiles |-> IF p = "primary" THEN first ELSE none]
    BY <1>1, <1>2
  <1>4. TypeOK
    <2>1. rows \in [Profiles -> Seq(RowType)]
      BY <1>3
    <2>2. no_counts \in CountsType
      BY DEF no_counts, CountsType
    <2>3. counters \in [Profiles -> CountsType]
      BY <2>2
    <2>4. turn \in 0..(BarsTotal - 1) /\ paid \in Nat
      BY EpisodeAssumption
    <2>5. account \in AccountType
      BY OpenedSound
    <2>6. tape \in Seq(TurnType)
      OBVIOUS
    <2> QED BY <2>1, <2>3, <2>4, <2>5, <2>6 DEF TypeOK, Profiles, Stages
  <1>5. TapeReaches
    BY DEF TapeReaches
  <1>6. AccountSound
    BY OpenedSound DEF AccountSound, KilledStaysFlat
  <1>7. RowsSound
    <2>1. rows["primary"] = first /\ rows["stress_2x"] = none
      BY <1>3 DEF Profiles
    <2>2. Len(rows[profile]) > 0
      <3>1. Len(first) > 0
        BY <1>2
      <3>2. rows[profile] = first
        BY <2>1
      <3> HIDE DEF Init
      <3> QED BY <3>1, <3>2
    <2>3. \A i \in DOMAIN first : Conserved(first[i])
      BY <1>1, <1>2
    <2>4. DOMAIN none = {}
      BY <1>2
    <2> QED BY <2>1, <2>2, <2>3, <2>4 DEF RowsSound, Profiles
  <1> QED BY <1>4, <1>5, <1>6, <1>7 DEF IInv

LEMMA CountedType ==
  ASSUME NEW c \in CountsType, NEW dec
  PROVE  counted(c, dec) \in CountsType
  <1>1. PICK turns \in Nat, missed \in Nat, invalid \in Nat :
          /\ turns = c.turns + 1
          /\ missed = IF dec.kind = "missed" THEN c.missed + 1 ELSE c.missed
          /\ invalid = IF dec.kind = "invalid" THEN c.invalid + 1 ELSE c.invalid
    BY DEF CountsType
  <1>2. counted(c, dec)
          = [c EXCEPT !.turns = turns, !.missed = missed, !.invalid = invalid]
    BY <1>1 DEF counted
  <1> QED BY <1>2 DEF CountsType

LEMMA DecideKeeps == IInv /\ Decide => IInv'
  <1> SUFFICES ASSUME IInv, Decide PROVE IInv'
    OBVIOUS
  <1>1. TypeOK /\ TapeReaches /\ AccountSound /\ RowsSound
    BY DEF IInv
  <1>2. PICK b \in Bars, dec \in Decisions :
          /\ tape' = Append(tape, [bar |-> b, decision |-> dec])
          /\ counters' = [counters EXCEPT !["primary"] = counted(@, dec)]
    BY DEF Decide
  <1>3. tape' \in Seq(TurnType) /\ Len(tape') = Len(tape) + 1 /\ Len(tape) \in Nat
    <2>1. tape \in Seq(TurnType)
      BY <1>1 DEF TypeOK
    <2>2. PICK entry \in TurnType : entry = [bar |-> b, decision |-> dec]
      BY DEF TurnType
    <2> QED BY <1>2, <2>1, <2>2, AppendProperties, LenProperties
  <1>4. counters' \in [Profiles -> CountsType]
    <2>1. counters \in [Profiles -> CountsType] /\ "primary" \in Profiles
      BY <1>1 DEF TypeOK, Profiles
    <2>2. counted(counters["primary"], dec) \in CountsType
      BY <2>1, CountedType
    <2> QED BY <1>2, <2>1, <2>2
  <1>5. TypeOK'
    BY <1>1, <1>3, <1>4 DEF TypeOK, Decide, Stages
  <1>6. TapeReaches'
    <2>1. turn \in Nat
      BY <1>1, TurnInRange
    <2>2. Len(tape) = turn
      BY <1>1 DEF TapeReaches, Decide
    <2> QED BY <1>3, <2>1, <2>2 DEF TapeReaches, Decide
  <1>7. AccountSound' /\ RowsSound'
    BY <1>1, Quiet DEF Decide
  <1> QED BY <1>5, <1>6, <1>7 DEF IInv

LEMMA RedecideKeeps == IInv /\ Redecide => IInv'
  <1> SUFFICES ASSUME IInv, Redecide PROVE IInv'
    OBVIOUS
  <1>1. TypeOK /\ TapeReaches /\ AccountSound /\ RowsSound
    BY DEF IInv
  <1>2. counters' \in [Profiles -> CountsType]
    <2>1. counters \in [Profiles -> CountsType] /\ "stress_2x" \in Profiles
      BY <1>1 DEF TypeOK, Profiles
    <2>2. counted(counters["stress_2x"], decision) \in CountsType
      BY <2>1, CountedType
    <2> QED BY <2>1, <2>2 DEF Redecide
  <1>3. TypeOK'
    BY <1>1, <1>2 DEF TypeOK, Redecide, Stages
  <1>4. TapeReaches'
    BY <1>1 DEF TapeReaches, Redecide
  <1>5. AccountSound' /\ RowsSound'
    BY <1>1, Quiet DEF Redecide
  <1> QED BY <1>3, <1>4, <1>5 DEF IInv

LEMMA TraceEndsKeeps == IInv /\ TraceEnds => IInv'
  <1> SUFFICES ASSUME IInv, TraceEnds PROVE IInv'
    OBVIOUS
  <1>1. TypeOK /\ TapeReaches /\ AccountSound /\ RowsSound
    BY DEF IInv
  <1>2. TypeOK' /\ TapeReaches'
    BY <1>1 DEF TypeOK, TapeReaches, TraceEnds, Raise, Stages
  <1>3. AccountSound' /\ RowsSound'
    BY <1>1, Quiet DEF TraceEnds
  <1> QED BY <1>2, <1>3 DEF IInv

(* A settlement keeps the account sound, and changes nothing of a flat one. *)
LEMMA SettlementKeeps ==
  ASSUME TypeOK, AccountSound, NEW settlement \in Settlement,
         account' = applied_funding(account, settlement)
  PROVE  /\ account' \in AccountType /\ AccountSound'
         /\ account.killed => account' = account
         /\ account'.killed = account.killed
  <1>1. PICK a \in AccountType : a = account
    BY DEF TypeOK
  <1>2. PICK b \in AccountType :
          /\ b = applied_funding(a, settlement)
          /\ b.qty = a.qty /\ b.entry = a.entry /\ b.lev = a.lev
          /\ b.killed = a.killed
          /\ b.qty = 0 => b = a
          /\ Conserved(a) => Conserved(b)
    BY FundingKeeps
  <1>3. b = account'
    BY <1>1, <1>2
  <1>4. Conserved(b) /\ Backed(b, Cap) /\ (b.killed => b.qty = 0)
    BY <1>1, <1>2 DEF AccountSound, Backed, KilledStaysFlat, flat
  <1>5. AccountSound'
    BY <1>3, <1>4 DEF AccountSound, KilledStaysFlat, flat, Conserved, Backed, Cap
  <1>6. account.killed => account' = account
    BY <1>1, <1>2, <1>3, <1>4
  <1>7. account'.killed = account.killed
    BY <1>1, <1>2, <1>3
  <1> QED BY <1>3, <1>5, <1>6, <1>7

LEMMA CarryFundingKeeps == IInv /\ CarryFunding => IInv'
  <1> SUFFICES ASSUME IInv, CarryFunding PROVE IInv'
    OBVIOUS
  <1>1. TypeOK /\ TapeReaches /\ AccountSound /\ RowsSound
    BY DEF IInv
  <1>2. account' \in AccountType /\ AccountSound'
    <2>1. CASE bar.at_open = <<>>
      BY <1>1, <2>1, Quiet DEF CarryFunding, TypeOK
    <2>2. CASE bar.at_open # <<>>
      <3>1. turn < Len(tape)
        BY <1>1 DEF TapeReaches, CarryFunding
      <3>2. bar.at_open \in Seq(Settlement)
        BY <1>1, <3>1, BarInPlay DEF Bar
      <3>3. bar.at_open[1] \in Settlement
        BY <2>2, <3>2
      <3> QED BY <1>1, <2>2, <3>3, SettlementKeeps DEF CarryFunding
    <2> QED BY <2>1, <2>2
  <1>3. RowsSound'
    BY <1>1 DEF RowsSound, Conserved, CarryFunding
  <1>4. TypeOK' /\ TapeReaches'
    BY <1>1, <1>2 DEF TypeOK, TapeReaches, CarryFunding, Stages
  <1> QED BY <1>2, <1>3, <1>4 DEF IInv

LEMMA NoOrderKeeps == IInv /\ NoOrder => IInv'
  <1> SUFFICES ASSUME IInv, NoOrder PROVE IInv'
    OBVIOUS
  <1>1. TypeOK /\ TapeReaches /\ AccountSound /\ RowsSound
    BY DEF IInv
  <1>2. TypeOK' /\ TapeReaches'
    BY <1>1 DEF TypeOK, TapeReaches, NoOrder, Stages
  <1>3. AccountSound' /\ RowsSound'
    BY <1>1, Quiet DEF NoOrder
  <1> QED BY <1>2, <1>3 DEF IInv

LEMMA OrderRaisesKeeps == IInv /\ OrderRaises => IInv'
  <1> SUFFICES ASSUME IInv, OrderRaises PROVE IInv'
    OBVIOUS
  <1>1. TypeOK /\ TapeReaches /\ AccountSound /\ RowsSound
    BY DEF IInv
  <1>2. /\ stage = "order" /\ stage' = "raised" /\ failure' = order_error
        /\ order_error \in {"none", "negative equity", "unpriced sell"}
        /\ UNCHANGED <<profile, turn, account, paid, terminal, counters, rows, tape>>
    BY DEF OrderRaises, Ordering, Raise, order_error
  <1>3. TypeOK' /\ TapeReaches'
    BY <1>1, <1>2 DEF TypeOK, TapeReaches, Stages
  <1>4. AccountSound' /\ RowsSound'
    BY <1>1, <1>2, Quiet
  <1> QED BY <1>3, <1>4 DEF IInv

LEMMA FailedGatesFinite == IsFiniteSet(failed_gates)
  <1> DEFINE G == {"leverage_cap_market", "leverage_cap_gross", "turnover_cap",
                   "drawdown_kill_switch"}
  <1>1. failed_gates \subseteq G
    BY DEF failed_gates, gate_passes
  <1>2. IsFiniteSet(G)
    <2>1. IsFiniteSet({"leverage_cap_market"}) /\ IsFiniteSet({"leverage_cap_gross"})
          /\ IsFiniteSet({"turnover_cap"}) /\ IsFiniteSet({"drawdown_kill_switch"})
      BY FS_Singleton
    <2>2. IsFiniteSet({"leverage_cap_market"} \cup {"leverage_cap_gross"})
      BY <2>1, FS_Union
    <2>3. IsFiniteSet({"turnover_cap"} \cup {"drawdown_kill_switch"})
      BY <2>1, FS_Union
    <2>4. IsFiniteSet(({"leverage_cap_market"} \cup {"leverage_cap_gross"})
                       \cup ({"turnover_cap"} \cup {"drawdown_kill_switch"}))
      BY <2>2, <2>3, FS_Union
    <2>5. G = ({"leverage_cap_market"} \cup {"leverage_cap_gross"})
               \cup ({"turnover_cap"} \cup {"drawdown_kill_switch"})
      OBVIOUS
    <2> QED BY <2>4, <2>5
  <1> QED BY <1>1, <1>2, FS_Subset

LEMMA FailedGatesType == Cardinality(failed_gates) \in Nat
  BY FailedGatesFinite, FS_CardinalityType

LEMMA OrderBlockedKeeps == IInv /\ OrderBlocked => IInv'
  <1> SUFFICES ASSUME IInv, OrderBlocked PROVE IInv'
    OBVIOUS
  <1>1. TypeOK /\ TapeReaches /\ AccountSound /\ RowsSound
    BY DEF IInv
  <1>2. counters' \in [Profiles -> CountsType]
    <2>1. counters \in [Profiles -> CountsType] /\ profile \in Profiles
      BY <1>1 DEF TypeOK
    <2>2. PICK c \in CountsType : c = counters[profile]
      BY <2>1
    <2>3. PICK failed \in Nat : failed = Cardinality(failed_gates)
      BY FailedGatesType
    <2>4. PICK blocks \in Nat, after \in Nat :
            /\ blocks = c.gate_blocks + failed
            /\ after = IF account.killed /\ decision.lev # 0
                       THEN c.post_kill + 1 ELSE c.post_kill
      BY DEF CountsType
    <2>5. PICK d \in CountsType : d = [c EXCEPT !.gate_blocks = blocks, !.post_kill = after]
      <3>1. [c EXCEPT !.gate_blocks = blocks, !.post_kill = after] \in CountsType
        BY DEF CountsType
      <3> QED BY <3>1
    <2>6. counters' = [counters EXCEPT ![profile] = d]
      BY <2>1, <2>2, <2>3, <2>4, <2>5 DEF OrderBlocked, CountsType
    <2> QED BY <2>1, <2>6
  <1>3. TypeOK' /\ TapeReaches'
    BY <1>1, <1>2 DEF TypeOK, TapeReaches, OrderBlocked, Sized, Ordering, Stages
  <1>4. AccountSound' /\ RowsSound'
    BY <1>1, Quiet DEF OrderBlocked
  <1> QED BY <1>3, <1>4 DEF IInv

LEMMA OrderCancelledKeeps == IInv /\ OrderCancelled => IInv'
  <1> SUFFICES ASSUME IInv, OrderCancelled PROVE IInv'
    OBVIOUS
  <1>1. TypeOK /\ TapeReaches /\ AccountSound /\ RowsSound
    BY DEF IInv
  <1>2. stage = "order"
    BY DEF OrderCancelled, Priced, Passed, Sized, Ordering
  <1>3. TypeOK' /\ TapeReaches'
    BY <1>1, <1>2 DEF TypeOK, TapeReaches, OrderCancelled, Stages
  <1>4. AccountSound' /\ RowsSound'
    BY <1>1, Quiet DEF OrderCancelled
  <1> QED BY <1>3, <1>4 DEF IInv

(* A step within a turn to another account, sound and as alive as it must be. *)
LEMMA NewAccount ==
  ASSUME IInv, stage \in {"order", "hold"}, stage' \in {"order", "hold"},
         NEW b \in AccountType, account' = b,
         Conserved(b), Backed(b, Cap), b.killed => b.qty = 0, paid' \in Nat,
         UNCHANGED <<profile, turn, terminal, counters, rows, tape, failure>>
  PROVE  IInv'
  <1>1. TypeOK /\ TapeReaches /\ AccountSound /\ RowsSound
    BY DEF IInv
  <1>2. TypeOK' /\ TapeReaches'
    BY <1>1 DEF TypeOK, TapeReaches, Stages
  <1>3. AccountSound'
    BY DEF AccountSound, Conserved, Backed, Cap, KilledStaysFlat, flat
  <1>4. RowsSound'
    BY <1>1 DEF RowsSound, Conserved
  <1> QED BY <1>2, <1>3, <1>4 DEF IInv

LEMMA OrderFilledKeeps == IInv /\ OrderFilled => IInv'
  <1> SUFFICES ASSUME IInv, OrderFilled PROVE IInv'
    OBVIOUS
  <1>1. TypeOK /\ TapeReaches /\ AccountSound
    BY DEF IInv
  <1>2. stage = "order" /\ Priced
    BY DEF OrderFilled, Priced, Passed, Sized, Ordering
  <1>3. turn < Len(tape)
    BY <1>1, <1>2 DEF TapeReaches
  <1>4. PICK b \in AccountType :
           /\ b = apply_position_fill(account, order_fill, decision.lev)
           /\ Conserved(b) /\ Backed(b, Cap) /\ ~b.killed
    BY <1>1, <1>2, <1>3, FilledOrder
  <1>5. /\ account' = b /\ stage' = "hold" /\ paid' = paid
        /\ UNCHANGED <<profile, turn, terminal, counters, rows, tape, failure>>
    BY <1>4 DEF OrderFilled
  <1> QED BY <1>1, <1>2, <1>4, <1>5, NewAccount DEF TypeOK

LEMMA NothingToTradeKeeps == IInv /\ NothingToTrade => IInv'
  <1> SUFFICES ASSUME IInv, NothingToTrade PROVE IInv'
    OBVIOUS
  <1>1. TypeOK /\ TapeReaches /\ AccountSound
    BY DEF IInv
  <1>2. /\ stage = "order" /\ Passed /\ requested_delta = 0
        /\ stage' = "hold" /\ paid' = paid
        /\ UNCHANGED <<profile, turn, terminal, counters, rows, tape, failure>>
    BY DEF NothingToTrade, Passed, Sized, Ordering
  <1>3. turn < Len(tape)
    BY <1>1, <1>2 DEF TapeReaches
  <1>4. CASE account' = account
    BY <1>1, <1>2, <1>4, NewAccount DEF TypeOK, AccountSound, KilledStaysFlat, flat
  <1>5. CASE account' # account
    <2>1. account.qty # 0 /\ account' = [account EXCEPT !.lev = abs(decision.lev)]
      BY <1>5 DEF NothingToTrade, flat
    <2>2. PICK b \in AccountType :
             /\ b = [account EXCEPT !.lev = abs(decision.lev)]
             /\ Conserved(b) /\ Backed(b, Cap) /\ ~b.killed
      BY <1>1, <1>2, <1>3, <2>1, Releveraged
    <2>3. account' = b
      BY <2>1, <2>2
    <2> QED BY <1>1, <1>2, <2>2, <2>3, NewAccount DEF TypeOK
  <1> QED BY <1>4, <1>5

LEMMA HoldFundingKeeps == IInv /\ HoldFunding => IInv'
  <1> SUFFICES ASSUME IInv, HoldFunding PROVE IInv'
    OBVIOUS
  <1>1. TypeOK /\ TapeReaches /\ AccountSound
    BY DEF IInv
  <1>2. turn < Len(tape) /\ stage = "hold"
    BY <1>1 DEF TapeReaches, HoldFunding
  <1>3. PICK n \in Nat : n = paid + 1 /\ n \in 1..Len(bar.inside)
    <2>1. paid \in Nat /\ bar.inside \in Seq(Settlement) /\ paid < Len(bar.inside)
      BY <1>1, <1>2, BarInPlay DEF TypeOK, Bar, HoldFunding
    <2> QED BY <2>1, LenProperties
  <1>4. PICK settlement \in Settlement : settlement = bar.inside[n]
    <2>1. bar.inside \in Seq(Settlement)
      BY <1>1, <1>2, BarInPlay DEF Bar
    <2> QED BY <1>3, <2>1, ElementOfSeq
  <1>5. account' \in AccountType /\ AccountSound'
    BY <1>1, <1>3, <1>4, SettlementKeeps DEF HoldFunding
  <1>6. PICK b \in AccountType : b = account'
    BY <1>5
  <1>7. Conserved(b) /\ Backed(b, Cap) /\ (b.killed => b.qty = 0)
    BY <1>5, <1>6 DEF AccountSound, Conserved, Backed, Cap, KilledStaysFlat, flat
  <1>8. /\ stage' = "hold" /\ paid' = n
        /\ UNCHANGED <<profile, turn, terminal, counters, rows, tape, failure>>
    BY <1>2, <1>3 DEF HoldFunding
  <1> QED BY <1>2, <1>6, <1>7, <1>8, NewAccount

LEMMA HeldKeeps == IInv /\ Held => IInv'
  <1> SUFFICES ASSUME IInv, Held PROVE IInv'
    OBVIOUS
  <1>1. TypeOK /\ TapeReaches /\ AccountSound /\ RowsSound
    BY DEF IInv
  <1>2. TypeOK' /\ TapeReaches'
    BY <1>1 DEF TypeOK, TapeReaches, Held, Stages
  <1>3. AccountSound' /\ RowsSound'
    BY <1>1, Quiet DEF Held
  <1> QED BY <1>2, <1>3 DEF IInv

(* The row of a sound account in the bar in play. *)
LEMMA RowOf ==
  ASSUME TypeOK, turn < Len(tape), NEW a \in AccountType,
         Conserved(a), Backed(a, Cap)
  PROVE  \E row \in RowType : row = snapshot(a, bar) /\ Conserved(row)
  <1>1. PICK b : b = bar /\ b.c \in Nat \ {0}
    BY BarInPlay
  <1>2. PICK cap \in Nat : cap = Cap
    BY CapType
  <1>3. Backed(a, cap)
    BY <1>2
  <1> QED BY <1>1, <1>3, SnapshotType

LEMMA MarkSurvivesKeeps == IInv /\ MarkSurvives => IInv'
  <1> SUFFICES ASSUME IInv, MarkSurvives PROVE IInv'
    OBVIOUS
  <1>1. TypeOK /\ TapeReaches /\ AccountSound /\ RowsSound
    BY DEF IInv
  <1>2. turn < Len(tape)
    BY <1>1 DEF TapeReaches, MarkSurvives
  <1>3. PICK a \in AccountType : a = account
    BY <1>1 DEF TypeOK
  <1>4. PICK row \in RowType : row = snapshot(a, bar) /\ Conserved(row)
    BY <1>1, <1>2, <1>3, RowOf DEF AccountSound
  <1>5. rows' \in [Profiles -> Seq(RowType)] /\ RowsSound'
    BY <1>1, <1>3, <1>4, RowAppended DEF MarkSurvives
  <1>6. AccountSound'
    BY <1>1 DEF AccountSound, Conserved, Backed, Cap, KilledStaysFlat, flat,
                MarkSurvives
  <1>7. TypeOK' /\ TapeReaches'
    BY <1>1, <1>5 DEF TypeOK, TapeReaches, MarkSurvives, Stages
  <1> QED BY <1>5, <1>6, <1>7 DEF IInv

(* One more liquidation or kill in the counters of the profile. *)
LEMMA CountedUp ==
  ASSUME TypeOK,
         \/ counters' = [counters EXCEPT ![profile].liquidations = @ + 1]
         \/ counters' = [counters EXCEPT ![profile].kills = @ + 1]
  PROVE  counters' \in [Profiles -> CountsType]
  <1>1. counters \in [Profiles -> CountsType] /\ profile \in Profiles
    BY DEF TypeOK
  <1>2. PICK c \in CountsType : c = counters[profile]
    BY <1>1
  <1>3. PICK n \in Nat, k \in Nat : n = c.liquidations + 1 /\ k = c.kills + 1
    BY DEF CountsType
  <1>4. /\ [c EXCEPT !.liquidations = n] \in CountsType
        /\ [c EXCEPT !.kills = k] \in CountsType
    BY DEF CountsType
  <1>5. \/ counters' = [counters EXCEPT ![profile] = [c EXCEPT !.liquidations = n]]
        \/ counters' = [counters EXCEPT ![profile] = [c EXCEPT !.kills = k]]
    BY <1>2, <1>3
  <1> QED BY <1>1, <1>4, <1>5

LEMMA LiquidateKeeps == IInv /\ Liquidate => IInv'
  <1> SUFFICES ASSUME IInv, Liquidate PROVE IInv'
    OBVIOUS
  <1>1. TypeOK /\ TapeReaches /\ AccountSound /\ RowsSound
    BY DEF IInv
  <1>2. turn < Len(tape)
    BY <1>1 DEF TapeReaches, Liquidate
  <1>3. PICK a \in AccountType, b0 \in Bar : a = account /\ b0 = bar
    BY <1>1, <1>2, BarInPlay DEF TypeOK
  <1>4. PICK cap \in Nat : cap = Cap
    BY CapType
  <1>5. PICK b \in AccountType :
           /\ b = liquidated(a, b0)
           /\ b.qty = 0 /\ Backed(b, cap) /\ b.killed = a.killed
           /\ Conserved(a) => Conserved(b)
    BY LiquidatedKeeps
  <1>6. account' = b /\ Conserved(b) /\ Backed(b, Cap)
    BY <1>1, <1>3, <1>4, <1>5 DEF Liquidate, AccountSound
  <1>7. PICK row \in RowType : row = snapshot(b, bar) /\ Conserved(row)
    BY <1>1, <1>2, <1>6, RowOf
  <1>8. rows' \in [Profiles -> Seq(RowType)] /\ RowsSound'
    BY <1>1, <1>6, <1>7, RowAppended DEF Liquidate
  <1>9. AccountSound'
    BY <1>5, <1>6 DEF AccountSound, Conserved, Backed, Cap, KilledStaysFlat, flat
  <1>10. counters' \in [Profiles -> CountsType]
    BY <1>1, CountedUp DEF Liquidate
  <1>11. TypeOK' /\ TapeReaches'
    BY <1>1, <1>6, <1>8, <1>10 DEF TypeOK, TapeReaches, Liquidate, Stages
  <1> QED BY <1>8, <1>9, <1>11 DEF IInv

(* Whatever closes the bar, the next turn is a turn the tape allows for. *)
LEMMA NextTurnKeeps ==
  ASSUME TypeOK, TapeReaches, stage = "close", NextTurn,
         UNCHANGED <<profile, tape>>
  PROVE  /\ stage' \in Stages /\ turn' \in 0..(BarsTotal - 1)
         /\ TapeReaches'
  <1>1. turn \in Nat /\ BarsTotal \in Nat /\ turn < BarsTotal
    BY TurnInRange
  <1>2. CASE stage' = "profile_end" /\ turn' = turn
    <2>1. turn' \in 0..(BarsTotal - 1)
      BY <1>2 DEF TypeOK
    <2>2. TapeReaches'
      BY <1>2 DEF TapeReaches
    <2> QED BY <1>2, <2>1, <2>2 DEF Stages
  <1>3. CASE stage' = "decide" /\ turn' = turn + 1 /\ turn + 1 # BarsTotal
    BY <1>1, <1>3 DEF TapeReaches, Stages
  <1> QED BY <1>2, <1>3 DEF NextTurn

LEMMA CloseBarKeeps == IInv /\ CloseBar => IInv'
  <1> SUFFICES ASSUME IInv, CloseBar PROVE IInv'
    OBVIOUS
  <1>1. TypeOK /\ TapeReaches /\ AccountSound /\ RowsSound
    BY DEF IInv
  <1>2. /\ stage' \in Stages /\ turn' \in 0..(BarsTotal - 1)
        /\ TapeReaches'
    BY <1>1, NextTurnKeeps DEF CloseBar
  <1>3. TypeOK'
    BY <1>1, <1>2 DEF TypeOK, CloseBar
  <1>4. AccountSound' /\ RowsSound'
    BY <1>1, Quiet DEF CloseBar
  <1> QED BY <1>2, <1>3, <1>4 DEF IInv

LEMMA KillSwitchKeeps == IInv /\ KillSwitch => IInv'
  <1> SUFFICES ASSUME IInv, KillSwitch PROVE IInv'
    OBVIOUS
  <1>1. TypeOK /\ TapeReaches /\ AccountSound /\ RowsSound
    BY DEF IInv
  <1>2. turn < Len(tape)
    BY <1>1 DEF TapeReaches, KillSwitch
  <1>3. PICK a \in AccountType, b0 \in Bar : a = account /\ b0 = bar
    BY <1>1, <1>2, BarInPlay DEF TypeOK
  <1>4. PICK cap \in Nat, mult \in Nat : cap = Cap /\ mult = multiplier
    BY <1>1, CapType, MultiplierNow
  <1>5. PICK b \in AccountType :
           /\ b = killed(a, b0, mult)
           /\ b.qty = 0 /\ Backed(b, cap) /\ b.killed
           /\ Conserved(a) => Conserved(b)
    BY <1>1, <1>3, <1>4, KilledKeeps DEF AccountSound
  <1>6. account' = b /\ Conserved(b) /\ Backed(b, Cap)
    BY <1>1, <1>3, <1>4, <1>5 DEF KillSwitch, AccountSound
  <1>7. PICK old \in Seq(RowType), n \in Nat :
          old = rows[profile] /\ n = Len(old) /\ n \in 1..n
    <2>1. rows[profile] \in Seq(RowType) /\ Len(rows[profile]) > 0
      BY <1>1 DEF TypeOK, RowsSound
    <2>2. Len(rows[profile]) \in Nat
      BY <2>1, LenProperties
    <2> QED BY <2>1, <2>2
  <1>8. PICK row \in RowType : row = row_after_kill(old[n], b) /\ Conserved(row)
    <2>1. old[n] \in RowType /\ Conserved(old[n])
      BY <1>1, <1>7, LenProperties, ElementOfSeq DEF TypeOK, RowsSound
    <2>2. PICK taken \in RowType : taken = snapshot(b, bar) /\ Conserved(taken)
      BY <1>1, <1>2, <1>6, RowOf
    <2> QED BY <2>1, <2>2 DEF row_after_kill
  <1>9. rows' = [rows EXCEPT ![profile][Len(rows[profile])] = row]
    BY <1>6, <1>7, <1>8 DEF KillSwitch
  <1>10. rows' \in [Profiles -> Seq(RowType)] /\ RowsSound'
    BY <1>1, <1>8, <1>9, RowRetaken DEF KillSwitch
  <1>11. AccountSound'
    BY <1>5, <1>6 DEF AccountSound, Conserved, Backed, Cap, KilledStaysFlat, flat
  <1>12. counters' \in [Profiles -> CountsType]
    BY <1>1, CountedUp DEF KillSwitch
  <1>13. /\ stage' \in Stages /\ turn' \in 0..(BarsTotal - 1)
         /\ TapeReaches'
    BY <1>1, NextTurnKeeps DEF KillSwitch
  <1>14. TypeOK'
    BY <1>1, <1>6, <1>10, <1>12, <1>13 DEF TypeOK, KillSwitch
  <1> QED BY <1>10, <1>11, <1>13, <1>14 DEF IInv

LEMMA StartStressKeeps == IInv /\ StartStress => IInv'
  <1> SUFFICES ASSUME IInv, StartStress PROVE IInv'
    OBVIOUS
  <1>1. TypeOK /\ TapeReaches /\ AccountSound /\ RowsSound
    BY DEF IInv
  <1>2. PICK row \in RowType : row = opening_row /\ Conserved(row)
    BY OpeningRow
  <1>3. PICK first \in Seq(RowType) :
          first = <<row>> /\ Len(first) > 0 /\ \A i \in DOMAIN first : first[i] = row
    <2>1. <<row>> \in Seq(RowType) /\ Len(<<row>>) = 1
      OBVIOUS
    <2>2. \A i \in DOMAIN <<row>> : <<row>>[i] = row
      OBVIOUS
    <2>3. Len(<<row>>) > 0
      BY <2>1
    <2> QED BY <2>1, <2>2, <2>3
  <1>4. rows' = [rows EXCEPT !["stress_2x"] = first]
    BY <1>2, <1>3 DEF StartStress
  <1>5. /\ rows' \in [Profiles -> Seq(RowType)]
        /\ rows'["stress_2x"] = first /\ rows'["primary"] = rows["primary"]
    BY <1>1, <1>4 DEF TypeOK, Profiles
  <1>6. RowsSound'
    BY <1>1, <1>2, <1>3, <1>5 DEF RowsSound, Conserved, Profiles, StartStress
  <1>7. AccountSound'
    BY OpenedSound DEF AccountSound, Conserved, Backed, Cap, KilledStaysFlat, flat,
                       StartStress
  <1>8. 0 \in 0..(BarsTotal - 1)
    BY EpisodeAssumption
  <1>9. TypeOK' /\ TapeReaches'
    BY <1>1, <1>5, <1>8, OpenedSound
       DEF TypeOK, TapeReaches, StartStress, Stages, Profiles
  <1> QED BY <1>6, <1>7, <1>9 DEF IInv

LEMMA FinishKeeps == IInv /\ Finish => IInv'
  <1> SUFFICES ASSUME IInv, Finish PROVE IInv'
    OBVIOUS
  <1>1. TypeOK /\ TapeReaches /\ AccountSound /\ RowsSound
    BY DEF IInv
  <1>2. /\ profile = "stress_2x"
        /\ \/ stage' = "done" /\ failure' = failure
           \/ stage' = "raised" /\ failure' \in {"undefined return", "unbalanced ledger"}
        /\ UNCHANGED <<profile, turn, account, paid, terminal, counters, rows, tape>>
    BY DEF Finish, Raise, result_error
  <1>3. TypeOK' /\ TapeReaches'
    BY <1>1, <1>2 DEF TypeOK, TapeReaches, Stages
  <1>4. AccountSound' /\ RowsSound'
    BY <1>1, <1>2, Quiet
  <1> QED BY <1>3, <1>4 DEF IInv

LEMMA StutterKeeps == IInv /\ UNCHANGED vars => IInv'
  BY DEF IInv, TypeOK, TapeReaches, AccountSound, RowsSound, Conserved, Backed, Cap,
         KilledStaysFlat, flat, vars

LEMMA NextIInv == IInv /\ [Next]_vars => IInv'
  BY DecideKeeps, RedecideKeeps, TraceEndsKeeps, CarryFundingKeeps, NoOrderKeeps,
     OrderRaisesKeeps, OrderBlockedKeeps, OrderCancelledKeeps, OrderFilledKeeps,
     NothingToTradeKeeps, HoldFundingKeeps, HeldKeeps, MarkSurvivesKeeps,
     LiquidateKeeps, CloseBarKeeps, KillSwitchKeeps, StartStressKeeps, FinishKeeps,
     StutterKeeps
  DEF Next, Order, Returned

-----------------------------------------------------------------------------
(* The theorems. *)

LEMMA Invariance == Spec => []IInv
  <1>1. Init => IInv
    BY InitIInv
  <1>2. IInv /\ [Next]_vars => IInv'
    BY NextIInv
  <1> QED BY <1>1, <1>2, PTL DEF Spec

(***************************************************************************)
(* Every reachable state has the shape of the engine's dataclasses: no     *)
(* division by an empty margin, no turn beyond the pack (_run_profile).    *)
(***************************************************************************)
THEOREM EpisodeTypeOK == Spec => []TypeOK
  <1>1. IInv => TypeOK
    BY DEF IInv
  <1> QED BY <1>1, Invariance, PTL

(***************************************************************************)
(* MATH-2 for every market, pack and decision: cash has changed by exactly *)
(* what was realised, charged, funded and penalised, in the account and in *)
(* every row of both ledgers (_run_profile, _snapshot).                    *)
(***************************************************************************)
THEOREM EpisodeConservesCash == Spec => []CashConserved
  <1>1. IInv => CashConserved
    BY DEF IInv, AccountSound, RowsSound, CashConserved
  <1> QED BY <1>1, Invariance, PTL

(***************************************************************************)
(* A position always has an entry and a leverage within the caps, a flat   *)
(* account neither, so margin and liquidation price are always defined     *)
(* (_apply_position_fill, the forced closes of _run_profile).              *)
(***************************************************************************)
THEOREM EpisodePositionIsMargined == Spec => []PositionIsMargined
  <1>1. IInv => PositionIsMargined
    BY DEF IInv, AccountSound, Backed, Cap, PositionIsMargined, flat
  <1> QED BY <1>1, Invariance, PTL

(***************************************************************************)
(* SAFE-3, the state half: a profile the kill switch flattened is flat.    *)
(***************************************************************************)
THEOREM EpisodeKilledStaysFlat == Spec => []KilledStaysFlat
  <1>1. IInv => KilledStaysFlat
    BY DEF IInv, AccountSound
  <1> QED BY <1>1, Invariance, PTL

(* No action changes the account of a killed profile. *)
LEMMA KilledStep ==
  ASSUME IInv, [Next]_vars, account.killed, profile' = profile
  PROVE  account' = account
  <1>1. TypeOK /\ TapeReaches /\ AccountSound
    BY DEF IInv
  <1>2. account.qty = 0
    BY <1>1 DEF AccountSound, KilledStaysFlat, flat
  <1>3. CASE UNCHANGED vars
    BY <1>3 DEF vars
  <1>4. CASE CarryFunding
    <2>1. CASE bar.at_open = <<>>
      BY <1>4, <2>1 DEF CarryFunding
    <2>2. CASE bar.at_open # <<>>
      <3>1. turn < Len(tape)
        BY <1>1, <1>4 DEF TapeReaches, CarryFunding
      <3>2. bar.at_open \in Seq(Settlement)
        BY <1>1, <3>1, BarInPlay DEF Bar
      <3>3. bar.at_open[1] \in Settlement
        BY <2>2, <3>2
      <3> QED BY <1>1, <1>4, <2>2, <3>3, SettlementKeeps DEF CarryFunding
    <2> QED BY <2>1, <2>2
  <1>5. CASE HoldFunding
    <2>1. turn < Len(tape)
      BY <1>1, <1>5 DEF TapeReaches, HoldFunding
    <2>2. bar.inside \in Seq(Settlement) /\ paid \in Nat /\ paid < Len(bar.inside)
      BY <1>1, <1>5, <2>1, BarInPlay DEF TypeOK, Bar, HoldFunding
    <2>3. paid + 1 \in 1..Len(bar.inside)
      BY <2>2, LenProperties
    <2>4. PICK n \in 1..Len(bar.inside) : n = paid + 1
      BY <2>3
    <2>5. bar.inside[n] \in Settlement
      BY <2>2, ElementOfSeq
    <2> QED BY <1>1, <1>5, <2>4, <2>5, SettlementKeeps DEF HoldFunding
  <1>6. CASE OrderFilled
    <2>1. turn < Len(tape) /\ Priced
      BY <1>1, <1>6 DEF TapeReaches, OrderFilled, Priced, Passed, Sized, Ordering
    <2>2. ~account.killed
      BY <1>1, <2>1, FilledOrder
    <2> QED BY <2>2
  <1>7. CASE NothingToTrade
    BY <1>2, <1>7 DEF NothingToTrade, flat
  <1>8. CASE Liquidate
    BY <1>2, <1>8 DEF Liquidate, flat
  <1>9. CASE KillSwitch
    BY <1>9 DEF KillSwitch, kill_is_due
  <1>10. CASE StartStress
    BY <1>10 DEF StartStress
  <1>11. CASE \/ Decide \/ Redecide \/ TraceEnds \/ NoOrder \/ OrderRaises
              \/ OrderBlocked \/ OrderCancelled \/ Held \/ MarkSurvives
              \/ CloseBar \/ Finish
    BY <1>11 DEF Decide, Redecide, TraceEnds, NoOrder, OrderRaises, OrderBlocked,
                 OrderCancelled, Held, MarkSurvives, CloseBar, Finish
  <1> QED
    BY <1>3, <1>4, <1>5, <1>6, <1>7, <1>8, <1>9, <1>10, <1>11
    DEF Next, Order, Returned

(***************************************************************************)
(* SAFE-3, the step half: once killed, a profile's account never changes,  *)
(* whatever is decided, settled or marked (the drawdown_kill_switch gate   *)
(* with _apply_position_fill and _applied_funding).                        *)
(***************************************************************************)
THEOREM EpisodeKilledNeverTrades == Spec => KilledNeverTrades
  <1>1. IInv /\ [Next]_vars
          => [(account.killed /\ profile' = profile) => account' = account]_vars
    BY KilledStep
  <1> QED BY <1>1, Invariance, PTL DEF Spec, KilledNeverTrades


-----------------------------------------------------------------------------
(* The ledger is the episode. *)

turns_decided == IF stage = "decide" THEN turn ELSE turn + 1

rows_taken ==
  IF stage \in {"decide", "close", "profile_end"} THEN turns_decided + 1
                                                  ELSE turns_decided

(* A profile ends in one way: what ended it is in its counters, and the      *)
(* stress profile has none before it starts.                                 *)
OneEnd ==
  /\ terminal => /\ account.qty = 0 /\ ~account.killed
                 /\ stage \in {"close", "profile_end", "done", "raised"}
  /\ counters[profile].liquidations = IF terminal THEN 1 ELSE 0
  /\ counters[profile].kills = IF account.killed THEN 1 ELSE 0
  /\ IF profile = "primary"
     THEN counters["stress_2x"] = no_counts
     ELSE counters["primary"].liquidations + counters["primary"].kills <= 1

Agrees(row, a) ==
  /\ row.cash = a.cash /\ row.qty = a.qty
  /\ row.fees = a.fees /\ row.penalty = a.penalty
  /\ flat(a) => row.nav = a.cash

LastRowAgrees ==
  stage \in {"decide", "close", "profile_end"} =>
    Agrees(rows[profile][Len(rows[profile])], account)

TurnsAgree ==
  stage \notin {"done", "raised"} =>
    /\ counters[profile].turns = turns_decided
    /\ Len(rows[profile]) = rows_taken

of_kind(tp, kind, n) == {t \in 1..n : tp[t].decision.kind = kind}

turns_of(kind, n) == of_kind(tape, kind, n)

KindsAgree ==
  LET c == counters[profile]
  IN  /\ c.turns <= Len(tape)
      /\ c.missed = Cardinality(turns_of("missed", c.turns))
      /\ c.invalid = Cardinality(turns_of("invalid", c.turns))
      /\ c.post_kill <= c.gate_blocks

(***************************************************************************)
(* The invariant of the ledger, inductive together with IInv.  OneVerdict  *)
(* alone is not: that a liquidated profile is not killed, and a killed one *)
(* not liquidated, rests on which of the two has counted; and the last row *)
(* is the account only from the mark of the bar to the next decision.      *)
(***************************************************************************)
LedgerHolds == OneEnd /\ LastRowAgrees /\ TurnsAgree /\ KindsAgree

(* The actions that leave the account, the verdict and the counts alone.     *)
Idle ==
  \/ TraceEnds \/ NoOrder \/ OrderRaises \/ OrderCancelled \/ Held \/ Finish

(* A position may change between the decision and the mark, a verdict not.   *)
LEMMA TradeKeepsKilled ==
  ASSUME IInv, CarryFunding \/ OrderFilled \/ NothingToTrade \/ HoldFunding
  PROVE  account'.killed = account.killed
  <1>1. TypeOK /\ TapeReaches /\ AccountSound
    BY DEF IInv
  <1>2. CASE CarryFunding
    <2>1. CASE bar.at_open = <<>>
      BY <1>2, <2>1 DEF CarryFunding
    <2>2. CASE bar.at_open # <<>>
      <3>1. turn < Len(tape)
        BY <1>1, <1>2 DEF TapeReaches, CarryFunding
      <3>2. bar.at_open \in Seq(Settlement)
        BY <1>1, <3>1, BarInPlay DEF Bar
      <3>3. bar.at_open[1] \in Settlement
        BY <2>2, <3>2
      <3> QED BY <1>1, <1>2, <2>2, <3>3, SettlementKeeps DEF CarryFunding
    <2> QED BY <2>1, <2>2
  <1>3. CASE HoldFunding
    <2>1. turn < Len(tape)
      BY <1>1, <1>3 DEF TapeReaches, HoldFunding
    <2>2. bar.inside \in Seq(Settlement) /\ paid \in Nat /\ paid < Len(bar.inside)
      BY <1>1, <1>3, <2>1, BarInPlay DEF TypeOK, Bar, HoldFunding
    <2>3. PICK n \in 1..Len(bar.inside) : n = paid + 1
      BY <2>2, LenProperties
    <2>4. bar.inside[n] \in Settlement
      BY <2>2, ElementOfSeq
    <2> QED BY <1>1, <1>3, <2>3, <2>4, SettlementKeeps DEF HoldFunding
  <1>4. CASE OrderFilled
    <2>1. turn < Len(tape) /\ Priced
      BY <1>1, <1>4 DEF TapeReaches, OrderFilled, Priced, Passed, Sized, Ordering
    <2>2. PICK b \in AccountType :
             /\ b = apply_position_fill(account, order_fill, decision.lev)
             /\ ~b.killed /\ ~account.killed
      BY <1>1, <2>1, FilledOrder
    <2>3. account' = b
      BY <1>4, <2>2 DEF OrderFilled
    <2>4. account.killed \in BOOLEAN /\ b.killed \in BOOLEAN
      BY <1>1 DEF TypeOK, AccountType
    <2> QED BY <2>2, <2>3, <2>4
  <1>5. CASE NothingToTrade
    <2>1. account \in AccountType
      BY <1>1 DEF TypeOK
    <2> QED BY <1>5, <2>1 DEF NothingToTrade, AccountType
  <1> QED BY <1>2, <1>3, <1>4, <1>5

(* The counters of the profile at work after one of them has changed. *)
LEMMA CountersNow ==
  ASSUME TypeOK, NEW c, counters' = [counters EXCEPT ![profile] = c],
         profile' = profile
  PROVE  /\ counters'[profile'] = c
         /\ \A p \in Profiles : p # profile => counters'[p] = counters[p]
  BY DEF TypeOK

(* What a step of the profile at work may do to its counters and still be    *)
(* told by its verdict.                                                      *)
LEMMA SameEnd ==
  ASSUME TypeOK, OneEnd, NEW c \in CountsType,
         counters' = [counters EXCEPT ![profile] = c],
         c.liquidations = counters[profile].liquidations,
         c.kills = counters[profile].kills,
         ~terminal, account'.killed = account.killed,
         UNCHANGED <<profile, terminal>>
  PROVE  OneEnd'
  <1>1. counters'[profile] = c
    BY CountersNow
  <1>2. \A p \in Profiles : p # profile => counters'[p] = counters[p]
    BY CountersNow
  <1>3. profile = "primary" => counters'["stress_2x"] = no_counts
    BY <1>2 DEF OneEnd, Profiles
  <1>4. profile # "primary" =>
          counters'["primary"].liquidations + counters'["primary"].kills <= 1
    BY <1>2 DEF OneEnd, Profiles
  <1>5. /\ c.liquidations = IF terminal' THEN 1 ELSE 0
        /\ c.kills = IF account'.killed THEN 1 ELSE 0
    BY DEF OneEnd
  <1> QED BY <1>1, <1>3, <1>4, <1>5 DEF OneEnd, no_counts

LEMMA DecidedSame ==
  ASSUME NEW c \in CountsType, NEW dec
  PROVE  /\ counted(c, dec) \in CountsType
         /\ counted(c, dec).liquidations = c.liquidations
         /\ counted(c, dec).kills = c.kills
         /\ counted(c, dec).turns = c.turns + 1
         /\ counted(c, dec).missed = c.missed + (IF dec.kind = "missed" THEN 1 ELSE 0)
         /\ counted(c, dec).invalid = c.invalid + (IF dec.kind = "invalid" THEN 1 ELSE 0)
         /\ counted(c, dec).post_kill = c.post_kill
         /\ counted(c, dec).gate_blocks = c.gate_blocks
  <1>1. counted(c, dec) \in CountsType
    BY CountedType
  <1>2. c.missed \in Nat /\ c.invalid \in Nat
    BY DEF CountsType
  <1> QED BY <1>1, <1>2 DEF counted, CountsType

(* What a decision leaves of the counters of the profile at work.            *)
LEMMA Decided ==
  ASSUME IInv, Decide \/ Redecide
  PROVE  \E c \in CountsType :
           /\ counters' = [counters EXCEPT ![profile] = c]
           /\ c = counted(counters[profile], tape'[turn + 1].decision)
  <1>1. TypeOK /\ TapeReaches
    BY DEF IInv
  <1>2. counters \in [Profiles -> CountsType] /\ profile \in Profiles
    BY <1>1 DEF TypeOK
  <1>3. counted(counters[profile], tape'[turn + 1].decision) \in CountsType
    BY <1>2, CountedType
  <1>4. CASE Decide
    <2>1. PICK b \in Bars, dec \in Decisions :
            /\ tape' = Append(tape, [bar |-> b, decision |-> dec])
            /\ counters' = [counters EXCEPT !["primary"] = counted(@, dec)]
      BY <1>4 DEF Decide
    <2>2. profile = "primary" /\ Len(tape) = turn
      BY <1>1, <1>4 DEF Decide, TapeReaches
    <2>3. tape'[turn + 1] = [bar |-> b, decision |-> dec]
      <3>1. tape \in Seq(TurnType)
        BY <1>1 DEF TypeOK
      <3>2. PICK entry \in TurnType : entry = [bar |-> b, decision |-> dec]
        BY DEF TurnType
      <3> QED BY <2>1, <2>2, <3>1, <3>2, AppendProperties
    <2>4. tape'[turn + 1].decision = dec
      BY <2>3
    <2>5. counters' = [counters EXCEPT ![profile] = counted(counters[profile], dec)]
      BY <2>1, <2>2
    <2> QED BY <1>3, <2>4, <2>5
  <1>5. CASE Redecide
    BY <1>2, <1>3, <1>5 DEF Redecide, decision
  <1> QED BY <1>4, <1>5

LEMMA Blocked ==
  ASSUME IInv, OrderBlocked
  PROVE  \E c \in CountsType :
           /\ counters' = [counters EXCEPT ![profile] = c]
           /\ c.liquidations = counters[profile].liquidations
           /\ c.kills = counters[profile].kills
           /\ c.turns = counters[profile].turns
           /\ c.missed = counters[profile].missed
           /\ c.invalid = counters[profile].invalid
           /\ counters[profile].post_kill <= counters[profile].gate_blocks
                => c.post_kill <= c.gate_blocks
  <1>1. TypeOK
    BY DEF IInv
  <1>2. counters \in [Profiles -> CountsType] /\ profile \in Profiles
    BY <1>1 DEF TypeOK
  <1>3. PICK c \in CountsType : c = counters[profile]
    BY <1>2
  <1>4. PICK failed \in Nat : failed = Cardinality(failed_gates) /\ failed > 0
    <2>1. failed_gates # {}
      BY DEF OrderBlocked
    <2> QED BY <2>1, FailedGatesFinite, FS_CardinalityType, FS_EmptySet
  <1>5. PICK blocks \in Nat, after \in Nat :
          /\ blocks = c.gate_blocks + failed
          /\ after = IF account.killed /\ decision.lev # 0
                     THEN c.post_kill + 1 ELSE c.post_kill
    BY DEF CountsType
  <1>6. PICK d \in CountsType : d = [c EXCEPT !.gate_blocks = blocks, !.post_kill = after]
    <2>1. [c EXCEPT !.gate_blocks = blocks, !.post_kill = after] \in CountsType
      BY DEF CountsType
    <2> QED BY <2>1
  <1>7. counters' = [counters EXCEPT ![profile] = d]
    BY <1>2, <1>3, <1>4, <1>5, <1>6 DEF OrderBlocked, CountsType
  <1>8. /\ d.liquidations = c.liquidations /\ d.kills = c.kills
        /\ d.turns = c.turns /\ d.missed = c.missed /\ d.invalid = c.invalid
        /\ d.post_kill = after /\ d.gate_blocks = blocks
    BY <1>6 DEF CountsType
  <1>9. c.post_kill <= c.gate_blocks => after <= blocks
    <2>1. c.post_kill \in Nat /\ c.gate_blocks \in Nat
      BY DEF CountsType
    <2> QED BY <1>4, <1>5, <2>1
  <1> QED BY <1>3, <1>7, <1>8, <1>9

(* A liquidation finds a live position and leaves none, and no kill.         *)
LEMMA LiquidatedNow ==
  ASSUME IInv, Liquidate
  PROVE  /\ account' \in AccountType /\ account'.qty = 0
         /\ ~account.killed /\ ~account'.killed
         /\ turn < Len(tape)
  <1>1. TypeOK /\ TapeReaches /\ AccountSound
    BY DEF IInv
  <1>2. turn < Len(tape)
    BY <1>1 DEF TapeReaches, Liquidate
  <1>3. PICK a \in AccountType, b0 \in Bar : a = account /\ b0 = bar
    BY <1>1, <1>2, BarInPlay DEF TypeOK
  <1>4. PICK cap \in Nat : cap = Cap
    BY CapType
  <1>5. PICK b \in AccountType :
           b = liquidated(a, b0) /\ b.qty = 0 /\ b.killed = a.killed
    BY LiquidatedKeeps
  <1>6. account' = b
    BY <1>3, <1>5 DEF Liquidate
  <1>7. ~account.killed
    BY <1>1 DEF Liquidate, AccountSound, KilledStaysFlat
  <1> QED BY <1>2, <1>3, <1>5, <1>6, <1>7

(* A kill finds no verdict yet, and leaves the account flat and killed.      *)
LEMMA KilledNow ==
  ASSUME IInv, KillSwitch
  PROVE  /\ account' \in AccountType /\ account'.qty = 0 /\ account'.killed
         /\ ~account.killed /\ ~terminal
         /\ turn < Len(tape)
  <1>1. TypeOK /\ TapeReaches /\ AccountSound
    BY DEF IInv
  <1>2. turn < Len(tape)
    BY <1>1 DEF TapeReaches, KillSwitch
  <1>3. PICK a \in AccountType, b0 \in Bar : a = account /\ b0 = bar
    BY <1>1, <1>2, BarInPlay DEF TypeOK
  <1>4. PICK cap \in Nat, mult \in Nat : cap = Cap /\ mult = multiplier
    BY <1>1, CapType, MultiplierNow
  <1>5. PICK b \in AccountType : b = killed(a, b0, mult) /\ b.qty = 0 /\ b.killed
    BY <1>1, <1>3, <1>4, KilledKeeps DEF AccountSound
  <1>6. account' = b
    BY <1>3, <1>4, <1>5 DEF KillSwitch
  <1>7. ~account.killed /\ ~terminal
    BY DEF KillSwitch, kill_is_due
  <1> QED BY <1>2, <1>5, <1>6, <1>7

(* One verdict more: its counter, and only its, goes up by one.              *)
LEMMA VerdictCounted ==
  ASSUME IInv, Liquidate \/ KillSwitch
  PROVE  \E c \in CountsType :
           /\ counters' = [counters EXCEPT ![profile] = c]
           /\ c.turns = counters[profile].turns
           /\ c.missed = counters[profile].missed
           /\ c.invalid = counters[profile].invalid
           /\ c.post_kill = counters[profile].post_kill
           /\ c.gate_blocks = counters[profile].gate_blocks
           /\ Liquidate => /\ c.liquidations = counters[profile].liquidations + 1
                           /\ c.kills = counters[profile].kills
           /\ ~Liquidate => /\ c.liquidations = counters[profile].liquidations
                            /\ c.kills = counters[profile].kills + 1
  <1>1. TypeOK
    BY DEF IInv
  <1>2. counters \in [Profiles -> CountsType] /\ profile \in Profiles
    BY <1>1 DEF TypeOK
  <1>3. PICK c \in CountsType : c = counters[profile]
    BY <1>2
  <1>4. PICK n \in Nat, k \in Nat : n = c.liquidations + 1 /\ k = c.kills + 1
    BY DEF CountsType
  <1>5. c.liquidations \in Nat /\ c.kills \in Nat
    BY DEF CountsType
  <1>6. CASE Liquidate
    <2>1. PICK d \in CountsType : d = [c EXCEPT !.liquidations = n]
      <3>1. [c EXCEPT !.liquidations = n] \in CountsType
        BY DEF CountsType
      <3> QED BY <3>1
    <2>2. counters' = [counters EXCEPT ![profile] = d]
      BY <1>2, <1>3, <1>4, <1>6, <2>1 DEF Liquidate
    <2>3. /\ d.turns = c.turns /\ d.missed = c.missed /\ d.invalid = c.invalid
          /\ d.post_kill = c.post_kill /\ d.gate_blocks = c.gate_blocks
          /\ d.liquidations = n /\ d.kills = c.kills
      BY <2>1 DEF CountsType
    <2> QED BY <1>3, <1>4, <1>5, <1>6, <2>2, <2>3
  <1>7. CASE KillSwitch /\ ~Liquidate
    <2>1. PICK d \in CountsType : d = [c EXCEPT !.kills = k]
      <3>1. [c EXCEPT !.kills = k] \in CountsType
        BY DEF CountsType
      <3> QED BY <3>1
    <2>2. counters' = [counters EXCEPT ![profile] = d]
      BY <1>2, <1>3, <1>4, <1>7, <2>1 DEF KillSwitch
    <2>3. /\ d.turns = c.turns /\ d.missed = c.missed /\ d.invalid = c.invalid
          /\ d.post_kill = c.post_kill /\ d.gate_blocks = c.gate_blocks
          /\ d.liquidations = c.liquidations /\ d.kills = k
      BY <2>1 DEF CountsType
    <2> QED BY <1>3, <1>4, <1>5, <1>7, <2>2, <2>3
  <1> QED BY <1>6, <1>7

(* What NextTurn leaves of the profile: it goes on, or it has ended.         *)
LEMMA TurnClosed ==
  ASSUME NextTurn
  PROVE  \/ ~terminal /\ stage' = "decide" /\ turn' = turn + 1
         \/ stage' = "profile_end" /\ turn' = turn
  BY DEF NextTurn

LEMMA OneEndStep == IInv /\ OneEnd /\ [Next]_vars => OneEnd'
  <1> SUFFICES ASSUME IInv, OneEnd, [Next]_vars PROVE OneEnd'
    OBVIOUS
  <1>1. TypeOK /\ AccountSound
    BY DEF IInv
  <1>2. CASE UNCHANGED vars
    BY <1>2 DEF OneEnd, vars, no_counts
  <1>3. CASE Idle
    <2>1. /\ UNCHANGED <<profile, account, terminal, counters>>
          /\ ~terminal \/ stage' \in {"done", "raised"}
      BY <1>3 DEF Idle, TraceEnds, NoOrder, OrderRaises, Ordering, OrderCancelled,
                  Priced, Passed, Sized, Held, Finish, Raise, OneEnd
    <2> QED BY <2>1 DEF OneEnd, no_counts
  <1>4. CASE MarkSurvives
    <2>1. ~terminal /\ UNCHANGED <<profile, account, terminal, counters>>
      BY <1>4 DEF MarkSurvives, OneEnd
    <2> QED BY <2>1 DEF OneEnd, no_counts
  <1>5. CASE CloseBar
    <2>1. UNCHANGED <<profile, account, terminal, counters>> /\ NextTurn
      BY <1>5 DEF CloseBar
    <2>2. ~terminal \/ stage' = "profile_end"
      BY <2>1, TurnClosed
    <2> QED BY <2>1, <2>2 DEF OneEnd, no_counts
  <1>6. CASE CarryFunding \/ OrderFilled \/ NothingToTrade \/ HoldFunding
    <2>1. account'.killed = account.killed
      BY <1>6, TradeKeepsKilled
    <2>2. ~terminal /\ UNCHANGED <<profile, terminal, counters>>
      BY <1>6 DEF CarryFunding, OrderFilled, NothingToTrade, HoldFunding, Priced,
                  Passed, Sized, Ordering, OneEnd
    <2> QED BY <2>1, <2>2 DEF OneEnd, no_counts
  <1>7. CASE Decide \/ Redecide
    <2>1. PICK c \in CountsType :
            /\ counters' = [counters EXCEPT ![profile] = c]
            /\ c = counted(counters[profile], tape'[turn + 1].decision)
      BY <1>7, Decided
    <2>2. counters[profile] \in CountsType
      BY <1>1 DEF TypeOK
    <2>3. /\ c.liquidations = counters[profile].liquidations
          /\ c.kills = counters[profile].kills
      BY <2>1, <2>2, DecidedSame
    <2>4. ~terminal /\ UNCHANGED <<profile, account, terminal>>
      BY <1>7 DEF Decide, Redecide, OneEnd
    <2> QED BY <1>1, <2>1, <2>3, <2>4, SameEnd
  <1>8. CASE OrderBlocked
    <2>1. PICK c \in CountsType :
            /\ counters' = [counters EXCEPT ![profile] = c]
            /\ c.liquidations = counters[profile].liquidations
            /\ c.kills = counters[profile].kills
      BY <1>8, Blocked
    <2>2. ~terminal /\ UNCHANGED <<profile, account, terminal>>
      BY <1>8 DEF OrderBlocked, Sized, Ordering, OneEnd
    <2> QED BY <1>1, <2>1, <2>2, SameEnd
  <1>9. CASE Liquidate
    <2>1. PICK c \in CountsType :
            /\ counters' = [counters EXCEPT ![profile] = c]
            /\ c.liquidations = counters[profile].liquidations + 1
            /\ c.kills = counters[profile].kills
      <3>1. counters[profile] \in CountsType
        BY <1>1 DEF TypeOK
      <3>2. counters[profile].kills \in Nat
        BY <3>1 DEF CountsType
      <3> QED BY <1>9, <3>2, VerdictCounted
    <2>2. stage = "mark" /\ stage' = "close" /\ terminal' /\ profile' = profile
      BY <1>9 DEF Liquidate
    <2>3. account'.qty = 0 /\ ~account.killed /\ ~account'.killed
      BY <1>9, LiquidatedNow
    <2>4. counters'[profile] = c
      BY <1>1, <2>1, <2>2, CountersNow
    <2>5. \A p \in Profiles : p # profile => counters'[p] = counters[p]
      BY <1>1, <2>1, <2>2, CountersNow
    <2>6. c.liquidations = 1 /\ c.kills = 0
      BY <2>1, <2>2, <2>3 DEF OneEnd
    <2>7. profile = "primary" => counters'["stress_2x"] = no_counts
      BY <2>5 DEF OneEnd, Profiles
    <2>8. profile # "primary" =>
            counters'["primary"].liquidations + counters'["primary"].kills <= 1
      BY <2>5 DEF OneEnd, Profiles
    <2> QED BY <2>2, <2>3, <2>4, <2>6, <2>7, <2>8 DEF OneEnd, no_counts
  <1>10. CASE KillSwitch
    <2>1. ~Liquidate
      BY <1>10 DEF KillSwitch, Liquidate
    <2>2. PICK c \in CountsType :
            /\ counters' = [counters EXCEPT ![profile] = c]
            /\ c.liquidations = counters[profile].liquidations
            /\ c.kills = counters[profile].kills + 1
      <3>1. counters[profile] \in CountsType
        BY <1>1 DEF TypeOK
      <3>2. counters[profile].liquidations \in Nat
        BY <3>1 DEF CountsType
      <3> QED BY <1>10, <2>1, <3>2, VerdictCounted
    <2>3. profile' = profile /\ terminal' = terminal
      BY <1>10 DEF KillSwitch
    <2>4. account'.qty = 0 /\ account'.killed /\ ~account.killed /\ ~terminal
      BY <1>10, KilledNow
    <2>5. counters'[profile] = c
      BY <1>1, <2>2, <2>3, CountersNow
    <2>6. \A p \in Profiles : p # profile => counters'[p] = counters[p]
      BY <1>1, <2>2, <2>3, CountersNow
    <2>7. c.liquidations = 0 /\ c.kills = 1
      <3>1. counters[profile].liquidations = 0
        BY <2>4 DEF OneEnd
      <3>2. counters[profile].kills = 0
        BY <2>4 DEF OneEnd
      <3> QED BY <2>2, <3>1, <3>2
    <2>8. profile = "primary" => counters'["stress_2x"] = no_counts
      BY <2>6 DEF OneEnd, Profiles
    <2>9. profile # "primary" =>
            counters'["primary"].liquidations + counters'["primary"].kills <= 1
      BY <2>6 DEF OneEnd, Profiles
    <2> QED BY <2>3, <2>4, <2>5, <2>7, <2>8, <2>9 DEF OneEnd, no_counts
  <1>11. CASE StartStress
    <2>1. /\ profile = "primary" /\ profile' = "stress_2x" /\ counters' = counters
          /\ ~terminal' /\ account' = opened_account
      BY <1>11 DEF StartStress
    <2>2. ~account'.killed
      BY <2>1, OpenedSound
    <2>3. counters["stress_2x"].liquidations = 0 /\ counters["stress_2x"].kills = 0
      <3>1. counters["stress_2x"] = no_counts
        BY <2>1 DEF OneEnd
      <3> QED BY <3>1 DEF no_counts
    <2>4. counters["primary"].liquidations + counters["primary"].kills <= 1
      <3>1. /\ terminal => ~account.killed
            /\ counters[profile].liquidations = IF terminal THEN 1 ELSE 0
            /\ counters[profile].kills = IF account.killed THEN 1 ELSE 0
        BY DEF OneEnd
      <3>2. CASE terminal
        <4>1. counters[profile].liquidations = 1 /\ counters[profile].kills = 0
          BY <3>1, <3>2
        <4> QED BY <2>1, <4>1
      <3>3. CASE ~terminal
        <4>1. counters[profile].liquidations = 0
          BY <3>1, <3>3
        <4>2. counters[profile].kills \in {0, 1}
          BY <3>1
        <4> QED BY <2>1, <4>1, <4>2
      <3> QED BY <3>2, <3>3
    <2> QED BY <2>1, <2>2, <2>3, <2>4 DEF OneEnd
  <1> QED
    BY <1>2, <1>3, <1>4, <1>5, <1>6, <1>7, <1>8, <1>9, <1>10, <1>11
    DEF Next, Order, Returned, Idle

(* The row of an account agrees with it, and the opening row with the start. *)
LEMMA RowAgrees ==
  ASSUME TypeOK, turn < Len(tape), NEW a \in AccountType, Backed(a, Cap)
  PROVE  \E row \in RowType : row = snapshot(a, bar) /\ Agrees(row, a)
  <1>1. PICK b : b = bar /\ b.c \in Nat \ {0}
    BY BarInPlay
  <1>2. PICK cap \in Nat : cap = Cap
    BY CapType
  <1>3. Backed(a, cap)
    BY <1>2
  <1>4. PICK row \in RowType :
          /\ row = snapshot(a, b)
          /\ row.cash = a.cash /\ row.qty = a.qty
          /\ row.fees = a.fees /\ row.penalty = a.penalty
          /\ a.qty = 0 => row.nav = a.cash
    BY <1>1, <1>3, SnapshotType
  <1> QED BY <1>1, <1>4 DEF Agrees, flat

LEMMA OpeningAgrees ==
  \E row \in RowType : row = opening_row /\ Agrees(row, opened_account)
  <1>1. /\ StartNav \in Int
        /\ opened_account \in AccountType /\ opened_account.qty = 0
        /\ Backed(opened_account, Cap)
    BY AccountAssumption DEF opened_account, AccountType, Backed
  <1> DEFINE b == [c |-> OpeningMark]
  <1>2. b.c \in Nat \ {0}
    BY EpisodeAssumption
  <1> HIDE DEF b
  <1>3. PICK a \in AccountType, cap \in Nat :
          a = opened_account /\ cap = Cap /\ Backed(a, cap)
    BY <1>1, CapType
  <1>4. PICK row \in RowType :
          /\ row = snapshot(a, b)
          /\ row.cash = a.cash /\ row.qty = a.qty
          /\ row.fees = a.fees /\ row.penalty = a.penalty
          /\ a.qty = 0 => row.nav = a.cash
    BY <1>2, <1>3, SnapshotType
  <1> QED BY <1>3, <1>4 DEF opening_row, b, Agrees, flat

(* The last row after a row has been added, or taken again.                  *)
LEMMA LastRowAdded ==
  ASSUME TypeOK, NEW row \in RowType, profile' = profile,
         rows' = [rows EXCEPT ![profile] = Append(@, row)]
  PROVE  /\ Len(rows'[profile']) = Len(rows[profile]) + 1
         /\ rows'[profile'][Len(rows'[profile'])] = row
  <1>1. rows \in [Profiles -> Seq(RowType)] /\ profile \in Profiles
    BY DEF TypeOK
  <1>2. PICK old \in Seq(RowType) : old = rows[profile]
    BY <1>1
  <1>3. PICK new \in Seq(RowType) :
          new = Append(old, row) /\ Len(new) = Len(old) + 1 /\ new[Len(new)] = row
    <2>1. Append(old, row) \in Seq(RowType)
      BY AppendProperties
    <2>2. Len(Append(old, row)) = Len(old) + 1
      BY AppendProperties
    <2>3. Append(old, row)[Len(old) + 1] = row
      BY AppendProperties
    <2> QED BY <2>1, <2>2, <2>3
  <1>4. rows'[profile'] = new
    BY <1>1, <1>2, <1>3
  <1> QED BY <1>2, <1>3, <1>4

LEMMA LastRowAgain ==
  ASSUME TypeOK, RowsSound, NEW row \in RowType, profile' = profile,
         rows' = [rows EXCEPT ![profile][Len(rows[profile])] = row]
  PROVE  /\ Len(rows'[profile']) = Len(rows[profile])
         /\ rows'[profile'][Len(rows'[profile'])] = row
  <1>1. rows \in [Profiles -> Seq(RowType)] /\ profile \in Profiles
    BY DEF TypeOK
  <1>2. PICK old \in Seq(RowType) : old = rows[profile] /\ Len(old) > 0
    BY <1>1 DEF RowsSound
  <1>3. PICK n \in Nat : n = Len(old) /\ n \in 1..Len(old)
    BY <1>2
  <1>4. PICK new \in Seq(RowType) :
          new = [old EXCEPT ![n] = row] /\ Len(new) = Len(old) /\ new[n] = row
    <2>1. [old EXCEPT ![n] = row] \in Seq(RowType)
      BY <1>3, ExceptSeq
    <2>2. Len([old EXCEPT ![n] = row]) = Len(old)
      BY <1>3, ExceptSeq
    <2>3. [old EXCEPT ![n] = row][n] = row
      BY <1>3, ExceptSeq
    <2> QED BY <2>1, <2>2, <2>3
  <1>5. rows'[profile'] = new
    <2>1. rows' = [rows EXCEPT ![profile] = new]
      BY <1>2, <1>3, <1>4
    <2> QED BY <1>1, <2>1
  <1> QED BY <1>2, <1>3, <1>4, <1>5

(* What the kill switch leaves in the place of the last row.                 *)
LEMMA KilledRow ==
  ASSUME IInv, LastRowAgrees, KillSwitch
  PROVE  \E row \in RowType :
           /\ rows' = [rows EXCEPT ![profile][Len(rows[profile])] = row]
           /\ Agrees(row, account')
  <1>1. TypeOK /\ TapeReaches /\ AccountSound /\ RowsSound
    BY DEF IInv
  <1>2. turn < Len(tape)
    BY <1>1 DEF TapeReaches, KillSwitch
  <1>3. PICK a \in AccountType, b0 \in Bar : a = account /\ b0 = bar
    BY <1>1, <1>2, BarInPlay DEF TypeOK
  <1>4. PICK cap \in Nat, mult \in Nat : cap = Cap /\ mult = multiplier
    BY <1>1, CapType, MultiplierNow
  <1>5. PICK b \in AccountType : b = killed(a, b0, mult) /\ Backed(b, cap)
    BY <1>1, <1>3, <1>4, KilledKeeps DEF AccountSound
  <1>6. account' = b
    BY <1>3, <1>4, <1>5 DEF KillSwitch
  <1>7. PICK last \in RowType :
          last = rows[profile][Len(rows[profile])] /\ Agrees(last, a)
    <2>1. rows[profile] \in Seq(RowType) /\ Len(rows[profile]) > 0
      BY <1>1 DEF TypeOK, RowsSound
    <2>2. rows[profile][Len(rows[profile])] \in RowType
      BY <2>1, LenProperties, ElementOfSeq
    <2> QED BY <1>3, <2>2 DEF LastRowAgrees, KillSwitch
  <1>8. PICK row \in RowType : row = row_after_kill(last, b) /\ Agrees(row, b)
    <2>1. CASE a.qty = 0
      <3>1. row_after_kill(last, b) = last
        BY <1>3, <2>1 DEF row_after_kill, flat
      <3>2. b = [a EXCEPT !.killed = TRUE]
        BY <1>5, <2>1 DEF killed, flat
      <3>3. /\ b.cash = a.cash /\ b.qty = a.qty
            /\ b.fees = a.fees /\ b.penalty = a.penalty
        BY <3>2 DEF AccountType
      <3> QED BY <1>7, <3>1, <3>3 DEF Agrees, flat
    <2>2. CASE a.qty # 0
      <3>1. row_after_kill(last, b) = snapshot(b, bar)
        BY <1>3, <2>2 DEF row_after_kill, flat
      <3>2. Backed(b, Cap)
        BY <1>4, <1>5
      <3> QED BY <1>1, <1>2, <3>1, <3>2, RowAgrees
    <2> QED BY <2>1, <2>2
  <1> QED BY <1>6, <1>7, <1>8 DEF KillSwitch

LEMMA LastRowStep == IInv /\ LastRowAgrees /\ [Next]_vars => LastRowAgrees'
  <1> SUFFICES ASSUME IInv, LastRowAgrees, [Next]_vars PROVE LastRowAgrees'
    OBVIOUS
  <1>1. TypeOK /\ TapeReaches /\ AccountSound /\ RowsSound
    BY DEF IInv
  <1>2. CASE UNCHANGED vars
    BY <1>2 DEF LastRowAgrees, Agrees, flat, vars
  <1>3. CASE \/ Decide \/ Redecide \/ CarryFunding \/ OrderBlocked \/ OrderFilled
             \/ NothingToTrade \/ HoldFunding \/ Idle
    <2>1. stage' \notin {"decide", "close", "profile_end"}
      BY <1>3 DEF Decide, Redecide, CarryFunding, OrderBlocked, OrderFilled,
                  NothingToTrade, HoldFunding, Idle, TraceEnds, NoOrder,
                  OrderRaises, OrderCancelled, Held, Finish, Raise
    <2> QED BY <2>1 DEF LastRowAgrees
  <1>4. CASE CloseBar
    <2>1. stage = "close" /\ UNCHANGED <<profile, account, rows>>
      BY <1>4 DEF CloseBar
    <2> QED BY <2>1 DEF LastRowAgrees, Agrees, flat
  <1>5. CASE MarkSurvives
    <2>1. turn < Len(tape)
      BY <1>1, <1>5 DEF TapeReaches, MarkSurvives
    <2>2. PICK row \in RowType : row = snapshot(account, bar) /\ Agrees(row, account)
      <3>1. account \in AccountType /\ Backed(account, Cap)
        BY <1>1 DEF TypeOK, AccountSound
      <3> QED BY <1>1, <2>1, <3>1, RowAgrees
    <2>3. rows'[profile'][Len(rows'[profile'])] = row
      BY <1>1, <1>5, <2>2, LastRowAdded DEF MarkSurvives
    <2>4. account' = account
      BY <1>5 DEF MarkSurvives
    <2> QED BY <2>2, <2>3, <2>4 DEF LastRowAgrees, Agrees, flat
  <1>6. CASE Liquidate
    <2>1. PICK b \in AccountType : b = account' /\ b.qty = 0
      BY <1>6, LiquidatedNow
    <2>2. turn < Len(tape)
      BY <1>6, LiquidatedNow
    <2>3. Backed(b, Cap)
      <3>1. IInv'
        BY <1>6, LiquidateKeeps
      <3>2. Backed(account', Cap)
        BY <3>1 DEF IInv, AccountSound, Backed, Cap
      <3> QED BY <2>1, <3>2
    <2>4. PICK row \in RowType : row = snapshot(b, bar) /\ Agrees(row, b)
      BY <1>1, <2>2, <2>3, RowAgrees
    <2>5. rows' = [rows EXCEPT ![profile] = Append(@, row)] /\ profile' = profile
      BY <1>6, <2>1, <2>4 DEF Liquidate
    <2>6. rows'[profile'][Len(rows'[profile'])] = row
      BY <1>1, <2>5, LastRowAdded
    <2> QED BY <2>1, <2>4, <2>6 DEF LastRowAgrees, Agrees, flat
  <1>7. CASE KillSwitch
    <2>1. PICK row \in RowType :
            /\ rows' = [rows EXCEPT ![profile][Len(rows[profile])] = row]
            /\ Agrees(row, account')
      BY <1>7, KilledRow
    <2>2. rows'[profile'][Len(rows'[profile'])] = row
      BY <1>1, <1>7, <2>1, LastRowAgain DEF KillSwitch
    <2> QED BY <2>1, <2>2 DEF LastRowAgrees, Agrees, flat
  <1>8. CASE StartStress
    <2>1. PICK row \in RowType : row = opening_row /\ Agrees(row, opened_account)
      BY OpeningAgrees
    <2>2. rows'[profile'] = <<row>>
      BY <1>1, <1>8, <2>1 DEF StartStress, TypeOK, Profiles
    <2>3. rows'[profile'][Len(rows'[profile'])] = row
      BY <2>2
    <2>4. account' = opened_account
      BY <1>8 DEF StartStress
    <2> QED BY <2>1, <2>3, <2>4 DEF LastRowAgrees, Agrees, flat
  <1> QED
    BY <1>2, <1>3, <1>4, <1>5, <1>6, <1>7, <1>8 DEF Next, Order, Returned, Idle

(* The rows of a profile grow by one when its bar is marked, and by the      *)
(* opening one when it starts; its turns are counted when they are decided.  *)
LEMMA TurnsStep == IInv /\ OneEnd /\ TurnsAgree /\ [Next]_vars => TurnsAgree'
  <1> SUFFICES ASSUME IInv, OneEnd, TurnsAgree, [Next]_vars PROVE TurnsAgree'
    OBVIOUS
  <1>1. TypeOK /\ TapeReaches /\ RowsSound
    BY DEF IInv
  <1>2. turn \in Nat
    BY <1>1, TurnInRange
  <1>3. CASE UNCHANGED vars
    BY <1>3 DEF TurnsAgree, turns_decided, rows_taken, vars
  <1>4. CASE TraceEnds \/ OrderRaises \/ Finish
    <2>1. stage' \in {"done", "raised"}
      BY <1>4 DEF TraceEnds, OrderRaises, Finish, Raise
    <2> QED BY <2>1 DEF TurnsAgree
  <1>5. CASE \/ CarryFunding \/ NoOrder \/ OrderCancelled \/ OrderFilled
             \/ NothingToTrade \/ HoldFunding \/ Held
    <2>1. /\ UNCHANGED <<profile, turn, counters, rows>>
          /\ stage \in {"carry", "order", "hold"}
          /\ stage' \in {"order", "hold", "mark"}
      BY <1>5 DEF CarryFunding, NoOrder, OrderCancelled, OrderFilled, NothingToTrade,
                  HoldFunding, Held, Priced, Passed, Sized, Ordering
    <2> QED BY <2>1 DEF TurnsAgree, turns_decided, rows_taken
  <1>6. CASE OrderBlocked
    <2>1. PICK c \in CountsType :
            /\ counters' = [counters EXCEPT ![profile] = c]
            /\ c.turns = counters[profile].turns
      BY <1>6, Blocked
    <2>2. /\ UNCHANGED <<profile, turn, rows>>
          /\ stage = "order" /\ stage' = "hold"
      BY <1>6 DEF OrderBlocked, Sized, Ordering
    <2>3. counters'[profile'] = c
      BY <1>1, <2>1, <2>2, CountersNow
    <2> QED BY <2>1, <2>2, <2>3 DEF TurnsAgree, turns_decided, rows_taken
  <1>7. CASE Decide \/ Redecide
    <2>1. PICK c \in CountsType :
            /\ counters' = [counters EXCEPT ![profile] = c]
            /\ c = counted(counters[profile], tape'[turn + 1].decision)
      BY <1>7, Decided
    <2>2. counters[profile] \in CountsType
      BY <1>1 DEF TypeOK
    <2>3. c.turns = counters[profile].turns + 1
      BY <2>1, <2>2, DecidedSame
    <2>4. /\ UNCHANGED <<profile, turn, rows>>
          /\ stage = "decide" /\ stage' = "carry"
      BY <1>7 DEF Decide, Redecide
    <2>5. counters'[profile'] = c
      BY <1>1, <2>1, <2>4, CountersNow
    <2> QED BY <2>3, <2>4, <2>5 DEF TurnsAgree, turns_decided, rows_taken
  <1>8. CASE MarkSurvives
    <2>1. turn < Len(tape)
      BY <1>1, <1>8 DEF TapeReaches, MarkSurvives
    <2>2. PICK row \in RowType : row = snapshot(account, bar)
      <3>1. account \in AccountType /\ Backed(account, Cap)
        BY <1>1 DEF TypeOK, IInv, AccountSound
      <3> QED BY <1>1, <2>1, <3>1, RowAgrees
    <2>3. Len(rows'[profile']) = Len(rows[profile]) + 1
      BY <1>1, <1>8, <2>2, LastRowAdded DEF MarkSurvives
    <2>4. /\ UNCHANGED <<profile, turn, counters>>
          /\ stage = "mark" /\ stage' = "close"
      BY <1>8 DEF MarkSurvives
    <2> QED BY <2>3, <2>4 DEF TurnsAgree, turns_decided, rows_taken
  <1>9. CASE Liquidate
    <2>1. PICK b \in AccountType : b = account' /\ turn < Len(tape)
      BY <1>9, LiquidatedNow
    <2>2. PICK row \in RowType : row = snapshot(b, bar)
      <3>1. IInv'
        BY <1>9, LiquidateKeeps
      <3>2. Backed(b, Cap)
        BY <2>1, <3>1 DEF IInv, AccountSound, Backed, Cap
      <3> QED BY <1>1, <2>1, <3>2, RowAgrees
    <2>3. /\ rows' = [rows EXCEPT ![profile] = Append(@, row)]
          /\ UNCHANGED <<profile, turn>>
          /\ stage = "mark" /\ stage' = "close"
      BY <1>9, <2>1, <2>2 DEF Liquidate
    <2>4. Len(rows'[profile']) = Len(rows[profile]) + 1
      BY <1>1, <2>2, <2>3, LastRowAdded
    <2>5. PICK c \in CountsType :
            /\ counters' = [counters EXCEPT ![profile] = c]
            /\ c.turns = counters[profile].turns
      BY <1>9, VerdictCounted
    <2>6. counters'[profile'] = c
      BY <1>1, <2>3, <2>5, CountersNow
    <2> QED BY <2>3, <2>4, <2>5, <2>6 DEF TurnsAgree, turns_decided, rows_taken
  <1>10. CASE CloseBar
    <2>1. stage = "close" /\ NextTurn /\ UNCHANGED <<profile, counters, rows>>
      BY <1>10 DEF CloseBar
    <2>2. \/ stage' = "decide" /\ turn' = turn + 1
          \/ stage' = "profile_end" /\ turn' = turn
      BY <2>1, TurnClosed
    <2> QED BY <2>1, <2>2 DEF TurnsAgree, turns_decided, rows_taken
  <1>11. CASE KillSwitch
    <2>1. stage = "close" /\ NextTurn /\ profile' = profile
      BY <1>11 DEF KillSwitch
    <2>2. \/ stage' = "decide" /\ turn' = turn + 1
          \/ stage' = "profile_end" /\ turn' = turn
      BY <2>1, TurnClosed
    <2>3. PICK row \in RowType :
            rows' = [rows EXCEPT ![profile][Len(rows[profile])] = row]
      <3>1. IInv'
        BY <1>11, KillSwitchKeeps
      <3>2. PICK b \in AccountType : b = account' /\ turn < Len(tape)
        BY <1>11, KilledNow
      <3>3. Backed(b, Cap)
        BY <3>1, <3>2 DEF IInv, AccountSound, Backed, Cap
      <3>4. PICK taken \in RowType : taken = snapshot(b, bar)
        BY <1>1, <3>2, <3>3, RowAgrees
      <3>5. rows[profile] \in Seq(RowType) /\ Len(rows[profile]) > 0
        BY <1>1 DEF TypeOK, RowsSound
      <3>6. PICK last \in RowType : last = rows[profile][Len(rows[profile])]
        BY <3>5, LenProperties, ElementOfSeq
      <3>7. row_after_kill(last, b) \in RowType
        BY <3>4, <3>6 DEF row_after_kill
      <3> QED BY <1>11, <3>2, <3>6, <3>7 DEF KillSwitch
    <2>4. Len(rows'[profile']) = Len(rows[profile])
      BY <1>1, <2>1, <2>3, LastRowAgain
    <2>5. PICK c \in CountsType :
            /\ counters' = [counters EXCEPT ![profile] = c]
            /\ c.turns = counters[profile].turns
      BY <1>11, VerdictCounted
    <2>6. counters'[profile'] = c
      BY <1>1, <2>1, <2>5, CountersNow
    <2> QED BY <2>1, <2>2, <2>4, <2>5, <2>6 DEF TurnsAgree, turns_decided, rows_taken
  <1>12. CASE StartStress
    <2>1. /\ profile = "primary" /\ profile' = "stress_2x" /\ counters' = counters
          /\ stage' = "decide" /\ turn' = 0
      BY <1>12 DEF StartStress
    <2>2. counters["stress_2x"].turns = 0
      <3>1. counters["stress_2x"] = no_counts
        BY <2>1 DEF OneEnd
      <3> QED BY <3>1 DEF no_counts
    <2>3. rows'[profile'] = <<opening_row>>
      BY <1>1, <1>12 DEF StartStress, TypeOK, Profiles
    <2>4. Len(rows'[profile']) = 1
      BY <2>3
    <2>5. counters'[profile'].turns = 0
      BY <2>1, <2>2
    <2>6. turns_decided' = 0 /\ rows_taken' = 1
      BY <2>1 DEF turns_decided, rows_taken
    <2> QED BY <2>4, <2>5, <2>6 DEF TurnsAgree
  <1> QED
    BY <1>3, <1>4, <1>5, <1>6, <1>7, <1>8, <1>9, <1>10, <1>11, <1>12
    DEF Next, Order, Returned

(* Which of the first n turns were of a kind: a turn more is one more of its *)
(* own kind, and what is added to the tape behind them changes nothing.      *)
LEMMA OneTurnMore ==
  ASSUME NEW tp, NEW n \in Nat, NEW kind
  PROVE  /\ Cardinality(of_kind(tp, kind, n)) \in Nat
         /\ Cardinality(of_kind(tp, kind, n + 1))
              = Cardinality(of_kind(tp, kind, n))
                  + (IF tp[n + 1].decision.kind = kind THEN 1 ELSE 0)
  <1>1. IsFiniteSet(of_kind(tp, kind, n))
    <2>1. IsFiniteSet(1..n)
      BY FS_Interval
    <2>2. of_kind(tp, kind, n) \subseteq 1..n
      BY DEF of_kind
    <2> QED BY <2>1, <2>2, FS_Subset
  <1>2. Cardinality(of_kind(tp, kind, n)) \in Nat
    BY <1>1, FS_CardinalityType
  <1>3. CASE tp[n + 1].decision.kind = kind
    <2>1. of_kind(tp, kind, n + 1) = of_kind(tp, kind, n) \cup {n + 1}
      BY <1>3 DEF of_kind
    <2>2. (n + 1) \notin of_kind(tp, kind, n)
      BY DEF of_kind
    <2>3. Cardinality(of_kind(tp, kind, n) \cup {n + 1})
            = Cardinality(of_kind(tp, kind, n)) + 1
      BY <1>1, <2>2, FS_AddElement
    <2> QED BY <1>2, <1>3, <2>1, <2>3
  <1>4. CASE tp[n + 1].decision.kind # kind
    <2>1. of_kind(tp, kind, n + 1) = of_kind(tp, kind, n)
      BY <1>4 DEF of_kind
    <2> QED BY <1>2, <1>4, <2>1
  <1> QED BY <1>2, <1>3, <1>4

(* The kinds of the turns so far, read from the tape, after one more turn.   *)
LEMMA KindCounted ==
  ASSUME NEW tp \in Seq(TurnType), NEW tq \in Seq(TurnType), NEW n \in Nat,
         NEW kind, \A t \in 1..n : tq[t] = tp[t]
  PROVE  Cardinality(of_kind(tq, kind, n + 1))
           = Cardinality(of_kind(tp, kind, n))
               + (IF tq[n + 1].decision.kind = kind THEN 1 ELSE 0)
  <1>1. of_kind(tq, kind, n) = of_kind(tp, kind, n)
    BY DEF of_kind
  <1>2. Cardinality(of_kind(tq, kind, n + 1))
          = Cardinality(of_kind(tq, kind, n))
              + (IF tq[n + 1].decision.kind = kind THEN 1 ELSE 0)
    BY OneTurnMore
  <1> QED BY <1>1, <1>2

LEMMA KindsStep ==
  IInv /\ OneEnd /\ TurnsAgree /\ KindsAgree /\ [Next]_vars => KindsAgree'
  <1> SUFFICES ASSUME IInv, OneEnd, TurnsAgree, KindsAgree, [Next]_vars
               PROVE KindsAgree'
    OBVIOUS
  <1>1. TypeOK /\ TapeReaches
    BY DEF IInv
  <1>2. turn \in Nat
    BY <1>1, TurnInRange
  <1>3. CASE UNCHANGED <<profile, counters, tape>>
    BY <1>3 DEF KindsAgree, turns_of, of_kind
  <1>4. CASE OrderBlocked \/ Liquidate \/ KillSwitch
    <2>1. profile' = profile /\ tape' = tape
      BY <1>4 DEF OrderBlocked, Liquidate, KillSwitch
    <2>2. PICK c \in CountsType :
            /\ counters' = [counters EXCEPT ![profile] = c]
            /\ c.turns = counters[profile].turns
            /\ c.missed = counters[profile].missed
            /\ c.invalid = counters[profile].invalid
            /\ counters[profile].post_kill <= counters[profile].gate_blocks
                 => c.post_kill <= c.gate_blocks
      BY <1>4, Blocked, VerdictCounted
    <2>3. counters'[profile'] = c
      BY <1>1, <2>1, <2>2, CountersNow
    <2> QED BY <2>1, <2>2, <2>3 DEF KindsAgree, turns_of, of_kind
  <1>5. CASE StartStress
    <2>1. profile = "primary" /\ profile' = "stress_2x" /\ counters' = counters
      BY <1>5 DEF StartStress
    <2>2. counters'[profile'] = no_counts
      BY <2>1 DEF OneEnd
    <2>3. \A tp, kind : of_kind(tp, kind, 0) = {}
      BY DEF of_kind
    <2>4. Cardinality({}) = 0
      BY FS_EmptySet
    <2>5. /\ no_counts.turns = 0 /\ no_counts.missed = 0 /\ no_counts.invalid = 0
          /\ no_counts.post_kill = 0 /\ no_counts.gate_blocks = 0
      BY DEF no_counts
    <2>6. tape' = tape /\ Len(tape) \in Nat
      <3>1. tape \in Seq(TurnType)
        BY <1>1 DEF TypeOK
      <3> QED BY <1>5, <3>1, LenProperties DEF StartStress
    <2>7. /\ no_counts.missed = Cardinality(of_kind(tape', "missed", no_counts.turns))
          /\ no_counts.invalid = Cardinality(of_kind(tape', "invalid", no_counts.turns))
      BY <2>3, <2>4, <2>5
    <2>8. no_counts.turns <= Len(tape') /\ no_counts.post_kill <= no_counts.gate_blocks
      BY <2>5, <2>6
    <2> QED BY <2>2, <2>7, <2>8 DEF KindsAgree, turns_of
  <1>6. CASE Decide \/ Redecide
    <2>1. PICK c \in CountsType :
            /\ counters' = [counters EXCEPT ![profile] = c]
            /\ c = counted(counters[profile], tape'[turn + 1].decision)
      BY <1>6, Decided
    <2>2. PICK old \in CountsType : old = counters[profile]
      BY <1>1 DEF TypeOK
    <2>3. PICK dec : dec = tape'[turn + 1].decision
      OBVIOUS
    <2>4. /\ c.turns = old.turns + 1
          /\ c.missed = old.missed + (IF dec.kind = "missed" THEN 1 ELSE 0)
          /\ c.invalid = old.invalid + (IF dec.kind = "invalid" THEN 1 ELSE 0)
          /\ c.post_kill = old.post_kill /\ c.gate_blocks = old.gate_blocks
      BY <2>1, <2>2, <2>3, DecidedSame
    <2>5. stage = "decide" /\ profile' = profile
      BY <1>6 DEF Decide, Redecide
    <2>6. counters'[profile'] = c
      BY <1>1, <2>1, <2>5, CountersNow
    <2>7. old.turns = turn
      BY <2>2, <2>5 DEF TurnsAgree, turns_decided
    <2>8. PICK tp \in Seq(TurnType), tq \in Seq(TurnType) :
            /\ tp = tape /\ tq = tape'
            /\ turn <= Len(tp) /\ turn + 1 <= Len(tq)
            /\ \A t \in 1..turn : tq[t] = tp[t]
      <3>1. tape \in Seq(TurnType) /\ Len(tape) \in Nat
        <4>1. tape \in Seq(TurnType)
          BY <1>1 DEF TypeOK
        <4> QED BY <4>1, LenProperties
      <3>2. CASE Decide
        <4>1. PICK b \in Bars, d \in Decisions :
                tape' = Append(tape, [bar |-> b, decision |-> d])
          BY <3>2 DEF Decide
        <4>2. PICK entry \in TurnType : entry = [bar |-> b, decision |-> d]
          BY DEF TurnType
        <4>3. Len(tape) = turn
          BY <1>1, <3>2 DEF TapeReaches, Decide
        <4>4. tape' \in Seq(TurnType)
          BY <3>1, <4>1, <4>2, AppendProperties
        <4>5. Len(tape') = Len(tape) + 1
          BY <3>1, <4>1, <4>2, AppendProperties
        <4>6. \A t \in 1..Len(tape) : tape'[t] = tape[t]
          BY <3>1, <4>1, <4>2, AppendProperties
        <4> QED BY <1>2, <3>1, <4>3, <4>4, <4>5, <4>6
      <3>3. CASE Redecide
        BY <1>2, <3>1, <3>3 DEF Redecide
      <3> QED BY <1>6, <3>2, <3>3
    <2>9. \A kind :
            Cardinality(of_kind(tq, kind, turn + 1))
              = Cardinality(of_kind(tp, kind, turn))
                  + (IF dec.kind = kind THEN 1 ELSE 0)
      <3> SUFFICES ASSUME NEW kind
                   PROVE  Cardinality(of_kind(tq, kind, turn + 1))
                            = Cardinality(of_kind(tp, kind, turn))
                                + (IF dec.kind = kind THEN 1 ELSE 0)
        OBVIOUS
      <3>1. \A t \in 1..turn : tq[t] = tp[t]
        BY <2>8
      <3>2. tq[turn + 1].decision = dec
        BY <2>3, <2>8
      <3>3. PICK n \in Nat : n = turn
        BY <1>2
      <3>4. \A t \in 1..n : tq[t] = tp[t]
        BY <3>1, <3>3
      <3>5. Cardinality(of_kind(tq, kind, n + 1))
              = Cardinality(of_kind(tp, kind, n))
                  + (IF tq[n + 1].decision.kind = kind THEN 1 ELSE 0)
        BY <3>4, KindCounted
      <3> QED BY <3>2, <3>3, <3>5
    <2>10. /\ old.missed = Cardinality(of_kind(tp, "missed", turn))
           /\ old.invalid = Cardinality(of_kind(tp, "invalid", turn))
           /\ old.post_kill <= old.gate_blocks
      BY <2>2, <2>7, <2>8 DEF KindsAgree, turns_of
    <2>11. /\ c.missed = Cardinality(of_kind(tq, "missed", c.turns))
           /\ c.invalid = Cardinality(of_kind(tq, "invalid", c.turns))
      BY <2>4, <2>7, <2>9, <2>10
    <2>12. c.turns <= Len(tq) /\ c.post_kill <= c.gate_blocks
      BY <2>4, <2>7, <2>8, <2>10
    <2> QED BY <2>6, <2>8, <2>11, <2>12 DEF KindsAgree, turns_of
  <1>7. CASE \/ TraceEnds \/ CarryFunding \/ NoOrder \/ OrderRaises \/ OrderCancelled
             \/ OrderFilled \/ NothingToTrade \/ HoldFunding \/ Held
             \/ MarkSurvives \/ CloseBar \/ Finish \/ UNCHANGED vars
    BY <1>3, <1>7 DEF TraceEnds, CarryFunding, NoOrder, OrderRaises, OrderCancelled,
                      OrderFilled, NothingToTrade, HoldFunding, Held, MarkSurvives,
                      CloseBar, Finish, vars
  <1> QED BY <1>4, <1>5, <1>6, <1>7 DEF Next, Order, Returned

LEMMA InitLedger == Init => LedgerHolds
  <1> SUFFICES ASSUME Init PROVE LedgerHolds
    OBVIOUS
  <1> USE DEF Init
  <1>1. PICK row \in RowType : row = opening_row /\ Agrees(row, opened_account)
    BY OpeningAgrees
  <1>2. rows[profile] = <<row>> /\ counters[profile] = no_counts
        /\ counters["stress_2x"] = no_counts
    BY <1>1 DEF Profiles
  <1>3. /\ no_counts.turns = 0 /\ no_counts.missed = 0 /\ no_counts.invalid = 0
        /\ no_counts.post_kill = 0 /\ no_counts.gate_blocks = 0
        /\ no_counts.liquidations = 0 /\ no_counts.kills = 0
    BY DEF no_counts
  <1>4. OneEnd
    BY <1>2, <1>3, OpenedSound DEF OneEnd
  <1>5. LastRowAgrees
    <2> HIDE DEF Init
    <2>1. rows[profile][Len(rows[profile])] = row
      BY <1>2
    <2> USE DEF Init
    <2> QED BY <1>1, <2>1 DEF LastRowAgrees
  <1>6. TurnsAgree
    <2>1. Len(rows[profile]) = 1
      BY <1>2
    <2> QED BY <1>2, <1>3, <2>1 DEF TurnsAgree, turns_decided, rows_taken
  <1>7. KindsAgree
    <2>1. \A tp, kind : of_kind(tp, kind, 0) = {}
      BY DEF of_kind
    <2>2. Cardinality({}) = 0
      BY FS_EmptySet
    <2>3. Len(tape) = 0
      OBVIOUS
    <2> HIDE DEF Init
    <2>4. /\ no_counts.missed = Cardinality(of_kind(tape, "missed", no_counts.turns))
          /\ no_counts.invalid = Cardinality(of_kind(tape, "invalid", no_counts.turns))
      BY <1>3, <2>1, <2>2
    <2>5. no_counts.turns <= Len(tape) /\ no_counts.post_kill <= no_counts.gate_blocks
      BY <1>3, <2>3
    <2> QED BY <1>2, <2>4, <2>5 DEF KindsAgree, turns_of
  <1> QED BY <1>4, <1>5, <1>6, <1>7 DEF LedgerHolds

LEMMA LedgerInvariance == Spec => []LedgerHolds
  <1>1. IInv /\ LedgerHolds /\ [Next]_vars => LedgerHolds'
    BY OneEndStep, LastRowStep, TurnsStep, KindsStep DEF LedgerHolds
  <1> QED BY <1>1, InitLedger, Invariance, PTL DEF Spec

(***************************************************************************)
(* The ledger of a profile is its episode, for every pack and every list   *)
(* of decisions: one row a turn, the last one what the account holds, each *)
(* turn counted as what it was, and never both a liquidation and a kill    *)
(* (_run_profile; profile_invariant of the result).                        *)
(***************************************************************************)
THEOREM EpisodeLedger == Spec => []LedgerIsTheEpisode
  <1>1. IInv /\ LedgerHolds => OneVerdict
    <2> SUFFICES ASSUME IInv, OneEnd, NEW p \in Profiles
                 PROVE  counters[p].liquidations + counters[p].kills <= 1
      BY DEF LedgerHolds, OneVerdict
    <2>1. CASE p = profile
      <3>1. /\ terminal => ~account.killed
            /\ counters[p].liquidations = IF terminal THEN 1 ELSE 0
            /\ counters[p].kills = IF account.killed THEN 1 ELSE 0
        BY <2>1 DEF OneEnd
      <3>2. CASE terminal
        BY <3>1, <3>2
      <3>3. CASE ~terminal
        BY <3>1, <3>3
      <3> QED BY <3>2, <3>3
    <2>2. CASE p # profile
      <3>1. no_counts.liquidations + no_counts.kills <= 1
        BY DEF no_counts
      <3>2. \/ p = "primary" /\ profile = "stress_2x"
            \/ p = "stress_2x" /\ profile = "primary"
        BY <2>2 DEF IInv, TypeOK, Profiles
      <3> QED BY <3>1, <3>2 DEF OneEnd
    <2> QED BY <2>1, <2>2
  <1>2. LedgerHolds => LastRowIsTheAccount
    BY DEF LedgerHolds, LastRowAgrees, Agrees, LastRowIsTheAccount
  <1>3. IInv /\ LedgerHolds => RowsFollowTurns
    <2> SUFFICES ASSUME IInv, TurnsAgree, KindsAgree, stage \in {"decide", "profile_end"}
                 PROVE  RowsFollowTurns
      BY DEF LedgerHolds, RowsFollowTurns
    <2>1. /\ Len(rows[profile]) = turns_decided + 1
          /\ counters[profile].turns = turns_decided
      BY DEF TurnsAgree, rows_taken
    <2> QED BY <2>1 DEF KindsAgree, turns_of, of_kind, turns_decided, RowsFollowTurns
  <1>4. IInv /\ LedgerHolds => LedgerIsTheEpisode
    BY <1>1, <1>2, <1>3 DEF LedgerIsTheEpisode
  <1> QED BY <1>4, Invariance, LedgerInvariance, PTL

-----------------------------------------------------------------------------
(* The run ends. *)

(* The steps left, as a function of what tells them.                         *)
stages_from(s) ==
  CASE s = "decide" -> 6 [] s = "carry" -> 5 [] s = "order" -> 4
    [] s = "hold" -> 3   [] s = "mark" -> 2  [] s = "close" -> 1
    [] s \in {"profile_end", "done", "raised"} -> 0

turns_after(t) == 6 * (BarsTotal - 1 - t)

stress_after(p) == IF p = "primary" THEN 6 * BarsTotal + 1 ELSE 0

steps_from(s, later, after) ==
  IF s \in {"done", "raised"} THEN 0
  ELSE 1 + stages_from(s) + (IF s = "profile_end" THEN 0 ELSE later) + after

LEMMA StepsNow ==
  /\ steps_left = steps_from(stage, turns_after(turn), stress_after(profile))
  /\ steps_left' = steps_from(stage', turns_after(turn'), stress_after(profile'))
  BY DEF steps_left, stages_left, steps_from, stages_from, stress_after, turns_after

LEMMA StagesFrom ==
  /\ stages_from("decide") = 6 /\ stages_from("carry") = 5
  /\ stages_from("order") = 4 /\ stages_from("hold") = 3
  /\ stages_from("mark") = 2 /\ stages_from("close") = 1
  /\ stages_from("profile_end") = 0
  BY DEF stages_from

LEMMA StepsByStage ==
  ASSUME NEW later \in Int, NEW after \in Int
  PROVE  /\ \A s \in {"done", "raised"} : steps_from(s, later, after) = 0
         /\ steps_from("profile_end", later, after) = 1 + after
         /\ steps_from("close", later, after) = 2 + later + after
         /\ steps_from("mark", later, after) = 3 + later + after
         /\ steps_from("hold", later, after) = 4 + later + after
         /\ steps_from("order", later, after) = 5 + later + after
         /\ steps_from("carry", later, after) = 6 + later + after
         /\ steps_from("decide", later, after) = 7 + later + after
  BY StagesFrom DEF steps_from

(* A step to the next stage of the turn, or to an exception.                 *)
Forward ==
  /\ UNCHANGED <<profile, turn>>
  /\ \/ stage = "decide" /\ stage' \in {"carry", "raised"}
     \/ stage = "carry" /\ stage' = "order"
     \/ stage = "order" /\ stage' \in {"hold", "raised"}
     \/ stage = "hold" /\ stage' = "mark"
     \/ stage = "mark" /\ stage' = "close"
     \/ stage = "profile_end" /\ stage' \in {"done", "raised"}

LEMMA FewerSteps ==
  ASSUME IInv, [Next]_vars, vars' # vars
  PROVE  \/ steps_left' < steps_left
         \/ /\ UNCHANGED <<profile, stage, turn>>
            /\ paid' = paid + 1 /\ paid' <= Len(bar.inside)
  <1>1. TypeOK /\ TapeReaches
    BY DEF IInv
  <1>2. turn \in Nat /\ BarsTotal \in Nat /\ turn < BarsTotal
    BY <1>1, TurnInRange
  <1>3. PICK later \in Nat, after \in Nat :
          later = turns_after(turn) /\ after = stress_after(profile)
    BY <1>2 DEF turns_after, stress_after
  <1>4. PICK now : now = steps_left
    OBVIOUS
  <1>5. /\ now = steps_from(stage, later, after)
        /\ steps_left' = steps_from(stage', turns_after(turn'), stress_after(profile'))
    BY <1>3, <1>4, StepsNow
  <1>6. /\ \A s \in {"done", "raised"} : steps_from(s, later, after) = 0
        /\ steps_from("profile_end", later, after) = 1 + after
        /\ steps_from("close", later, after) = 2 + later + after
        /\ steps_from("mark", later, after) = 3 + later + after
        /\ steps_from("hold", later, after) = 4 + later + after
        /\ steps_from("order", later, after) = 5 + later + after
        /\ steps_from("carry", later, after) = 6 + later + after
        /\ steps_from("decide", later, after) = 7 + later + after
    BY StepsByStage
  <1>7. CASE Forward
    <2>1. steps_left' = steps_from(stage', later, after)
      BY <1>3, <1>5, <1>7 DEF Forward
    <2>2. steps_from(stage', later, after) < steps_from(stage, later, after)
      BY <1>6, <1>7 DEF Forward
    <2> QED BY <1>4, <1>5, <2>1, <2>2
  <1>8. CASE HoldFunding
    <2>1. turn < Len(tape)
      BY <1>1, <1>8 DEF TapeReaches, HoldFunding
    <2>2. bar.inside \in Seq(Settlement) /\ paid \in Nat /\ paid < Len(bar.inside)
      BY <1>1, <1>8, <2>1, BarInPlay DEF TypeOK, Bar, HoldFunding
    <2>3. Len(bar.inside) \in Nat
      BY <2>2, LenProperties
    <2>4. UNCHANGED <<profile, stage, turn>> /\ paid' = paid + 1
      BY <1>8 DEF HoldFunding
    <2> QED BY <2>2, <2>3, <2>4
  <1>9. CASE CloseBar \/ KillSwitch
    <2>1. stage = "close" /\ NextTurn /\ profile' = profile
      BY <1>9 DEF CloseBar, KillSwitch
    <2>2. CASE stage' = "decide" /\ turn' = turn + 1
      <3>1. PICK rest \in Int : rest = turns_after(turn') /\ rest = later - 6
        <4>1. 6 * (BarsTotal - 1 - (turn + 1)) = 6 * (BarsTotal - 1 - turn) - 6
          BY <1>2
        <4> QED BY <1>3, <2>2, <4>1 DEF turns_after
      <3>2. steps_from("decide", rest, after) = 7 + rest + after
        BY StepsByStage
      <3>3. steps_left' = steps_from("decide", rest, after)
        BY <1>3, <1>5, <2>1, <2>2, <3>1
      <3>4. steps_from("decide", rest, after) < steps_from("close", later, after)
        BY <1>6, <3>1, <3>2
      <3> QED BY <1>4, <1>5, <2>1, <3>3, <3>4
    <2>3. CASE stage' = "profile_end" /\ turn' = turn
      <3>1. steps_left' = steps_from("profile_end", later, after)
        BY <1>3, <1>5, <2>1, <2>3
      <3>2. steps_from("profile_end", later, after) < steps_from("close", later, after)
        BY <1>6
      <3> QED BY <1>4, <1>5, <2>1, <3>1, <3>2
    <2> QED BY <2>1, <2>2, <2>3, TurnClosed
  <1>10. CASE StartStress
    <2>1. /\ stage = "profile_end" /\ profile = "primary" /\ profile' = "stress_2x"
          /\ stage' = "decide" /\ turn' = 0
      BY <1>10 DEF StartStress
    <2>2. after = 6 * BarsTotal + 1
      BY <1>3, <2>1 DEF stress_after
    <2>3. PICK rest \in Int : rest = turns_after(turn') /\ rest = 6 * BarsTotal - 6
      <3>1. 6 * (BarsTotal - 1 - 0) = 6 * BarsTotal - 6
        BY <1>2
      <3> QED BY <1>2, <2>1, <3>1 DEF turns_after
    <2>4. steps_from("decide", rest, 0) = 7 + rest + 0
      BY StepsByStage
    <2>5. steps_left' = steps_from("decide", rest, 0)
      <3>1. stress_after("stress_2x") = 0
        BY DEF stress_after
      <3> QED BY <1>5, <2>1, <2>3, <3>1
    <2>6. steps_from("decide", rest, 0) < steps_from("profile_end", later, after)
      BY <1>2, <1>6, <2>2, <2>3, <2>4
    <2> QED BY <1>4, <1>5, <2>1, <2>5, <2>6
  <1>11. Decide \/ Redecide \/ TraceEnds \/ CarryFunding \/ Order \/ Held
           \/ MarkSurvives \/ Liquidate \/ Finish => Forward
    BY DEF Forward, Decide, Redecide, TraceEnds, CarryFunding, Order, NoOrder,
           OrderRaises, OrderBlocked, OrderCancelled, OrderFilled, NothingToTrade,
           Priced, Passed, Sized, Ordering, Held, MarkSurvives, Liquidate, Finish, Raise
  <1> QED BY <1>7, <1>8, <1>9, <1>10, <1>11 DEF Next, Returned

LEMMA StepsAreCounted ==
  ASSUME NEW later \in Nat, NEW after \in Nat, NEW s \in Stages
  PROVE  steps_from(s, later, after) \in Nat
  <1>1. stages_from(s) \in Nat
    BY DEF Stages, stages_from
  <1> QED BY <1>1 DEF steps_from

LEMMA MeasureType == IInv => steps_left \in Nat
  <1> SUFFICES ASSUME IInv PROVE steps_left \in Nat
    OBVIOUS
  <1>1. TypeOK
    BY DEF IInv
  <1>2. turn \in Nat /\ BarsTotal \in Nat /\ turn < BarsTotal
    BY <1>1, TurnInRange
  <1>3. turns_after(turn) \in Nat /\ stress_after(profile) \in Nat
    BY <1>2 DEF turns_after, stress_after
  <1>4. stage \in Stages
    BY <1>1 DEF TypeOK
  <1>5. steps_from(stage, turns_after(turn), stress_after(profile)) \in Nat
    BY <1>3, <1>4, StepsAreCounted
  <1> QED BY <1>5, StepsNow

(***************************************************************************)
(* The run ends: whatever is decided, however many bars the pack has and   *)
(* whichever profile ends early, every step is one of finitely many, the   *)
(* only other steps being the settlements inside a bar, each paid once     *)
(* (the loops of run_episode and _run_profile), and the steps left are     *)
(* always a natural number.                                                *)
(***************************************************************************)
THEOREM EpisodeAlwaysEnds == Spec => EpisodeEnds /\ [](steps_left \in Nat)
  <1>1. IInv /\ [Next]_vars
          => [ \/ steps_left' < steps_left
               \/ /\ UNCHANGED <<profile, stage, turn>>
                  /\ paid' = paid + 1 /\ paid' <= Len(bar.inside)]_vars
    BY FewerSteps
  <1> QED BY <1>1, MeasureType, Invariance, PTL DEF Spec, EpisodeEnds

-----------------------------------------------------------------------------
(* The log of a turn. *)

(* What may be logged between a decision and the mark of its bar, and at all.*)
OrderEvents ==
  {"RiskCheck", "OrderFilled", "OrderCancelled", "FundingApplied",
   "PostKillSwitchAttempt"}

EventTypes ==
  OrderEvents \cup
  {"ObservationEmitted", "AgentResponded", "EgressBlocked", "ActionParsed",
   "ActionRejected", "MarginUpdate", "NearLiquidation", "LiquidationTriggered",
   "KillSwitchTriggered", "EpisodeEnd"}

at(s, types) == {i \in DOMAIN s : s[i] \in types}

LEMMA TypedAt ==
  ASSUME NEW types
  PROVE  typed(types) = at(trail, types) /\ typed(types)' = at(trail', types)
  BY DEF typed, at

(* Where the types are after more has been logged.                           *)
LEMMA AtMore ==
  ASSUME NEW S, NEW s \in Seq(S), NEW t \in Seq(S), NEW types
  PROVE  /\ s \o t \in Seq(S) /\ Len(s \o t) = Len(s) + Len(t)
         /\ at(s \o t, types) = at(s, types) \cup {Len(s) + i : i \in at(t, types)}
         /\ at(t, types) = {} => at(s \o t, types) = at(s, types)
  <1>1. s \o t \in Seq(S) /\ Len(s \o t) = Len(s) + Len(t)
    BY ConcatProperties
  <1>2. PICK n \in Nat, m \in Nat : n = Len(s) /\ m = Len(t)
    BY LenProperties
  <1>3. PICK u : u = s \o t
    OBVIOUS
  <1>4. DOMAIN s = 1..n /\ DOMAIN t = 1..m /\ DOMAIN u = 1..(n + m)
    BY <1>1, <1>2, <1>3, LenProperties
  <1>5. \A i \in 1..(n + m) : u[i] = IF i <= n THEN s[i] ELSE t[i - n]
    BY <1>2, <1>3, ConcatProperties
  <1>6. at(u, types) \subseteq at(s, types) \cup {n + i : i \in at(t, types)}
    <2> SUFFICES ASSUME NEW i \in 1..(n + m), u[i] \in types
                 PROVE  i \in at(s, types) \cup {n + k : k \in at(t, types)}
      BY <1>4 DEF at
    <2>1. CASE i <= n
      <3>1. i \in 1..n /\ s[i] \in types
        BY <1>5, <2>1
      <3> QED BY <1>4, <3>1 DEF at
    <2>2. CASE i > n
      <3>1. PICK k \in 1..m : k = i - n /\ i = n + k
        BY <2>2
      <3>2. t[k] \in types
        <4>1. u[i] = t[i - n]
          BY <1>5, <2>2
        <4> QED BY <3>1, <4>1
      <3>3. k \in at(t, types)
        BY <1>4, <3>2 DEF at
      <3> QED BY <3>1, <3>3
    <2> QED BY <2>1, <2>2
  <1>7. at(s, types) \subseteq at(u, types)
    <2> SUFFICES ASSUME NEW i \in 1..n, s[i] \in types PROVE i \in at(u, types)
      BY <1>4 DEF at
    <2>1. i \in 1..(n + m) /\ i <= n
      OBVIOUS
    <2>2. u[i] = s[i]
      BY <1>5, <2>1
    <2> QED BY <1>4, <2>1, <2>2 DEF at
  <1>8. \A i \in at(t, types) : n + i \in at(u, types)
    <2> SUFFICES ASSUME NEW i \in 1..m, t[i] \in types PROVE n + i \in at(u, types)
      BY <1>4 DEF at
    <2>1. n + i \in 1..(n + m) /\ ~(n + i <= n) /\ (n + i) - n = i
      OBVIOUS
    <2>2. u[n + i] = t[i]
      BY <1>5, <2>1
    <2> QED BY <1>4, <2>1, <2>2 DEF at
  <1>9. at(u, types) = at(s, types) \cup {n + i : i \in at(t, types)}
    BY <1>6, <1>7, <1>8
  <1>10. at(t, types) = {} => at(u, types) = at(s, types)
    BY <1>9
  <1> QED BY <1>1, <1>2, <1>3, <1>9, <1>10

(* A sequence that repeats one type, and one that has a single event.        *)
LEMMA TimesType ==
  ASSUME NEW n \in Nat, NEW S, NEW type \in S
  PROVE  /\ Times(n, type) \in Seq(S) /\ Len(Times(n, type)) = n
         /\ \A types : type \notin types => at(Times(n, type), types) = {}
  <1>1. Times(n, type) = [i \in 1..n |-> type]
    BY DEF Times
  <1>2. Times(n, type) \in Seq(S) /\ Len(Times(n, type)) = n
    BY <1>1, IsASeq
  <1> QED BY <1>1, <1>2 DEF at

LEMMA OneEvent ==
  ASSUME NEW S, NEW type \in S
  PROVE  /\ <<type>> \in Seq(S) /\ Len(<<type>>) = 1
         /\ \A types : /\ type \in types => at(<<type>>, types) = {1}
                       /\ type \notin types => at(<<type>>, types) = {}
  <1>1. <<type>> \in Seq(S) /\ Len(<<type>>) = 1 /\ DOMAIN <<type>> = {1}
    OBVIOUS
  <1>2. <<type>>[1] = type
    OBVIOUS
  <1> QED BY <1>1, <1>2 DEF at

LEMMA NoEvent ==
  ASSUME NEW S
  PROVE  /\ <<>> \in Seq(S) /\ Len(<<>>) = 0
         /\ \A types : at(<<>>, types) = {}
  BY DEF at

(* A sequence over some types has no others.                                 *)
LEMMA NoneOfThese ==
  ASSUME NEW S, NEW s \in Seq(S), NEW types, S \cap types = {}
  PROVE  at(s, types) = {}
  <1>1. \A i \in DOMAIN s : s[i] \in S
    BY ElementOfSeq, LenProperties
  <1> QED BY <1>1 DEF at

LEMMA TwoEvents ==
  ASSUME NEW S, NEW first \in S, NEW second \in S
  PROVE  /\ <<first, second>> \in Seq(S) /\ Len(<<first, second>>) = 2
         /\ \A types :
              /\ 1 \in at(<<first, second>>, types) <=> first \in types
              /\ 2 \in at(<<first, second>>, types) <=> second \in types
              /\ at(<<first, second>>, types) \subseteq {1, 2}
  <1>1. /\ <<first, second>> \in Seq(S) /\ Len(<<first, second>>) = 2
        /\ DOMAIN <<first, second>> = {1, 2}
    OBVIOUS
  <1>2. <<first, second>>[1] = first /\ <<first, second>>[2] = second
    OBVIOUS
  <1> QED BY <1>1, <1>2 DEF at

(* The checks an order starts with.                                          *)
LEMMA ChecksType ==
  /\ RiskChecks \in Seq(OrderEvents)
  /\ \A types : "RiskCheck" \notin types => at(RiskChecks, types) = {}
  <1>1. PICK n \in Nat : RiskChecks = Times(n, "RiskCheck")
    BY DEF RiskChecks
  <1>2. "RiskCheck" \in OrderEvents
    BY DEF OrderEvents
  <1> QED BY <1>1, <1>2, TimesType

(* Checks, and then one event or none.                                       *)
LEMMA ChecksAnd ==
  ASSUME NEW type \in OrderEvents, type # "RiskCheck"
  PROVE  /\ RiskChecks \o <<type>> \in Seq(OrderEvents)
         /\ \A types : "RiskCheck" \notin types =>
              /\ type \in types =>
                   \E p \in Nat : at(RiskChecks \o <<type>>, types) = {p}
              /\ type \notin types => at(RiskChecks \o <<type>>, types) = {}
  <1>1. PICK checks \in Seq(OrderEvents) :
          /\ checks = RiskChecks
          /\ \A types : "RiskCheck" \notin types => at(checks, types) = {}
    BY ChecksType
  <1>2. PICK one \in Seq(OrderEvents) :
          /\ one = <<type>>
          /\ \A types : /\ type \in types => at(one, types) = {1}
                        /\ type \notin types => at(one, types) = {}
    BY OneEvent
  <1>3. checks \o one \in Seq(OrderEvents)
    BY AtMore
  <1>4. \A types :
          at(checks \o one, types)
            = at(checks, types) \cup {Len(checks) + i : i \in at(one, types)}
    BY AtMore
  <1>5. Len(checks) \in Nat
    BY LenProperties
  <1>6. ASSUME NEW types, "RiskCheck" \notin types
        PROVE  /\ type \in types => at(checks \o one, types) = {Len(checks) + 1}
               /\ type \notin types => at(checks \o one, types) = {}
    BY <1>1, <1>2, <1>4, <1>6
  <1>7. Len(checks) + 1 \in Nat
    BY <1>5
  <1> QED BY <1>1, <1>2, <1>3, <1>6, <1>7

(* What the middle of a turn logs, and what it has moved by then.            *)
Middle == CarryFunding \/ Order \/ HoldFunding \/ Held

Traces(new) ==
  /\ trail' = trail \o new
  /\ \E p : at(new, {"PostKillSwitchAttempt"}) \subseteq {p}
  /\ stage # "order" => at(new, {"PostKillSwitchAttempt"}) = {}
  /\ account'.qty # account.qty => at(new, {"OrderFilled"}) # {}
  /\ account'.cash # account.cash => at(new, {"OrderFilled", "FundingApplied"}) # {}

LEMMA NothingTraced ==
  ASSUME trail \in Seq(EventTypes), trail' = trail,
         account'.qty = account.qty, account'.cash = account.cash
  PROVE  \E new \in Seq(OrderEvents) : Traces(new)
  <1>1. PICK none \in Seq(OrderEvents) :
          none = <<>> /\ \A types : at(none, types) = {}
    BY NoEvent
  <1>2. trail' = trail \o none
    BY <1>1, ConcatEmptySeq
  <1> QED BY <1>1, <1>2 DEF Traces

(* A settlement moves the cash and not the position, and is logged.          *)
LEMMA FundingTraced ==
  ASSUME TypeOK, collect_evidence, NEW settlement \in Settlement,
         account' = applied_funding(account, settlement),
         Emit(<<"FundingApplied">>)
  PROVE  \E new \in Seq(OrderEvents) : Traces(new)
  <1>1. PICK a \in AccountType : a = account
    BY DEF TypeOK
  <1>2. account'.qty = account.qty
    <2>1. PICK b \in AccountType :
            b = applied_funding(a, settlement) /\ b.qty = a.qty
      BY FundingKeeps
    <2> QED BY <1>1, <2>1
  <1>3. PICK new \in Seq(OrderEvents) :
          /\ new = <<"FundingApplied">>
          /\ at(new, {"PostKillSwitchAttempt"}) = {}
          /\ at(new, {"OrderFilled", "FundingApplied"}) = {1}
    <2>1. "FundingApplied" \in OrderEvents
      BY DEF OrderEvents
    <2>2. <<"FundingApplied">> \in Seq(OrderEvents)
      BY <2>1, OneEvent
    <2>3. at(<<"FundingApplied">>, {"PostKillSwitchAttempt"}) = {}
      BY <2>1, OneEvent
    <2>4. at(<<"FundingApplied">>, {"OrderFilled", "FundingApplied"}) = {1}
      BY <2>1, OneEvent
    <2> QED BY <2>2, <2>3, <2>4
  <1>4. trail' = trail \o new
    BY <1>3 DEF Emit
  <1> QED BY <1>2, <1>3, <1>4 DEF Traces

LEMMA MiddleTraced ==
  ASSUME IInv, trail \in Seq(EventTypes), collect_evidence, Middle
  PROVE  stage' # "raised" => \E new \in Seq(OrderEvents) : Traces(new)
  <1>1. TypeOK /\ TapeReaches /\ AccountSound
    BY DEF IInv
  <1>2. CASE CarryFunding
    <2>1. CASE bar.at_open = <<>>
      BY <1>2, <2>1, NothingTraced DEF CarryFunding
    <2>2. CASE bar.at_open # <<>>
      <3>1. turn < Len(tape)
        BY <1>1, <1>2 DEF TapeReaches, CarryFunding
      <3>2. bar.at_open \in Seq(Settlement)
        BY <1>1, <3>1, BarInPlay DEF Bar
      <3>3. bar.at_open[1] \in Settlement
        BY <2>2, <3>2
      <3> QED BY <1>1, <1>2, <2>2, <3>3, FundingTraced DEF CarryFunding
    <2> QED BY <2>1, <2>2
  <1>3. CASE HoldFunding
    <2>1. turn < Len(tape)
      BY <1>1, <1>3 DEF TapeReaches, HoldFunding
    <2>2. bar.inside \in Seq(Settlement) /\ paid \in Nat /\ paid < Len(bar.inside)
      BY <1>1, <1>3, <2>1, BarInPlay DEF TypeOK, Bar, HoldFunding
    <2>3. PICK n \in 1..Len(bar.inside) : n = paid + 1
      BY <2>2, LenProperties
    <2>4. bar.inside[n] \in Settlement
      BY <2>2, ElementOfSeq
    <2> QED BY <1>1, <1>3, <2>3, <2>4, FundingTraced DEF HoldFunding
  <1>4. CASE NoOrder \/ Held
    BY <1>4, NothingTraced DEF NoOrder, Held
  <1>5. CASE OrderRaises
    BY <1>5 DEF OrderRaises, Raise
  <1>6. CASE OrderBlocked
    <2>1. account' = account /\ stage = "order"
      BY <1>6 DEF OrderBlocked, Sized, Ordering
    <2>2. PICK new \in Seq(OrderEvents) :
            /\ trail' = trail \o new
            /\ \E p : at(new, {"PostKillSwitchAttempt"}) \subseteq {p}
      <3>1. CASE account.killed /\ decision.lev # 0
        <4>1. trail' = trail \o (RiskChecks \o <<"PostKillSwitchAttempt">>)
          BY <1>6, <3>1 DEF OrderBlocked, Emit
        <4>2. "PostKillSwitchAttempt" \in OrderEvents
          BY DEF OrderEvents
        <4>3. RiskChecks \o <<"PostKillSwitchAttempt">> \in Seq(OrderEvents)
          BY <4>2, ChecksAnd
        <4>4. \E p \in Nat : at(RiskChecks \o <<"PostKillSwitchAttempt">>,
                                {"PostKillSwitchAttempt"}) = {p}
          BY <4>2, ChecksAnd
        <4> QED BY <4>1, <4>3, <4>4
      <3>2. CASE ~(account.killed /\ decision.lev # 0)
        <4>1. RiskChecks \in Seq(OrderEvents)
              /\ at(RiskChecks, {"PostKillSwitchAttempt"}) = {}
          BY ChecksType
        <4>2. RiskChecks \o <<>> = RiskChecks
          BY <4>1, ConcatEmptySeq
        <4>3. trail' = trail \o RiskChecks
          BY <1>6, <3>2, <4>2 DEF OrderBlocked, Emit
        <4> QED BY <4>1, <4>3
      <3> QED BY <3>1, <3>2
    <2> QED BY <2>1, <2>2 DEF Traces
  <1>7. CASE OrderCancelled
    <2>1. account' = account /\ trail' = trail \o Append(RiskChecks, "OrderCancelled")
      BY <1>7 DEF OrderCancelled, Emit
    <2>2. "OrderCancelled" \in OrderEvents
      BY DEF OrderEvents
    <2>3. RiskChecks \o <<"OrderCancelled">> \in Seq(OrderEvents)
          /\ at(RiskChecks \o <<"OrderCancelled">>, {"PostKillSwitchAttempt"}) = {}
      BY <2>2, ChecksAnd
    <2>4. Append(RiskChecks, "OrderCancelled") = RiskChecks \o <<"OrderCancelled">>
      BY <2>2, ChecksType, AppendIsConcat
    <2> QED BY <2>1, <2>3, <2>4 DEF Traces
  <1>8. CASE NothingToTrade
    <2>1. account'.qty = account.qty /\ account'.cash = account.cash
      <3>1. account \in AccountType
        BY <1>1 DEF TypeOK
      <3> QED BY <1>8, <3>1 DEF NothingToTrade, AccountType
    <2>2. PICK new \in Seq(OrderEvents) :
            trail' = trail \o new /\ at(new, {"PostKillSwitchAttempt"}) = {}
      <3>1. RiskChecks \in Seq(OrderEvents)
            /\ at(RiskChecks, {"PostKillSwitchAttempt"}) = {}
        BY ChecksType
      <3>2. RiskChecks \o <<>> = RiskChecks
        BY <3>1, ConcatEmptySeq
      <3>3. "OrderCancelled" \in OrderEvents
        BY DEF OrderEvents
      <3>4. RiskChecks \o <<"OrderCancelled">> \in Seq(OrderEvents)
            /\ at(RiskChecks \o <<"OrderCancelled">>, {"PostKillSwitchAttempt"}) = {}
        BY <3>3, ChecksAnd
      <3>5. \/ trail' = trail \o RiskChecks
            \/ trail' = trail \o (RiskChecks \o <<"OrderCancelled">>)
        BY <1>8, <3>2 DEF NothingToTrade, Emit
      <3> QED BY <3>1, <3>4, <3>5
    <2> QED BY <2>1, <2>2 DEF Traces
  <1>9. CASE OrderFilled
    <2>1. PICK filled \in Seq(OrderEvents), p \in Nat :
            /\ filled = RiskChecks \o <<"OrderFilled">>
            /\ at(filled, {"OrderFilled"}) = {p}
            /\ at(filled, {"OrderFilled", "FundingApplied"}) = {p}
            /\ at(filled, {"PostKillSwitchAttempt"}) = {}
      <3>1. "OrderFilled" \in OrderEvents
        BY DEF OrderEvents
      <3>2. /\ RiskChecks \o <<"OrderFilled">> \in Seq(OrderEvents)
            /\ at(RiskChecks \o <<"OrderFilled">>, {"PostKillSwitchAttempt"}) = {}
        BY <3>1, ChecksAnd
      <3>3. \E p \in Nat : at(RiskChecks \o <<"OrderFilled">>, {"OrderFilled"}) = {p}
        BY <3>1, ChecksAnd
      <3>4. at(RiskChecks \o <<"OrderFilled">>, {"FundingApplied"}) = {}
        BY <3>1, ChecksAnd
      <3>5. at(RiskChecks \o <<"OrderFilled">>, {"OrderFilled", "FundingApplied"})
              = at(RiskChecks \o <<"OrderFilled">>, {"OrderFilled"})
                \cup at(RiskChecks \o <<"OrderFilled">>, {"FundingApplied"})
        BY DEF at
      <3> QED BY <3>2, <3>3, <3>4, <3>5
    <2>2. PICK rest \in Seq(OrderEvents) :
            /\ rest = IF order_fill.cancelled > 0 THEN <<"OrderCancelled">> ELSE <<>>
            /\ at(rest, {"OrderFilled"}) = {}
            /\ at(rest, {"OrderFilled", "FundingApplied"}) = {}
            /\ at(rest, {"PostKillSwitchAttempt"}) = {}
      <3>1. "OrderCancelled" \in OrderEvents
        BY DEF OrderEvents
      <3>2. /\ <<"OrderCancelled">> \in Seq(OrderEvents)
            /\ at(<<"OrderCancelled">>, {"OrderFilled"}) = {}
            /\ at(<<"OrderCancelled">>, {"OrderFilled", "FundingApplied"}) = {}
            /\ at(<<"OrderCancelled">>, {"PostKillSwitchAttempt"}) = {}
        BY <3>1, OneEvent
      <3>3. <<>> \in Seq(OrderEvents) /\ \A types : at(<<>>, types) = {}
        BY NoEvent
      <3> QED BY <3>2, <3>3
    <2>3. /\ filled \o rest \in Seq(OrderEvents)
          /\ at(filled \o rest, {"OrderFilled"}) = {p}
          /\ at(filled \o rest, {"OrderFilled", "FundingApplied"}) = {p}
          /\ at(filled \o rest, {"PostKillSwitchAttempt"}) = {}
      <3>1. filled \o rest \in Seq(OrderEvents)
        BY AtMore
      <3>2. \A types : at(rest, types) = {} => at(filled \o rest, types) = at(filled, types)
        BY AtMore
      <3> QED BY <2>1, <2>2, <3>1, <3>2
    <2>4. trail' = trail \o (filled \o rest)
      BY <1>9, <2>1, <2>2 DEF OrderFilled, Emit
    <2> QED BY <2>3, <2>4 DEF Traces
  <1> QED BY <1>2, <1>3, <1>4, <1>5, <1>6, <1>7, <1>8, <1>9 DEF Middle, Order

LEMMA OrderEventsAreEvents ==
  ASSUME NEW s \in Seq(OrderEvents)
  PROVE  s \in Seq(EventTypes)
  <1>1. OrderEvents \subseteq EventTypes
    BY DEF EventTypes
  <1>2. PICK n \in Nat : s \in [1..n -> OrderEvents]
    BY LenProperties, SeqDef
  <1>3. s \in [1..n -> EventTypes]
    BY <1>1, <1>2
  <1> QED BY <1>3, SeqDef

(* What the mark and the close of a bar log.                                 *)
LEMMA CloseEvents ==
  /\ \A type \in {"MarginUpdate", "KillSwitchTriggered", "ObservationEmitted"} :
       <<type>> \in Seq(EventTypes)
  /\ <<>> \in Seq(EventTypes)
  /\ <<"MarginUpdate", "NearLiquidation">> \in Seq(EventTypes)
  /\ <<"MarginUpdate", "LiquidationTriggered">> \in Seq(EventTypes)
  /\ <<"OrderFilled", "MarginUpdate">> \in Seq(EventTypes)
  <1>1. /\ {"MarginUpdate", "KillSwitchTriggered", "ObservationEmitted", "NearLiquidation",
            "LiquidationTriggered", "OrderFilled"} \subseteq EventTypes
    BY DEF EventTypes, OrderEvents
  <1>2. \A type \in EventTypes : <<type>> \in Seq(EventTypes)
    BY OneEvent
  <1>3. \A first, second \in EventTypes : <<first, second>> \in Seq(EventTypes)
    BY TwoEvents
  <1>4. <<>> \in Seq(EventTypes)
    BY NoEvent
  <1> QED BY <1>1, <1>2, <1>3, <1>4

(* The events of the kill switch, in their order.                            *)
KillEvents ==
  (IF flat(account) THEN <<>> ELSE <<"OrderFilled", "MarginUpdate">>)
    \o <<"KillSwitchTriggered">>

LEMMA KillEventsType ==
  /\ KillEvents \in Seq(EventTypes)
  /\ \A types :
       "KillSwitchTriggered" \notin types =>
         at(KillEvents, types)
           = IF flat(account) THEN {} ELSE at(<<"OrderFilled", "MarginUpdate">>, types)
  <1>1. PICK forced \in Seq(EventTypes) :
          forced = IF flat(account) THEN <<>> ELSE <<"OrderFilled", "MarginUpdate">>
    BY CloseEvents
  <1>2. PICK last \in Seq(EventTypes) :
          /\ last = <<"KillSwitchTriggered">>
          /\ \A types : "KillSwitchTriggered" \notin types => at(last, types) = {}
    <2>1. "KillSwitchTriggered" \in EventTypes
      BY DEF EventTypes
    <2>2. <<"KillSwitchTriggered">> \in Seq(EventTypes)
      BY CloseEvents
    <2>3. \A types : "KillSwitchTriggered" \notin types
                       => at(<<"KillSwitchTriggered">>, types) = {}
      BY <2>1, OneEvent
    <2> QED BY <2>2, <2>3
  <1>3. KillEvents = forced \o last
    BY <1>1, <1>2 DEF KillEvents
  <1>4. forced \o last \in Seq(EventTypes)
    BY AtMore
  <1>5. \A types : at(last, types) = {} => at(forced \o last, types) = at(forced, types)
    BY AtMore
  <1>6. \A types : at(<<>>, types) = {}
    BY NoEvent
  <1> QED BY <1>1, <1>2, <1>3, <1>4, <1>5, <1>6

(* An event among those just logged has been logged.                         *)
LEMMA LoggedNow ==
  ASSUME trail \in Seq(EventTypes), NEW new \in Seq(EventTypes),
         trail' = trail \o new, NEW types, at(new, types) # {}
  PROVE  Logged(types)
  <1>1. PICK i \in at(new, types) : TRUE
    OBVIOUS
  <1>2. PICK n \in Nat, m \in Nat : n = Len(trail) /\ m = Len(new) /\ i \in 1..m
    BY <1>1, LenProperties DEF at
  <1>3. Len(trail') = n + m
    BY <1>2, AtMore
  <1>4. n + i \in at(trail', types)
    <2>1. at(trail', types) = at(trail, types) \cup {Len(trail) + k : k \in at(new, types)}
      BY AtMore
    <2> QED BY <1>1, <1>2, <2>1
  <1>5. n + i \in (n + 1)..(n + m) /\ trail'[n + i] \in types
    BY <1>2, <1>4 DEF at
  <1> QED BY <1>2, <1>3, <1>5 DEF Logged

-----------------------------------------------------------------------------
(* Nothing moves without its event. *)

LEMMA MovesStep ==
  ASSUME IInv, trail \in Seq(EventTypes), [Next]_vars,
         profile = "primary", profile' = profile
  PROVE  /\ account'.qty # account.qty =>
              Logged({"OrderFilled", "LiquidationTriggered"})
         /\ account'.cash # account.cash =>
              Logged({"OrderFilled", "LiquidationTriggered", "FundingApplied"})
  <1>1. TypeOK /\ collect_evidence
    BY DEF IInv, collect_evidence
  <1>2. CASE account' = account
    BY <1>2
  <1>3. CASE Middle /\ stage' # "raised"
    <2>1. PICK new \in Seq(OrderEvents) : Traces(new)
      BY <1>1, <1>3, MiddleTraced
    <2>2. new \in Seq(EventTypes) /\ trail' = trail \o new
      BY <2>1, OrderEventsAreEvents DEF Traces
    <2>3. ASSUME account'.qty # account.qty
          PROVE  Logged({"OrderFilled", "LiquidationTriggered"})
      <3>1. at(new, {"OrderFilled", "LiquidationTriggered"}) # {}
        BY <2>1, <2>3 DEF Traces, at
      <3> QED BY <2>2, <3>1, LoggedNow
    <2>4. ASSUME account'.cash # account.cash
          PROVE  Logged({"OrderFilled", "LiquidationTriggered", "FundingApplied"})
      <3>1. at(new, {"OrderFilled", "LiquidationTriggered", "FundingApplied"}) # {}
        BY <2>1, <2>4 DEF Traces, at
      <3> QED BY <2>2, <3>1, LoggedNow
    <2> QED BY <2>3, <2>4
  <1>4. CASE Liquidate
    <2>1. PICK new \in Seq(EventTypes) : new = <<"MarginUpdate", "LiquidationTriggered">>
      BY CloseEvents
    <2>2. trail' = trail \o new
      BY <1>1, <1>4, <2>1 DEF Liquidate, Emit
    <2>3. \A types : "LiquidationTriggered" \in types => at(new, types) # {}
      <3>1. "MarginUpdate" \in EventTypes /\ "LiquidationTriggered" \in EventTypes
        BY DEF EventTypes
      <3>2. \A types : 2 \in at(<<"MarginUpdate", "LiquidationTriggered">>, types)
                         <=> "LiquidationTriggered" \in types
        BY <3>1, TwoEvents
      <3> QED BY <2>1, <3>2
    <2>4. at(new, {"OrderFilled", "LiquidationTriggered"}) # {}
      BY <2>3
    <2>5. at(new, {"OrderFilled", "LiquidationTriggered", "FundingApplied"}) # {}
      BY <2>3
    <2> QED BY <2>2, <2>4, <2>5, LoggedNow
  <1>5. CASE KillSwitch
    <2>1. CASE account.qty = 0
      <3>1. account' = [account EXCEPT !.killed = TRUE]
        BY <1>5, <2>1 DEF KillSwitch, killed, flat
      <3>2. account'.qty = account.qty /\ account'.cash = account.cash
        BY <1>1, <3>1 DEF TypeOK, AccountType
      <3> QED BY <3>2
    <2>2. CASE account.qty # 0
      <3>1. PICK new \in Seq(EventTypes) : new = KillEvents
        BY KillEventsType
      <3>2. trail' = trail \o new
        BY <1>1, <1>5, <3>1 DEF KillSwitch, Emit, KillEvents
      <3>3. \A types : "KillSwitchTriggered" \notin types /\ "OrderFilled" \in types
                         => at(new, types) # {}
        <4>1. "OrderFilled" \in EventTypes /\ "MarginUpdate" \in EventTypes
          BY DEF EventTypes, OrderEvents
        <4>2. \A types : 1 \in at(<<"OrderFilled", "MarginUpdate">>, types)
                           <=> "OrderFilled" \in types
          BY <4>1, TwoEvents
        <4>3. \A types : "KillSwitchTriggered" \notin types =>
                 at(new, types) = at(<<"OrderFilled", "MarginUpdate">>, types)
          BY <2>2, <3>1, KillEventsType DEF flat
        <4> QED BY <4>2, <4>3
      <3>4. at(new, {"OrderFilled", "LiquidationTriggered"}) # {}
        BY <3>3
      <3>5. at(new, {"OrderFilled", "LiquidationTriggered", "FundingApplied"}) # {}
        BY <3>3
      <3> QED BY <3>2, <3>4, <3>5, LoggedNow
    <2> QED BY <2>1, <2>2
  <1>6. CASE StartStress
    BY <1>6 DEF StartStress
  <1>7. Decide \/ Redecide \/ TraceEnds \/ MarkSurvives \/ CloseBar \/ Finish
          \/ UNCHANGED vars \/ (Middle /\ stage' = "raised") => account' = account
    BY DEF Decide, Redecide, TraceEnds, MarkSurvives, CloseBar, Finish, vars, Middle,
           CarryFunding, HoldFunding, Held, Order, NoOrder, OrderRaises, OrderBlocked,
           OrderCancelled, OrderFilled, NothingToTrade, Priced, Passed, Sized, Ordering
  <1> QED BY <1>2, <1>3, <1>4, <1>5, <1>6, <1>7 DEF Next, Middle, Returned

-----------------------------------------------------------------------------
(* The log of a turn makes a decision record. *)

in_turn ==
  /\ profile = "primary"
  /\ stage \in {"carry", "order", "hold", "mark", "close"} \/ turn_is_over

Asked ==
  /\ typed({"ObservationEmitted"}) = {1}
  /\ \E p \in Nat : typed({"ActionParsed", "ActionRejected"}) = {p}

Once(types) == \E p : typed(types) \subseteq {p}

LastUpdate ==
  typed({"MarginUpdate"}) # {} =>
    \E last \in typed({"MarginUpdate"}) :
      \A i \in typed({"OrderFilled", "FundingApplied", "LiquidationTriggered"}) :
        i < last

Marked ==
  /\ account.qty # 0 => typed({"MarginUpdate"}) # {}
  /\ (stage = "close" /\ terminal) \/ LastUpdate

(***************************************************************************)
(* The invariant of the log.  DecisionsProject speaks of the turn that is  *)
(* over; before it is, no margin has been updated until the bar is marked, *)
(* and between a liquidation and the close of its bar the update that will *)
(* follow it is still owed.                                                *)
(***************************************************************************)
TrailHolds ==
  /\ trail \in Seq(EventTypes)
  /\ in_turn =>
       /\ Asked
       /\ Once({"LiquidationTriggered"}) /\ Once({"PostKillSwitchAttempt"})
       /\ stage \in {"carry", "order"} => typed({"PostKillSwitchAttempt"}) = {}
       /\ stage \in {"carry", "order", "hold", "mark"} =>
            typed({"MarginUpdate", "LiquidationTriggered"}) = {}
       /\ stage \in {"close", "decide", "profile_end"} => Marked

(* What a decision logs.                                                     *)
DecisionEvents(r, b, said) ==
  <<"ObservationEmitted">> \o Times(r, "AgentResponded")
    \o Times(b, "EgressBlocked") \o <<said>>

OpensTurn(asked) ==
  /\ asked \in Seq(EventTypes)
  /\ at(asked, {"ObservationEmitted"}) = {1}
  /\ \E p \in Nat : at(asked, {"ActionParsed", "ActionRejected"}) = {p}
  /\ \A types :
       types \cap {"ObservationEmitted", "AgentResponded", "EgressBlocked",
                   "ActionParsed", "ActionRejected"} = {}
         => at(asked, types) = {}

LEMMA DecisionTraced ==
  ASSUME NEW r \in Nat, NEW b \in Nat,
         NEW said \in {"ActionParsed", "ActionRejected"}
  PROVE  OpensTurn(DecisionEvents(r, b, said))
  <1>1. /\ "ObservationEmitted" \in EventTypes /\ "AgentResponded" \in EventTypes
        /\ "EgressBlocked" \in EventTypes /\ said \in EventTypes
    BY DEF EventTypes
  <1>2. PICK t1 \in Seq(EventTypes) :
          /\ t1 = <<"ObservationEmitted">>
          /\ \A types : /\ "ObservationEmitted" \in types => at(t1, types) = {1}
                        /\ "ObservationEmitted" \notin types => at(t1, types) = {}
    BY <1>1, OneEvent
  <1>3. PICK t2 \in Seq(EventTypes) :
          /\ t2 = Times(r, "AgentResponded")
          /\ \A types : "AgentResponded" \notin types => at(t2, types) = {}
    BY <1>1, TimesType
  <1>4. PICK t3 \in Seq(EventTypes) :
          /\ t3 = Times(b, "EgressBlocked")
          /\ \A types : "EgressBlocked" \notin types => at(t3, types) = {}
    BY <1>1, TimesType
  <1>5. PICK t4 \in Seq(EventTypes) :
          /\ t4 = <<said>>
          /\ \A types : /\ said \in types => at(t4, types) = {1}
                        /\ said \notin types => at(t4, types) = {}
    BY <1>1, OneEvent
  <1>6. PICK t12 \in Seq(EventTypes) :
          /\ t12 = t1 \o t2
          /\ \A types : at(t2, types) = {} => at(t12, types) = at(t1, types)
    <2>1. t1 \o t2 \in Seq(EventTypes)
      BY AtMore
    <2>2. \A types : at(t2, types) = {} => at(t1 \o t2, types) = at(t1, types)
      BY AtMore
    <2> QED BY <2>1, <2>2
  <1>7. PICK t13 \in Seq(EventTypes) :
          /\ t13 = t12 \o t3
          /\ \A types : at(t3, types) = {} => at(t13, types) = at(t12, types)
    <2>1. t12 \o t3 \in Seq(EventTypes)
      BY AtMore
    <2>2. \A types : at(t3, types) = {} => at(t12 \o t3, types) = at(t12, types)
      BY AtMore
    <2> QED BY <2>1, <2>2
  <1>8. PICK t14 \in Seq(EventTypes) :
          /\ t14 = t13 \o t4
          /\ \A types : at(t4, types) = {} => at(t14, types) = at(t13, types)
          /\ \A types : at(t14, types)
                          = at(t13, types) \cup {Len(t13) + i : i \in at(t4, types)}
    <2>1. t13 \o t4 \in Seq(EventTypes)
      BY AtMore
    <2>2. \A types : at(t4, types) = {} => at(t13 \o t4, types) = at(t13, types)
      BY AtMore
    <2>3. \A types : at(t13 \o t4, types)
                       = at(t13, types) \cup {Len(t13) + i : i \in at(t4, types)}
      BY AtMore
    <2> QED BY <2>1, <2>2, <2>3
  <1>9. t14 = DecisionEvents(r, b, said)
    BY <1>2, <1>3, <1>4, <1>5, <1>6, <1>7, <1>8 DEF DecisionEvents
  <1>10. at(t14, {"ObservationEmitted"}) = {1}
    <2>1. at(t4, {"ObservationEmitted"}) = {} /\ at(t3, {"ObservationEmitted"}) = {}
      BY <1>4, <1>5
    <2>2. at(t2, {"ObservationEmitted"}) = {} /\ at(t1, {"ObservationEmitted"}) = {1}
      BY <1>2, <1>3
    <2> QED BY <1>6, <1>7, <1>8, <2>1, <2>2
  <1>11. \E p \in Nat : at(t14, {"ActionParsed", "ActionRejected"}) = {p}
    <2>1. at(t4, {"ActionParsed", "ActionRejected"}) = {1}
      BY <1>5
    <2>2. at(t3, {"ActionParsed", "ActionRejected"}) = {}
      BY <1>4
    <2>3. at(t2, {"ActionParsed", "ActionRejected"}) = {}
      BY <1>3
    <2>4. at(t1, {"ActionParsed", "ActionRejected"}) = {}
      BY <1>2
    <2>5. at(t13, {"ActionParsed", "ActionRejected"}) = {}
      BY <1>6, <1>7, <2>2, <2>3, <2>4
    <2>6. Len(t13) + 1 \in Nat
      <3>1. Len(t13) \in Nat
        BY LenProperties
      <3> QED BY <3>1
    <2>7. at(t14, {"ActionParsed", "ActionRejected"}) = {Len(t13) + 1}
      BY <1>8, <2>1, <2>5
    <2> QED BY <2>6, <2>7
  <1>12. ASSUME NEW types,
                types \cap {"ObservationEmitted", "AgentResponded", "EgressBlocked",
                            "ActionParsed", "ActionRejected"} = {}
         PROVE  at(t14, types) = {}
    <2>1. /\ "ObservationEmitted" \notin types /\ "AgentResponded" \notin types
          /\ "EgressBlocked" \notin types /\ said \notin types
      BY <1>12
    <2>2. at(t4, types) = {} /\ at(t3, types) = {} /\ at(t2, types) = {}
          /\ at(t1, types) = {}
      BY <1>2, <1>3, <1>4, <1>5, <2>1
    <2> QED BY <1>6, <1>7, <1>8, <2>2
  <1>13. OpensTurn(t14)
    BY <1>10, <1>11, <1>12 DEF OpensTurn
  <1> QED BY <1>9, <1>13

LEMMA DecideTrail == IInv /\ Decide => TrailHolds'
  <1> SUFFICES ASSUME IInv, Decide PROVE TrailHolds'
    OBVIOUS
  <1>1. PICK dec \in Decisions :
          trail' = <<"ObservationEmitted">>
                     \o Times(dec.replies, "AgentResponded")
                     \o Times(dec.blocks, "EgressBlocked")
                     \o (IF dec.kind = "action" THEN <<"ActionParsed">>
                                                ELSE <<"ActionRejected">>)
    BY DEF Decide
  <1>2. PICK r \in Nat, b \in Nat : r = dec.replies /\ b = dec.blocks
    BY EpisodeAssumption DEF Decision
  <1>3. PICK said \in {"ActionParsed", "ActionRejected"} :
          said = IF dec.kind = "action" THEN "ActionParsed" ELSE "ActionRejected"
    OBVIOUS
  <1>4. trail' = DecisionEvents(r, b, said)
    BY <1>1, <1>2, <1>3 DEF DecisionEvents
  <1>5. OpensTurn(trail')
    BY <1>4, DecisionTraced
  <1>6. /\ at(trail', {"LiquidationTriggered"}) = {}
        /\ at(trail', {"PostKillSwitchAttempt"}) = {}
        /\ at(trail', {"MarginUpdate", "LiquidationTriggered"}) = {}
    BY <1>5 DEF OpensTurn
  <1>7. stage' = "carry"
    BY DEF Decide
  <1>8. Asked'
    BY <1>5, TypedAt DEF Asked, OpensTurn
  <1>9. Once({"LiquidationTriggered"})' /\ Once({"PostKillSwitchAttempt"})'
    BY <1>6, TypedAt DEF Once
  <1>10. /\ typed({"PostKillSwitchAttempt"})' = {}
         /\ typed({"MarginUpdate", "LiquidationTriggered"})' = {}
    BY <1>6, TypedAt
  <1> QED BY <1>5, <1>7, <1>8, <1>9, <1>10 DEF TrailHolds, OpensTurn

(* What is not logged again stays where it was; and where what is logged is. *)
LEMMA TypedMore ==
  ASSUME trail \in Seq(EventTypes), NEW new \in Seq(EventTypes),
         trail' = trail \o new
  PROVE  /\ trail' \in Seq(EventTypes)
         /\ \A types : at(new, types) = {} => typed(types)' = typed(types)
         /\ \A types : typed(types)'
                         = typed(types) \cup {Len(trail) + i : i \in at(new, types)}
         /\ \A types : typed(types) \subseteq 1..Len(trail)
         /\ Len(trail) \in Nat
  <1>1. trail' \in Seq(EventTypes)
    BY AtMore
  <1>2. \A types : at(new, types) = {} => at(trail', types) = at(trail, types)
    BY AtMore
  <1>3. \A types : at(trail', types)
                     = at(trail, types) \cup {Len(trail) + i : i \in at(new, types)}
    BY AtMore
  <1>4. Len(trail) \in Nat /\ DOMAIN trail = 1..Len(trail)
    BY LenProperties
  <1>5. \A types : at(trail, types) \subseteq 1..Len(trail)
    BY <1>4 DEF at
  <1> QED BY <1>1, <1>2, <1>3, <1>4, <1>5, TypedAt

LEMMA MiddleTrail ==
  IInv /\ TrailHolds /\ profile = "primary" /\ Middle => TrailHolds'
  <1> SUFFICES ASSUME IInv, TrailHolds, profile = "primary", Middle PROVE TrailHolds'
    OBVIOUS
  <1>1. collect_evidence /\ trail \in Seq(EventTypes)
    BY DEF collect_evidence, TrailHolds
  <1>2. CASE stage' = "raised"
    <2>1. trail' = trail
      BY <1>2 DEF Middle, CarryFunding, HoldFunding, Held, Order, NoOrder, OrderRaises,
                  OrderBlocked, OrderCancelled, OrderFilled, NothingToTrade
    <2> QED BY <1>1, <1>2, <2>1 DEF TrailHolds, in_turn, turn_is_over
  <1>3. CASE stage' # "raised"
    <2>1. PICK new \in Seq(OrderEvents) : Traces(new)
      BY <1>1, <1>3, MiddleTraced
    <2>2. new \in Seq(EventTypes) /\ trail' = trail \o new
      BY <2>1, OrderEventsAreEvents DEF Traces
    <2>3. /\ stage \in {"carry", "order", "hold"} /\ stage' \in {"order", "hold", "mark"}
          /\ stage' = "order" => stage = "carry"
          /\ profile' = profile
      BY <1>3 DEF Middle, CarryFunding, HoldFunding, Held, Order, NoOrder, OrderRaises,
                  OrderBlocked, OrderCancelled, OrderFilled, NothingToTrade, Priced,
                  Passed, Sized, Ordering, Raise
    <2>4. /\ Asked
          /\ Once({"LiquidationTriggered"}) /\ Once({"PostKillSwitchAttempt"})
          /\ stage \in {"carry", "order"} => typed({"PostKillSwitchAttempt"}) = {}
          /\ typed({"MarginUpdate", "LiquidationTriggered"}) = {}
      BY <2>3 DEF TrailHolds, in_turn
    <2>5. \A types : OrderEvents \cap types = {} => typed(types)' = typed(types)
      BY <1>1, <2>2, TypedMore, NoneOfThese
    <2>6. Asked'
      <3>1. typed({"ObservationEmitted"})' = typed({"ObservationEmitted"})
        BY <2>5 DEF OrderEvents
      <3>2. typed({"ActionParsed", "ActionRejected"})'
              = typed({"ActionParsed", "ActionRejected"})
        BY <2>5 DEF OrderEvents
      <3> QED BY <2>4, <3>1, <3>2 DEF Asked
    <2>7. /\ typed({"MarginUpdate", "LiquidationTriggered"})' = {}
          /\ Once({"LiquidationTriggered"})'
      <3>1. typed({"LiquidationTriggered"})' = typed({"LiquidationTriggered"})
        BY <2>5 DEF OrderEvents
      <3>2. typed({"MarginUpdate", "LiquidationTriggered"})'
              = typed({"MarginUpdate", "LiquidationTriggered"})
        BY <2>5 DEF OrderEvents
      <3> QED BY <2>4, <3>1, <3>2 DEF Once
    <2>8. /\ Once({"PostKillSwitchAttempt"})'
          /\ stage' = "order" => typed({"PostKillSwitchAttempt"})' = {}
      <3>1. CASE stage = "order"
        <4>1. PICK p : at(new, {"PostKillSwitchAttempt"}) \subseteq {p}
          BY <2>1 DEF Traces
        <4>2. typed({"PostKillSwitchAttempt"})'
                = typed({"PostKillSwitchAttempt"})
                  \cup {Len(trail) + i : i \in at(new, {"PostKillSwitchAttempt"})}
          BY <1>1, <2>2, TypedMore
        <4>3. typed({"PostKillSwitchAttempt"})' \subseteq {Len(trail) + p}
          BY <2>4, <3>1, <4>1, <4>2
        <4> QED BY <2>3, <3>1, <4>3 DEF Once
      <3>2. CASE stage # "order"
        <4>1. at(new, {"PostKillSwitchAttempt"}) = {}
          BY <2>1, <3>2 DEF Traces
        <4>2. typed({"PostKillSwitchAttempt"})' = typed({"PostKillSwitchAttempt"})
          BY <1>1, <2>2, <4>1, TypedMore
        <4> QED BY <2>3, <2>4, <3>2, <4>2 DEF Once
      <3> QED BY <3>1, <3>2
    <2>9. trail' \in Seq(EventTypes)
      BY <1>1, <2>2, TypedMore
    <2> QED BY <2>3, <2>6, <2>7, <2>8, <2>9 DEF TrailHolds
  <1> QED BY <1>2, <1>3

(* What a mark or a close adds leaves what the decision logged alone.        *)
LEMMA StillAsked ==
  ASSUME TrailHolds, in_turn, NEW new \in Seq(EventTypes), trail' = trail \o new,
         at(new, {"ObservationEmitted"}) = {},
         at(new, {"ActionParsed", "ActionRejected"}) = {},
         at(new, {"PostKillSwitchAttempt"}) = {}
  PROVE  trail' \in Seq(EventTypes) /\ Asked' /\ Once({"PostKillSwitchAttempt"})'
  <1>1. trail \in Seq(EventTypes) /\ Asked /\ Once({"PostKillSwitchAttempt"})
    BY DEF TrailHolds
  <1>2. trail' \in Seq(EventTypes)
    BY <1>1, TypedMore
  <1>3. \A types : at(new, types) = {} => typed(types)' = typed(types)
    BY <1>1, TypedMore
  <1>4. Asked'
    BY <1>1, <1>3 DEF Asked
  <1>5. Once({"PostKillSwitchAttempt"})'
    BY <1>1, <1>3 DEF Once
  <1> QED BY <1>2, <1>4, <1>5

(* A margin update that is logged comes after all that was logged before it. *)
LEMMA UpdateIsLast ==
  ASSUME trail \in Seq(EventTypes), NEW new \in Seq(EventTypes),
         trail' = trail \o new, NEW k \in Nat \ {0},
         k \in at(new, {"MarginUpdate"}),
         \A i \in at(new, {"OrderFilled", "FundingApplied", "LiquidationTriggered"}) :
           i \in Nat /\ i < k
  PROVE  LastUpdate' /\ typed({"MarginUpdate"})' # {}
  <1>1. typed({"MarginUpdate"})'
          = typed({"MarginUpdate"})
            \cup {Len(trail) + i : i \in at(new, {"MarginUpdate"})}
    BY TypedMore
  <1>2. typed({"OrderFilled", "FundingApplied", "LiquidationTriggered"})'
          = typed({"OrderFilled", "FundingApplied", "LiquidationTriggered"})
            \cup {Len(trail) + i : i \in at(new, {"OrderFilled", "FundingApplied",
                                                  "LiquidationTriggered"})}
    BY TypedMore
  <1>3. /\ typed({"OrderFilled", "FundingApplied", "LiquidationTriggered"})
             \subseteq 1..Len(trail)
        /\ Len(trail) \in Nat
    BY TypedMore
  <1>4. Len(trail) + k \in typed({"MarginUpdate"})'
    BY <1>1
  <1>5. \A i \in typed({"OrderFilled", "FundingApplied", "LiquidationTriggered"})' :
          i < Len(trail) + k
    BY <1>2, <1>3
  <1> QED BY <1>4, <1>5 DEF LastUpdate

(* The three kinds of events that a mark or a close may add.                 *)
LEMMA UpdateEvents ==
  /\ \A new \in {<<>>, <<"MarginUpdate">>, <<"MarginUpdate", "NearLiquidation">>} :
       \A types : /\ "MarginUpdate" \notin types /\ "NearLiquidation" \notin types
                       => at(new, types) = {}
                  /\ "MarginUpdate" \in types /\ new # <<>> => 1 \in at(new, types)
  /\ \A types :
       /\ 1 \in at(<<"MarginUpdate", "LiquidationTriggered">>, types)
            <=> "MarginUpdate" \in types
       /\ 2 \in at(<<"MarginUpdate", "LiquidationTriggered">>, types)
            <=> "LiquidationTriggered" \in types
       /\ at(<<"MarginUpdate", "LiquidationTriggered">>, types) \subseteq {1, 2}
  /\ \A types :
       /\ 1 \in at(<<"OrderFilled", "MarginUpdate">>, types) <=> "OrderFilled" \in types
       /\ 2 \in at(<<"OrderFilled", "MarginUpdate">>, types) <=> "MarginUpdate" \in types
       /\ at(<<"OrderFilled", "MarginUpdate">>, types) \subseteq {1, 2}
  <1>1. /\ "MarginUpdate" \in EventTypes /\ "NearLiquidation" \in EventTypes
        /\ "LiquidationTriggered" \in EventTypes /\ "OrderFilled" \in EventTypes
    BY DEF EventTypes, OrderEvents
  <1>2. \A types :
          /\ 1 \in at(<<"MarginUpdate", "LiquidationTriggered">>, types)
               <=> "MarginUpdate" \in types
          /\ 2 \in at(<<"MarginUpdate", "LiquidationTriggered">>, types)
               <=> "LiquidationTriggered" \in types
          /\ at(<<"MarginUpdate", "LiquidationTriggered">>, types) \subseteq {1, 2}
    BY <1>1, TwoEvents
  <1>3. \A types :
          /\ 1 \in at(<<"OrderFilled", "MarginUpdate">>, types) <=> "OrderFilled" \in types
          /\ 2 \in at(<<"OrderFilled", "MarginUpdate">>, types) <=> "MarginUpdate" \in types
          /\ at(<<"OrderFilled", "MarginUpdate">>, types) \subseteq {1, 2}
    BY <1>1, TwoEvents
  <1>4. \A types :
          /\ 1 \in at(<<"MarginUpdate", "NearLiquidation">>, types)
               <=> "MarginUpdate" \in types
          /\ 2 \in at(<<"MarginUpdate", "NearLiquidation">>, types)
               <=> "NearLiquidation" \in types
          /\ at(<<"MarginUpdate", "NearLiquidation">>, types) \subseteq {1, 2}
    BY <1>1, TwoEvents
  <1>5. \A types : /\ "MarginUpdate" \in types => at(<<"MarginUpdate">>, types) = {1}
                   /\ "MarginUpdate" \notin types => at(<<"MarginUpdate">>, types) = {}
    BY <1>1, OneEvent
  <1>6. \A types : at(<<>>, types) = {}
    BY NoEvent
  <1>7. ASSUME NEW new \in {<<>>, <<"MarginUpdate">>, <<"MarginUpdate", "NearLiquidation">>},
               NEW types
        PROVE  /\ "MarginUpdate" \notin types /\ "NearLiquidation" \notin types
                    => at(new, types) = {}
               /\ "MarginUpdate" \in types /\ new # <<>> => 1 \in at(new, types)
    <2>1. CASE new = <<>>
      BY <1>6, <2>1
    <2>2. CASE new = <<"MarginUpdate">>
      BY <1>5, <2>2
    <2>3. CASE new = <<"MarginUpdate", "NearLiquidation">>
      BY <1>4, <2>3
    <2> QED BY <2>1, <2>2, <2>3
  <1> QED BY <1>2, <1>3, <1>7

LEMMA MarkTrail ==
  IInv /\ TrailHolds /\ profile = "primary" /\ MarkSurvives => TrailHolds'
  <1> SUFFICES ASSUME IInv, TrailHolds, profile = "primary", MarkSurvives
               PROVE TrailHolds'
    OBVIOUS
  <1>1. /\ stage = "mark" /\ stage' = "close" /\ profile' = profile
        /\ account' = account
    BY DEF MarkSurvives
  <1>2. /\ trail \in Seq(EventTypes) /\ in_turn
        /\ Once({"LiquidationTriggered"})
        /\ typed({"MarginUpdate", "LiquidationTriggered"}) = {}
    BY <1>1 DEF TrailHolds, in_turn
  <1>3. PICK new \in {<<>>, <<"MarginUpdate">>, <<"MarginUpdate", "NearLiquidation">>} :
          /\ trail' = trail \o new
          /\ new = <<>> => account.qty = 0
    <2>1. /\ account.qty = 0 => trail' = trail \o <<>>
          /\ account.qty # 0 => \/ trail' = trail \o <<"MarginUpdate">>
                                \/ trail' = trail \o <<"MarginUpdate", "NearLiquidation">>
      BY DEF MarkSurvives, Emit, collect_evidence, flat
    <2>2. <<"MarginUpdate">> # <<>> /\ <<"MarginUpdate", "NearLiquidation">> # <<>>
      OBVIOUS
    <2> QED BY <2>1, <2>2
  <1>4. new \in Seq(EventTypes)
    BY <1>3, CloseEvents
  <1>5. \A types : "MarginUpdate" \notin types /\ "NearLiquidation" \notin types
                     => at(new, types) = {}
    BY UpdateEvents
  <1>6. trail' \in Seq(EventTypes) /\ Asked' /\ Once({"PostKillSwitchAttempt"})'
    <2>1. /\ at(new, {"ObservationEmitted"}) = {}
          /\ at(new, {"ActionParsed", "ActionRejected"}) = {}
          /\ at(new, {"PostKillSwitchAttempt"}) = {}
      BY <1>5
    <2> QED BY <1>2, <1>3, <1>4, <2>1, StillAsked
  <1>7. Once({"LiquidationTriggered"})'
    <2>1. at(new, {"LiquidationTriggered"}) = {}
      BY <1>5
    <2>2. typed({"LiquidationTriggered"})' = typed({"LiquidationTriggered"})
      BY <1>2, <1>3, <1>4, <2>1, TypedMore
    <2> QED BY <1>2, <2>2 DEF Once
  <1>8. Marked'
    <2>1. CASE new = <<>>
      <3>1. at(new, {"MarginUpdate"}) = {}
        BY <2>1, NoEvent
      <3>2. typed({"MarginUpdate"})' = typed({"MarginUpdate"})
        BY <1>2, <1>3, <1>4, <3>1, TypedMore
      <3>3. typed({"MarginUpdate"}) = {}
        BY <1>2 DEF typed
      <3> QED BY <1>1, <1>3, <2>1, <3>2, <3>3 DEF Marked, LastUpdate
    <2>2. CASE new # <<>>
      <3>1. 1 \in at(new, {"MarginUpdate"})
        BY <2>2, UpdateEvents
      <3>2. at(new, {"OrderFilled", "FundingApplied", "LiquidationTriggered"}) = {}
        BY <1>5
      <3>3. LastUpdate' /\ typed({"MarginUpdate"})' # {}
        BY <1>2, <1>3, <1>4, <3>1, <3>2, UpdateIsLast
      <3> QED BY <3>3 DEF Marked
    <2> QED BY <2>1, <2>2
  <1> QED BY <1>1, <1>6, <1>7, <1>8 DEF TrailHolds

LEMMA LiquidateTrail ==
  IInv /\ TrailHolds /\ profile = "primary" /\ Liquidate => TrailHolds'
  <1> SUFFICES ASSUME IInv, TrailHolds, profile = "primary", Liquidate
               PROVE TrailHolds'
    OBVIOUS
  <1>1. /\ stage = "mark" /\ stage' = "close" /\ profile' = profile /\ terminal'
    BY DEF Liquidate
  <1>2. account'.qty = 0
    BY LiquidatedNow
  <1>3. /\ trail \in Seq(EventTypes) /\ in_turn
        /\ typed({"MarginUpdate", "LiquidationTriggered"}) = {}
    BY <1>1 DEF TrailHolds, in_turn
  <1>4. PICK new \in Seq(EventTypes) : new = <<"MarginUpdate", "LiquidationTriggered">>
    BY CloseEvents
  <1>5. trail' = trail \o new
    BY <1>4 DEF Liquidate, Emit, collect_evidence
  <1>6. \A types : /\ 1 \in at(new, types) <=> "MarginUpdate" \in types
                   /\ 2 \in at(new, types) <=> "LiquidationTriggered" \in types
                   /\ at(new, types) \subseteq {1, 2}
    BY <1>4, UpdateEvents
  <1>7. \A types : "MarginUpdate" \notin types /\ "LiquidationTriggered" \notin types
                     => at(new, types) = {}
    BY <1>6
  <1>8. trail' \in Seq(EventTypes) /\ Asked' /\ Once({"PostKillSwitchAttempt"})'
    <2>1. /\ at(new, {"ObservationEmitted"}) = {}
          /\ at(new, {"ActionParsed", "ActionRejected"}) = {}
          /\ at(new, {"PostKillSwitchAttempt"}) = {}
      BY <1>7
    <2> QED BY <1>3, <1>5, <2>1, StillAsked
  <1>9. Once({"LiquidationTriggered"})'
    <2>1. at(new, {"LiquidationTriggered"}) = {2}
      <3>1. 2 \in at(new, {"LiquidationTriggered"}) /\ 1 \notin at(new, {"LiquidationTriggered"})
        BY <1>6
      <3>2. at(new, {"LiquidationTriggered"}) \subseteq {1, 2}
        BY <1>6
      <3> QED BY <3>1, <3>2
    <2>2. typed({"LiquidationTriggered"})'
            = typed({"LiquidationTriggered"})
              \cup {Len(trail) + i : i \in at(new, {"LiquidationTriggered"})}
      BY <1>3, <1>5, TypedMore
    <2>3. typed({"LiquidationTriggered"}) = {}
      BY <1>3 DEF typed
    <2>4. typed({"LiquidationTriggered"})' \subseteq {Len(trail) + 2}
      BY <2>1, <2>2, <2>3
    <2> QED BY <2>4 DEF Once
  <1>10. Marked'
    BY <1>1, <1>2 DEF Marked
  <1> QED BY <1>1, <1>8, <1>9, <1>10 DEF TrailHolds

LEMMA CloseTrail ==
  IInv /\ TrailHolds /\ profile = "primary" /\ CloseBar => TrailHolds'
  <1> SUFFICES ASSUME IInv, TrailHolds, profile = "primary", CloseBar
               PROVE TrailHolds'
    OBVIOUS
  <1>1. /\ stage = "close" /\ profile' = profile /\ account' = account /\ NextTurn
        /\ terminal' = terminal
    BY DEF CloseBar
  <1>2. stage' \in {"decide", "profile_end"}
    BY <1>1, TurnClosed
  <1>3. /\ trail \in Seq(EventTypes) /\ in_turn /\ Asked /\ Marked
        /\ Once({"LiquidationTriggered"}) /\ Once({"PostKillSwitchAttempt"})
    BY <1>1 DEF TrailHolds, in_turn
  <1>4. CASE ~terminal
    <2>1. trail' = trail
      <3>1. trail' = trail \o <<>>
        BY <1>4 DEF CloseBar, Emit, collect_evidence
      <3> QED BY <1>3, <3>1, ConcatEmptySeq
    <2>2. UNCHANGED <<trail, account>> /\ LastUpdate
      BY <1>1, <1>3, <1>4, <2>1 DEF Marked
    <2>3. Asked' /\ Once({"LiquidationTriggered"})' /\ Once({"PostKillSwitchAttempt"})'
      BY <1>3, <2>1 DEF Asked, Once, typed
    <2>4. Marked'
      BY <1>3, <2>2 DEF Marked, LastUpdate, typed
    <2> QED BY <1>2, <1>3, <2>1, <2>3, <2>4 DEF TrailHolds
  <1>5. CASE terminal
    <2>1. PICK new \in Seq(EventTypes) : new = <<"MarginUpdate">>
      BY CloseEvents
    <2>2. trail' = trail \o new
      BY <1>5, <2>1 DEF CloseBar, Emit, collect_evidence
    <2>3. \A types : "MarginUpdate" \notin types => at(new, types) = {}
      <3>1. "MarginUpdate" \in EventTypes
        BY DEF EventTypes
      <3> QED BY <2>1, <3>1, OneEvent
    <2>4. trail' \in Seq(EventTypes) /\ Asked' /\ Once({"PostKillSwitchAttempt"})'
      <3>1. /\ at(new, {"ObservationEmitted"}) = {}
            /\ at(new, {"ActionParsed", "ActionRejected"}) = {}
            /\ at(new, {"PostKillSwitchAttempt"}) = {}
        BY <2>3
      <3> QED BY <1>3, <2>2, <3>1, StillAsked
    <2>5. Once({"LiquidationTriggered"})'
      <3>1. at(new, {"LiquidationTriggered"}) = {}
        BY <2>3
      <3>2. typed({"LiquidationTriggered"})' = typed({"LiquidationTriggered"})
        BY <1>3, <2>2, <3>1, TypedMore
      <3> QED BY <1>3, <3>2 DEF Once
    <2>6. LastUpdate' /\ typed({"MarginUpdate"})' # {}
      <3>1. 1 \in at(new, {"MarginUpdate"})
        <4>1. "MarginUpdate" \in EventTypes
          BY DEF EventTypes
        <4>2. at(<<"MarginUpdate">>, {"MarginUpdate"}) = {1}
          BY <4>1, OneEvent
        <4> QED BY <2>1, <4>2
      <3>2. at(new, {"OrderFilled", "FundingApplied", "LiquidationTriggered"}) = {}
        BY <2>3
      <3> QED BY <1>3, <2>2, <3>1, <3>2, UpdateIsLast
    <2>7. Marked'
      BY <2>6 DEF Marked
    <2> QED BY <1>2, <2>4, <2>5, <2>7 DEF TrailHolds
  <1> QED BY <1>4, <1>5

LEMMA KillTrail ==
  IInv /\ TrailHolds /\ profile = "primary" /\ KillSwitch => TrailHolds'
  <1> SUFFICES ASSUME IInv, TrailHolds, profile = "primary", KillSwitch
               PROVE TrailHolds'
    OBVIOUS
  <1>1. stage = "close" /\ profile' = profile /\ NextTurn
    BY DEF KillSwitch
  <1>2. stage' \in {"decide", "profile_end"}
    BY <1>1, TurnClosed
  <1>3. account'.qty = 0 /\ ~terminal
    BY KilledNow
  <1>4. /\ trail \in Seq(EventTypes) /\ in_turn /\ Marked
        /\ Once({"LiquidationTriggered"})
    BY <1>1 DEF TrailHolds, in_turn
  <1>5. PICK new \in Seq(EventTypes) :
          /\ new = KillEvents
          /\ \A types : "KillSwitchTriggered" \notin types =>
               at(new, types) = IF flat(account) THEN {}
                                ELSE at(<<"OrderFilled", "MarginUpdate">>, types)
    BY KillEventsType
  <1>6. trail' = trail \o new
    BY <1>5 DEF KillSwitch, Emit, collect_evidence, KillEvents
  <1>7. \A types :
          /\ 1 \in at(<<"OrderFilled", "MarginUpdate">>, types) <=> "OrderFilled" \in types
          /\ 2 \in at(<<"OrderFilled", "MarginUpdate">>, types) <=> "MarginUpdate" \in types
          /\ at(<<"OrderFilled", "MarginUpdate">>, types) \subseteq {1, 2}
    BY UpdateEvents
  <1>8. /\ at(new, {"ObservationEmitted"}) = {}
        /\ at(new, {"ActionParsed", "ActionRejected"}) = {}
        /\ at(new, {"PostKillSwitchAttempt"}) = {}
        /\ at(new, {"LiquidationTriggered"}) = {}
    <2>1. CASE flat(account)
      BY <1>5, <2>1
    <2>2. CASE ~flat(account)
      <3>1. /\ at(<<"OrderFilled", "MarginUpdate">>, {"ObservationEmitted"}) = {}
            /\ at(<<"OrderFilled", "MarginUpdate">>, {"ActionParsed", "ActionRejected"}) = {}
            /\ at(<<"OrderFilled", "MarginUpdate">>, {"PostKillSwitchAttempt"}) = {}
            /\ at(<<"OrderFilled", "MarginUpdate">>, {"LiquidationTriggered"}) = {}
        BY <1>7
      <3>2. /\ at(new, {"ObservationEmitted"}) = at(<<"OrderFilled", "MarginUpdate">>, {"ObservationEmitted"})
            /\ at(new, {"ActionParsed", "ActionRejected"}) = at(<<"OrderFilled", "MarginUpdate">>, {"ActionParsed", "ActionRejected"})
            /\ at(new, {"PostKillSwitchAttempt"}) = at(<<"OrderFilled", "MarginUpdate">>, {"PostKillSwitchAttempt"})
            /\ at(new, {"LiquidationTriggered"}) = at(<<"OrderFilled", "MarginUpdate">>, {"LiquidationTriggered"})
        BY <1>5, <2>2
      <3> QED BY <3>1, <3>2
    <2> QED BY <2>1, <2>2
  <1>9. trail' \in Seq(EventTypes) /\ Asked' /\ Once({"PostKillSwitchAttempt"})'
    <2>1. /\ at(new, {"ObservationEmitted"}) = {}
          /\ at(new, {"ActionParsed", "ActionRejected"}) = {}
          /\ at(new, {"PostKillSwitchAttempt"}) = {}
      BY <1>8
    <2> QED BY <1>4, <1>6, <2>1, StillAsked
  <1>10. Once({"LiquidationTriggered"})'
    <2>1. at(new, {"LiquidationTriggered"}) = {}
      BY <1>8
    <2>2. typed({"LiquidationTriggered"})' = typed({"LiquidationTriggered"})
      BY <1>4, <1>6, <2>1, TypedMore
    <2> QED BY <1>4, <2>2 DEF Once
  <1>11. LastUpdate'
    <2>1. CASE flat(account)
      <3>1. /\ at(new, {"MarginUpdate"}) = {}
            /\ at(new, {"OrderFilled", "FundingApplied", "LiquidationTriggered"}) = {}
        BY <1>5, <2>1
      <3>2. typed({"MarginUpdate"})' = typed({"MarginUpdate"})
        BY <1>4, <1>6, <3>1, TypedMore
      <3>3. typed({"OrderFilled", "FundingApplied", "LiquidationTriggered"})'
              = typed({"OrderFilled", "FundingApplied", "LiquidationTriggered"})
        BY <1>4, <1>6, <3>1, TypedMore
      <3>4. LastUpdate
        BY <1>3, <1>4 DEF Marked
      <3> QED BY <3>2, <3>3, <3>4 DEF LastUpdate
    <2>2. CASE ~flat(account)
      <3>1. 2 \in at(new, {"MarginUpdate"})
        BY <1>5, <1>7, <2>2
      <3>2. \A i \in at(new, {"OrderFilled", "FundingApplied", "LiquidationTriggered"}) :
              i \in Nat /\ i < 2
        <4>1. /\ 2 \notin at(<<"OrderFilled", "MarginUpdate">>,
                             {"OrderFilled", "FundingApplied", "LiquidationTriggered"})
              /\ at(<<"OrderFilled", "MarginUpdate">>,
                    {"OrderFilled", "FundingApplied", "LiquidationTriggered"}) \subseteq {1, 2}
          BY <1>7
        <4>2. at(new, {"OrderFilled", "FundingApplied", "LiquidationTriggered"})
                = at(<<"OrderFilled", "MarginUpdate">>,
                     {"OrderFilled", "FundingApplied", "LiquidationTriggered"})
          BY <1>5, <2>2
        <4> QED BY <4>1, <4>2
      <3>3. trail \in Seq(EventTypes) /\ new \in Seq(EventTypes) /\ trail' = trail \o new
        BY <1>4, <1>6
      <3>4. PICK k \in Nat \ {0} :
              /\ k \in at(new, {"MarginUpdate"})
              /\ \A i \in at(new, {"OrderFilled", "FundingApplied", "LiquidationTriggered"}) :
                   i \in Nat /\ i < k
        BY <3>1, <3>2
      <3> QED BY <3>3, <3>4, UpdateIsLast
    <2> QED BY <2>1, <2>2
  <1>12. Marked'
    BY <1>3, <1>11 DEF Marked
  <1> QED BY <1>2, <1>9, <1>10, <1>12 DEF TrailHolds

(* Under stress nothing is logged until the episode is over.                 *)
LEMMA StressTrail ==
  ASSUME IInv, TrailHolds, [Next]_vars, profile' = "stress_2x"
  PROVE  TrailHolds'
  <1>1. ~in_turn'
    BY DEF in_turn
  <1>2. trail \in Seq(EventTypes)
    BY DEF TrailHolds
  <1>3. CASE trail' = trail
    BY <1>1, <1>2, <1>3 DEF TrailHolds
  <1>4. CASE Finish /\ trail' # trail
    <2>1. PICK n \in Nat : trail' = Append(Times(n, "EgressBlocked"), "EpisodeEnd")
      <3>1. PICK n \in 0..MaxFinalBlocks :
              trail' = Append(Times(n, "EgressBlocked"), "EpisodeEnd")
        BY <1>4 DEF Finish
      <3> QED BY <3>1, EpisodeAssumption
    <2>2. "EgressBlocked" \in EventTypes /\ "EpisodeEnd" \in EventTypes
      BY DEF EventTypes
    <2>3. Times(n, "EgressBlocked") \in Seq(EventTypes)
      BY <2>2, TimesType
    <2>4. Append(Times(n, "EgressBlocked"), "EpisodeEnd") \in Seq(EventTypes)
      BY <2>2, <2>3, AppendProperties
    <2>5. trail' \in Seq(EventTypes)
      BY <2>1, <2>4
    <2> QED BY <1>1, <2>5 DEF TrailHolds
  <1>5. Next \/ UNCHANGED vars => Finish \/ trail' = trail
    BY DEF Next, Order, Returned, vars, Decide, Redecide, TraceEnds, CarryFunding,
           NoOrder, OrderRaises, OrderBlocked, OrderCancelled, OrderFilled,
           NothingToTrade, HoldFunding, Held, MarkSurvives, Liquidate, CloseBar,
           KillSwitch, StartStress, Emit, collect_evidence
  <1> QED BY <1>3, <1>4, <1>5

LEMMA TrailStep == IInv /\ TrailHolds /\ [Next]_vars => TrailHolds'
  <1> SUFFICES ASSUME IInv, TrailHolds, [Next]_vars PROVE TrailHolds'
    OBVIOUS
  <1>1. profile \in Profiles
    BY DEF IInv, TypeOK
  <1>2. CASE UNCHANGED vars
    BY <1>2 DEF TrailHolds, in_turn, turn_is_over, Asked, Once, Marked, LastUpdate,
                typed, vars
  <1>3. CASE profile' = "stress_2x"
    BY <1>3, StressTrail
  <1>4. CASE profile' # "stress_2x" /\ ~UNCHANGED vars
    <2>1. profile = "primary"
      BY <1>1, <1>4 DEF Profiles, Next, Order, Returned, Decide, Redecide, TraceEnds,
           CarryFunding, NoOrder, OrderRaises, OrderBlocked, OrderCancelled,
           OrderFilled, NothingToTrade, HoldFunding, Held, MarkSurvives, Liquidate,
           CloseBar, KillSwitch, StartStress, Finish
    <2>2. \/ Decide \/ Middle \/ MarkSurvives \/ Liquidate \/ CloseBar \/ KillSwitch
      BY <1>4, <2>1 DEF Next, Middle, Returned, Redecide, TraceEnds, StartStress, Finish
    <2> QED BY <2>1, <2>2, DecideTrail, MiddleTrail, MarkTrail, LiquidateTrail,
               CloseTrail, KillTrail
  <1> QED BY <1>2, <1>3, <1>4

LEMMA TrailInvariance == Spec => []TrailHolds
  <1>1. Init => TrailHolds
    <2> SUFFICES ASSUME Init PROVE TrailHolds
      OBVIOUS
    <2>1. trail = <<>> /\ stage = "decide" /\ turn = 0
      BY DEF Init
    <2>2. trail \in Seq(EventTypes)
      BY <2>1, NoEvent
    <2> QED BY <2>1, <2>2 DEF TrailHolds, in_turn, turn_is_over
  <1> QED BY <1>1, TrailStep, Invariance, PTL DEF Spec

(***************************************************************************)
(* No position and no cash of the primary profile moves without its event  *)
(* in the log, whatever the pack and the decisions (_run_profile with the  *)
(* emit calls of _apply_funding, the order, the liquidation and the kill). *)
(***************************************************************************)
THEOREM EpisodeMovesAreLogged == Spec => MovesAreLogged
  <1>1. TrailHolds => trail \in Seq(EventTypes)
    BY DEF TrailHolds
  <1>2. IInv /\ TrailHolds /\ [Next]_vars
          => [(profile = "primary" /\ profile' = profile) =>
                /\ account'.qty # account.qty =>
                     Logged({"OrderFilled", "LiquidationTriggered"})
                /\ account'.cash # account.cash =>
                     Logged({"OrderFilled", "LiquidationTriggered",
                             "FundingApplied"})]_vars
    BY <1>1, MovesStep
  <1> QED BY <1>2, Invariance, TrailInvariance, PTL DEF Spec, MovesAreLogged

(***************************************************************************)
(* A decision record can be made of every turn, and its margin_after is    *)
(* the state the bar closed in, for every pack and every decision          *)
(* (generate_decision_records over the events _run_profile emits).         *)
(***************************************************************************)
THEOREM EpisodeDecisionsProject == Spec => []DecisionsProject
  <1>1. TrailHolds => DecisionsProject
    <2> SUFFICES ASSUME TrailHolds, turn_is_over
                 PROVE  /\ typed({"ObservationEmitted"}) = {1}
                        /\ Cardinality(typed({"ActionParsed", "ActionRejected"})) = 1
                        /\ Cardinality(typed({"LiquidationTriggered"})) <= 1
                        /\ Cardinality(typed({"PostKillSwitchAttempt"})) <= 1
                        /\ ~flat(account) => typed({"MarginUpdate"}) # {}
                        /\ typed({"MarginUpdate"}) # {} =>
                             \E last \in typed({"MarginUpdate"}) :
                               \A i \in typed({"OrderFilled", "FundingApplied",
                                               "LiquidationTriggered"}) : i < last
      BY DEF DecisionsProject
    <2>1. /\ Asked /\ Marked
          /\ Once({"LiquidationTriggered"}) /\ Once({"PostKillSwitchAttempt"})
      BY DEF TrailHolds, in_turn, turn_is_over
    <2>2. Cardinality(typed({"ActionParsed", "ActionRejected"})) = 1
      BY <2>1, FS_Singleton DEF Asked
    <2>3. ASSUME NEW types, Once(types)
          PROVE  Cardinality(typed(types)) <= 1
      <3>1. PICK p : typed(types) \subseteq {p}
        BY <2>3 DEF Once
      <3>2. typed(types) = {} \/ typed(types) = {p}
        BY <3>1
      <3>3. Cardinality({}) = 0 /\ Cardinality({p}) = 1
        BY FS_EmptySet, FS_Singleton
      <3> QED BY <3>2, <3>3
    <2>4. LastUpdate
      BY <2>1 DEF Marked, turn_is_over
    <2> QED BY <2>1, <2>2, <2>3, <2>4 DEF Asked, Marked, LastUpdate, flat
  <1> QED BY <1>1, TrailInvariance, PTL
=============================================================================
