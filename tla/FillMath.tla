------------------------------ MODULE FillMath ------------------------------
(***************************************************************************)
(* Exact integer execution, funding, margin and liquidation arithmetic,    *)
(* after core/math.py.  The code works on unbounded Python integers and    *)
(* exact fractions, so a fraction is written here as a numerator and a     *)
(* positive denominator.  The four fixed-point scales and the two venue    *)
(* steps are parameters: the code pins them to 10^8, 10^4, 10^8, 10^4.     *)
(* A ValueError of the code is a precondition here: the caller's guard     *)
(* states it where a run of the program can get there.                     *)
(***************************************************************************)
EXTENDS Integers, FiniteSets

CONSTANTS
  RateScale,       \* RATE_SCALE: one, as a rate
  LevScale,        \* LEVERAGE_SCALE: one, as a leverage
  QtyScale,        \* QTY_SCALE: one unit of the base asset
  CostScale,       \* COST_MULTIPLIER_SCALE: a multiplier of one
  TickSize,        \* tick_size_micro of the market
  QtyStep          \* qty_step_base_1e8 of the market

ASSUME ScalesArePositive ==
  /\ RateScale \in Nat \ {0} /\ LevScale \in Nat \ {0}
  /\ QtyScale \in Nat \ {0}  /\ CostScale \in Nat \ {0}
  /\ TickSize \in Nat \ {0}  /\ QtyStep \in Nat \ {0}

abs(n) == IF n < 0 THEN -n ELSE n

sign(n) == IF n > 0 THEN 1 ELSE IF n < 0 THEN -1 ELSE 0

smaller(m, n) == IF m <= n THEN m ELSE n

-----------------------------------------------------------------------------
(* Rounding.  \div floors, as // does. *)

floor_fraction(num, den) == num \div den

ceil_fraction(num, den) == -((-num) \div den)

floor_to_step(value, step) == sign(value) * (abs(value) \div step) * step

isqrt(n) == Cardinality({r \in 1..n : r * r <= n})

ceil_sqrt_drops_the_remainder(num, den) ==
  LET root == isqrt(num \div den)
  IN  IF root * root = num \div den THEN root ELSE root + 1
ceil_sqrt_fraction(num, den) ==
  LET root == isqrt(num \div den)
  IN  IF root * root * den = num THEN root ELSE root + 1

apply_cost_multiplier(base_rate, multiplier) ==
  ceil_fraction(base_rate * multiplier, CostScale)

-----------------------------------------------------------------------------
(* Sizing a leverage target. *)

raw_target_quantity(target_lev, equity, ref_px) ==
  sign(target_lev) *
    floor_fraction(abs(target_lev) * equity * QtyScale,
                   LevScale * ref_px * TickSize)

target_quantity(target_lev, equity, ref_px) ==
  floor_to_step(raw_target_quantity(target_lev, equity, ref_px), QtyStep)

-----------------------------------------------------------------------------
(* Execution. *)

participation_capacity(bar_volume, participation_cap) ==
  floor_to_step(floor_fraction(bar_volume * participation_cap, RateScale), QtyStep)

participation_fill(requested, bar_volume, participation_cap) ==
  LET capacity == participation_capacity(bar_volume, participation_cap)
      filled   == floor_to_step(smaller(requested, capacity), QtyStep)
  IN  [requested |-> requested, capacity |-> capacity,
       filled |-> filled, cancelled |-> requested - filled]

half_spread_ticks(ref_px, half_spread) ==
  ceil_fraction(ref_px * half_spread, RateScale)

impact_ticks(ref_px, filled, bar_volume, coeff, impact_model) ==
  IF filled = 0 \/ coeff = 0 THEN 0
  ELSE CASE impact_model = "linear" ->
              ceil_fraction(ref_px * coeff * filled, RateScale * bar_volume)
         [] impact_model = "sqrt" ->
              ceil_sqrt_fraction(ref_px * ref_px * coeff * coeff * filled,
                                 RateScale * RateScale * bar_volume)

(* The code refuses a price that is not positive; see FillIsPriced. *)
fill_price_swaps_sides(side, ref_px, spread_ticks, modeled_impact) ==
  IF side = "sell" THEN ref_px + (spread_ticks + modeled_impact)
                   ELSE ref_px - (spread_ticks + modeled_impact)
fill_price_ticks(side, ref_px, spread_ticks, modeled_impact) ==
  IF side = "buy" THEN ref_px + (spread_ticks + modeled_impact)
                  ELSE ref_px - (spread_ticks + modeled_impact)

notional_micro(qty, px) == (abs(qty) * px * TickSize) \div QtyScale

fee_micro(fill_notional, fee_rate) ==
  ceil_fraction(fill_notional * fee_rate, RateScale)

slippage_1e8(fill_px, ref_px) == floor_fraction((fill_px - ref_px) * RateScale, ref_px)

(* market: the record of the venue's execution parameters. *)
calculate_fill(side, requested, bar_volume, ref_px, market, multiplier) ==
  LET q      == participation_fill(requested, bar_volume, market.participation_cap)
      spread == half_spread_ticks(
                  ref_px, apply_cost_multiplier(market.half_spread, multiplier))
      impact == impact_ticks(
                  ref_px, q.filled, bar_volume,
                  apply_cost_multiplier(market.impact_coeff, multiplier),
                  market.impact_model)
      px     == fill_price_ticks(side, ref_px, spread, impact)
      value  == notional_micro(q.filled, px)
  IN  [side               |-> side,
       requested          |-> q.requested,
       capacity           |-> q.capacity,
       filled             |-> q.filled,
       cancelled          |-> q.cancelled,
       fill_px            |-> px,
       notional           |-> value,
       reference_notional |-> notional_micro(q.filled, ref_px),
       fee                |-> fee_micro(value, apply_cost_multiplier(
                                                 market.taker_fee_rate, multiplier)),
       slippage           |-> slippage_1e8(px, ref_px)]

FillIsPriced(fill) == fill.fill_px > 0

-----------------------------------------------------------------------------
(* Marking, realising and funding a signed position. *)

unrealized_pnl_micro(position_qty, entry_px, mark_px) ==
  ((mark_px - entry_px) * position_qty * TickSize) \div QtyScale

realized_pnl_micro(position_sign, closed_qty, entry_px, close_px) ==
  ((close_px - entry_px) * (position_sign * closed_qty) * TickSize) \div QtyScale

funding_cash_flow_favours_account(position_qty, index_px, funding_rate) ==
  - floor_fraction(position_qty * index_px * TickSize * funding_rate,
                   QtyScale * RateScale)
funding_cash_flow_micro(position_qty, index_px, funding_rate) ==
  - ceil_fraction(position_qty * index_px * TickSize * funding_rate,
                  QtyScale * RateScale)

clamp_funding_rate(observed, floor, cap) ==
  smaller(IF observed < floor THEN floor ELSE observed, cap)

-----------------------------------------------------------------------------
(* Margin and liquidation. *)

margin_used_micro(position_qty, entry_px, target_leverage) ==
  IF position_qty = 0 THEN 0
  ELSE floor_fraction(abs(position_qty) * entry_px * TickSize * LevScale,
                      QtyScale * target_leverage)

maintenance_margin_micro(position_qty, mark_px, maintenance_rate) ==
  ceil_fraction(abs(position_qty) * mark_px * TickSize * maintenance_rate,
                QtyScale * RateScale)

(* A long at or below 1x has no reachable trigger: the code returns zero. *)
liquidation_price_floors_longs(entry_px, position_sign, target_leverage, maint_rate) ==
  floor_fraction(entry_px * (target_leverage - position_sign * LevScale) * RateScale,
                 target_leverage * (RateScale - position_sign * maint_rate))
liquidation_price_ticks(entry_px, position_sign, target_leverage, maint_rate) ==
  IF position_sign > 0
  THEN IF target_leverage <= LevScale
       THEN 0
       ELSE ceil_fraction(entry_px * (target_leverage - LevScale) * RateScale,
                          target_leverage * (RateScale - maint_rate))
  ELSE floor_fraction(entry_px * (target_leverage + LevScale) * RateScale,
                      target_leverage * (RateScale + maint_rate))

distance_to_liquidation(current_px, liq_px, position_sign) ==
  IF position_sign > 0 /\ liq_px <= 0
  THEN RateScale
  ELSE floor_fraction(position_sign * (current_px - liq_px) * RateScale, current_px)

liquidation_crossed(position_qty, liq_px, mark) ==
  \/ position_qty > 0 /\ liq_px > 0 /\ mark.l <= liq_px
  \/ position_qty < 0 /\ mark.h >= liq_px

conservative_liquidation_close_price(position_sign, mark) ==
  IF position_sign > 0 THEN mark.l ELSE mark.h

liquidation_penalty_micro(position_qty, close_px, penalty_rate) ==
  fee_micro(notional_micro(position_qty, close_px), penalty_rate)

=============================================================================
