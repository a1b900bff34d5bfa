------------------------------ MODULE FillLaws ------------------------------
(***************************************************************************)
(* What the arithmetic of FillMath promises the rest of the benchmark.     *)
(* An order is filled under the primary cost profile and, as the stress    *)
(* re-simulation does, under doubled costs; the filled quantity is then    *)
(* sold (or bought) back at the same reference price.  The position the    *)
(* order opened is also marked, funded and checked for liquidation at      *)
(* every price of a small range.                                           *)
(***************************************************************************)
EXTENDS FillMath

CONSTANTS
  Orders,          \* requests: [side, requested, ref_px, bar_volume]
  Venues,          \* execution parameters: the market of calculate_fill
  Leverages,       \* leverages a position may carry
  MaintRates,      \* maintenance margin rates of the venue
  FundingRates,    \* settled funding rates
  Prices           \* prices the position is marked at

(* The ranges core/pack.py loads, and a fee of at most the notional, which  *)
(* pack.py does not check: of a dearer one MATH-5 would not hold.           *)
ASSUME FillLawsAssumption ==
  /\ Orders \subseteq [side : {"buy", "sell"}, requested : Nat,
                       ref_px : Nat \ {0}, bar_volume : Nat]
  /\ Venues \subseteq [participation_cap : 0..RateScale, half_spread : Nat,
                       impact_coeff : Nat, impact_model : {"linear", "sqrt"},
                       taker_fee_rate : 0..RateScale]
  /\ Leverages \subseteq Nat \ {0} /\ MaintRates \subseteq 0..(RateScale - 1)
  /\ FundingRates \subseteq Int    /\ Prices \subseteq Nat \ {0}

VARIABLES order, venue, opened, closed

vars == <<order, venue, opened, closed>>

Profiles == {"primary", "stress_2x"}

multiplier(p) == IF p = "primary" THEN CostScale ELSE 2 * CostScale

NotYet == [filled |-> 0]

Opposite(side) == IF side = "buy" THEN "sell" ELSE "buy"

Execute(side, requested, p) ==
  calculate_fill(side, requested, order.bar_volume, order.ref_px,
                 venue, multiplier(p))

-----------------------------------------------------------------------------

Init ==
  /\ order \in Orders
  /\ venue \in Venues
  /\ opened = [p \in Profiles |-> NotYet]
  /\ closed = [p \in Profiles |-> NotYet]

Open ==
  /\ opened["primary"] = NotYet
  /\ opened' = [p \in Profiles |-> Execute(order.side, order.requested, p)]
  /\ \A p \in Profiles : FillIsPriced(opened'[p])
  /\ UNCHANGED <<order, venue, closed>>

Close ==
  /\ opened["primary"].filled > 0
  /\ closed["primary"] = NotYet
  /\ closed' = [p \in Profiles |->
                  Execute(Opposite(order.side), opened[p].filled, p)]
  /\ \A p \in Profiles : FillIsPriced(closed'[p])
  /\ UNCHANGED <<order, venue, opened>>

Next == Open \/ Close

Spec == Init /\ [][Next]_vars

-----------------------------------------------------------------------------
(* The order and the way back. *)

IsOpen   == opened["primary"] # NotYet
IsClosed == closed["primary"] # NotYet

(* Cash the account receives (or pays) for a fill taken at its price. *)
NetCash(fill) ==
  (IF fill.side = "sell" THEN fill.notional ELSE -fill.notional) - fill.fee

(***************************************************************************)
(* MATH-5: the stress profile never pays an account more, for the same     *)
(* quantity, than the primary one, whatever the rounding of the doubled    *)
(* spread, impact and fee (calculate_fill under the two multipliers).      *)
(***************************************************************************)
StressNeverCheaper ==
  IsOpen =>
    /\ opened["stress_2x"].filled = opened["primary"].filled
    /\ NetCash(opened["stress_2x"]) <= NetCash(opened["primary"])

(***************************************************************************)
(* Buying and selling back (or the reverse) at one reference price never   *)
(* earns anything: the spread, impact, fee and profit roundings cannot be  *)
(* combined into a gain (calculate_fill, then realized_pnl_micro).         *)
(***************************************************************************)
RoundTripNeverProfits ==
  IsClosed => \A p \in Profiles :
    realized_pnl_micro(IF order.side = "buy" THEN 1 ELSE -1, closed[p].filled,
                       opened[p].fill_px, closed[p].fill_px)
      - opened[p].fee - closed[p].fee <= 0

(***************************************************************************)
(* The square-root impact is the least whole number of ticks that is not   *)
(* below ref * coeff * sqrt(participation), compared as exact squares      *)
(* (impact_ticks, ceil_sqrt_fraction).                                     *)
(***************************************************************************)
SqrtImpactIsTheLeastCeiling ==
  (IsOpen /\ venue.impact_model = "sqrt" /\ opened["primary"].filled > 0) =>
    LET qty      == opened["primary"].filled
        scaled   == order.ref_px * venue.impact_coeff
        ticks    == impact_ticks(order.ref_px, qty, order.bar_volume,
                                 venue.impact_coeff, "sqrt")
        Covers(n) == n * n * RateScale * RateScale * order.bar_volume
                       >= scaled * scaled * qty
    IN  Covers(ticks) /\ (ticks > 0 => ~Covers(ticks - 1))

-----------------------------------------------------------------------------
(* The position the order opened. *)

Held ==
  IF order.side = "buy" THEN opened["primary"].filled ELSE -opened["primary"].filled

(***************************************************************************)
(* What is left of the isolated margin of one unit at price px, above the  *)
(* maintenance requirement, times leverage and rate scale (exact).         *)
(***************************************************************************)
Excess(side_sign, entry, lev, maint, px) ==
  RateScale * (entry * LevScale + side_sign * (px - entry) * lev)
    - lev * maint * px

(***************************************************************************)
(* The liquidation price is exact to the tick: a mark triggers it if and   *)
(* only if one tick further against the position its margin would no       *)
(* longer hold, so nothing is liquidated a tick early or spared a tick     *)
(* late (liquidation_price_ticks with liquidation_crossed).                *)
(***************************************************************************)
TriggerIsTight ==
  (IsOpen /\ Held # 0) =>
    \A lev \in Leverages, maint \in MaintRates, px \in Prices :
      LET s     == sign(Held)
          entry == opened["primary"].fill_px
          liq   == liquidation_price_ticks(entry, s, lev, maint)
      IN  liquidation_crossed(Held, liq, [h |-> px, l |-> px, c |-> px])
            <=> Excess(s, entry, lev, maint, px - s) < 0

(***************************************************************************)
(* The two prices that come of a root and of a division by a difference,   *)
(* what an order moves and what liquidates a position, are exact to one    *)
(* tick, in both directions (ceil_sqrt_fraction, liquidation_price_ticks). *)
(***************************************************************************)
PricesAreExact == SqrtImpactIsTheLeastCeiling /\ TriggerIsTight

(***************************************************************************)
(* Funding never creates money: what a long and the same short receive     *)
(* together is never positive, whatever the signs of position and rate     *)
(* (funding_cash_flow_micro ceils the venue's amount before the sign).     *)
(***************************************************************************)
FundingNeverCreatesMoney ==
  IsOpen => \A rate \in FundingRates, px \in Prices :
    funding_cash_flow_micro(Held, px, rate)
      + funding_cash_flow_micro(-Held, px, rate) <= 0

(***************************************************************************)
(* No rounding pays an account for coming back to where it was: neither a  *)
(* round trip of fills nor the two sides of a settlement.                  *)
(***************************************************************************)
RoundingNeverPays == RoundTripNeverProfits /\ FundingNeverCreatesMoney

=============================================================================
