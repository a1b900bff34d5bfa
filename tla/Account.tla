------------------------------ MODULE Account ------------------------------
(***************************************************************************)
(* The isolated-margin account of one cost profile and what core/engine.py *)
(* does to it: settle funding, book a fill, liquidate, flatten, and take   *)
(* the snapshot that becomes a ledger row.  Each operator returns the new  *)
(* account, so EpisodeEngine states when it happens and this module what.  *)
(***************************************************************************)
EXTENDS FillMath, Sequences

CONSTANTS
  StartNav,        \* starting_nav_micro
  Market           \* the market specification (execution, margin, funding)

(* A funding print: its rate and the index price of its exact instant. *)
Settlement == [rate : Int, index_px : Nat \ {0}]

(* A fill bar: trade open and volume, the mark's extremes and close, and the *)
(* settlements at its opening instant and strictly inside it.                *)
Bar == [o : Nat \ {0}, v : Nat, h : Nat \ {0}, l : Nat \ {0}, c : Nat \ {0},
        at_open : Seq(Settlement), inside : Seq(Settlement)]

MarketSpec ==
  [participation_cap : 0..RateScale, half_spread : Nat, impact_coeff : Nat,
   impact_model : {"linear", "sqrt"}, taker_fee_rate : Nat, min_notional : Nat,
   leverage_cap : Nat, liquidation_penalty : Nat,
   margin_tiers : Seq([cap : Nat, rate : 0..(RateScale - 1)]),
   funding_floor : Int, funding_cap : Int]

ASSUME AccountAssumption ==
  /\ StartNav \in Nat \ {0}
  /\ Market \in MarketSpec
  /\ Len(Market.margin_tiers) > 0

opened_account ==
  [qty      |-> 0,         \* position_qty_base_1e8
   entry    |-> 0,         \* entry_px_ticks, 0 when flat
   lev      |-> 0,         \* target_leverage_1e4, 0 when flat
   cash     |-> StartNav,
   fees     |-> 0,
   funding  |-> 0,         \* funding_cum_micro: what the account has paid
   realized |-> 0,         \* realized_price_cum_micro
   penalty  |-> 0,         \* liquidation_penalty_cum_micro
   turnover |-> 0,
   fillcost |-> 0,
   killed   |-> FALSE]     \* kill_switch_active

AccountType ==
  [qty : Int, entry : Int, lev : Nat, cash : Int, fees : Int, funding : Int,
   realized : Int, penalty : Int, turnover : Int, fillcost : Int,
   killed : BOOLEAN]

flat(account) == account.qty = 0

upnl(account, mark_px) ==
  IF flat(account) THEN 0
  ELSE unrealized_pnl_micro(account.qty, account.entry, mark_px)

equity(account, mark_px) == account.cash + upnl(account, mark_px)

(* The first tier whose cap the notional does not exceed, else the last: the *)
(* one after all the leading tiers that are too small.                       *)
maintenance_rate(notional) ==
  LET tiers     == Market.margin_tiers
      too_small == {i \in DOMAIN tiers : \A j \in 1..i : notional > tiers[j].cap}
  IN  tiers[smaller(Cardinality(too_small) + 1, Len(tiers))].rate

liquidation_px(account, bar) ==
  liquidation_price_ticks(account.entry, sign(account.qty), account.lev,
                          maintenance_rate(notional_micro(account.qty, bar.c)))

min_intrabar_distance(account, bar) ==
  distance_to_liquidation(
    conservative_liquidation_close_price(sign(account.qty), bar),
    liquidation_px(account, bar), sign(account.qty))

-----------------------------------------------------------------------------
(* One funding settlement: a record of its rate and exact index price. *)

applied_funding_counts_once(account, settlement) ==
  LET flow == funding_cash_flow_micro(
                account.qty, settlement.index_px,
                clamp_funding_rate(settlement.rate, Market.funding_floor,
                                   Market.funding_cap))
  IN  [account EXCEPT !.cash = @ + flow]
applied_funding(account, settlement) ==
  LET flow == funding_cash_flow_micro(
                account.qty, settlement.index_px,
                clamp_funding_rate(settlement.rate, Market.funding_floor,
                                   Market.funding_cap))
  IN  [account EXCEPT !.cash = @ + flow, !.funding = @ - flow]

-----------------------------------------------------------------------------
(* A fill. *)

(* The part of the old position the new one no longer has, if any. *)
closed_quantity(old, new, signed_fill) ==
  IF old # 0 /\ (sign(new) # sign(old) \/ abs(new) < abs(old))
  THEN smaller(abs(old), abs(signed_fill))
  ELSE 0

position_after_keeps_entry(account, new, fill, target_lev) ==
  [account EXCEPT !.qty = new, !.lev = abs(target_lev)]
position_after(account, new, fill, target_lev) ==
  LET old     == account.qty
      grows   == abs(new) > abs(old)
      entry   == IF grows
                 THEN (account.entry * abs(old) + fill.fill_px * fill.filled)
                        \div abs(new)
                 ELSE account.entry
  IN  CASE new = 0 ->
             [account EXCEPT !.qty = 0, !.entry = 0, !.lev = 0]
        [] new # 0 /\ sign(new) # sign(old) ->
             [account EXCEPT !.qty = new, !.entry = fill.fill_px,
                             !.lev = abs(target_lev)]
        [] new # 0 /\ sign(new) = sign(old) ->
             [account EXCEPT !.qty = new, !.entry = entry,
                             !.lev = IF grows \/ fill.cancelled = 0
                                     THEN abs(target_lev) ELSE @]

apply_position_fill(account, fill, target_lev) ==
  LET signed   == IF fill.side = "buy" THEN fill.filled ELSE -fill.filled
      new      == account.qty + signed
      closed   == closed_quantity(account.qty, new, signed)
      realized == IF closed = 0 THEN 0
                  ELSE realized_pnl_micro(sign(account.qty), closed,
                                          account.entry, fill.fill_px)
      paid     == [account EXCEPT
                     !.cash     = @ + realized - fill.fee,
                     !.fees     = @ + fill.fee,
                     !.realized = @ + realized,
                     !.turnover = @ + fill.notional,
                     !.fillcost = @ + abs(fill.notional - fill.reference_notional)]
  IN  position_after(paid, new, fill, target_lev)

-----------------------------------------------------------------------------
(* Forced closes: at the adverse mark extreme, and at the mark close. *)

realized_on_close(account, px) ==
  realized_pnl_micro(sign(account.qty), abs(account.qty), account.entry, px)

liquidated(account, bar) ==
  LET px       == conservative_liquidation_close_price(sign(account.qty), bar)
      realized == realized_on_close(account, px)
      penalty  == liquidation_penalty_micro(account.qty, px, Market.liquidation_penalty)
  IN  [account EXCEPT !.qty = 0, !.entry = 0, !.lev = 0,
                      !.cash     = @ + realized - penalty,
                      !.realized = @ + realized,
                      !.penalty  = @ + penalty,
                      !.turnover = @ + notional_micro(account.qty, px)]

killed_keeps_position(account, bar, multiplier) ==
  [account EXCEPT !.killed = TRUE]
killed(account, bar, multiplier) ==
  LET value    == notional_micro(account.qty, bar.c)
      fee      == fee_micro(value, apply_cost_multiplier(Market.taker_fee_rate,
                                                         multiplier))
      realized == realized_on_close(account, bar.c)
  IN  IF flat(account) THEN [account EXCEPT !.killed = TRUE]
      ELSE [account EXCEPT !.qty = 0, !.entry = 0, !.lev = 0,
                           !.cash     = @ + realized - fee,
                           !.realized = @ + realized,
                           !.fees     = @ + fee,
                           !.turnover = @ + value,
                           !.killed   = TRUE]

-----------------------------------------------------------------------------
(* The row a snapshot becomes, and the NAV series the rows make.  A flat row *)
(* has no liquidation price: None in the code, zero here.                    *)

snapshot(account, bar) ==
  [qty      |-> account.qty,
   entry    |-> account.entry,
   mark     |-> bar.c,
   upnl     |-> upnl(account, bar.c),
   cash     |-> account.cash,
   nav      |-> equity(account, bar.c),
   fees     |-> account.fees,
   funding  |-> account.funding,
   realized |-> account.realized,
   penalty  |-> account.penalty,
   margin   |-> IF flat(account) THEN 0
                ELSE margin_used_micro(account.qty, account.entry, account.lev),
   liq_px   |-> IF flat(account) THEN 0 ELSE liquidation_px(account, bar)]

RowType ==
  [qty : Int, entry : Int, mark : Int, upnl : Int, cash : Int, nav : Int,
   fees : Int, funding : Int, realized : Int, penalty : Int,
   margin : Int, liq_px : Int]

(* Cash has moved by what was realised, charged, funded and penalised: of an *)
(* account and of a row alike (cash_conservation_holds).                     *)
Conserved(a) == a.cash - StartNav = a.realized - a.fees - a.funding - a.penalty

peak_nav(rows) ==
  LET navs == {rows[i].nav : i \in DOMAIN rows}
  IN  CHOOSE n \in navs : \A m \in navs : m <= n

drawdown(rows) ==
  floor_fraction((peak_nav(rows) - rows[Len(rows)].nav) * RateScale, peak_nav(rows))

turnover_1e8(turnover) == floor_fraction(turnover * RateScale, StartNav)

(* The stored attribution of a ledger row: the code refuses an unbalanced one. *)
row_balances(previous, row) ==
  LET d_price   == row.upnl - previous.upnl + row.realized - previous.realized
      d_funding == -(row.funding - previous.funding)
      d_fees    == -(row.fees - previous.fees)
      d_penalty == -(row.penalty - previous.penalty)
  IN  row.nav - previous.nav = d_price + d_funding + d_fees + d_penalty

ledger_balances(rows) ==
  \A i \in 2..Len(rows) : row_balances(rows[i - 1], rows[i])

=============================================================================
