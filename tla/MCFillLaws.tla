----------------------------- MODULE MCFillLaws -----------------------------
(* Small inputs for FillLaws: prices around 20 ticks, rates in percent. *)
EXTENDS FillLaws

MCOrders ==
  [side : {"buy", "sell"}, requested : {2, 4, 8}, ref_px : {19, 21},
   bar_volume : {0, 9, 14}]

MCVenues ==
  [participation_cap : {50, 100}, half_spread : {0, 3}, impact_coeff : {7},
   impact_model : {"linear", "sqrt"}, taker_fee_rate : {0, 1, 5}]

MCLeverages    == {1, 2, 3, 5}
MCMaintRates   == {0, 4, 10}
MCFundingRates == {-3, -1, 0, 1, 3}
MCPrices       == 8..34
=============================================================================
