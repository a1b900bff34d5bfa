-------------------------- MODULE MCEpisodeEngine --------------------------
(***************************************************************************)
(* Small episodes: prices around 100 ticks, rates in percent, quantities   *)
(* traded in steps, a start NAV of 1000.                                   *)
(***************************************************************************)
EXTENDS EpisodeEngine

MCMarket ==
  [participation_cap |-> 50, half_spread |-> 1, impact_coeff |-> 2,
   impact_model |-> "linear", taker_fee_rate |-> 1, min_notional |-> 210,
   leverage_cap |-> 3, liquidation_penalty |-> 2,
   margin_tiers |-> <<[cap |-> 3000, rate |-> 5], [cap |-> 9000, rate |-> 10]>>,
   funding_floor |-> -2, funding_cap |-> 3]

(* A quiet bar; a deep wick; a fall that stops short of the trigger while   *)
(* funding eats the margin; a thin rise.                                    *)
MCBars ==
  {[o |-> 100, v |-> 90, h |-> 103, l |-> 97, c |-> 101,
    at_open |-> <<[rate |-> 1, index_px |-> 100]>>, inside |-> <<>>],
   [o |-> 100, v |-> 70, h |-> 104, l |-> 73, c |-> 90,
    at_open |-> <<>>, inside |-> <<[rate |-> -3, index_px |-> 99]>>],
   [o |-> 100, v |-> 70, h |-> 101, l |-> 75, c |-> 75,
    at_open |-> <<>>, inside |-> <<[rate |-> 3, index_px |-> 99],
                                  [rate |-> 4, index_px |-> 98]>>],
   [o |-> 110, v |-> 21, h |-> 141, l |-> 108, c |-> 125,
    at_open |-> <<>>, inside |-> <<>>]}

Act(lev, max_slip) ==
  [kind |-> "action", lev |-> lev, max_slip |-> max_slip, replies |-> 1, blocks |-> 0]

Rejected(kind, replies, blocks) ==
  [kind |-> kind, lev |-> 0, max_slip |-> NoLimit, replies |-> replies,
   blocks |-> blocks]

MCDecisions ==
  {Act(0, NoLimit), Act(3, NoLimit), Act(-2, 2), Act(-2, NoLimit),
   Act(4, NoLimit), Rejected("invalid", 2, 0), Rejected("missed", 1, 1)}

-----------------------------------------------------------------------------
(* A coarse quantity step, so that a new leverage may leave the position as *)
(* it is: short at 2x, and after the price has fallen the same at 1x.       *)
MCCoarseBars ==
  {[o |-> 100, v |-> 900, h |-> 101, l |-> 95, c |-> 98,
    at_open |-> <<>>, inside |-> <<>>],
   [o |-> 80, v |-> 900, h |-> 83, l |-> 72, c |-> 75,
    at_open |-> <<>>, inside |-> <<>>]}

MCCoarseDecisions == {Act(-2, NoLimit), Act(-1, NoLimit), Rejected("missed", 0, 0)}
=============================================================================
