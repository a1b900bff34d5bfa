--------------------------- MODULE EpisodeEngine ---------------------------
(***************************************************************************)
(* run_episode of core/engine.py: one agent is asked for a decision at     *)
(* every turn of a pack and its decisions are executed under the primary   *)
(* cost profile; the recorded decisions are then executed again under the  *)
(* stress profile, and the two ledgers, the metrics and the event log make *)
(* the result.  A turn runs through stages in a fixed order:               *)
(*                                                                         *)
(*   decide -> carry -> order -> hold -> mark -> close -> decide ...       *)
(*                                                                         *)
(* An exception ends the whole run in stage "raised": run_episode returns  *)
(* nothing, so nothing of the run is recorded.                             *)
(***************************************************************************)
EXTENDS Account, FiniteSets

CONSTANTS
  BarsTotal,       \* bars_total of the pack: the turns of a full episode
  OpeningMark,     \* mark close of the bar before the first turn
  Bars,            \* the fill bars a pack may contain
  Decisions,       \* what a decision round may return
  MaxFinalBlocks,  \* egress facts still undrained when the episode ends
  GrossCap,        \* leverage_cap_gross_lev_1e4
  TurnoverCap,     \* turnover_cap_1e8, or NoLimit
  KillLimit,       \* drawdown_kill_switch_1e8
  NearLiqThreshold,\* NEAR_LIQ_THRESHOLD_1E8
  BpScale,         \* slippage units in one basis point: 10_000 in the code
  StressMultiplier,\* cost multiplier of stress_2x; primary has CostScale
  NoLimit          \* an optional limit that is absent

(* What a decision round returns: an action, a malformed answer ("invalid") *)
(* or none at all ("missed"); how often the agent replied; how many egress  *)
(* facts the harness drained meanwhile.                                     *)
Decision == [kind : {"action", "invalid", "missed"}, lev : Int,
             max_slip : Nat \cup {NoLimit}, replies : Nat, blocks : Nat]

ASSUME EpisodeAssumption ==
  /\ BarsTotal \in Nat \ {0}
  /\ OpeningMark \in Nat \ {0}
  /\ \A b \in Bars : b \in Bar
  /\ \A d \in Decisions : d \in Decision
  /\ MaxFinalBlocks \in Nat /\ GrossCap \in Nat
  /\ StressMultiplier \in Nat \ {0}

Profiles == {"primary", "stress_2x"}

VARIABLES
  profile,     \* the profile being simulated
  stage,       \* where in its turn, or "profile_end", "done", "raised"
  turn,        \* the current turn
  account,     \* the account of that profile
  paid,        \* settlements inside the bar already paid
  terminal,    \* liquidated in this profile
  counters,    \* the counters of each profile
  rows,        \* the snapshots of each profile, the opening one first
  tape,        \* per turn: the fill bar and the recorded decision
  trail,       \* types of the events the primary run logged this turn
  failure      \* what run_episode raised, "none" if nothing

vars == <<profile, stage, turn, account, paid, terminal, counters, rows, tape,
          trail, failure>>

-----------------------------------------------------------------------------
(* Reading the state. *)

multiplier == IF profile = "primary" THEN CostScale ELSE StressMultiplier

bar      == tape[turn + 1].bar
decision == tape[turn + 1].decision

decision_mark == IF turn = 0 THEN OpeningMark ELSE tape[turn].bar.c

(* collect_evidence: only the primary run writes events. *)
collect_evidence == profile = "primary"

Emit_only_under_stress(types) ==
  trail' = IF collect_evidence THEN trail ELSE trail \o types
Emit(types) == trail' = IF collect_evidence THEN trail \o types ELSE trail

Times(n, type) == [i \in 1..n |-> type]

Raise(cause) ==
  /\ stage' = "raised"
  /\ failure' = cause

no_counts ==
  [turns |-> 0, invalid |-> 0, missed |-> 0, gate_blocks |-> 0,
   post_kill |-> 0, liquidations |-> 0, kills |-> 0]

opening_row == snapshot(opened_account, [c |-> OpeningMark])

-----------------------------------------------------------------------------
Init ==
  /\ profile = "primary" /\ stage = "decide" /\ turn = 0
  /\ account = opened_account
  /\ paid = 0
  /\ terminal = FALSE
  /\ counters = [p \in Profiles |-> no_counts]
  /\ rows = [p \in Profiles |-> IF p = "primary" THEN <<opening_row>> ELSE <<>>]
  /\ tape = <<>>
  /\ trail = <<>>
  /\ failure = "none"

counted_missed_as_invalid(counts, dec) ==
  [counts EXCEPT !.turns   = @ + 1,
                 !.invalid = IF dec.kind = "action" THEN @ ELSE @ + 1]
(* One decision processed: a turn, and what kind of turn it was. *)
counted(counts, dec) ==
  [counts EXCEPT !.turns   = @ + 1,
                 !.missed  = IF dec.kind = "missed" THEN @ + 1 ELSE @,
                 !.invalid = IF dec.kind = "invalid" THEN @ + 1 ELSE @]

(* The agent is observed and asked; what it said is logged and kept. *)
Decide ==
  /\ stage = "decide" /\ profile = "primary"
  /\ \E b \in Bars, dec \in Decisions :
       /\ tape' = Append(tape, [bar |-> b, decision |-> dec])
       /\ counters' = [counters EXCEPT !["primary"] = counted(@, dec)]
       /\ trail' = <<"ObservationEmitted">>
                     \o Times(dec.replies, "AgentResponded")
                     \o Times(dec.blocks, "EgressBlocked")
                     \o (IF dec.kind = "action" THEN <<"ActionParsed">>
                                                ELSE <<"ActionRejected">>)
  /\ stage' = "carry"
  /\ UNCHANGED <<profile, turn, account, paid, terminal, rows, failure>>

(* The stress profile asks nobody: it reads the recorded decision. *)
Redecide ==
  /\ stage = "decide" /\ profile = "stress_2x"
  /\ turn < Len(tape)
  /\ counters' = [counters EXCEPT !["stress_2x"] = counted(@, decision)]
  /\ stage' = "carry"
  /\ UNCHANGED <<profile, turn, account, paid, terminal, rows, tape, trail,
                 failure>>

(* "recorded decision trace ended before the episode" *)
TraceEnds ==
  /\ stage = "decide" /\ profile = "stress_2x"
  /\ turn >= Len(tape)
  /\ Raise("trace ended")
  /\ UNCHANGED <<profile, turn, account, paid, terminal, counters, rows, tape,
                 trail>>

(* A settlement at the fill instant is paid on the position carried into it. *)
CarryFunding ==
  /\ stage = "carry"
  /\ stage' = "order"
  /\ IF bar.at_open = <<>>
     THEN UNCHANGED <<account, trail>>
     ELSE /\ account' = applied_funding(account, bar.at_open[1])
          /\ Emit(<<"FundingApplied">>)
  /\ UNCHANGED <<profile, turn, paid, terminal, counters, rows, tape, failure>>

-----------------------------------------------------------------------------
(* The order the decision asks for. *)

nav_at_decision == equity(account, decision_mark)

requested_delta ==
  target_quantity(decision.lev, nav_at_decision, bar.o) - account.qty

raw_requested_delta ==
  raw_target_quantity(decision.lev, nav_at_decision, bar.o) - account.qty

projected_turnover ==
  turnover_1e8(account.turnover + notional_micro(requested_delta, bar.o))

gate_passes_after_the_kill ==
  [leverage_cap_market  |-> abs(decision.lev) <= Market.leverage_cap,
   leverage_cap_gross   |-> abs(decision.lev) <= GrossCap,
   turnover_cap         |-> TurnoverCap = NoLimit \/ projected_turnover <= TurnoverCap,
   drawdown_kill_switch |-> TRUE]
(* The verdict of each risk check.  Turnover is checked if it has a limit. *)
gate_passes ==
  [leverage_cap_market  |-> abs(decision.lev) <= Market.leverage_cap,
   leverage_cap_gross   |-> abs(decision.lev) <= GrossCap,
   turnover_cap         |-> TurnoverCap = NoLimit \/ projected_turnover <= TurnoverCap,
   drawdown_kill_switch |-> ~account.killed \/ decision.lev = 0]

failed_gates == {g \in DOMAIN gate_passes : ~gate_passes[g]}

RiskChecks == Times(IF TurnoverCap = NoLimit THEN 3 ELSE 4, "RiskCheck")

order_fill ==
  calculate_fill(IF requested_delta > 0 THEN "buy" ELSE "sell",
                 abs(requested_delta), bar.v, bar.o, Market, multiplier)

cancelled_whole(fill) ==
  \/ fill.filled = 0
  \/ fill.notional < Market.min_notional
  \/ decision.max_slip # NoLimit /\ abs(fill.slippage) > decision.max_slip * BpScale

Ordering == stage = "order" /\ decision.kind = "action"

NoOrder ==
  /\ stage = "order" /\ decision.kind # "action"
  /\ stage' = "hold"
  /\ UNCHANGED <<profile, turn, account, paid, terminal, counters, rows, tape,
                 trail, failure>>

Sized == Ordering /\ nav_at_decision >= 0

Passed == Sized /\ failed_gates = {}

(* raw_target_quantity refuses to size a target on negative equity, and     *)
(* fill_price_ticks a sell so deep that its price is not positive.          *)
order_error ==
  IF nav_at_decision < 0 THEN "negative equity"
  ELSE IF Passed /\ requested_delta # 0 /\ ~FillIsPriced(order_fill)
       THEN "unpriced sell"
       ELSE "none"

OrderRaises ==
  /\ Ordering /\ order_error # "none"
  /\ Raise(order_error)
  /\ UNCHANGED <<profile, turn, account, paid, terminal, counters, rows, tape,
                 trail>>

OrderBlocked ==
  /\ Sized /\ failed_gates # {}
  /\ LET after_kill == account.killed /\ decision.lev # 0
     IN  /\ counters' = [counters EXCEPT
                 ![profile].gate_blocks = @ + Cardinality(failed_gates),
                 ![profile].post_kill = IF after_kill THEN @ + 1 ELSE @]
         /\ Emit(RiskChecks
                   \o IF after_kill THEN <<"PostKillSwitchAttempt">> ELSE <<>>)
  /\ stage' = "hold"
  /\ UNCHANGED <<profile, turn, account, paid, terminal, rows, tape, failure>>

Priced == Passed /\ requested_delta # 0 /\ FillIsPriced(order_fill)

OrderCancelled ==
  /\ Priced /\ cancelled_whole(order_fill)
  /\ Emit(Append(RiskChecks, "OrderCancelled"))
  /\ stage' = "hold"
  /\ UNCHANGED <<profile, turn, account, paid, terminal, counters, rows, tape,
                 failure>>

OrderFilled ==
  /\ Priced /\ ~cancelled_whole(order_fill)
  /\ account' = apply_position_fill(account, order_fill, decision.lev)
  /\ Emit(RiskChecks \o <<"OrderFilled">>
            \o IF order_fill.cancelled > 0 THEN <<"OrderCancelled">> ELSE <<>>)
  /\ stage' = "hold"
  /\ UNCHANGED <<profile, turn, paid, terminal, counters, rows, tape, failure>>

(* The rounded target is already held.  What rounding took away is logged   *)
(* as a cancellation; without an event to log, the position takes over the  *)
(* new target leverage.                                                     *)
NothingToTrade ==
  /\ Passed /\ requested_delta = 0
  /\ LET rounded_away == raw_requested_delta # 0 /\ collect_evidence
     IN  /\ account' = IF ~rounded_away /\ ~flat(account)
                       THEN [account EXCEPT !.lev = abs(decision.lev)]
                       ELSE account
         /\ Emit(RiskChecks
                   \o IF rounded_away THEN <<"OrderCancelled">> ELSE <<>>)
  /\ stage' = "hold"
  /\ UNCHANGED <<profile, turn, paid, terminal, counters, rows, tape, failure>>

Order == \/ NoOrder \/ OrderRaises \/ OrderBlocked
         \/ OrderCancelled \/ OrderFilled \/ NothingToTrade

-----------------------------------------------------------------------------
(* Holding the bar. *)

(* Settlements strictly inside the holding bar, paid one by one after its   *)
(* fill.                                                                    *)
HoldFunding ==
  /\ stage = "hold" /\ paid < Len(bar.inside)
  /\ account' = applied_funding(account, bar.inside[paid + 1])
  /\ paid' = paid + 1
  /\ Emit(<<"FundingApplied">>)
  /\ UNCHANGED <<profile, stage, turn, terminal, counters, rows, tape, failure>>

Held ==
  /\ stage = "hold" /\ paid = Len(bar.inside)
  /\ paid' = 0
  /\ stage' = "mark"
  /\ UNCHANGED <<profile, turn, account, terminal, counters, rows, tape, trail,
                 failure>>

Crossed == liquidation_crossed(account.qty, liquidation_px(account, bar), bar)

(* No position, or one whose trigger the bar's mark did not reach. *)
MarkSurvives ==
  /\ stage = "mark"
  /\ flat(account) \/ ~Crossed
  /\ Emit(IF flat(account) THEN <<>>
          ELSE IF min_intrabar_distance(account, bar) < NearLiqThreshold
          THEN <<"MarginUpdate", "NearLiquidation">> ELSE <<"MarginUpdate">>)
  /\ rows' = [rows EXCEPT ![profile] = Append(@, snapshot(account, bar))]
  /\ stage' = "close"
  /\ UNCHANGED <<profile, turn, account, paid, terminal, counters, tape,
                 failure>>

Liquidate ==
  /\ stage = "mark"
  /\ ~flat(account) /\ Crossed
  /\ account' = liquidated(account, bar)
  /\ counters' = [counters EXCEPT ![profile].liquidations = @ + 1]
  /\ terminal' = TRUE
  /\ Emit(<<"MarginUpdate", "LiquidationTriggered">>)
  /\ rows' = [rows EXCEPT ![profile] = Append(@, snapshot(account', bar))]
  /\ stage' = "close"
  /\ UNCHANGED <<profile, turn, paid, tape, failure>>

-----------------------------------------------------------------------------
(* Closing the bar. *)

kill_is_due_ignores_terminal ==
  ~account.killed /\ drawdown(rows[profile]) >= KillLimit
kill_is_due ==
  ~terminal /\ ~account.killed /\ drawdown(rows[profile]) >= KillLimit

(* Next turn of this profile, or its end. *)
NextTurn_runs_past_the_end ==
  IF terminal
  THEN stage' = "profile_end" /\ turn' = turn
  ELSE stage' = "decide" /\ turn' = turn + 1
NextTurn_repeats_the_last ==
  IF terminal \/ turn = BarsTotal
  THEN stage' = "profile_end" /\ turn' = turn
  ELSE stage' = "decide" /\ turn' = IF turn + 1 = BarsTotal THEN turn ELSE turn + 1
NextTurn ==
  IF terminal \/ turn + 1 = BarsTotal
  THEN stage' = "profile_end" /\ turn' = turn
  ELSE stage' = "decide" /\ turn' = turn + 1

CloseBar_keeps_the_wick ==
  /\ stage = "close" /\ ~kill_is_due
  /\ NextTurn
  /\ UNCHANGED <<profile, account, paid, terminal, counters, rows, tape, trail,
                 failure>>
CloseBar ==
  /\ stage = "close" /\ ~kill_is_due
  /\ Emit(IF terminal THEN <<"MarginUpdate">> ELSE <<>>)
  /\ NextTurn
  /\ UNCHANGED <<profile, account, paid, terminal, counters, rows, tape,
                 failure>>

(* The position is flattened at the mark close and the row taken again. *)
row_after_kill_is_stale(row, flattened) == row
row_after_kill(row, flattened) ==
  IF flat(account) THEN row ELSE snapshot(flattened, bar)

KillSwitch ==
  /\ stage = "close" /\ kill_is_due
  /\ account' = killed(account, bar, multiplier)
  /\ counters' = [counters EXCEPT ![profile].kills = @ + 1]
  /\ rows' = [rows EXCEPT ![profile][Len(rows[profile])] =
                row_after_kill(@, account')]
  /\ Emit((IF flat(account) THEN <<>> ELSE <<"OrderFilled", "MarginUpdate">>)
            \o <<"KillSwitchTriggered">>)
  /\ NextTurn
  /\ UNCHANGED <<profile, paid, terminal, tape, failure>>

(* The primary simulation is over: simulate its decisions under stress. *)
StartStress ==
  /\ stage = "profile_end" /\ profile = "primary"
  /\ profile' = "stress_2x"
  /\ stage' = "decide" /\ turn' = 0
  /\ account' = opened_account
  /\ terminal' = FALSE
  /\ rows' = [rows EXCEPT !["stress_2x"] = <<opening_row>>]
  /\ UNCHANGED <<paid, counters, tape, trail, failure>>

(* bar_returns refuses a bar that starts from a NAV that is not positive. *)
returns_undefined ==
  \E p \in Profiles : \E i \in 1..(Len(rows[p]) - 1) : rows[p][i].nav <= 0

result_error ==
  IF returns_undefined THEN "undefined return"
  ELSE IF \A p \in Profiles : ledger_balances(rows[p]) THEN "none"
  ELSE "unbalanced ledger"

(* What is left of the egress facts, the metrics, EpisodeEnd, the ledgers. *)
Finish ==
  /\ stage = "profile_end" /\ profile = "stress_2x"
  /\ IF result_error = "none"
     THEN /\ stage' = "done"
          /\ \E n \in 0..MaxFinalBlocks :
               trail' = Append(Times(n, "EgressBlocked"), "EpisodeEnd")
          /\ UNCHANGED failure
     ELSE Raise(result_error) /\ UNCHANGED trail
  /\ UNCHANGED <<profile, turn, account, paid, terminal, counters, rows, tape>>

(* run_episode has returned or raised: nothing is left to do. *)
Returned == stage \in {"done", "raised"} /\ UNCHANGED vars

Next ==
  \/ Decide \/ Redecide \/ TraceEnds \/ CarryFunding \/ Order
  \/ HoldFunding \/ Held \/ MarkSurvives \/ Liquidate
  \/ CloseBar \/ KillSwitch \/ StartStress \/ Finish \/ Returned

Spec == Init /\ [][Next]_vars

-----------------------------------------------------------------------------
(* Properties. *)

Stages == {"decide", "carry", "order", "hold", "mark", "close", "profile_end",
           "done", "raised"}

TurnType == [bar : Bars, decision : Decisions]

CountsType ==
  [turns : Nat, invalid : Nat, missed : Nat, gate_blocks : Nat,
   post_kill : Nat, liquidations : Nat, kills : Nat]

(* The state has the shape the engine's dataclasses give it. *)
TypeOK ==
  /\ profile \in Profiles
  /\ stage \in Stages
  /\ turn \in 0..(BarsTotal - 1)
  /\ paid \in Nat
  /\ account \in AccountType
  /\ terminal \in BOOLEAN
  /\ counters \in [Profiles -> CountsType]
  /\ rows \in [Profiles -> Seq(RowType)]
  /\ tape \in Seq(TurnType)
  /\ failure \in {"none", "trace ended", "negative equity",
                  "unpriced sell", "undefined return", "unbalanced ledger"}

(***************************************************************************)
(* MATH-2, cash conservation: through every fill, settlement, liquidation  *)
(* and forced close, of the running account and of every row recorded so   *)
(* far, cash has changed by exactly what was realised, charged, funded and *)
(* penalised (cash_conservation_holds, _ledger_rows).                      *)
(***************************************************************************)
CashConserved ==
  /\ Conserved(account)
  /\ \A p \in Profiles : \A i \in DOMAIN rows[p] : Conserved(rows[p][i])

(***************************************************************************)
(* A position always has the entry price and the leverage that margin and  *)
(* liquidation are computed from, and never more leverage than the gates   *)
(* let through; a flat account has neither (_apply_position_fill and the   *)
(* forced closes; liquidation_price_ticks raises on a zero leverage).      *)
(***************************************************************************)
PositionIsMargined ==
  IF flat(account)
  THEN account.entry = 0 /\ account.lev = 0
  ELSE /\ account.entry > 0
       /\ account.lev \in 1..smaller(Market.leverage_cap, GrossCap)

(***************************************************************************)
(* SAFE-3: once the kill switch has flattened a profile it stays flat, and *)
(* no decision, settlement or bar changes its account again.               *)
(***************************************************************************)
KilledStaysFlat == account.killed => flat(account)

KilledNeverTrades ==
  [][(account.killed /\ profile' = profile) => account' = account]_vars

(***************************************************************************)
(* A profile has one verdict: a liquidation is terminal and preempts the   *)
(* kill switch, and a killed profile is never liquidated.                  *)
(***************************************************************************)
OneVerdict ==
  \A p \in Profiles : counters[p].liquidations + counters[p].kills <= 1

(***************************************************************************)
(* Between bars the last row is the account: a row the kill switch or the  *)
(* liquidation overtook has been taken again, so the equity curve ends at  *)
(* what the account holds (run.snapshots[-1] in _run_profile).             *)
(***************************************************************************)
LastRowIsTheAccount ==
  stage \in {"decide", "profile_end"} =>
    LET last == rows[profile][Len(rows[profile])]
    IN  /\ last.cash = account.cash /\ last.qty = account.qty
        /\ last.fees = account.fees /\ last.penalty = account.penalty
        /\ flat(account) => last.nav = account.cash

(***************************************************************************)
(* One row per decision, after the opening one, and one decision of the    *)
(* three kinds per turn (profile_invariant: bars, turns, missed, invalid). *)
(***************************************************************************)
RowsFollowTurns ==
  stage \in {"decide", "profile_end"} =>
    LET c == counters[profile]
        T == 1..c.turns
    IN  /\ Len(rows[profile]) = c.turns + 1
        /\ c.turns = IF stage = "decide" THEN turn ELSE turn + 1
        /\ c.missed = Cardinality({t \in T : tape[t].decision.kind = "missed"})
        /\ c.invalid = Cardinality({t \in T : tape[t].decision.kind = "invalid"})
        /\ c.post_kill <= c.gate_blocks

(***************************************************************************)
(* The ledger of a profile is its episode: a row for every turn, the last  *)
(* one the account, and at most one verdict on it.                         *)
(***************************************************************************)
LedgerIsTheEpisode == OneVerdict /\ LastRowIsTheAccount /\ RowsFollowTurns

(***************************************************************************)
(* No position and no cash moves without its event: a primary position     *)
(* changes only with an order filled or a liquidation in the log, and cash *)
(* also with a settlement (what a reader of the bundle relies on).         *)
(***************************************************************************)
Logged(types) ==
  \E i \in (Len(trail) + 1)..Len(trail') : trail'[i] \in types

MovesAreLogged ==
  [][(profile = "primary" /\ profile' = profile) =>
       /\ account'.qty # account.qty =>
            Logged({"OrderFilled", "LiquidationTriggered"})
       /\ account'.cash # account.cash =>
            Logged({"OrderFilled", "LiquidationTriggered", "FundingApplied"})]_vars

(* The turn whose events are all in the trail. *)
turn_is_over ==
  /\ profile = "primary"
  /\ stage = "profile_end" \/ (stage = "decide" /\ turn > 0)

(* _typed_payloads: where the trail has events of a type. *)
typed(types) == {i \in DOMAIN trail : trail[i] \in types}

(***************************************************************************)
(* A decision record can be made of every turn, and its margin_after is    *)
(* the state the bar closed in: every turn that ends with a position has   *)
(* one, and none is older than the last fill, settlement or liquidation of *)
(* its turn (generate_decision_records; docs/contracts/field-reference.md).*)
(***************************************************************************)
DecisionsProject ==
  turn_is_over =>
    /\ typed({"ObservationEmitted"}) = {1}
    /\ Cardinality(typed({"ActionParsed", "ActionRejected"})) = 1
    /\ Cardinality(typed({"LiquidationTriggered"})) <= 1
    /\ Cardinality(typed({"PostKillSwitchAttempt"})) <= 1
    /\ ~flat(account) => typed({"MarginUpdate"}) # {}
    /\ typed({"MarginUpdate"}) # {} =>
         \E last \in typed({"MarginUpdate"}) :
           \A i \in typed({"OrderFilled", "FundingApplied", "LiquidationTriggered"}) :
             i < last

(* Steps left at most: the stages of this turn, of the turns and profiles after. *)
stages_left ==
  CASE stage = "decide" -> 6 [] stage = "carry" -> 5 [] stage = "order" -> 4
    [] stage = "hold" -> 3   [] stage = "mark" -> 2  [] stage = "close" -> 1
    [] stage \in {"profile_end", "done", "raised"} -> 0

steps_left ==
  IF stage \in {"done", "raised"} THEN 0
  ELSE 1 + stages_left
         + (IF stage = "profile_end" THEN 0 ELSE 6 * (BarsTotal - 1 - turn))
         + (IF profile = "primary" THEN 6 * BarsTotal + 1 ELSE 0)

(***************************************************************************)
(* The run ends: every step brings it closer to a result or an exception,  *)
(* whatever is decided and whichever profile ends early.  With the absence *)
(* of deadlock this is termination, and needs no fairness.                 *)
(***************************************************************************)
EpisodeEnds ==
  [][ \/ steps_left' < steps_left
      \/ /\ UNCHANGED <<profile, stage, turn>>
         /\ paid' = paid + 1 /\ paid' <= Len(bar.inside)]_vars

-----------------------------------------------------------------------------
(* What the documents say of an episode and the code does not do. *)

(***************************************************************************)
(* A finished episode can be recorded: BundleWriter.write_ledgers refuses  *)
(* ledgers of different lengths, and the stress profile may end earlier.   *)
(***************************************************************************)
LedgersPairUp ==
  stage = "done" => Len(rows["primary"]) = Len(rows["stress_2x"])

(***************************************************************************)
(* The stress profile differs by its cost multiplier and nothing else:     *)
(* with the multiplier of the primary profile its ledger is the same.      *)
(***************************************************************************)
SameCostsSameLedger ==
  (StressMultiplier = CostScale /\ stage = "done") =>
    rows["stress_2x"] = rows["primary"]
=============================================================================
