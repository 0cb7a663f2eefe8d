---------------------------- MODULE MarketBacktest ----------------------------
(***************************************************************************)
(* The candle backtest the learning gate relies on                         *)
(* (trading_lab/backtester/run_market_backtest.py): run_trades goes through*)
(* the entry times in order and simulates the best candidate of each until *)
(* it closes; build_report splits the trades and says what blocks them.    *)
(*                                                                         *)
(* Prices are counted in tenths of the risk, from the entry and in the     *)
(* trade's favour, so a short is a long.  Results are in twentieths, for   *)
(* half a position.  Candle k opens at 2k and closes at 2k + 1.            *)
(***************************************************************************)
EXTENDS Integers, Sequences, SequencesExt, FiniteSets, FiniteSetsExt

CONSTANTS
  Candles,     \* candles of the window
  Horizon,     \* --horizon-bars
  Shapes,      \* best, worst and close of a candle
  Target,      \* replay_tp_r
  Trail,       \* atr_trail_pct over the risk
  Cost,        \* fees and slippage of a trade over the risk
  MinBt,       \* settings.evolve_min_backtest_trades
  MinBtHold,   \* settings.evolve_min_holdout_trades
  SplitTenths, \* settings.evolve_train_split
  Idle

ASSUME BacktestAssumption ==
  /\ Candles \in Nat /\ Horizon \in Nat \ {0} /\ Target \in Nat /\ Target >= 10 /\ Trail \in Nat \ {0} /\ Cost \in Nat
  /\ MinBt \in Nat /\ MinBtHold \in Nat /\ SplitTenths \in 0..10
  /\ Shapes \subseteq [best : Int, worst : Int, close : Int]
  /\ \A c \in Shapes : c.worst <= c.close /\ c.close <= c.best

VARIABLES
  upTo,     \* the next entry time run_trades looks at
  lastExit, \* last_exit_time
  deal,     \* the trade being simulated, or Idle
  trades,   \* what simulate_trade returned
  verdict   \* the validation of the report, or Idle

btVars == <<upTo, lastExit, deal, trades, verdict>>

Opens(k) == 2 * k
Closes(k) == 2 * k + 1
StopLevel == 0 - 10
FirstTarget == 10
LockLevel == 2
HigherOf(a, b) == IF a > b THEN a ELSE b

BtInit == upTo = 0 /\ lastExit = 0 /\ deal = Idle /\ trades = <<>> /\ verdict = Idle

-----------------------------------------------------------------------------
(* run_trades. *)
MoreEntries == deal = Idle /\ verdict = Idle /\ upTo <= Candles - 2

Taken == Opens(upTo) < lastExit
(* The time is inside the last trade, or no symbol has a signal there. *)
PassEntry ==
  /\ MoreEntries /\ upTo' = upTo + 1
  /\ UNCHANGED <<lastExit, deal, trades, verdict>>

NewDeal(k) ==
  [in |-> k, at |-> k, stage |-> 1, stop |-> StopLevel, best |-> 0, worst |-> 0, close |-> 0]
OpenDeal ==
  /\ MoreEntries /\ ~Taken
  /\ deal' = NewDeal(upTo) /\ upTo' = upTo + 1
  /\ UNCHANGED <<lastExit, trades, verdict>>

-----------------------------------------------------------------------------
(* simulate_trade, one candle at a time: the extremes of the candle are    *)
(* known, not their order.                                                 *)
Locked(stop, best) == HigherOf(HigherOf(stop, best - Trail), LockLevel)

(* net_r_multiple, per half of the position. *)
Half(level) == level - Cost
\* Mutant of Booked: the exit is booked at the first stop, not the locked one.
BookedAtFirstStop(d) ==
  IF d.stage = 2 THEN Half(FirstTarget) + Half(StopLevel) ELSE 2 * Half(StopLevel)
Booked(d) == IF d.stage = 2 THEN Half(FirstTarget) + Half(d.stop) ELSE 2 * Half(d.stop)
AtTarget == Half(FirstTarget) + Half(Target)
AtClose(d, level) ==
  IF d.stage = 2 THEN Half(FirstTarget) + Half(level) ELSE 2 * Half(level)

Seen(d, c) ==
  LET best == HigherOf(d.best, c.best)
  IN [d EXCEPT !.best = best, !.worst = IF c.worst < @ THEN c.worst ELSE @, !.close = c.close,
               !.stop = IF d.stage = 2 THEN Locked(@, best) ELSE @]

Finish(d, why, net) ==
  /\ trades' = Append(trades, [in |-> d.in, out |-> d.at, why |-> why, stage |-> d.stage,
                               net |-> net, worst |-> d.worst])
  /\ lastExit' = Closes(d.at) /\ deal' = Idle /\ UNCHANGED <<upTo, verdict>>

(* The horizon, or the data, ends with this candle. *)
LastCandle(d) == d.at = d.in + Horizon - 1 \/ d.at = Candles - 1
Hold(d) ==
  IF LastCandle(d) THEN Finish(d, "TIMEOUT", AtClose(d, d.close))
  ELSE /\ deal' = [d EXCEPT !.at = @ + 1]
       /\ UNCHANGED <<upTo, lastExit, trades, verdict>>

(* Stop and target in one candle: the stop is assumed to be first. *)
BothTouched(d, c) ==
  /\ c.worst <= d.stop /\ c.best >= Target /\ Finish(d, "AMBIGUOUS_STOP_FIRST", Booked(d))
StopTouched(d, c) ==
  /\ c.worst <= d.stop /\ c.best < Target
  /\ Finish(d, IF d.stage = 1 THEN "SL" ELSE "LOCKED_STOP", Booked(d))
TargetTouched(d, c) ==
  /\ c.worst > d.stop /\ c.best >= Target /\ Finish(d, "TP", AtTarget)
(* The first target books half and moves the stop, tested from the next    *)
(* candle on.                                                              *)
HalfTouched(d, c) ==
  /\ c.worst > d.stop /\ c.best < Target /\ d.stage = 1 /\ c.best >= FirstTarget
  /\ Hold([d EXCEPT !.stage = 2, !.stop = HigherOf(LockLevel, d.best - Trail)])
Untouched(d, c) ==
  /\ c.worst > d.stop /\ c.best < Target /\ ~(d.stage = 1 /\ c.best >= FirstTarget)
  /\ Hold(d)

Settle(d, c) ==
  BothTouched(d, c) \/ StopTouched(d, c) \/ TargetTouched(d, c) \/ HalfTouched(d, c) \/ Untouched(d, c)

WalkCandle(c) ==
  /\ deal # Idle
  /\ deal.at = deal.in => c.worst <= 0 /\ c.best >= 0
  /\ Settle(Seen(deal, c), c)

-----------------------------------------------------------------------------
(* build_report and validation_blockers. *)
NetSum(s) == FoldSeq(LAMBDA t, n : n + t.net, 0, s)
WinsOf(s) == Cardinality({i \in DOMAIN s : s[i].net > 0})
LossesOf(s) == Cardinality({i \in DOMAIN s : s[i].net < 0})
RateOk(s, pct) == 100 * WinsOf(s) >= pct * HigherOf(1, WinsOf(s) + LossesOf(s))
Profit(s) == NetSum(SelectSeq(s, LAMBDA t : t.net > 0))
Loss(s) == 0 - NetSum(SelectSeq(s, LAMBDA t : t.net < 0))
FactorOk(s, pct) == IF Loss(s) > 0 THEN 100 * Profit(s) >= pct * Loss(s) ELSE Profit(s) > 0

BtSplitAt(n) == (n * SplitTenths) \div 10
TrainPart == SubSeq(trades, 1, BtSplitAt(Len(trades)))
HoldPart == SubSeq(trades, BtSplitAt(Len(trades)) + 1, Len(trades))

NoBlocker ==
  /\ Len(trades) >= MinBt /\ Len(HoldPart) >= MinBtHold
  /\ RateOk(trades, 50) /\ RateOk(HoldPart, 50) /\ FactorOk(trades, 115)
  /\ NetSum(trades) > 0 /\ (HoldPart # <<>> => NetSum(HoldPart) > 0)

Report ==
  /\ deal = Idle /\ verdict = Idle /\ upTo > Candles - 2
  /\ verdict' = [passed |-> NoBlocker, hold |-> Len(HoldPart)]
  /\ UNCHANGED <<upTo, lastExit, deal, trades>>

BtNext == PassEntry \/ OpenDeal \/ Report \/ \E c \in Shapes : WalkCandle(c)
BtSpec == BtInit /\ [][BtNext]_btVars

-----------------------------------------------------------------------------

(* One position at a time, in order, also across symbols, so no trade of   *)
(* the holdout was open while a training trade was.                        *)
HoldoutIsLater ==
  /\ \A i, j \in DOMAIN trades : i < j => Opens(trades[j].in) > Closes(trades[i].out)
  /\ verdict # Idle =>
       \A i \in DOMAIN TrainPart, j \in DOMAIN HoldPart : TrainPart[i].out < HoldPart[j].in

(* A trade reported at its target never traded through its first stop, on  *)
(* the winning candle or before it.                                        *)
StopFirst ==
  \A i \in DOMAIN trades : trades[i].why = "TP" => trades[i].worst > StopLevel

(* Once half is booked at the first target, a stop closes the rest at the  *)
(* locked level or better.  (A TIMEOUT may still lose: the stop is only    *)
(* tested from the candle after the one that booked the half.)             *)
LockedProfit ==
  \A i \in DOMAIN trades :
    trades[i].stage = 2 /\ trades[i].why \in {"LOCKED_STOP", "AMBIGUOUS_STOP_FIRST"}
      => trades[i].net > 0 /\ trades[i].net >= Half(FirstTarget) + Half(LockLevel)

(* What the report says of its simulation, it keeps:                       *)
(* "trade_count_after_non_overlap", "same_candle_ambiguity": "stop_first"  *)
(* and "stage2_locked_stop_r", whatever the candles do.                    *)
ReportIsHonest == HoldoutIsLater /\ StopFirst /\ LockedProfit
=============================================================================
