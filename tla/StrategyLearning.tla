--------------------------- MODULE StrategyLearning ---------------------------
(***************************************************************************)
(* What the system learns from its own closes: the forward record of every *)
(* generated plan (learning/ai_strategy_feedback.py), the gate computed    *)
(* from those records before the next plan is asked for and enforced when  *)
(* it arrives (ai_strategy/codex_cli_strategy_client.py), and the evolved  *)
(* filters with their promotion (learning/strategy_evolver.py,             *)
(* backtest_engine.py, strategy_registry.py).                              *)
(*                                                                         *)
(* One symbol, so a bucket (symbol, side) is a side.  Positions are        *)
(* numbered in the order they open and every plan has an id of its own, so *)
(* a position names its strategy record.  A close is one of                *)
(* PositionLifecycle; here it is the archive row it leaves.                *)
(***************************************************************************)
EXTENDS Integers, Sequences, FiniteSets, Functions, FiniteSetsExt

CONSTANTS
  Sides,
  Pnls,         \* results of a position; a win is above 0
  MaxPositions, \* bound: positions of a behaviour
  MaxOpen,      \* settings.max_open_positions
  MaxEvolves,   \* bound: evolution runs
  MinBlock,     \* settings.strategy_block_symbol_side_min_trades
  MinForward,   \* settings.evolve_min_holdout_trades
  MinTrades,    \* settings.evolve_min_backtest_trades
  MinWinners,   \* max(4, evolve_min_holdout_trades)
  Split,        \* evolve_train_split in tenths
  NoRec

ASSUME LearningAssumption ==
  /\ {MaxPositions, MaxEvolves, MinBlock, MinForward, MinTrades, MinWinners} \subseteq Nat
  /\ MinBlock > 0 /\ MinForward > 0 /\ Split \in 1..9
  /\ MinTrades > 1 \/ MinWinners > 1
  /\ Pnls \subseteq Int /\ IsFiniteSet(Pnls) /\ Pnls # {}

VARIABLES
  opened,   \* side of every position opened so far, in order
  live,     \* the positions still open
  closed,   \* archive rows in order of closing: position, side, pnl, reason
  rec,      \* evolved_strategies row of a position's plan, or NoRec
  asked,    \* the plan being generated: side, gate, closes known to its context
  evolved,  \* rows written by the evolver: run, sides, status column, eligible
  runs      \* evolution runs so far

learnVars == <<opened, live, closed, rec, asked, evolved, runs>>

NonLearning == {"stale", "priceStale"}
Excluded == NonLearning \cup {"acceptance"}
Positions == 1..Len(opened)

LearnInit ==
  /\ opened = <<>> /\ live = {} /\ closed = <<>>
  /\ rec = [p \in 1..MaxPositions |-> NoRec]
  /\ asked = NoRec /\ evolved = {} /\ runs = 0

-----------------------------------------------------------------------------
(* Metrics of results: a function from whatever they are the results of. *)
Count(r) == Cardinality(DOMAIN r)
Wins(r) == Cardinality({x \in DOMAIN r : r[x] > 0})
Losses(r) == Cardinality({x \in DOMAIN r : r[x] < 0})
Total(r) == SumFunctionOnSet(r, DOMAIN r)
GrossWin(r) == SumFunctionOnSet(r, {x \in DOMAIN r : r[x] > 0})
GrossLoss(r) == 0 - SumFunctionOnSet(r, {x \in DOMAIN r : r[x] < 0})
(* win_rate >= pct/100 and profit_factor >= pct/100 (999 without a loss). *)
RateAtLeast(r, pct) == 100 * Wins(r) >= pct * (IF Wins(r) + Losses(r) = 0 THEN 1 ELSE Wins(r) + Losses(r))
FactorAtLeast(r, pct) ==
  IF GrossLoss(r) > 0 THEN 100 * GrossWin(r) >= pct * GrossLoss(r) ELSE GrossWin(r) > 0

(* _metrics_from_forward and _status_from_metrics. *)
ForwardStatus(r) ==
  IF Count(r) >= MinForward /\ RateAtLeast(r, 50) /\ FactorAtLeast(r, 115) /\ Total(r) > 0 THEN "PASS"
  ELSE IF Count(r) >= MinForward /\ Total(r) <= 0 THEN "REJECTED" ELSE "WATCH"

-----------------------------------------------------------------------------
(* _ai_strategies and the first half of _ai_forward_samples. *)
Tracked == {p \in Positions : rec[p] # NoRec /\ rec[p].status # "QUARANTINED"}
SeenIds == {p \in Tracked : rec[p].samples # <<>>}

(* A sample: the place of its close in the archive, and which sample of its *)
(* record it is, 0 for the archive's own row.                              *)
Teaches(i) == closed[i].reason \notin NonLearning

\* Mutant of FromArchive: the rows already counted are not left out.
FromArchiveToo == {i \in DOMAIN closed : Teaches(i)} \X {0}
(* _closed_position_samples: a close whose record was lost is found in the *)
(* archive (every executed plan carries a contract).                       *)
FromArchive == {i \in DOMAIN closed : Teaches(i) /\ closed[i].pos \notin SeenIds} \X {0}

FromRecords ==
  UNION {{i} \X DOMAIN rec[closed[i].pos].samples :
           i \in {k \in DOMAIN closed : closed[k].pos \in SeenIds}}

Samples == FromRecords \cup FromArchive
ResultOf(x) ==
  IF x[2] = 0 THEN closed[x[1]].pnl ELSE rec[closed[x[1]].pos].samples[x[2]]

Bucket(side) ==
  [x \in {y \in Samples : closed[y[1]].side = side} |-> ResultOf(x)]

(* Newest close first: the first n. *)
LastOf(r, n) ==
  [x \in {y \in DOMAIN r : Cardinality({z \in DOMAIN r : z[1] > y[1]}) < n} |-> r[x]]
(* _recent_bucket_recovered and the AVOID of _match_report. *)
Recovered(r) ==
  Count(r) >= MinBlock /\ Total(LastOf(r, MinBlock)) > 0 /\ RateAtLeast(LastOf(r, MinBlock), 50)
Avoid(r) ==
  /\ ~Recovered(r)
  /\ Count(r) >= MinBlock /\ Total(r) < 0 /\ ~RateAtLeast(r, 35)

(* generation_gate.allow_open_plan, as far as it depends on what was learned. *)
AllowOpen(side) == ~Avoid(Bucket(side))

-----------------------------------------------------------------------------
(* The context of a plan is built, then the model works for minutes. *)
AskPlan(side) ==
  /\ asked = NoRec /\ Len(opened) < MaxPositions /\ Cardinality(live) < MaxOpen
  /\ asked' = [side |-> side, allow |-> AllowOpen(side), known |-> Len(closed)]
  /\ UNCHANGED <<opened, live, closed, rec, evolved, runs>>

\* Mutant of PlanOpens: the client trusts the model to honour the gate.
PlanOpensUngated ==
  /\ asked # NoRec
  /\ opened' = Append(opened, asked.side) /\ live' = live \cup {Len(opened) + 1}
  /\ \/ rec' = [rec EXCEPT ![Len(opened) + 1] = [status |-> "WATCH", open |-> TRUE, samples |-> <<>>]]
     \/ UNCHANGED rec
  /\ asked' = NoRec /\ UNCHANGED <<closed, evolved, runs>>
(* The plan says OPEN, the gate of its own context allows it, the position *)
(* opens and record_open stores the record; a raise or a stop before that  *)
(* leaves the position without one.                                        *)
PlanOpens ==
  /\ asked # NoRec /\ asked.allow
  /\ opened' = Append(opened, asked.side) /\ live' = live \cup {Len(opened) + 1}
  /\ \/ rec' = [rec EXCEPT ![Len(opened) + 1] = [status |-> "WATCH", open |-> TRUE, samples |-> <<>>]]
     \/ UNCHANGED rec
  /\ asked' = NoRec /\ UNCHANGED <<closed, evolved, runs>>

(* The plan says WAIT, or the gate turns it into one, or it is lost. *)
PlanWaits ==
  /\ asked # NoRec /\ asked' = NoRec
  /\ UNCHANGED <<opened, live, closed, rec, evolved, runs>>

(* record_close and _record_non_learning_close. *)
Recorded(p, pnl, reason) ==
  LET samples == IF reason \in NonLearning THEN rec[p].samples ELSE Append(rec[p].samples, pnl)
  IN [status |-> IF reason = "priceStale" /\ samples = <<>> THEN "QUARANTINED" ELSE ForwardStatus(samples),
      open |-> FALSE, samples |-> samples]
(* close_archive, then record_close, which may raise (swallowed) or not be *)
(* reached.                                                                *)
Close(p, pnl, reason) ==
  /\ p \in live
  /\ live' = live \ {p}
  /\ closed' = Append(closed, [pos |-> p, side |-> opened[p], pnl |-> pnl, reason |-> reason])
  /\ \/ rec[p] # NoRec /\ rec' = [rec EXCEPT ![p] = Recorded(p, pnl, reason)]
     \/ UNCHANGED rec
  /\ UNCHANGED <<opened, asked, evolved, runs>>

-----------------------------------------------------------------------------
(* trade_memory.samples: what may be learned from, oldest close first. *)
Memory == {i \in DOMAIN closed : closed[i].reason \notin Excluded}
Place(i) == Cardinality({j \in Memory : j <= i})
SplitAt(n) == (n * Split) \div 10
(* _train_holdout_split keeps at least one sample on each side. *)
TrainSize(n) == IF n <= 1 THEN n ELSE Min({Max({1, SplitAt(n)}), n - 1})

\* Mutant of TrainRows: the candidates are induced from every sample.
TrainRowsAll == Memory
TrainRows == {i \in Memory : Place(i) <= TrainSize(Cardinality(Memory))}
(* BacktestEngine.evaluate: its own split of the same order. *)
HoldoutRows == {i \in Memory : Place(i) > SplitAt(Cardinality(Memory))}

Results(places, sides) ==
  [i \in {k \in places : closed[k].side \in sides} |-> closed[i].pnl]

(* _data_driven_candidates: one profile; a candidate is its allowed sides. *)
Induced ==
  {sides \in SUBSET Sides : LET r == Results(TrainRows, sides)
                            IN sides # {} /\ Count(r) >= MinTrades /\ Wins(r) >= MinWinners}

(* BacktestEngine._eligibility_reasons is empty. *)
Eligible(sides) ==
  LET all == Results(Memory, sides)  out == Results(HoldoutRows, sides)
  IN /\ Count(all) >= MinTrades /\ Count(out) >= MinForward
     /\ RateAtLeast(all, 52) /\ RateAtLeast(out, 50)
     /\ FactorAtLeast(all, 115) /\ FactorAtLeast(out, 100)
     /\ Total(all) > 0 /\ Total(out) > 0

(* _score_key, as far as the promotion depends on it. *)
Better(a, b) == Eligible(a) /\ ~Eligible(b)
Best == CHOOSE a \in Induced : \A b \in Induced : ~Better(b, a)

Stored == {[run |-> runs, sides |-> sides, eligible |-> Eligible(sides),
            status |-> IF Eligible(sides) THEN "PASS" ELSE "REJECTED"] : sides \in Induced}

(* The UPDATE of activate: it changes the column of every ACTIVE row. *)
Demoted(rows) ==
  {IF e.status = "ACTIVE" THEN [e EXCEPT !.status = "INACTIVE"] ELSE e : e \in rows}

(* activate: one transaction that demotes, another that saves. *)
Activated(rows, sides) ==
  {IF e.run = runs /\ e.sides = sides THEN [e EXCEPT !.status = "ACTIVE"] ELSE e : e \in Demoted(rows)}

(* evolve: store, then promote the best when it is eligible and the audit  *)
(* calls the data production grade.  The process may stop after the        *)
(* candidates are stored, or between the two transactions of activate.     *)
Evolve ==
  /\ runs < MaxEvolves
  /\ runs' = runs + 1
  /\ LET rows == evolved \cup Stored
     IN \/ evolved' = rows
        \/ /\ Induced # {} /\ Eligible(Best)
           /\ evolved' \in {Demoted(rows), Activated(rows, Best)}
  /\ UNCHANGED <<opened, live, closed, rec, asked>>

LearnNext ==
  \/ \E side \in Sides : AskPlan(side)
  \/ PlanOpens
  \/ PlanWaits
  \/ \E p \in live, pnl \in Pnls : Close(p, pnl, "rule")
  \/ \E p \in live : Close(p, Max(Pnls), "acceptance")
  \/ \E p \in live, reason \in NonLearning : Close(p, 0, reason)
  \/ Evolve

LearnSpec == LearnInit /\ [][LearnNext]_learnVars

-----------------------------------------------------------------------------
(* Whatever of record_open and record_close failed or was never reached,   *)
(* every close that may teach is counted exactly once, and a position      *)
(* closed because its price was unknown is never counted                   *)
(* (_ai_forward_samples, _closed_position_samples).                        *)
CountedOnce ==
  \A i \in DOMAIN closed :
    Cardinality({x \in Samples : closed[x[1]].pos = closed[i].pos}) = IF Teaches(i) THEN 1 ELSE 0

(* A bucket of which no known close won and some lost, when they are       *)
(* enough, is not entered again, whatever records were lost: judged by the *)
(* archive as it was when the plan's context was built (_match_report,     *)
(* generation_gate).                                                       *)
Known(plan) == {i \in 1..plan.known : closed[i].side = plan.side /\ Teaches(i)}
LosersNotRepeated ==
  [][(/\ opened' # opened
      /\ Cardinality(Known(asked)) >= MinBlock
      /\ \E i \in Known(asked) : closed[i].pnl < 0)
     => \E i \in Known(asked) : closed[i].pnl > 0]_learnVars

(* At most one evolved filter is active, after any number of runs and      *)
(* stops between the two transactions of activate; it was eligible; and    *)
(* what a candidate is promoted on was not used to induce it: the split of *)
(* the evolver and the split of the backtest agree.                        *)
FilterIsEarned ==
  /\ Cardinality({e \in evolved : e.status = "ACTIVE"}) <= 1
  /\ \A e \in evolved : e.status = "ACTIVE" => e.eligible
  /\ Induced # {} => TrainRows \cap HoldoutRows = {}
=============================================================================
