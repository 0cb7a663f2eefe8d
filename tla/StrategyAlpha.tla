--------------------------- MODULE StrategyAlpha ---------------------------
(* The research pool of alpha strategies (backend/strategy_alpha/) and the *)
(* score the production readiness gate takes from it                       *)
(* (trading/prg/readiness_engine.py).  A cycle replays seeds, generated    *)
(* strategies and mutations of the best rows over the stored radar         *)
(* snapshots of one symbol and writes each result to the pool; the process *)
(* may stop between two writes.  R multiples and scores are in tenths,     *)
(* ratios in hundredths, rounded down; one price level is one R.           *)
EXTENDS Integers, FiniteSets, Sequences, Functions, FiniteSetsExt

CONSTANTS MarketRows,     \* snapshots the market may produce
          LastRow,        \* bound: snapshots stored
          Params,         \* strategies: [horizon, goal, floor]
          SeedParams,     \* the seed bank's, in order
          MaxMade,        \* bound: generated and mutated strategies
          PoolLimit, WindowCount, MinAlphaTrades, CostR

ASSUME AlphaAssumption ==
  /\ PoolLimit \in Nat \ {0} /\ WindowCount \in Nat \ {0}
  /\ {MaxMade, CostR, MinAlphaTrades} \subseteq Nat
  /\ \A row \in MarketRows : row.px \in Int
  /\ Params \subseteq [horizon : Nat, goal : Int, floor : Int]
  /\ SeedParams \in Seq([horizon : Nat, goal : Int, floor : Int])

VARIABLES tape,    \* stored snapshots
          alphas,  \* the pool, best first
          cycle,   \* where the running cycle is: [at, todo]
          made,    \* strategies generated or mutated so far
          scored   \* id of the strategy stored last

alphaVars == <<tape, alphas, cycle, made, scored>>

Resting == [at |-> "rest", todo |-> <<>>]

----------------------------------------------------------------------------
(* Replay *)

(* Entry on a directed snapshot with a score over the strategy's floor.     *)
EntryOk(row, s) == row.side \in {"LONG", "SHORT"} /\ row.score >= s.floor

MarkToR(entry, row) ==
  10 * (IF entry.side = "LONG" THEN row.px - entry.px ELSE entry.px - row.px)

(* The trade opened on snapshot i: the first later one at the stop or the   *)
(* target within the horizon closes it at that level, else the last one at  *)
(* its mark.                                                                *)
TradeAt(i, s) ==
  LET last == Min({i + s.horizon, Len(tape)})
      hits == {j \in i+1..last : \/ MarkToR(tape[i], tape[j]) <= -10
                                 \/ MarkToR(tape[i], tape[j]) >= s.goal}
      j    == IF hits = {} THEN last ELSE Min(hits)
      mark == MarkToR(tape[i], tape[j])
      gross == IF hits = {} THEN mark ELSE IF mark <= -10 THEN -10 ELSE s.goal
  IN [close |-> j, pnl |-> gross - CostR]

(* No entry before the previous trade has closed: the first snapshot free   *)
(* for an entry, once snapshot i has been seen.                             *)
Free(s) ==
  LET free[i \in 0..Len(tape)] ==
        IF i = 0 THEN 0
        ELSE LET before == free[i-1]
             IN IF EntryOk(tape[i], s) /\ i >= before THEN TradeAt(i, s).close ELSE before
  IN free

(* The trades, by the snapshots they were opened on.                        *)
Trades(s) ==
  LET free == Free(s)
  IN [i \in {k \in 1..Len(tape)-1 : EntryOk(tape[k], s) /\ k >= free[k-1]} |-> TradeAt(i, s)]

(* Windows of equal span over the opening times.                            *)
WindowOf(i, trades) ==
  LET start == Min(DOMAIN trades)
      span  == Max(DOMAIN trades) - start + 1
  IN ((i - start) * WindowCount) \div span

InWindow(trades, w) == {i \in DOMAIN trades : WindowOf(i, trades) = w}

SumOf(trades, places) == SumFunctionOnSet([i \in DOMAIN trades |-> trades[i].pnl], places)

----------------------------------------------------------------------------
(* Evaluation *)

(* The deepest fall of the running total, which starts at 0.                *)
Running(trades, i) == SumOf(trades, {k \in DOMAIN trades : k <= i})
Drawdown(trades) ==
  LET moments == {0} \cup DOMAIN trades
  IN Max({Running(trades, m[1]) - Running(trades, m[2]) :
            m \in {n \in moments \X moments : n[1] <= n[2]}})

OverfitRisk(stability, trades, windows) ==
  (100 - stability) \div 2
    + (IF trades < MinAlphaTrades THEN 35 ELSE 0)
    + (IF windows >= 3 THEN 0 ELSE 15)

Rises(trades) == {i \in DOMAIN trades : trades[i].pnl > 0}
Falls(trades) == {i \in DOMAIN trades : trades[i].pnl < 0}

Gained(trades) == SumOf(trades, Rises(trades))
Shed(trades)   == -SumOf(trades, Falls(trades))

ProfitScore(trades) == Min({250, 8 * Max({0, Gained(trades) - Shed(trades)})})
WinScore(trades) ==
  LET wins    == Cardinality(Rises(trades))
      decided == Max({1, wins + Cardinality(Falls(trades))})
  IN Min({250, (wins * 25000) \div (65 * decided)})
FactorScore(trades) ==
  LET factor == IF Shed(trades) > 0
                THEN (150 * (Gained(trades) - Shed(trades))) \div Shed(trades)
                ELSE IF Gained(trades) > 0 THEN 300 ELSE 0
  IN Min({300, Max({0, factor})})
FallScore(trades) == Max({0, 200 - 10 * Drawdown(trades)})

AlphaScore(trades, stability, overfit) ==
  LET raw == ProfitScore(trades) + WinScore(trades) + FactorScore(trades) + FallScore(trades)
  IN Max({0, Min({1000,
       raw - (Max({0, overfit - 30}) * 5) \div 2 + Max({0, stability - 60})})})

Share(part, whole) == IF whole = 0 THEN 0 ELSE (100 * part) \div whole

Evaluated(id, s) ==
  LET trades  == Trades(s)
      count   == Cardinality(DOMAIN trades)
      active  == {w \in 0..WindowCount-1 : InWindow(trades, w) # {}}
      good    == {w \in active : SumOf(trades, InWindow(trades, w)) > 0}
      stable  == Share(Cardinality(good), Cardinality(active))
      overfit == OverfitRisk(stable, count, Cardinality(active))
  IN [id |-> id, params |-> s,
      trades |-> count, pnl |-> SumOf(trades, DOMAIN trades),
      windows |-> Cardinality(active), good |-> Cardinality(good),
      stability |-> stable, overfit |-> overfit,
      alpha |-> AlphaScore(trades, stable, overfit)]

----------------------------------------------------------------------------
(* Pool and gate *)

\* Mutant of Promotable: the alpha score alone decides.
PromotableByAlpha(row) == row.alpha >= 700

(* review: what may be promoted to a micro-live candidate.                  *)
Promotable(row) ==
  row.alpha >= 700 /\ row.stability > 60 /\ row.overfit < 30

(* save: the strategy's earlier row is dropped, the new one placed by its   *)
(* alpha among the rest, behind its equals, and the tail cut off.           *)
Without(rows, id) ==
  IF \E k \in DOMAIN rows : rows[k].id = id
  THEN LET k == CHOOSE k \in DOMAIN rows : rows[k].id = id
       IN SubSeq(rows, 1, k - 1) \o SubSeq(rows, k + 1, Len(rows))
  ELSE rows

Placed(rows, row) ==
  LET others == Without(rows, row.id)
      ahead  == Cardinality({k \in DOMAIN others : others[k].alpha >= row.alpha})
      sorted == SubSeq(others, 1, ahead) \o <<row>> \o SubSeq(others, ahead + 1, Len(others))
  IN SubSeq(sorted, 1, Min({PoolLimit, Len(sorted)}))

PoolScore ==
  Max({0} \cup {alphas[k].alpha : k \in {i \in DOMAIN alphas :
                                          Promotable(alphas[i])}})

(* gate: the rounded score reaches 85.                                      *)
GateAllows == PoolScore > 845

----------------------------------------------------------------------------
(* Cycle *)

StoreRow ==
  /\ cycle.at = "rest" /\ Len(tape) < LastRow
  /\ \E row \in MarketRows : tape' = Append(tape, row)
  /\ UNCHANGED <<alphas, cycle, made, scored>>

StartCycle ==
  /\ cycle.at = "rest"
  /\ cycle' = [at |-> "seeds",
               todo |-> [k \in DOMAIN SeedParams |->
                           [id |-> <<"seed", k>>, params |-> SeedParams[k]]]]
  /\ UNCHANGED <<tape, alphas, made, scored>>

(* simulate, evaluate, save: one strategy.                                  *)
Keep(id, s) ==
  /\ alphas' = Placed(alphas, Evaluated(id, s))
  /\ scored' = id

StoreSeed ==
  /\ cycle.at = "seeds" /\ cycle.todo # <<>>
  /\ Keep(Head(cycle.todo).id, Head(cycle.todo).params)
  /\ cycle' = IF Len(cycle.todo) > 1
              THEN [cycle EXCEPT !.todo = Tail(cycle.todo)]
              ELSE [at |-> "generate", todo |-> <<>>]
  /\ UNCHANGED <<tape, made>>

StoreGenerated ==
  /\ cycle.at = "generate" /\ made < MaxMade
  /\ made' = made + 1
  /\ \E s \in Params : Keep(<<"made", made>>, s)
  /\ UNCHANGED <<tape, cycle>>

(* The parents are the best rows after the generation.                      *)
ChooseParents ==
  /\ cycle.at = "generate"
  /\ \E n \in 0..Len(alphas) :
       cycle' = [at |-> "mutate", todo |-> SubSeq(alphas, 1, n)]
  /\ UNCHANGED <<tape, alphas, made, scored>>

StoreMutated ==
  /\ cycle.at = "mutate" /\ cycle.todo # <<>> /\ made < MaxMade
  /\ made' = made + 1
  /\ \E s \in Params \ {Head(cycle.todo).params} : Keep(<<"made", made>>, s)
  /\ cycle' = [cycle EXCEPT !.todo = Tail(cycle.todo)]
  /\ UNCHANGED tape

(* The run is recorded, or the process stops after some of the writes.      *)
EndCycle ==
  /\ cycle.at # "rest"
  /\ cycle' = Resting
  /\ UNCHANGED <<tape, alphas, made, scored>>

AlphaInit ==
  /\ tape = <<>> /\ alphas = <<>> /\ cycle = Resting
  /\ made = 0 /\ scored = <<"none", 0>>

AlphaNext ==
  \/ StoreRow \/ StartCycle \/ StoreSeed \/ StoreGenerated
  \/ ChooseParents \/ StoreMutated \/ EndCycle

AlphaSpec == AlphaInit /\ [][AlphaNext]_alphaVars

----------------------------------------------------------------------------
(* Properties *)

(* The gate for real orders opens only on a strategy of the pool that made  *)
(* enough trades, ended with a profit and won most of the windows it traded *)
(* in: no mix of scores, penalties and bonuses makes up for one of them.    *)
(* And what it made could have been made: a replayed strategy never holds   *)
(* two positions of a symbol at once (evaluator._alpha_score,               *)
(* _overfit_risk, promotion.review, replay_engine.simulate).                *)
GateHasEvidence ==
  /\ GateAllows => \E k \in DOMAIN alphas :
       /\ alphas[k].trades >= MinAlphaTrades
       /\ alphas[k].pnl > 0
       /\ 10 * alphas[k].good > 6 * alphas[k].windows
  /\ \A s \in Params : LET trades == Trades(s) IN
       \A i, j \in DOMAIN trades : i < j => trades[i].close <= j
=============================================================================
