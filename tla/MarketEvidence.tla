---------------------------- MODULE MarketEvidence ----------------------------
(***************************************************************************)
(* From a backtest to a decision: the report the backtester writes, with   *)
(* the sides it blocks (trading_lab/backtester/run_market_backtest.py,     *)
(* learning/market_side_guard.py), the audit that reads it and is cached   *)
(* (learning/learning_data_audit.py), the learning reset that outdates it, *)
(* and the radar's candidate test that asks the audit                      *)
(* (radar/radar_engine.py).  Backtester and application are two processes  *)
(* that share a file.                                                      *)
(*                                                                         *)
(* A side is measured as few (below side_block_min_trades), good or bad.   *)
(***************************************************************************)
EXTENDS Integers

CONSTANTS
  Flanks,     \* LONG and SHORT
  AuditTtl,   \* settings.event_calibration_ttl_seconds
  BlockTtl,   \* settings.market_side_block_ttl_hours
  LastMoment, \* bound on the clock
  Nothing

ASSUME EvidenceAssumption ==
  /\ AuditTtl \in Nat \ {0} /\ BlockTtl \in Nat \ {0} /\ LastMoment \in Nat

VARIABLES
  moment,   \* the clock, from 1
  report,   \* market_backtest_latest.json, or Nothing
  writing,  \* the report being written over it, or Nothing
  resetAt,  \* kv learning_data_reset_at_ms, 0 for none
  samples,  \* the closed trades and the radar history suffice
  audit_,   \* _cache and _cache_until, or Nothing
  said      \* what was answered last in this moment: the grade of a summary
            \* and the time of its report, or the side of a candidate let through

evVars == <<moment, report, writing, resetAt, samples, audit_, said>>

Kinds == {"few", "good", "bad"}
EvInit ==
  /\ moment = 1 /\ report = Nothing /\ writing = Nothing /\ resetAt = 0
  /\ samples \in BOOLEAN /\ audit_ = Nothing /\ said = Nothing

Active(expires) == expires > moment
NoBlocks == [f \in Flanks |-> 0]
AllFew == [f \in Flanks |-> "few"]

-----------------------------------------------------------------------------
(* side_blocks_from_market_metrics: a bad side is blocked anew, a measured *)
(* good one is free, a side with few trades keeps its unexpired block.     *)
Existing == IF report = Nothing \/ writing # Nothing THEN NoBlocks ELSE report.blocks
SideBlocks(kinds) ==
  [f \in Flanks |-> IF kinds[f] = "bad" THEN moment + BlockTtl
                    ELSE IF kinds[f] = "few" /\ Active(Existing[f]) THEN Existing[f] ELSE 0]

(* write_reports opens the file and fills it: a reader may come between.   *)
(* A failed download is reported too, without sides and without a guard.   *)
BacktestDone(passed, kinds) ==
  /\ writing = Nothing
  /\ writing' = [at |-> moment, passed |-> passed, kinds |-> kinds, blocks |-> SideBlocks(kinds), done |-> 0]
  /\ UNCHANGED <<moment, report, resetAt, samples, audit_, said>>
BacktestFailed ==
  /\ writing = Nothing
  /\ writing' = [at |-> moment, passed |-> FALSE, kinds |-> AllFew, blocks |-> NoBlocks, done |-> 0]
  /\ UNCHANGED <<moment, report, resetAt, samples, audit_, said>>
Written ==
  /\ writing # Nothing
  /\ report' = [writing EXCEPT !.done = moment] /\ writing' = Nothing
  /\ UNCHANGED <<moment, resetAt, samples, audit_, said>>

-----------------------------------------------------------------------------
(* _market_report_quality of a report that could be read. *)
Quality(r) == [available |-> TRUE, at |-> r.at, passed |-> r.passed, kinds |-> r.kinds, blocks |-> r.blocks]
Unusable == [available |-> FALSE, at |-> 0, passed |-> FALSE, kinds |-> AllFew, blocks |-> NoBlocks]
(* _market_backtest_summary: a half-written file reads as {}. *)
Found ==
  IF writing # Nothing THEN [Unusable EXCEPT !.available = TRUE]
  ELSE IF report = Nothing THEN Unusable ELSE Quality(report)

\* Mutant of Outdated: a reset only counts for a report without a timestamp.
OutdatedUnstamped(found) == resetAt > 0 /\ found.at = 0
(* _apply_learning_reset_to_market_backtest. *)
Outdated(found) == resetAt > 0 /\ (found.at = 0 \/ found.at < resetAt)

Trust(grade, found) ==
  IF grade THEN "PRODUCTION" ELSE IF samples \/ found.available THEN "MEDIUM" ELSE "LOW"
Fresh_ ==
  LET grade == samples /\ Found.available /\ Found.passed /\ ~Outdated(Found)
  IN [until |-> moment + AuditTtl, grade |-> grade, trust |-> Trust(grade, Found), found |-> Found]

\* Mutant of Summary: a cache once filled is good for ever.
SummaryFirst(force) == IF ~force /\ audit_ # Nothing THEN audit_ ELSE Fresh_
(* summary(force): the cache while it lasts. *)
Summary(force) == IF ~force /\ audit_ # Nothing /\ moment < audit_.until THEN audit_ ELSE Fresh_

(* A readiness check, a risk guard, the evolver or an operator asks. *)
Asks(force) ==
  /\ audit_' = Summary(force)
  /\ said' = [what |-> "grade", grade |-> Summary(force).grade, of |-> Summary(force).found.at]
  /\ UNCHANGED <<moment, report, writing, resetAt, samples>>

(* _recent_market_side_block of a candidate: the blocks, then the measured *)
(* sides while the report is recent.                                       *)
SideBlocked(found, f) ==
  \/ Active(found.blocks[f])
  \/ found.at > 0 /\ found.at + BlockTtl > moment /\ found.kinds[f] = "bad"

RadarTests(f) ==
  /\ audit_' = Summary(FALSE)
  /\ said' = IF SideBlocked(Summary(FALSE).found, f) THEN Nothing ELSE [what |-> "let", flank |-> f]
  /\ UNCHANGED <<moment, report, writing, resetAt, samples>>

-----------------------------------------------------------------------------
(* The operator starts learning afresh: outside the code. *)
Reset ==
  /\ resetAt' = moment /\ UNCHANGED <<moment, report, writing, samples, audit_, said>>
SamplesChange ==
  /\ samples' = ~samples /\ UNCHANGED <<moment, report, writing, resetAt, audit_, said>>
MomentPasses ==
  /\ moment < LastMoment /\ moment' = moment + 1 /\ said' = Nothing
  /\ UNCHANGED <<report, writing, resetAt, samples, audit_>>

EvNext ==
  \/ \E passed \in BOOLEAN, kinds \in [Flanks -> Kinds] : BacktestDone(passed, kinds)
  \/ BacktestFailed \/ Written \/ Reset \/ SamplesChange \/ MomentPasses
  \/ \E force \in BOOLEAN : Asks(force)
  \/ \E f \in Flanks : RadarTests(f)
EvSpec == EvInit /\ [][EvNext]_evVars

-----------------------------------------------------------------------------

(* After a learning reset, and from one cache lifetime on, whatever was    *)
(* cached and whoever asked: data is only called production grade on a     *)
(* backtest made after the reset.                                          *)
ResetHolds ==
  said # Nothing /\ said.what = "grade" /\ said.grade /\ resetAt > 0 /\ moment >= resetAt + AuditTtl
    => said.of >= resetAt

(* A candidate on a side the last report blocks is let through at most one *)
(* cache lifetime after the report was written: the guard of the running   *)
(* process follows the other process's file, also when it had read it      *)
(* half-written.                                                           *)
BlockedSideStops ==
  [][\A f \in Flanks : RadarTests(f) /\ said' # Nothing /\ report # Nothing /\ writing = Nothing =>
       ~(Active(report.blocks[f]) /\ report.done + AuditTtl <= moment)]_evVars
=============================================================================
