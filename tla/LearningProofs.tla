--------------------------- MODULE LearningProofs ---------------------------
(***************************************************************************)
(* For every age a report may have and every time a reconciliation may     *)
(* take, a stage that validates on the exchange is honest; for every cache *)
(* lifetime, a learning reset and a blocked side hold across the two       *)
(* processes that share a report; for every market, the backtest keeps the *)
(* rules it reports, a model is judged on later rows than it learned from, *)
(* and a strategy that opens the gate has traded enough and earned.        *)
(***************************************************************************)
EXTENDS LiveGraduation, MarketEvidence, MarketBacktest, AnomalyTraining,
        StrategyAlpha, CountingLemmas, SequenceTheorems, TLAPS

Reading == [at : Nat, same : BOOLEAN]
Verdict == [at : Nat, ok : BOOLEAN]

(* What a reconciliation read as the same was the same when it read, so a  *)
(* report that agreed is older than the difference by at most the time the *)
(* reconciliation took.                                                    *)
GradInv ==
  /\ moment_ \in Nat /\ differs \in Nat /\ differs <= moment_
  /\ reading \in Reading /\ agreed \in Verdict /\ ordered \in Verdict
  /\ reading.at <= moment_ /\ agreed.at <= moment_
  /\ reading # NoReading => moment_ <= reading.at + Slow
  /\ reading.same /\ differs > 0 => reading.at <= differs
  /\ agreed.ok /\ differs > 0 => agreed.at <= differs + Slow
  /\ ordered # NoVerdict => ordered.ok

LEMMA HighestAllowed ==
  ASSUME NEW S \in SUBSET (1..4), S # {}
  PROVE  \E k \in S : \A j \in S : j <= k
<1>1. CASE 4 \in S  BY <1>1
<1>2. CASE 4 \notin S /\ 3 \in S  BY <1>2
<1>3. CASE 4 \notin S /\ 3 \notin S /\ 2 \in S  BY <1>3
<1>4. CASE 4 \notin S /\ 3 \notin S /\ 2 \notin S
  <2>1. \A j \in S : j = 1
    BY <1>4
  <2>2. PICK k \in S : k = 1
    BY <2>1
  <2>3. \A j \in S : j <= k
    BY <2>1, <2>2
  <2> QED BY <2>3
<1> QED BY <1>1, <1>2, <1>3, <1>4

(* The stage that is reported is one that is allowed. *)
LEMMA StageIsAllowed ==
  ASSUME CurrentStage # "paper_probe"  PROVE Allowed(CurrentStage)
<1>1. PICK S \in SUBSET (1..4) : S = {k \in DOMAIN Stages : Allowed(Stages[k])}
  <2>1. DOMAIN Stages = 1..4
    BY DEF Stages
  <2> QED BY <2>1
<1>2. S # {} /\ CurrentStage = Stages[CHOOSE k \in S : \A j \in S : j <= k]
  BY <1>1 DEF CurrentStage
<1>3. PICK k \in S : k = CHOOSE i \in S : \A j \in S : j <= i
  BY <1>2, HighestAllowed
<1> QED BY <1>1, <1>2, <1>3

LEMMA GradStep == GradInv /\ [GradNext]_gradVars => GradInv'
<1> SUFFICES ASSUME GradInv, [GradNext]_gradVars PROVE GradInv'
  OBVIOUS
<1> USE GraduationAssumption DEF Reading, Verdict, NoReading, NoVerdict
<1>1. CASE CauseChanges
  BY <1>1 DEF CauseChanges, GradInv
<1>2. CASE OperatorSwitches
  BY <1>2 DEF OperatorSwitches, GradInv
<1>3. CASE ExchangeChanges
  BY <1>3 DEF ExchangeChanges, GradInv
<1>4. CASE BeginReconcile
  <2>1. /\ reading' \in Reading /\ reading'.at = moment_
        /\ reading'.same => differs = 0
    BY <1>4 DEF BeginReconcile, GradInv
  <2>2. moment_ <= moment_ + Slow
    BY DEF GradInv
  <2> QED BY <1>4, <2>1, <2>2 DEF BeginReconcile, GradInv
<1>5. CASE EndReconcile
  <2>1. PICK ok \in {FALSE, reading.same} : agreed' = [at |-> moment_, ok |-> ok]
    BY <1>5 DEF EndReconcile
  <2>2. agreed' \in Verdict /\ agreed'.at = moment_ /\ (agreed'.ok => reading.same)
    BY <2>1 DEF GradInv
  <2>3. moment_ <= reading.at + Slow /\ (reading.same /\ differs > 0 => reading.at <= differs)
    BY <1>5 DEF EndReconcile, GradInv
  <2>4. agreed'.ok /\ differs > 0 => moment_ <= differs + Slow
    BY <2>2, <2>3 DEF GradInv
  <2>5. reading' \in Reading /\ ~reading'.same /\ reading'.at = 0 /\ reading' = NoReading
    BY <1>5 DEF EndReconcile
  <2> QED BY <1>5, <2>2, <2>4, <2>5 DEF EndReconcile, GradInv
<1>6. CASE GuardRuns
  BY <1>6 DEF GuardRuns, GradInv
<1>7. CASE SendOrder
  BY <1>7 DEF SendOrder, GradInv
<1>8. CASE OrderSettled
  BY <1>8 DEF OrderSettled, GradInv
<1>9. CASE TimePasses
  BY <1>9 DEF TimePasses, GradInv
<1>10. CASE UNCHANGED gradVars
  BY <1>10 DEF gradVars, GradInv
<1> QED BY <1>1, <1>2, <1>3, <1>4, <1>5, <1>6, <1>7, <1>8, <1>9, <1>10 DEF GradNext

(* A stage that validates on the exchange is reported for at most the age  *)
(* of a report and the time of a reconciliation after exchange and         *)
(* registry parted, and an order rests on a report that agreed             *)
(* (live_readiness._blockers, _assert_prg_live_allowed).                   *)
THEOREM GraduationIsHonest == GradSpec => []StageIsHonest
<1>1. GradInit => GradInv
  BY DEF GradInit, GradInv, Reading, Verdict, NoReading, NoVerdict
<1>2. GradInv => StageIsHonest
  <2> SUFFICES ASSUME GradInv PROVE StageIsHonest
    OBVIOUS
  <2>1. ASSUME differs > 0, CurrentStage \in {"live_test_order", "micro_live"}
        PROVE  moment_ - differs <= MaxAge + Slow
    <3>1. TestBlockers = {}
      BY <2>1, StageIsAllowed DEF Allowed, MicroBlockers
    <3>2. Reconciled
      BY <3>1 DEF TestBlockers
    <3>3. moment_ \in Nat /\ differs \in Nat /\ agreed.at \in Nat
          /\ moment_ - agreed.at <= MaxAge /\ agreed.at <= differs + Slow
      BY <2>1, <3>2 DEF Reconciled, GradInv, Verdict
    <3> QED BY <3>3, GraduationAssumption
  <2> QED BY <2>1 DEF StageIsHonest, GradInv
<1> QED BY <1>1, <1>2, GradStep, PTL DEF GradSpec

-----------------------------------------------------------------------------
(* The report and the audit *)

ReportRows == [at : Nat, passed : BOOLEAN, kinds : [Flanks -> Kinds], blocks : [Flanks -> Nat], done : Nat]
FoundRows == [available : BOOLEAN, at : Nat, passed : BOOLEAN, kinds : [Flanks -> Kinds], blocks : [Flanks -> Nat]]

(* An audit in the cache is of a report later than the reset, or expires   *)
(* one lifetime after it; it knows the blocks of the report, or expires    *)
(* one lifetime after that was written.                                    *)
Dated(a) == a.grade /\ resetAt > 0 => a.found.at >= resetAt \/ a.until <= resetAt + AuditTtl
Informed(a) ==
  report # Nothing /\ writing = Nothing => a.found.blocks = report.blocks \/ a.until <= report.done + AuditTtl
AuditOk(a) ==
  /\ a.until \in Nat /\ a.grade \in BOOLEAN /\ a.found \in FoundRows
  /\ a.until <= moment + AuditTtl
  /\ Dated(a) /\ Informed(a)
EvInv ==
  /\ moment \in Nat /\ resetAt \in 0..moment /\ samples \in BOOLEAN
  /\ report # Nothing => report \in ReportRows /\ report.done <= moment
  /\ writing # Nothing => writing \in ReportRows
  /\ audit_ # Nothing => AuditOk(audit_)
  /\ ResetHolds

LEMMA NewBlocks ==
  ASSUME EvInv, NEW kinds \in [Flanks -> Kinds]  PROVE SideBlocks(kinds) \in [Flanks -> Nat]
<1>1. Existing \in [Flanks -> Nat]
  BY DEF Existing, NoBlocks, EvInv, ReportRows
<1>2. ASSUME NEW f \in Flanks
      PROVE  (IF kinds[f] = "bad" THEN moment + BlockTtl
              ELSE IF kinds[f] = "few" /\ Active(Existing[f]) THEN Existing[f] ELSE 0) \in Nat
  <2>1. Existing[f] \in Nat /\ moment + BlockTtl \in Nat
    BY <1>1, EvidenceAssumption DEF EvInv
  <2> QED BY <2>1
<1> QED BY <1>2 DEF SideBlocks

LEMMA FreshIsOk == ASSUME EvInv PROVE AuditOk(Fresh_)
<1>1. Found \in FoundRows
  BY DEF Found, Unusable, Quality, AllFew, NoBlocks, Kinds, FoundRows, ReportRows, EvInv
<1>2. Fresh_.until = moment + AuditTtl /\ Fresh_.found = Found
      /\ Fresh_.grade = (samples /\ Found.available /\ Found.passed /\ ~Outdated(Found))
  BY DEF Fresh_
<1>3. Fresh_.grade \in BOOLEAN /\ Fresh_.until \in Nat
  BY <1>2, EvidenceAssumption DEF EvInv
<1>4. Dated(Fresh_)
  <2>1. Fresh_.grade /\ resetAt > 0 => ~(Found.at < resetAt)
    BY <1>2 DEF Outdated
  <2>2. Found.at \in Nat /\ resetAt \in Nat
    BY <1>1 DEF FoundRows, EvInv
  <2> QED BY <1>2, <2>1, <2>2 DEF Dated
<1>5. Informed(Fresh_)
  BY <1>2 DEF Informed, Found, Quality
<1>6. Fresh_.until <= moment + AuditTtl
  BY <1>2, EvidenceAssumption DEF EvInv
<1> QED BY <1>1, <1>2, <1>3, <1>4, <1>5, <1>6 DEF AuditOk

LEMMA SummaryIsOk == ASSUME EvInv, NEW force \in BOOLEAN PROVE AuditOk(Summary(force))
BY FreshIsOk DEF Summary, EvInv

LEMMA EvStep == EvInv /\ [EvNext]_evVars => EvInv'
<1> SUFFICES ASSUME EvInv, [EvNext]_evVars PROVE EvInv'
  OBVIOUS
<1> USE EvidenceAssumption
<1>1. ASSUME NEW passed \in BOOLEAN, NEW kinds \in [Flanks -> Kinds], BacktestDone(passed, kinds)
      PROVE  EvInv'
  <2>1. writing' \in ReportRows
    BY <1>1, NewBlocks DEF BacktestDone, ReportRows, EvInv
  <2>2. audit_ # Nothing => AuditOk(audit_)'
    BY <1>1 DEF BacktestDone, EvInv, AuditOk, Dated, Informed
  <2> QED BY <1>1, <2>1, <2>2 DEF BacktestDone, EvInv, ResetHolds
<1>2. CASE BacktestFailed
  <2>1. writing' \in ReportRows
    BY <1>2 DEF BacktestFailed, ReportRows, EvInv, AllFew, NoBlocks, Kinds
  <2>2. audit_ # Nothing => AuditOk(audit_)'
    BY <1>2 DEF BacktestFailed, EvInv, AuditOk, Dated, Informed
  <2> QED BY <1>2, <2>1, <2>2 DEF BacktestFailed, EvInv, ResetHolds
<1>3. CASE Written
  <2>1. report' \in ReportRows /\ report'.done = moment
    BY <1>3 DEF Written, ReportRows, EvInv
  <2>2. audit_ # Nothing => AuditOk(audit_)'
    BY <1>3, <2>1 DEF Written, EvInv, AuditOk, Dated, Informed
  <2> QED BY <1>3, <2>1, <2>2 DEF Written, EvInv, ResetHolds
<1>4. CASE Reset
  <2>1. audit_ # Nothing => AuditOk(audit_)'
    BY <1>4 DEF Reset, EvInv, AuditOk, Dated, Informed
  <2> QED BY <1>4, <2>1 DEF Reset, EvInv, ResetHolds
<1>5. CASE SamplesChange
  <2>1. audit_ # Nothing => AuditOk(audit_)'
    BY <1>5 DEF SamplesChange, EvInv, AuditOk, Dated, Informed
  <2> QED BY <1>5, <2>1 DEF SamplesChange, EvInv, ResetHolds
<1>6. CASE MomentPasses
  <2>1. audit_ # Nothing => AuditOk(audit_)'
    BY <1>6 DEF MomentPasses, EvInv, AuditOk, Dated, Informed
  <2>2. ResetHolds'
    BY <1>6 DEF MomentPasses, ResetHolds
  <2>3. report # Nothing => report.done <= moment + 1
    BY DEF EvInv, ReportRows
  <2> QED BY <1>6, <2>1, <2>2, <2>3 DEF MomentPasses, EvInv
<1>7. ASSUME NEW force \in BOOLEAN, Asks(force)  PROVE EvInv'
  <2>1. PICK a : a = Summary(force)
    OBVIOUS
  <2>2. AuditOk(a)
    BY <2>1, SummaryIsOk
  <2>3. AuditOk(a)'
    BY <1>7, <2>2 DEF Asks, AuditOk, Dated, Informed
  <2>4. a.grade /\ resetAt > 0 /\ moment >= resetAt + AuditTtl => a.found.at >= resetAt
    <3>1. a = Fresh_ \/ moment < a.until
      BY <2>1 DEF Summary
    <3>2. ASSUME a = Fresh_, a.grade, resetAt > 0  PROVE a.found.at >= resetAt
      <4>1. a.found = Found /\ ~(Found.at < resetAt)
        BY <3>2 DEF Fresh_, Outdated
      <4> QED BY <2>2, <4>1 DEF AuditOk, FoundRows, EvInv
    <3> QED BY <2>2, <3>1, <3>2 DEF AuditOk, Dated, EvInv
  <2>5. ResetHolds'
    BY <1>7, <2>1, <2>4 DEF Asks, ResetHolds
  <2> QED BY <1>7, <2>1, <2>3, <2>5 DEF Asks, EvInv
<1>8. ASSUME NEW f \in Flanks, RadarTests(f)  PROVE EvInv'
  <2>1. PICK a : a = Summary(FALSE)
    OBVIOUS
  <2>2. AuditOk(a)
    BY <2>1, SummaryIsOk
  <2>3. AuditOk(a)'
    BY <1>8, <2>2 DEF RadarTests, AuditOk, Dated, Informed
  <2>4. ResetHolds'
    BY <1>8 DEF RadarTests, ResetHolds
  <2> QED BY <1>8, <2>1, <2>3, <2>4 DEF RadarTests, EvInv
<1>9. CASE UNCHANGED evVars
  BY <1>9 DEF evVars, EvInv, ResetHolds, AuditOk, Dated, Informed
<1> QED BY <1>1, <1>2, <1>3, <1>4, <1>5, <1>6, <1>7, <1>8, <1>9 DEF EvNext

LEMMA EvStart == EvInit => EvInv
BY DEF EvInit, EvInv, ResetHolds

(* One cache lifetime after a learning reset no caller is told that data   *)
(* from before it is production grade (_apply_learning_reset_to_market_-   *)
(* backtest, the cache of LearningDataAudit.summary).                      *)
THEOREM ResetsHold == EvSpec => []ResetHolds
<1>1. EvInv => ResetHolds
  BY DEF EvInv
<1> QED BY <1>1, EvStart, EvStep, PTL DEF EvSpec

(* One cache lifetime after the report that blocks a side was written, no  *)
(* candidate on that side is let through (_recent_market_side_block).      *)
THEOREM BlockedSidesStop == EvSpec => BlockedSideStops
<1>1. ASSUME EvInv, NEW f \in Flanks, RadarTests(f), said' # Nothing, report # Nothing, writing = Nothing,
             Active(report.blocks[f]), report.done + AuditTtl <= moment
      PROVE  FALSE
  <2>1. PICK a : a = Summary(FALSE)
    OBVIOUS
  <2>2. AuditOk(a) /\ ~Active(a.found.blocks[f])
    BY <1>1, <2>1, SummaryIsOk DEF RadarTests, SideBlocked
  <2>3. a.until <= report.done + AuditTtl
    BY <1>1, <2>2 DEF AuditOk, Informed
  <2>4. a = Fresh_ \/ moment < a.until
    BY <2>1 DEF Summary
  <2>5. Fresh_.found.blocks = report.blocks
    BY <1>1 DEF Fresh_, Found, Quality
  <2> QED BY <1>1, <2>2, <2>3, <2>4, <2>5, EvidenceAssumption DEF AuditOk, EvInv, ReportRows
<1>2. EvInv /\ [EvNext]_evVars =>
        [\A f \in Flanks : RadarTests(f) /\ said' # Nothing /\ report # Nothing /\ writing = Nothing =>
           ~(Active(report.blocks[f]) /\ report.done + AuditTtl <= moment)]_evVars
  BY <1>1
<1> QED BY <1>2, EvStart, EvStep, PTL DEF EvSpec, BlockedSideStops

-----------------------------------------------------------------------------
(* The backtest *)

(* Costs that leave a trade locked at LockLevel with a profit. *)
Cheap == 2 * Cost < FirstTarget + LockLevel

DealRows ==
  [in : Nat, at : Nat, stage : {1, 2}, stop : Int, best : Int, worst : Int, close : Int]
Reasons == {"TIMEOUT", "AMBIGUOUS_STOP_FIRST", "SL", "LOCKED_STOP", "TP"}
TradeRows == [in : Nat, out : Nat, why : Reasons, stage : {1, 2}, net : Int, worst : Int]

(* A trade in progress has never touched its stop, and the stop of a       *)
(* runner is at the lock.                                                  *)
DealOk(d) ==
  /\ d \in DealRows /\ d.in <= d.at
  /\ d.worst > StopLevel /\ d.stop >= StopLevel /\ (d.stage = 2 => d.stop >= LockLevel)
TradeOk(t) ==
  /\ t.in <= t.out
  /\ t.why = "TP" => t.worst > StopLevel
  /\ t.stage = 2 /\ t.why \in {"LOCKED_STOP", "AMBIGUOUS_STOP_FIRST"}
       => t.net >= Half(FirstTarget) + Half(LockLevel)
BtInv ==
  /\ upTo \in Nat /\ lastExit \in Nat
  /\ trades \in Seq(TradeRows)
  /\ deal # Idle => DealOk(deal) /\ Opens(deal.in) >= lastExit
  /\ \A i \in DOMAIN trades : TradeOk(trades[i]) /\ Closes(trades[i].out) <= lastExit
  /\ \A i, j \in DOMAIN trades : i < j => Opens(trades[j].in) > Closes(trades[i].out)

(* What ends a trade keeps the order of the trades. *)
LEMMA FinishKeeps ==
  ASSUME BtInv, NEW d \in DealRows, NEW why \in Reasons, NEW net \in Int, Finish(d, why, net),
         d.in <= d.at, Opens(d.in) >= lastExit,
         why = "TP" => d.worst > StopLevel,
         d.stage = 2 /\ why \in {"LOCKED_STOP", "AMBIGUOUS_STOP_FIRST"}
           => net >= Half(FirstTarget) + Half(LockLevel)
  PROVE  BtInv'
<1>1. PICK t : t = [in |-> d.in, out |-> d.at, why |-> why, stage |-> d.stage, net |-> net, worst |-> d.worst]
  OBVIOUS
<1>2. t \in TradeRows /\ TradeOk(t)
  BY <1>1 DEF TradeRows, DealRows, TradeOk
<1>3. trades' = Append(trades, t) /\ lastExit' = Closes(t.out) /\ deal' = Idle /\ upTo' = upTo
  BY <1>1 DEF Finish
<1>4. trades \in Seq(TradeRows) /\ upTo \in Nat /\ lastExit \in Nat
  BY DEF BtInv
<1>5. /\ trades' \in Seq(TradeRows) /\ DOMAIN trades' = 1..Len(trades) + 1
      /\ DOMAIN trades = 1..Len(trades)
      /\ trades'[Len(trades) + 1] = t
      /\ \A i \in DOMAIN trades : trades'[i] = trades[i]
  BY <1>2, <1>3, <1>4
<1>6. t.in \in Nat /\ t.out \in Nat /\ t.in <= t.out /\ 2 * t.in >= lastExit
  BY <1>1 DEF DealRows, Opens
<1>7. \A i \in DOMAIN trades : trades[i] \in TradeRows /\ TradeOk(trades[i]) /\ Closes(trades[i].out) <= lastExit
  BY <1>4 DEF BtInv
<1>8. \A i \in DOMAIN trades : trades[i].out \in Nat /\ 2 * trades[i].out + 1 <= lastExit
  BY <1>7 DEF TradeRows, Closes
<1>9. ASSUME NEW i \in DOMAIN trades'
      PROVE  TradeOk(trades'[i]) /\ Closes(trades'[i].out) <= lastExit'
  <2>1. CASE i \in DOMAIN trades
    <3>1. 2 * trades[i].out + 1 <= 2 * t.out + 1
      <4>1. trades[i].out \in Nat /\ 2 * trades[i].out + 1 <= lastExit
        BY <1>8, <2>1
      <4>2. t.in \in Nat /\ t.out \in Nat /\ t.in <= t.out /\ 2 * t.in >= lastExit /\ lastExit \in Nat
        BY <1>4, <1>6
      <4>3. \A out, in, end, exit \in Nat :
              2 * out + 1 <= exit /\ exit <= 2 * in /\ in <= end => 2 * out + 1 <= 2 * end + 1
        OBVIOUS
      <4> QED BY ONLY <4>1, <4>2, <4>3
    <3> QED BY <1>3, <1>5, <1>7, <2>1, <3>1 DEF Closes
  <2>2. CASE i = Len(trades) + 1
    BY <1>2, <1>3, <1>5, <1>6, <2>2 DEF Closes
  <2> QED BY <1>4, <1>5, <2>1, <2>2
<1>10. ASSUME NEW i \in DOMAIN trades', NEW j \in DOMAIN trades', i < j
       PROVE  Opens(trades'[j].in) > Closes(trades'[i].out)
  <2>1. Len(trades) \in Nat /\ i \in Int /\ j \in Int
    BY <1>4, <1>5
  <2>2. i \in DOMAIN trades
    BY <1>5, <1>10, <2>1
  <2>3. CASE j \in DOMAIN trades
    BY <1>5, <1>10, <2>2, <2>3 DEF BtInv
  <2>4. CASE j = Len(trades) + 1
    BY <1>4, <1>5, <1>6, <1>8, <2>2, <2>4 DEF Opens, Closes
  <2> QED BY <1>5, <2>1, <2>3, <2>4
<1>11. lastExit' \in Nat
  BY <1>3, <1>6 DEF Closes
<1> QED BY <1>3, <1>4, <1>5, <1>9, <1>10, <1>11 DEF BtInv

LEMMA HoldKeeps ==
  ASSUME BtInv, NEW d, DealOk(d), Opens(d.in) >= lastExit, Hold(d)  PROVE BtInv'
<1>1. CASE LastCandle(d)
  <2>1. AtClose(d, d.close) \in Int
    BY BacktestAssumption DEF AtClose, Half, FirstTarget, DealOk, DealRows
  <2>2. Finish(d, "TIMEOUT", AtClose(d, d.close))
    BY <1>1 DEF Hold
  <2> QED BY <2>1, <2>2, FinishKeeps DEF DealOk, Reasons
<1>2. CASE ~LastCandle(d)
  <2>1. /\ deal' = [d EXCEPT !.at = @ + 1]
        /\ UNCHANGED <<upTo, lastExit, trades, verdict>>
    BY <1>2 DEF Hold
  <2>2. DealOk(deal') /\ deal'.in = d.in
    BY <2>1 DEF DealOk, DealRows
  <2> QED BY <2>1, <2>2 DEF BtInv
<1> QED BY <1>1, <1>2

LEMMA WalkKeeps ==
  ASSUME BtInv, NEW c \in Shapes, WalkCandle(c)  PROVE BtInv'
<1>1. PICK d : d = Seen(deal, c)
  OBVIOUS
<1>2. c \in [best : Int, worst : Int, close : Int] /\ Target \in Int /\ Trail \in Nat /\ Cost \in Nat
  BY BacktestAssumption
<1>3. DealOk(deal) /\ Opens(deal.in) >= lastExit
  BY DEF WalkCandle, BtInv
<1>4. /\ d \in DealRows /\ d.in = deal.in /\ d.in <= d.at
      /\ d.stop >= StopLevel /\ (d.stage = 2 => d.stop >= LockLevel)
      /\ c.worst > d.stop => d.worst > StopLevel
  <2>1. deal \in DealRows
    BY <1>3 DEF DealOk
  <2>2. PICK b \in Int : b = HigherOf(deal.best, c.best)
    BY <1>2, <2>1 DEF HigherOf, DealRows
  <2>3. PICK w \in Int : w = (IF c.worst < deal.worst THEN c.worst ELSE deal.worst)
    BY <1>2, <2>1 DEF DealRows
  <2>4. Locked(deal.stop, b) \in Int /\ Locked(deal.stop, b) >= LockLevel
    BY <1>2, <2>1, <2>2 DEF Locked, HigherOf, LockLevel, DealRows
  <2>5. PICK s \in Int : s = (IF deal.stage = 2 THEN Locked(deal.stop, b) ELSE deal.stop)
    BY <2>1, <2>4 DEF DealRows
  <2>6. d = [deal EXCEPT !.best = b, !.worst = w, !.close = c.close, !.stop = s]
    BY <1>1, <2>1, <2>2, <2>3, <2>5 DEF Seen, DealRows
  <2>7. /\ d \in DealRows /\ d.in = deal.in /\ d.at = deal.at /\ d.stage = deal.stage
        /\ d.stop = s /\ d.worst = w
    BY <1>2, <2>1, <2>6 DEF DealRows
  <2>8. s >= StopLevel /\ (deal.stage = 2 => s >= LockLevel)
    BY <1>3, <2>4, <2>5 DEF DealOk, StopLevel, LockLevel
  <2>9. c.worst > s => w > StopLevel
    BY <1>2, <1>3, <2>1, <2>3, <2>8 DEF DealOk, DealRows, StopLevel
  <2> QED BY <1>3, <2>7, <2>8, <2>9 DEF DealOk
<1>5. Opens(d.in) >= lastExit
  BY <1>3, <1>4
<1>6. Booked(d) \in Int /\ AtTarget \in Int
      /\ (d.stage = 2 => Booked(d) >= Half(FirstTarget) + Half(LockLevel))
  BY <1>2, <1>4 DEF Booked, AtTarget, Half, FirstTarget, LockLevel, DealRows
<1>7. CASE BothTouched(d, c)
  BY <1>4, <1>5, <1>6, <1>7, FinishKeeps DEF BothTouched, Reasons
<1>8. CASE StopTouched(d, c)
  <2>1. PICK why \in {"SL", "LOCKED_STOP"} : Finish(d, why, Booked(d))
    BY <1>8 DEF StopTouched
  <2> QED BY <1>4, <1>5, <1>6, <2>1, FinishKeeps DEF Reasons
<1>9. CASE TargetTouched(d, c)
  BY <1>4, <1>5, <1>6, <1>9, FinishKeeps DEF TargetTouched, Reasons
<1>10. CASE HalfTouched(d, c)
  <2>1. PICK e : e = [d EXCEPT !.stage = 2, !.stop = HigherOf(LockLevel, d.best - Trail)]
    OBVIOUS
  <2>2. Hold(e) /\ c.worst > d.stop
    BY <1>10, <2>1 DEF HalfTouched
  <2>3. HigherOf(LockLevel, d.best - Trail) \in Int /\ HigherOf(LockLevel, d.best - Trail) >= LockLevel
    BY <1>2, <1>4 DEF DealRows, HigherOf, LockLevel
  <2>4. PICK s \in Int : s = HigherOf(LockLevel, d.best - Trail) /\ s >= LockLevel
    BY <2>3
  <2>5. e \in DealRows /\ e.in = d.in /\ e.at = d.at /\ e.worst = d.worst /\ e.stop = s
    BY <1>4, <2>1, <2>4 DEF DealRows
  <2>6. s >= StopLevel
    BY <2>4 DEF LockLevel, StopLevel
  <2>7. DealOk(e) /\ e.in = d.in
    BY <1>4, <2>2, <2>4, <2>5, <2>6 DEF DealOk
  <2> QED BY <1>5, <2>2, <2>7, HoldKeeps
<1>11. CASE Untouched(d, c)
  <2>1. DealOk(d)
    BY <1>4, <1>11 DEF Untouched, DealOk
  <2> QED BY <1>5, <1>11, <2>1, HoldKeeps DEF Untouched
<1> QED BY <1>1, <1>7, <1>8, <1>9, <1>10, <1>11 DEF WalkCandle, Settle

LEMMA BtStep == BtInv /\ [BtNext]_btVars => BtInv'
<1> SUFFICES ASSUME BtInv, [BtNext]_btVars PROVE BtInv'
  OBVIOUS
<1>1. CASE PassEntry
  BY <1>1 DEF PassEntry, BtInv, DealOk
<1>2. CASE OpenDeal
  <2>1. DealOk(deal') /\ Opens(deal'.in) >= lastExit
    BY <1>2 DEF OpenDeal, NewDeal, Taken, Opens, DealOk, DealRows, StopLevel, BtInv
  <2> QED BY <1>2, <2>1 DEF OpenDeal, BtInv
<1>3. CASE Report
  BY <1>3 DEF Report, BtInv, DealOk
<1>4. CASE UNCHANGED btVars
  BY <1>4 DEF btVars, BtInv, DealOk
<1> QED BY <1>1, <1>2, <1>3, <1>4, WalkKeeps DEF BtNext

LEMMA SplitInside == ASSUME NEW n \in Nat  PROVE BtSplitAt(n) \in 0..n
<1>1. SplitTenths \in 0..10
  BY BacktestAssumption
<1>2. \A s \in 0..10 : (n * s) \div 10 \in 0..n
  OBVIOUS
<1> QED BY <1>1, <1>2 DEF BtSplitAt

(* A report never takes a trade for a later one that began before an       *)
(* earlier one ended, books a winner that touched its stop, or a locked    *)
(* runner below the lock, whatever the candles do, as long as costs are    *)
(* below the profit of the lock (simulate_trade, run_trades).              *)
THEOREM BacktestIsHonest == ASSUME Cheap PROVE BtSpec => []ReportIsHonest
<1>1. BtInit => BtInv
  BY DEF BtInit, BtInv
<1>2. BtInv => ReportIsHonest
  <2> SUFFICES ASSUME BtInv PROVE ReportIsHonest
    OBVIOUS
  <2>1. trades \in Seq(TradeRows) /\ \A i \in DOMAIN trades : trades[i] \in TradeRows /\ TradeOk(trades[i])
    BY DEF BtInv
  <2>2. StopFirst
    BY <2>1 DEF StopFirst, TradeOk
  <2>3. LockedProfit
    <3>1. Half(FirstTarget) + Half(LockLevel) \in Int /\ Half(FirstTarget) + Half(LockLevel) > 0
      BY BacktestAssumption DEF Half, FirstTarget, LockLevel, Cheap
    <3>2. \A i \in DOMAIN trades : trades[i].net \in Int
      BY <2>1 DEF TradeRows
    <3>3. PICK level \in Int : level = Half(FirstTarget) + Half(LockLevel) /\ level > 0
      BY <3>1
    <3>4. ASSUME NEW i \in DOMAIN trades, trades[i].stage = 2,
                 trades[i].why \in {"LOCKED_STOP", "AMBIGUOUS_STOP_FIRST"}
          PROVE  trades[i].net > 0 /\ trades[i].net >= level
      <4>1. trades[i].net >= level
        BY <2>1, <3>3, <3>4 DEF TradeOk
      <4> QED BY <3>2, <3>3, <4>1
    <3> QED BY <3>3, <3>4 DEF LockedProfit
  <2>4. ASSUME NEW i \in DOMAIN TrainPart, NEW j \in DOMAIN HoldPart
        PROVE  TrainPart[i].out < HoldPart[j].in
    <3>1. PICK k \in 0..Len(trades) : k = BtSplitAt(Len(trades))
      BY <2>1, SplitInside
    <3>2. Len(trades) \in Nat /\ DOMAIN trades = 1..Len(trades)
      BY <2>1
    <3>3. TrainPart = SubSeq(trades, 1, k) /\ HoldPart = SubSeq(trades, k + 1, Len(trades))
      BY <3>1 DEF TrainPart, HoldPart
    <3>4. i \in 1..k /\ i \in DOMAIN trades /\ TrainPart[i] = trades[i]
      BY <2>1, <2>4, <3>2, <3>3
    <3>5. j \in 1..(Len(trades) - k) /\ HoldPart[j] = trades[k + j]
      BY <2>1, <2>4, <3>2, <3>3
    <3>6. PICK h \in DOMAIN trades : h = k + j /\ i < h
      BY <3>2, <3>4, <3>5
    <3>7. Opens(trades[h].in) > Closes(trades[i].out)
      BY <3>4, <3>6 DEF BtInv
    <3>8. trades[h].in \in Nat /\ trades[i].out \in Nat
      BY <2>1, <3>4, <3>6 DEF TradeRows
    <3> QED BY <3>4, <3>5, <3>6, <3>7, <3>8 DEF Opens, Closes
  <2> QED BY <2>2, <2>3, <2>4 DEF ReportIsHonest, HoldoutIsLater, BtInv
<1> QED BY <1>1, <1>2, BtStep, PTL DEF BtSpec

-----------------------------------------------------------------------------
(* Training of the anomaly classifier *)

SampleRows == [src : Nat, label : Labels \cup {"none"}]
OrderedModel(model) == model # NoModel => \A i \in model.learn, j \in model.tail : i < j

AnomalyTypes ==
  /\ snaps \in Seq(Nat) /\ labelled \in Seq(SampleRows)
  /\ trainer = [at |-> trainer.at, saw |-> trainer.saw, model |-> trainer.model]
ModelsInv ==
  /\ OrderedModel(artifact) /\ OrderedModel(serving)
  /\ OrderedModel(trainer.model) /\ OrderedModel(byHand)
  /\ artifact # NoModel /\ artifact.who = "auto" => artifact.score >= Floor
AnomalyInv == AnomalyTypes /\ ModelsInv

\* Counted from above, the elements of a finite set have the places 1, 2, ...
LEMMA PlacesFromAbove ==
  ASSUME NEW S, S \subseteq Int, IsFiniteSet(S), NEW k \in 1..Cardinality(S)
  PROVE  \E i \in S : Cardinality({j \in S : j >= i}) = k
<1> DEFINE B == [i \in S |-> {j \in S : j >= i}]
<1>1. \A i, j \in S : j \in B[i] <=> j >= i
  OBVIOUS
<1>2. B \in [S -> SUBSET S]
  OBVIOUS
<1>3. \A i \in S : i \in B[i] /\ B[i] = {j \in S : j >= i}
  OBVIOUS
<1> HIDE DEF B
<1>4. ASSUME NEW i \in S, NEW j \in S, i < j
      PROVE  B[j] \subseteq B[i] /\ B[j] # B[i]
  <2>1. i \in Int /\ j \in Int
    OBVIOUS
  <2>2. i \in B[i] /\ i \notin B[j]
    BY <1>1, <1>4, <2>1
  <2>3. ASSUME NEW n \in B[j] PROVE n \in B[i]
    <3>1. n \in S /\ n \in Int
      BY <1>2
    <3>2. n >= j
      BY <1>1, <3>1
    <3>3. n >= i
      BY <1>4, <2>1, <3>1, <3>2
    <3> QED BY <1>1, <3>1, <3>3
  <2> QED BY <2>2, <2>3
<1>5. \A i, j \in S : i # j => i < j \/ j < i
  OBVIOUS
<1>6. \A i, j \in S :
        i # j => \/ B[i] \subseteq B[j] /\ B[i] # B[j]
                 \/ B[j] \subseteq B[i] /\ B[j] # B[i]
  BY <1>4, <1>5
<1>7. \E i \in S : Cardinality(B[i]) = k
  <2>1. IsFiniteSet(S) /\ k \in 1..Cardinality(S) /\ \A i \in S : i \in B[i]
    BY <1>3
  <2> QED BY ONLY <1>2, <1>6, <2>1, PlacesAreNumbered
<1> QED BY <1>3, <1>7

\* What is collected are samples of scans; what is pruned keeps samples.
LEMMA CollectedAreSamples ==
  ASSUME AnomalyTypes
  PROVE  Collected \in Seq(SampleRows)
<1> DEFINE fresh == {i \in DOMAIN snaps : snaps[i] > 0 /\ LabelAt(i) # "none"
                       /\ \A k \in DOMAIN labelled : labelled[k].src # i}
           Place(k) == CHOOSE i \in fresh : Cardinality({j \in fresh : j >= i}) = k
           new == [k \in 1..Cardinality(fresh) |-> [src |-> Place(k), label |-> LabelAt(Place(k))]]
<1>1. fresh \subseteq 1..Len(snaps) /\ Len(snaps) \in Nat
  BY DEF AnomalyTypes
<1>2. IsFiniteSet(fresh) /\ Cardinality(fresh) \in Nat
  BY <1>1, PlacesAreFinite
<1>3. \A i \in DOMAIN snaps : LabelAt(i) \in Labels \cup {"none"}
  BY DEF LabelAt, Labels
<1>4. ASSUME NEW k \in 1..Cardinality(fresh) PROVE Place(k) \in fresh
  <2>1. fresh \subseteq Int
    BY <1>1
  <2> HIDE DEF fresh
  <2>2. \E i \in fresh : Cardinality({j \in fresh : j >= i}) = k
    BY <1>2, <2>1, PlacesFromAbove
  <2> QED BY <2>2
<1>5. \A k \in 1..Cardinality(fresh) : [src |-> Place(k), label |-> LabelAt(Place(k))] \in SampleRows
  <2> SUFFICES ASSUME NEW k \in 1..Cardinality(fresh)
               PROVE  [src |-> Place(k), label |-> LabelAt(Place(k))] \in SampleRows
    OBVIOUS
  <2>1. Place(k) \in fresh
    BY <1>4
  <2>2. Place(k) \in Nat /\ LabelAt(Place(k)) \in Labels \cup {"none"}
    <3> HIDE DEF Place
    <3> QED BY <1>1, <1>3, <2>1
  <2> HIDE DEF Place, fresh
  <2> QED BY <2>2 DEF SampleRows
<1>6. new \in Seq(SampleRows)
  <2> HIDE DEF fresh, Place
  <2> QED BY <1>2, <1>5
<1>7. Collected = labelled \o new
  BY DEF Collected
<1> HIDE DEF new
<1> QED BY <1>6, <1>7 DEF AnomalyTypes

LEMMA PrunedAreSamples ==
  ASSUME NEW rows \in Seq(SampleRows)
  PROVE  Pruned(rows) \in Seq(SampleRows)
<1> DEFINE m == IF Len(rows) > SampleCap THEN Len(rows) - SampleCap + 1 ELSE 1
<1>1. m \in Int /\ m >= 1 /\ Len(rows) \in Int
  BY AnomalyAssumption
<1>2. \A i \in m..Len(rows) : rows[i] \in SampleRows
  BY <1>1
<1> HIDE DEF m
<1>3. SubSeq(rows, m, Len(rows)) \in Seq(SampleRows)
  BY <1>1, <1>2, SubSeqProperties
<1> QED BY <1>3 DEF Pruned, m

\* The rows a score is learned from are older than those it is measured on.
LEMMA FittedIsOrdered ==
  ASSUME AnomalyTypes, NEW score, NEW who
  PROVE  OrderedModel(Fitted(TrainingRows, score, who))
<1> DEFINE latest == {k \in DOMAIN labelled : k + TrainLimit > Len(labelled)}
           At(k) == Cardinality({j \in latest : labelled[j].src <= labelled[k].src})
           rows == TrainingRows
           cut == Cardinality(rows) - TailSize(rows)
           before == {x \in rows : x.at <= cut}
<1>1. latest \subseteq 1..Len(labelled) /\ Len(labelled) \in Nat
  BY DEF AnomalyTypes
<1>2. \A k \in latest : labelled[k].src \in Nat
  <2> SUFFICES ASSUME NEW k \in latest PROVE labelled[k].src \in Nat
    OBVIOUS
  <2>1. labelled[k] \in SampleRows
    BY DEF AnomalyTypes
  <2> QED BY <2>1 DEF SampleRows
<1>3. IsFiniteSet(latest)
  BY <1>1, PlacesAreFinite
<1>4. \A k \in latest : At(k) \in Nat
  <2> SUFFICES ASSUME NEW k \in latest PROVE At(k) \in Nat
    OBVIOUS
  <2> HIDE DEF latest
  <2> QED BY <1>3, FS_Subset, FS_CardinalityType
<1>5. rows = {[at |-> At(k), src |-> labelled[k].src, label |-> labelled[k].label] : k \in latest}
  BY DEF TrainingRows
<1>6. \A x \in rows : x.at \in Nat /\ x.src \in Nat
  <2> HIDE DEF At, latest, rows
  <2> QED BY <1>2, <1>4, <1>5
<1>7. ASSUME NEW x \in rows, NEW y \in rows, y.src <= x.src PROVE y.at <= x.at
  <2> HIDE DEF rows
  <2>1. PICK k \in latest : x = [at |-> At(k), src |-> labelled[k].src, label |-> labelled[k].label]
    BY <1>5
  <2>2. PICK n \in latest : y = [at |-> At(n), src |-> labelled[n].src, label |-> labelled[n].label]
    BY <1>5
  <2> DEFINE K == {j \in latest : labelled[j].src <= labelled[k].src}
             N == {j \in latest : labelled[j].src <= labelled[n].src}
  <2> HIDE DEF latest
  <2>3. labelled[n].src <= labelled[k].src
    BY <1>7, <2>1, <2>2
  <2>4. N \subseteq K
    <3> SUFFICES ASSUME NEW j \in N PROVE j \in K
      OBVIOUS
    <3>1. labelled[j].src \in Nat /\ labelled[n].src \in Nat /\ labelled[k].src \in Nat
      BY <1>2
    <3> QED BY <2>3, <3>1
  <2>5. IsFiniteSet(K)
    BY <1>3, FS_Subset
  <2>6. Cardinality(N) <= Cardinality(K)
    <3> HIDE DEF N, K
    <3> QED BY <2>4, <2>5, FS_Subset
  <2> QED BY <2>1, <2>2, <2>6
<1>8. cut \in Int
  <2> HIDE DEF rows
  <2>1. IsFiniteSet(rows)
    <3> DEFINE f == [k \in latest |->
                       [at |-> At(k), src |-> labelled[k].src, label |-> labelled[k].label]]
    <3>1. f \in Surjection(latest, rows)
      <4> HIDE DEF At, latest
      <4> QED BY <1>5 DEF Surjection
    <3> HIDE DEF f, latest
    <3> QED BY <1>3, <3>1, FS_Surjection
  <2>2. IsFiniteSet(LabelsOf(rows))
    <3> DEFINE f == [x \in rows |-> x.label]
    <3>1. f \in Surjection(rows, LabelsOf(rows))
      BY DEF Surjection, LabelsOf
    <3> HIDE DEF f
    <3> QED BY <2>1, <3>1, FS_Surjection
  <2> DEFINE a == Cardinality(LabelsOf(rows))
             b == (Cardinality(rows) + 2) \div 4
             n == Cardinality(rows)
  <2>3. a \in Nat /\ n \in Nat
    BY <2>1, <2>2, FS_CardinalityType
  <2>4. b \in Int /\ n - 1 \in Int
    <3> HIDE DEF n
    <3> QED BY <2>3 DEF n
  <2> HIDE DEF a, b
  <2>5. Max({a, b}) \in Int
    BY <2>3, <2>4, OfTwo
  <2> DEFINE m == Max({a, b})
  <2>6. TailSize(rows) = Min({m, n - 1})
    BY DEF TailSize, a, b
  <2> HIDE DEF m, n
  <2>7. Min({m, n - 1}) \in Int
    BY <2>4, <2>5, OfTwo DEF m
  <2>8. TailSize(rows) \in Int
    BY <2>6, <2>7
  <2> QED BY <2>3, <2>8 DEF n
<1>9. ASSUME NEW i \in Sources(before), NEW j \in Sources(rows \ before) PROVE i < j
  <2>1. PICK x \in before : i = x.src
    BY DEF Sources
  <2>2. PICK y \in rows \ before : j = y.src
    BY DEF Sources
  <2> HIDE DEF rows, cut
  <2>3. x.at <= cut /\ ~(y.at <= cut)
    BY <2>1, <2>2
  <2>4. /\ x.at \in Nat /\ x.src \in Nat /\ y.at \in Nat /\ y.src \in Nat
        /\ y.src <= x.src => y.at <= x.at
    BY <1>6, <1>7
  <2> QED BY <1>8, <2>1, <2>2, <2>3, <2>4
<1>10. LET model == Fitted(rows, score, who)
       IN \/ model.learn = {} /\ model.tail = {}
          \/ model.learn = Sources(before) /\ model.tail = Sources(rows \ before)
  <2> HIDE DEF rows
  <2> QED BY DEF Fitted
<1> QED BY <1>9, <1>10 DEF OrderedModel

LEMMA AnomalyTypesStep == AnomalyTypes /\ [AnomalyNext]_anomalyVars => AnomalyTypes'
<1> SUFFICES ASSUME AnomalyTypes, [AnomalyNext]_anomalyVars PROVE AnomalyTypes'
  OBVIOUS
<1>1. CASE Scan
  <2>1. PICK price \in 0..2 : snaps' = Append(snaps, price)
    BY <1>1 DEF Scan
  <2> QED BY <1>1, <2>1 DEF Scan, AnomalyTypes
<1>2. CASE BeginStep
  <2>1. labelled' \in Seq(SampleRows)
    <3>1. PICK due \in BOOLEAN : labelled' = Pruned(IF due THEN Collected ELSE labelled)
      BY <1>2 DEF BeginStep
    <3>2. (IF due THEN Collected ELSE labelled) \in Seq(SampleRows)
      BY CollectedAreSamples DEF AnomalyTypes
    <3> QED BY <3>1, <3>2, PrunedAreSamples
  <2> QED BY <1>2, <2>1 DEF BeginStep, AnomalyTypes
<1>3. CASE FitCandidate
  <2>1. CASE trainer' = Idling
    BY <1>3, <2>1 DEF FitCandidate, AnomalyTypes, Idling
  <2>2. CASE \E score \in 1..BestScore :
               trainer' = [trainer EXCEPT !.at = "judge",
                             !.model = Fitted(TrainingRows, score, "auto")]
    <3>1. PICK model : trainer' = [trainer EXCEPT !.at = "judge", !.model = model]
      BY <2>2
    <3>2. trainer' = [at |-> "judge", saw |-> trainer.saw, model |-> model]
      BY <3>1 DEF AnomalyTypes
    <3>3. trainer' = [at |-> trainer'.at, saw |-> trainer'.saw, model |-> trainer'.model]
      BY <3>2
    <3> QED BY <1>3, <3>3 DEF FitCandidate, AnomalyTypes
  <2> QED BY <1>3, <2>1, <2>2 DEF FitCandidate
<1>4. CASE JudgeCandidate
  BY <1>4 DEF JudgeCandidate, AnomalyTypes, Idling
<1>5. CASE UNCHANGED <<snaps, labelled>> /\ (trainer' = trainer \/ trainer' = Idling)
  BY <1>5 DEF AnomalyTypes, Idling
<1> QED BY <1>1, <1>2, <1>3, <1>4, <1>5
  DEF AnomalyNext, Promote, StepRaises, TrainByHand, ServeByHand, RestartTraining, anomalyVars

LEMMA ModelsStep == AnomalyInv /\ [AnomalyNext]_anomalyVars => ModelsInv'
<1> SUFFICES ASSUME AnomalyTypes, ModelsInv, [AnomalyNext]_anomalyVars PROVE ModelsInv'
  BY DEF AnomalyInv
<1>0. OrderedModel(NoModel)
  BY DEF OrderedModel
<1>1. \A model : OrderedModel(model) => OrderedModel(ServedFrom(model))
  BY DEF OrderedModel, ServedFrom
<1>2. CASE Scan
  BY <1>2 DEF Scan, ModelsInv
<1>3. CASE BeginStep
  BY <1>0, <1>3 DEF BeginStep, ModelsInv, AnomalyTypes
<1>4. CASE FitCandidate
  <2>1. UNCHANGED <<artifact, serving, byHand>>
    BY <1>4 DEF FitCandidate
  <2>2. OrderedModel(trainer'.model)
    <3>1. CASE trainer' = Idling
      BY <1>0, <3>1 DEF Idling
    <3>2. CASE \E score \in 1..BestScore :
                 trainer' = [trainer EXCEPT !.at = "judge",
                               !.model = Fitted(TrainingRows, score, "auto")]
      <4>1. PICK score \in 1..BestScore :
              trainer' = [trainer EXCEPT !.at = "judge",
                            !.model = Fitted(TrainingRows, score, "auto")]
        BY <3>2
      <4>2. trainer'.model = Fitted(TrainingRows, score, "auto")
        BY <4>1 DEF AnomalyTypes
      <4> QED BY <4>2, FittedIsOrdered
    <3> QED BY <1>4, <3>1, <3>2 DEF FitCandidate
  <2> QED BY <2>1, <2>2 DEF ModelsInv
<1>5. CASE JudgeCandidate
  <2>1. UNCHANGED <<serving, byHand>>
    BY <1>5 DEF JudgeCandidate
  <2>2. CASE Accepted(trainer.model, trainer.saw)
    <3>1. artifact' = trainer.model /\ trainer' = [trainer EXCEPT !.at = "serve"]
      BY <1>5, <2>2 DEF JudgeCandidate
    <3>2. trainer'.model = trainer.model
      BY <3>1 DEF AnomalyTypes
    <3> QED BY <2>1, <2>2, <3>1, <3>2 DEF ModelsInv, Accepted
  <2>3. CASE ~Accepted(trainer.model, trainer.saw)
    BY <1>0, <1>5, <2>1, <2>3 DEF JudgeCandidate, ModelsInv, Idling
  <2> QED BY <2>2, <2>3
<1>6. CASE Promote
  BY <1>0, <1>1, <1>6 DEF Promote, ModelsInv, Idling
<1>7. CASE StepRaises
  BY <1>0, <1>7 DEF StepRaises, ModelsInv, Idling
<1>8. CASE TrainByHand
  <2>1. PICK score \in 1..BestScore : /\ byHand' = Fitted(TrainingRows, score, "hand")
                                      /\ artifact' = byHand'
    BY <1>8 DEF TrainByHand
  <2>2. OrderedModel(byHand') /\ OrderedModel(artifact')
    BY <2>1, FittedIsOrdered
  <2>3. artifact'.who = "hand"
    BY <2>1 DEF Fitted
  <2> QED BY <1>8, <2>2, <2>3 DEF TrainByHand, ModelsInv
<1>9. CASE ServeByHand
  BY <1>0, <1>1, <1>9 DEF ServeByHand, ModelsInv
<1>10. CASE RestartTraining
  BY <1>0, <1>1, <1>10 DEF RestartTraining, ModelsInv, Idling
<1>11. CASE UNCHANGED anomalyVars
  BY <1>11 DEF ModelsInv, anomalyVars
<1> QED BY <1>2, <1>3, <1>4, <1>5, <1>6, <1>7, <1>8, <1>9, <1>10, <1>11 DEF AnomalyNext

\* No score that is compared was measured on rows its model learned from or
\* on older ones, and the artifact never holds a candidate of the thread
\* below the floor (train, _fit_and_score, _promote_artifact).
THEOREM ModelsAreEarned == AnomalySpec => []ModelIsEarned
<1>1. AnomalyInit => AnomalyInv
  BY DEF AnomalyInit, AnomalyInv, AnomalyTypes, ModelsInv, OrderedModel, Idling
<1>2. AnomalyInv /\ [AnomalyNext]_anomalyVars => AnomalyInv'
  BY AnomalyTypesStep, ModelsStep DEF AnomalyInv
<1>3. AnomalyInv => ModelIsEarned
  BY DEF AnomalyInv, ModelsInv, OrderedModel, ModelIsEarned
<1> QED BY <1>1, <1>2, <1>3, PTL DEF AnomalySpec

-----------------------------------------------------------------------------
(* The pool of strategies *)

Strategies == [horizon : Nat, goal : Int, floor : Int]

\* A trade closes on a snapshot that exists, not before the one it opened on.
LEMMA TradeIsSound ==
  ASSUME tape \in Seq(MarketRows), NEW s \in Strategies, NEW i \in 1..Len(tape)
  PROVE  /\ TradeAt(i, s).close \in Nat /\ TradeAt(i, s).pnl \in Int
         /\ i <= TradeAt(i, s).close
<1> DEFINE last == Min({i + s.horizon, Len(tape)})
           hits == {j \in i+1..last : \/ MarkToR(tape[i], tape[j]) <= -10
                                      \/ MarkToR(tape[i], tape[j]) >= s.goal}
           close == IF hits = {} THEN last ELSE Min(hits)
           mark == MarkToR(tape[i], tape[close])
           gross == IF hits = {} THEN mark ELSE IF mark <= -10 THEN -10 ELSE s.goal
<1>1. Len(tape) \in Nat /\ i \in Nat /\ i <= Len(tape) /\ s.horizon \in Nat /\ s.goal \in Int
  BY DEF Strategies
<1>2. last \in Nat /\ i <= last /\ last <= Len(tape)
  <2> DEFINE a == i + s.horizon
             b == Len(tape)
  <2>1. a \in Int /\ b \in Int /\ i \in Nat /\ i <= a /\ i <= b
    BY <1>1
  <2> HIDE DEF a, b
  <2>2. Min({a, b}) = IF a <= b THEN a ELSE b
    BY <2>1, OfTwo
  <2>3. Min({a, b}) \in Nat /\ i <= Min({a, b}) /\ Min({a, b}) <= b
    BY <2>1, <2>2
  <2> QED BY <2>3 DEF a, b
<1> HIDE DEF last
<1>3. close \in Nat /\ i <= close /\ close <= Len(tape)
  <2>1. CASE hits = {}
    BY <1>2, <2>1
  <2>2. CASE hits # {}
    <3>1. hits \subseteq i+1..last /\ hits \in SUBSET Nat
      BY <1>1, <1>2
    <3> HIDE DEF hits
    <3>2. Min(hits) \in hits
      BY <2>2, <3>1, MinIsLeast
    <3> DEFINE m == Min(hits)
    <3>3. m \in i+1..last
      BY <3>1, <3>2
    <3> HIDE DEF m
    <3>4. m \in Nat /\ i <= m /\ m <= Len(tape)
      BY <1>1, <1>2, <3>3
    <3> QED BY <2>2, <3>4 DEF m
  <2> QED BY <2>1, <2>2
<1>4. \A j \in 1..Len(tape) : tape[j].px \in Int
  <2> SUFFICES ASSUME NEW j \in 1..Len(tape) PROVE tape[j].px \in Int
    OBVIOUS
  <2>1. tape[j] \in MarketRows
    OBVIOUS
  <2> QED BY <2>1, AlphaAssumption
<1> HIDE DEF hits, close
<1>5. mark \in Int
  <2>1. tape[i].px \in Int /\ tape[close].px \in Int
    BY <1>1, <1>3, <1>4
  <2> QED BY <2>1 DEF MarkToR
<1> HIDE DEF mark
<1>6. gross \in Int
  BY <1>1, <1>5
<1>7. CostR \in Nat
  BY AlphaAssumption
<1>8. TradeAt(i, s) = [close |-> close, pnl |-> gross - CostR]
  BY DEF TradeAt, close, hits, last, mark
<1> HIDE DEF gross
<1> QED BY <1>3, <1>6, <1>7, <1>8

\* What follows snapshot i in the recursive definition of Free.
Freed(g, i, s) ==
  IF i = 0 THEN 0
  ELSE IF EntryOk(tape[i], s) /\ i >= g[i-1] THEN TradeAt(i, s).close ELSE g[i-1]

\* The recursive definition of Free defines a function.
LEMMA FreeExists ==
  ASSUME tape \in Seq(MarketRows), NEW s \in Strategies, NEW m \in 0..Len(tape)
  PROVE  \E g \in [0..m -> Int] : \A i \in 0..m : g[i] = Freed(g, i, s)
<1> DEFINE Ok(n) == \E g \in [0..n -> Int] : \A i \in 0..n : g[i] = Freed(g, i, s)
           Bad   == {n \in Nat : n <= Len(tape) /\ ~Ok(n)}
<1>1. SUFFICES ASSUME Bad # {} PROVE FALSE
  <2>1. m \in Nat /\ m <= Len(tape)
    OBVIOUS
  <2> QED BY <2>1
<1>2. PICK n \in Bad : \A k \in Bad : n <= k
  <2>1. Bad \in SUBSET Nat
    OBVIOUS
  <2> HIDE DEF Bad
  <2> QED BY <1>1, <2>1, LeastNumber
<1>3. CASE n = 0
  <2> DEFINE g == [i \in 0..0 |-> 0]
  <2>1. g \in [0..0 -> Int] /\ \A i \in 0..0 : g[i] = Freed(g, i, s)
    BY DEF Freed
  <2> QED BY <1>2, <1>3, <2>1
<1>4. CASE n # 0
  <2>1. n - 1 \in Nat /\ n - 1 <= Len(tape) /\ n \in 1..Len(tape)
    BY <1>2, <1>4
  <2>2. Ok(n - 1)
    <3>1. n - 1 \notin Bad
      <4>1. ~(n <= n - 1)
        BY <2>1
      <4> HIDE DEF Bad
      <4> QED BY <1>2, <4>1
    <3> HIDE DEF Ok
    <3> QED BY <2>1, <3>1
  <2>3. PICK g \in [0..n-1 -> Int] : \A i \in 0..n-1 : g[i] = Freed(g, i, s)
    BY <2>2
  <2> DEFINE h == [i \in 0..n |-> IF i = n THEN Freed(g, n, s) ELSE g[i]]
  <2>4. Freed(g, n, s) \in Int
    <3>1. TradeAt(n, s).close \in Int
      BY <2>1, TradeIsSound
    <3>2. g[n-1] \in Int
      BY <2>1, <2>3
    <3> QED BY <1>4, <3>1, <3>2 DEF Freed
  <2>5. h \in [0..n -> Int]
    BY <2>1, <2>3, <2>4
  <2>6. \A i \in 0..n : i # n => h[i] = g[i] /\ i \in 0..n-1
    BY <2>1
  <2>7. ASSUME NEW i \in 0..n PROVE h[i] = Freed(h, i, s)
    <3>1. i # 0 => h[i-1] = g[i-1]
      BY <2>1, <2>6
    <3>2. Freed(h, i, s) = Freed(g, i, s)
      <4> HIDE DEF h
      <4> QED BY <3>1 DEF Freed
    <3>3. CASE i = n
      BY <3>2, <3>3
    <3>4. CASE i # n
      BY <2>3, <2>6, <3>2, <3>4
    <3> QED BY <3>3, <3>4
  <2> HIDE DEF h
  <2> QED BY <1>2, <2>5, <2>7
<1> QED BY <1>3, <1>4

LEMMA FreeIs ==
  ASSUME tape \in Seq(MarketRows), NEW s \in Strategies
  PROVE  /\ Free(s) \in [0..Len(tape) -> Int]
         /\ \A i \in 0..Len(tape) : Free(s)[i] = Freed(Free(s), i, s)
<1> DEFINE Is(g) == g = [i \in 0..Len(tape) |->
             IF i = 0 THEN 0
             ELSE LET before == g[i-1]
                  IN IF EntryOk(tape[i], s) /\ i >= before THEN TradeAt(i, s).close ELSE before]
<1>1. Len(tape) \in 0..Len(tape)
  OBVIOUS
<1>2. PICK g \in [0..Len(tape) -> Int] : \A i \in 0..Len(tape) : g[i] = Freed(g, i, s)
  BY <1>1, FreeExists
<1>3. Is(g)
  BY <1>2 DEF Freed
<1>4. Free(s) = CHOOSE f : Is(f)
  BY DEF Free
<1>5. Is(Free(s))
  <2> HIDE DEF Is
  <2> QED BY <1>3, <1>4
<1> DEFINE f == Free(s)
<1>6. \A i \in 0..Len(tape) : f[i] = Freed(f, i, s)
  <2> HIDE DEF f
  <2>1. Is(f)
    BY <1>5 DEF f
  <2> QED BY <2>1 DEF Freed
<1>7. f \in [0..Len(tape) -> Int]
  <2> DEFINE Bad == {n \in Nat : n <= Len(tape) /\ f[n] \notin Int}
  <2>1. Bad = {}
    <3> SUFFICES ASSUME Bad # {} PROVE FALSE
      OBVIOUS
    <3>1. PICK n \in Bad : \A k \in Bad : n <= k
      <4>1. Bad \in SUBSET Nat
        OBVIOUS
      <4> HIDE DEF Bad
      <4> QED BY <4>1, LeastNumber
    <3>2. f[n] = Freed(f, n, s)
      BY <1>6, <3>1
    <3>3. CASE n = 0
      BY <3>1, <3>2, <3>3 DEF Freed
    <3>4. CASE n # 0
      <4>1. n \in 1..Len(tape) /\ n - 1 \in Nat /\ n - 1 <= Len(tape) /\ n - 1 \notin Bad
        BY <3>1, <3>4
      <4>2. f[n-1] \in Int
        BY <4>1
      <4>3. TradeAt(n, s).close \in Int
        BY <4>1, TradeIsSound
      <4> HIDE DEF f
      <4>4. Freed(f, n, s) \in Int
        BY <3>4, <4>2, <4>3 DEF Freed
      <4> QED BY <3>1, <3>2, <4>4
    <3> QED BY <3>3, <3>4
  <2>2. \A i \in 0..Len(tape) : f[i] \in Int
    BY <2>1
  <2>3. f = [i \in 0..Len(tape) |-> f[i]]
    <3> HIDE DEF f
    <3>1. Is(f)
      BY <1>5 DEF f
    <3> QED BY <3>1
  <2> HIDE DEF f
  <2> QED BY <2>2, <2>3
<1> QED BY <1>6, <1>7

\* The trades of a strategy are finitely many, and none opens before an
\* earlier one has closed.
LEMMA TradesAreSound ==
  ASSUME tape \in Seq(MarketRows), NEW s \in Strategies
  PROVE  /\ DOMAIN Trades(s) \subseteq 1..Len(tape)
         /\ \A i \in DOMAIN Trades(s) : Trades(s)[i].pnl \in Int
         /\ \A i, j \in DOMAIN Trades(s) : i < j => Trades(s)[i].close <= j
<1> DEFINE free == Free(s)
           open == {k \in 1..Len(tape)-1 : EntryOk(tape[k], s) /\ k >= free[k-1]}
<1>1. Len(tape) \in Nat
  OBVIOUS
<1>2. /\ free \in [0..Len(tape) -> Int]
      /\ \A i \in 0..Len(tape) : free[i] = Freed(free, i, s)
  BY FreeIs
<1>3. Trades(s) = [i \in open |-> TradeAt(i, s)]
  BY DEF Trades
<1> HIDE DEF free
<1>4. ASSUME NEW k \in 1..Len(tape) PROVE free[k] >= free[k-1]
  <2>1. k - 1 \in 0..Len(tape) /\ k \in 0..Len(tape) /\ k # 0 /\ k \in Int
    BY <1>1
  <2>2. free[k] \in Int /\ free[k-1] \in Int
    BY <1>2, <2>1
  <2>3. TradeAt(k, s).close \in Int /\ k <= TradeAt(k, s).close
    BY TradeIsSound
  <2>4. free[k] = Freed(free, k, s)
    BY <1>2, <2>1
  <2>5. free[k] = free[k-1] \/ (free[k] = TradeAt(k, s).close /\ k >= free[k-1])
    BY <2>1, <2>4 DEF Freed
  <2> QED BY <2>1, <2>2, <2>3, <2>5
<1>5. ASSUME NEW i \in 0..Len(tape), NEW j \in 0..Len(tape), i <= j PROVE free[i] <= free[j]
  <2> DEFINE Bad == {n \in Nat : i <= n /\ n <= Len(tape) /\ ~(free[i] <= free[n])}
  <2> SUFFICES ASSUME Bad # {} PROVE FALSE
    BY <1>5
  <2>1. PICK n \in Bad : \A k \in Bad : n <= k
    <3>1. Bad \in SUBSET Nat
      OBVIOUS
    <3> HIDE DEF Bad
    <3> QED BY <3>1, LeastNumber
  <2>2. free[i] \in Int
    BY <1>2
  <2>3. n # i
    BY <2>1, <2>2
  <2>4. n - 1 \in Nat /\ i <= n - 1 /\ n \in 1..Len(tape) /\ n - 1 <= Len(tape)
    BY <2>1, <2>3
  <2>5. n - 1 \notin Bad
    BY <2>1, <2>4
  <2>6. free[i] <= free[n-1] /\ free[n] >= free[n-1]
    BY <1>4, <2>4, <2>5
  <2>7. free[n] \in Int /\ free[n-1] \in Int
    <3>1. n \in 0..Len(tape) /\ n - 1 \in 0..Len(tape)
      BY <2>4
    <3> QED BY <1>2, <3>1
  <2> QED BY <2>1, <2>2, <2>6, <2>7
<1>6. ASSUME NEW i \in open, NEW j \in open, i < j PROVE TradeAt(i, s).close <= j
  <2>1. /\ i \in 0..Len(tape) /\ i # 0 /\ j - 1 \in 0..Len(tape) /\ i <= j - 1
        /\ i \in 1..Len(tape) /\ j \in Int
    BY <1>1, <1>6
  <2>2. EntryOk(tape[i], s) /\ i >= free[i-1] /\ j >= free[j-1]
    OBVIOUS
  <2>3. free[i] = TradeAt(i, s).close
    BY <1>2, <2>1, <2>2 DEF Freed
  <2>4. free[i] <= free[j-1]
    BY <1>5, <2>1
  <2>5. free[i] \in Int /\ free[j-1] \in Int
    BY <1>2, <2>1
  <2> QED BY <2>1, <2>2, <2>3, <2>4, <2>5
<1>7. open \subseteq 1..Len(tape)
  BY <1>1
<1> HIDE DEF open
<1>8. \A i \in open : TradeAt(i, s).pnl \in Int
  BY <1>7, TradeIsSound
<1> QED BY <1>3, <1>6, <1>7, <1>8

TradesOf(done) ==
  /\ IsFiniteSet(DOMAIN done) /\ DOMAIN done \subseteq Nat \ {0}
  /\ \A i \in DOMAIN done : done[i].pnl \in Int

\* The sum over some of the trades, and the sums of gains and falls.
LEMMA SumOfTrades ==
  ASSUME NEW done, TradesOf(done), NEW T \in SUBSET DOMAIN done
  PROVE  SumOf(done, T) \in Int /\ IsFiniteSet(T) /\ Cardinality(T) \in Nat
<1> DEFINE f == [i \in DOMAIN done |-> done[i].pnl]
<1>1. IsFiniteSet(T) /\ Cardinality(T) \in Nat
  BY FS_Subset, FS_CardinalityType DEF TradesOf
<1>2. \A i \in T : f[i] \in Int
  BY DEF TradesOf
<1> HIDE DEF f
<1>3. SumFunctionOnSet(f, T) \in Int
  BY <1>1, <1>2, SumIsInteger
<1> QED BY <1>1, <1>3 DEF SumOf, f

LEMMA SumIsGainsAndFalls ==
  ASSUME NEW done, TradesOf(done)
  PROVE  /\ SumOf(done, Rises(done)) >= 0
         /\ SumOf(done, Falls(done)) <= 0
         /\ SumOf(done, DOMAIN done) >=
              SumOf(done, Rises(done)) + SumOf(done, Falls(done))
<1> DEFINE f == [i \in DOMAIN done |-> done[i].pnl]
           D == DOMAIN done
           R == {i \in D : f[i] > 0}
           L == {i \in D : f[i] < 0}
           Z == {i \in D : f[i] = 0}
           Sum(T) == SumFunctionOnSet(f, T)
<1>1. IsFiniteSet(D) /\ \A i \in D : f[i] \in Int
  BY DEF TradesOf
<1>2. Rises(done) = R /\ Falls(done) = L
  BY DEF Rises, Falls
<1>3. \A T : SumOf(done, T) = Sum(T)
  BY DEF SumOf
<1> HIDE DEF f, D
<1>4. IsFiniteSet(R) /\ IsFiniteSet(L) /\ IsFiniteSet(Z)
  BY <1>1, FS_Subset
<1>5. Sum(R) \in Int /\ Sum(R) >= 0
  <2>1. \A i \in R : f[i] \in Int /\ f[i] >= 0
    BY <1>1
  <2> HIDE DEF R
  <2> QED BY <1>4, <2>1, SumOfGains
<1>6. Sum(L) \in Int /\ Sum(L) <= 0
  <2>1. \A i \in L : f[i] \in Int /\ f[i] <= 0
    BY <1>1
  <2> HIDE DEF L
  <2> QED BY <1>4, <2>1, SumOfLosses
<1>7. Sum(Z) \in Int /\ Sum(Z) >= 0
  <2>1. \A i \in Z : f[i] \in Int /\ f[i] >= 0
    BY <1>1
  <2> HIDE DEF Z
  <2> QED BY <1>4, <2>1, SumOfGains
<1>8. D = R \cup (L \cup Z)
  BY <1>1
<1>9. Sum(L \cup Z) = Sum(L) + Sum(Z)
  <2>1. L \in SUBSET D /\ Z \in SUBSET D /\ L \cap Z = {}
    OBVIOUS
  <2> HIDE DEF L, Z
  <2> QED BY <1>1, <2>1, SumOfUnion
<1>10. Sum(D) = Sum(R) + Sum(L \cup Z)
  <2>1. R \in SUBSET D /\ L \cup Z \in SUBSET D /\ R \cap (L \cup Z) = {}
    BY <1>1
  <2>2. Sum(R \cup (L \cup Z)) = Sum(R) + Sum(L \cup Z)
    <3> HIDE DEF R, L, Z
    <3> QED BY <1>1, <2>1, SumOfUnion
  <2> HIDE DEF R, L, Z
  <2> QED BY <1>8, <2>2
<1> HIDE DEF Sum, R, L, Z
<1> QED BY <1>2, <1>3, <1>5, <1>6, <1>7, <1>9, <1>10 DEF D

\* A drawdown is not negative.
LEMMA DrawdownIsNatural ==
  ASSUME NEW done, TradesOf(done)
  PROVE  Drawdown(done) \in Nat
<1> DEFINE moments == {0} \cup DOMAIN done
           pairs == {n \in moments \X moments : n[1] <= n[2]}
           fall(m) == Running(done, m[1]) - Running(done, m[2])
           falls == {fall(m) : m \in pairs}
<1>1. \A i : Running(done, i) \in Int
  <2> SUFFICES ASSUME NEW i PROVE Running(done, i) \in Int
    OBVIOUS
  <2>1. {k \in DOMAIN done : k <= i} \in SUBSET DOMAIN done
    OBVIOUS
  <2> QED BY <2>1, SumOfTrades DEF Running
<1>2. falls \subseteq Int
  BY <1>1
<1>3. IsFiniteSet(falls)
  <2>1. IsFiniteSet(moments)
    BY FS_AddElement, FS_Singleton, FS_Union DEF TradesOf
  <2> HIDE DEF moments
  <2>2. IsFiniteSet(moments \X moments)
    BY <2>1, FS_Product
  <2>3. IsFiniteSet(pairs)
    BY <2>2, FS_Subset
  <2> DEFINE f == [m \in pairs |-> fall(m)]
  <2>4. f \in Surjection(pairs, falls)
    <3> HIDE DEF pairs, fall
    <3> QED BY DEF Surjection
  <2> HIDE DEF f, pairs, falls
  <2> QED BY <2>3, <2>4, FS_Surjection
<1>4. 0 \in falls
  <2>1. <<0, 0>> \in pairs
    OBVIOUS
  <2>2. fall(<<0, 0>>) = 0
    BY <1>1
  <2> HIDE DEF pairs, fall
  <2> QED BY <2>1, <2>2
<1>5. Drawdown(done) = Max(falls)
  BY DEF Drawdown
<1> HIDE DEF falls
<1>6. Max(falls) \in Int /\ Max(falls) >= 0
  BY <1>2, <1>3, <1>4, MaxIsGreatest
<1> QED BY <1>5, <1>6

\* A quotient has the sign of what was divided, and is not above it.
LEMMA QuotientSign ==
  ASSUME NEW p \in Int, NEW q \in Int, q > 0
  PROVE  p \div q \in Int /\ (p <= 0 => p \div q <= 0) /\ (p >= 0 => p \div q >= 0)
         /\ (p \div q) * q <= p
  OBVIOUS

\* No score of a strategy that lost reaches what the gate asks for.
LEMMA ScoreNeedsProfit ==
  ASSUME NEW done, TradesOf(done), NEW stability, stability \in 0..100,
         NEW overfit, overfit \in Int
  PROVE  /\ AlphaScore(done, stability, overfit) \in Int
         /\ (AlphaScore(done, stability, overfit) > 845 /\ overfit < 30)
            => SumOf(done, DOMAIN done) > 0
<1> DEFINE won     == SumOf(done, Rises(done))
           lost    == -SumOf(done, Falls(done))
           wins    == Cardinality(Rises(done))
           decided == Max({1, wins + Cardinality(Falls(done))})
           factor  == IF lost > 0 THEN (150 * (won - lost)) \div lost
                      ELSE IF won > 0 THEN 300 ELSE 0
           dd      == Drawdown(done)
           net     == Max({0, won - lost})
           rate    == (wins * 25000) \div (65 * decided)
           over    == Max({0, overfit - 30})
           bonus   == Max({0, stability - 60})
           a       == Min({250, 8 * net})
           b       == Min({250, rate})
           c0      == Max({0, factor})
           c       == Min({300, c0})
           d       == Max({0, 200 - 10 * dd})
           sum     == (a + b + c + d) - (over * 5) \div 2 + bonus
<1>1. /\ won \in Int /\ won >= 0 /\ lost \in Int /\ lost >= 0
      /\ SumOf(done, DOMAIN done) \in Int
      /\ SumOf(done, DOMAIN done) >= won - lost
      /\ wins \in Nat /\ Cardinality(Falls(done)) \in Nat
  <2>1. Rises(done) \in SUBSET DOMAIN done /\ Falls(done) \in SUBSET DOMAIN done
        /\ DOMAIN done \in SUBSET DOMAIN done
    BY DEF Rises, Falls
  <2>2. SumOf(done, Rises(done)) \in Int /\ SumOf(done, Falls(done)) \in Int
        /\ SumOf(done, DOMAIN done) \in Int
        /\ wins \in Nat /\ Cardinality(Falls(done)) \in Nat
    BY <2>1, SumOfTrades
  <2> QED BY <2>2, SumIsGainsAndFalls
<1>2. decided \in Nat /\ decided >= 1
  <2> DEFINE w == wins + Cardinality(Falls(done))
  <2>1. w \in Nat /\ 1 \in Int
    BY <1>1
  <2> HIDE DEF w
  <2>2. Max({1, w}) = IF 1 >= w THEN 1 ELSE w
    BY <2>1, OfTwo
  <2> QED BY <2>1, <2>2 DEF w
<1>3. dd \in Nat
  BY DrawdownIsNatural
<1> DEFINE total == SumOf(done, DOMAIN done)
<1> HIDE DEF won, lost, wins, decided, dd, total
<1>4. factor \in Int /\ (won - lost <= 0 => factor <= 0)
  <2>1. CASE lost > 0
    <3> DEFINE p == 150 * (won - lost)
    <3>1. p \in Int /\ (won - lost <= 0 => p <= 0)
      BY <1>1
    <3> HIDE DEF p
    <3>2. p \div lost \in Int /\ (p <= 0 => p \div lost <= 0)
      BY <1>1, <2>1, <3>1, QuotientSign
    <3> QED BY <2>1, <3>1, <3>2 DEF p
  <2>2. CASE lost = 0
    BY <1>1, <2>2
  <2> QED BY <1>1, <2>1, <2>2
<1> HIDE DEF factor
<1>5. rate \in Int
  <2> DEFINE p == wins * 25000
             q == 65 * decided
  <2>1. p \in Int /\ q \in Int /\ q > 0
    BY <1>1, <1>2
  <2> HIDE DEF p, q
  <2> QED BY <2>1, QuotientSign DEF p, q
<1> HIDE DEF rate
<1>6. net \in Int /\ net >= 0 /\ (won - lost <= 0 => net = 0)
  <2> DEFINE x == won - lost
  <2>1. x \in Int /\ 0 \in Int
    BY <1>1
  <2> HIDE DEF x
  <2>2. Max({0, x}) = IF 0 >= x THEN 0 ELSE x
    BY <2>1, OfTwo
  <2> QED BY <2>1, <2>2 DEF x
<1>7. over \in Int /\ over >= 0
  <2> DEFINE x == overfit - 30
  <2>1. x \in Int /\ 0 \in Int
    OBVIOUS
  <2> HIDE DEF x
  <2>2. Max({0, x}) = IF 0 >= x THEN 0 ELSE x
    BY <2>1, OfTwo
  <2> QED BY <2>1, <2>2 DEF x
<1>8. bonus \in Int /\ bonus <= 40
  <2> DEFINE x == stability - 60
  <2>1. x \in Int /\ x <= 40 /\ 0 \in Int
    OBVIOUS
  <2> HIDE DEF x
  <2>2. Max({0, x}) = IF 0 >= x THEN 0 ELSE x
    BY <2>1, OfTwo
  <2> QED BY <2>1, <2>2 DEF x
<1> HIDE DEF net, over, bonus
<1>9. a \in Int /\ (net = 0 => a = 0)
  <2> DEFINE x == 8 * net
  <2>1. x \in Int /\ 250 \in Int /\ (net = 0 => x = 0)
    BY <1>6
  <2> HIDE DEF x
  <2>2. Min({250, x}) = IF 250 <= x THEN 250 ELSE x
    BY <2>1, OfTwo
  <2> QED BY <2>1, <2>2 DEF x
<1>10. b \in Int /\ b <= 250
  <2>1. 250 \in Int
    OBVIOUS
  <2>2. b = IF 250 <= rate THEN 250 ELSE rate
    BY <1>5, <2>1, OfTwo
  <2> QED BY <1>5, <2>2
<1>11. c0 \in Int /\ (factor <= 0 => c0 = 0)
  <2>1. 0 \in Int
    OBVIOUS
  <2>2. c0 = IF 0 >= factor THEN 0 ELSE factor
    BY <1>4, <2>1, OfTwo
  <2> QED BY <1>4, <2>2
<1> HIDE DEF c0
<1>12. c \in Int /\ (c0 = 0 => c = 0)
  <2>1. 300 \in Int
    OBVIOUS
  <2>2. c = IF 300 <= c0 THEN 300 ELSE c0
    BY <1>11, <2>1, OfTwo
  <2> QED BY <1>11, <2>2
<1>13. d \in Int /\ d <= 200
  <2> DEFINE x == 200 - 10 * dd
  <2>1. x \in Int /\ x <= 200 /\ 0 \in Int
    BY <1>3
  <2> HIDE DEF x
  <2>2. Max({0, x}) = IF 0 >= x THEN 0 ELSE x
    BY <2>1, OfTwo
  <2> QED BY <2>1, <2>2 DEF x
<1> HIDE DEF a, b, c, d
<1>14. (over * 5) \div 2 \in Int /\ (over * 5) \div 2 >= 0
  BY <1>7
<1>15. sum \in Int /\ (won - lost <= 0 => sum <= 490)
  BY <1>4, <1>6, <1>8, <1>9, <1>10, <1>11, <1>12, <1>13, <1>14
<1>16. AlphaScore(done, stability, overfit) = Max({0, Min({1000, sum})})
  <2>1. ProfitScore(done) = a
    BY DEF ProfitScore, Gained, Shed, a, net, won, lost
  <2>2. WinScore(done) = b
    BY DEF WinScore, b, rate, wins, decided
  <2>3. FactorScore(done) = c
    BY DEF FactorScore, Gained, Shed, c, c0, factor, won, lost
  <2>4. FallScore(done) = d
    BY DEF FallScore, d, dd
  <2> QED BY <2>1, <2>2, <2>3, <2>4 DEF AlphaScore, over, bonus
<1> HIDE DEF sum
<1>17. Min({1000, sum}) \in Int /\ Min({1000, sum}) <= sum
  <2>1. 1000 \in Int
    OBVIOUS
  <2>2. Min({1000, sum}) = IF 1000 <= sum THEN 1000 ELSE sum
    <3>1. sum \in Int
      BY <1>15
    <3> QED BY ONLY <2>1, <3>1, OfTwo
  <2> QED BY <1>15, <2>2
<1> DEFINE m == Min({1000, sum})
<1> HIDE DEF m
<1>18. Max({0, m}) \in Int /\ (Max({0, m}) > 845 => m > 845)
  <2>1. 0 \in Int /\ m \in Int
    BY <1>17 DEF m
  <2>2. Max({0, m}) = IF 0 >= m THEN 0 ELSE m
    BY ONLY <2>1, OfTwo
  <2> QED BY <2>1, <2>2
<1>19. ASSUME AlphaScore(done, stability, overfit) > 845 PROVE total > 0
  <2>1. m > 845
    BY <1>16, <1>18, <1>19 DEF m
  <2>2. sum > 490
    BY <1>15, <1>17, <2>1 DEF m
  <2>3. ~(won - lost <= 0)
    BY <1>15, <2>2
  <2>4. total >= won - lost /\ total \in Int
    BY <1>1 DEF total, won, lost
  <2> QED BY <1>1, <2>3, <2>4
<1> QED BY <1>16, <1>18, <1>19 DEF m, total

\* Shares are percentages; one over 60 is more than six of ten.
LEMMA ShareIsPercentage ==
  ASSUME NEW part \in Nat, NEW whole \in Nat, part <= whole
  PROVE  /\ Share(part, whole) \in 0..100
         /\ Share(part, whole) > 60 => 10 * part > 6 * whole
<1>1. CASE whole = 0
  BY <1>1 DEF Share
<1>2. CASE whole # 0
  <2> DEFINE p == 100 * part
             q == p \div whole
  <2>1. p \in Int /\ p >= 0 /\ p <= 100 * whole /\ whole \in Int /\ whole > 0
    BY <1>2
  <2> HIDE DEF p
  <2>2. q \in Int /\ q >= 0 /\ q * whole <= p
    BY <2>1, QuotientSign
  <2> HIDE DEF q
  <2>3. ASSUME q >= 101 PROVE FALSE
    <3>1. q * whole >= 101 * whole
      BY <2>1, <2>2, <2>3
    <3>2. q * whole \in Int
      BY <2>1, <2>2
    <3> DEFINE r == q * whole
    <3> HIDE DEF r
    <3> QED BY <2>1, <2>2, <3>1, <3>2 DEF r
  <2>4. ASSUME q >= 61 PROVE 10 * part > 6 * whole
    <3>1. q * whole >= 61 * whole
      BY <2>1, <2>2, <2>4
    <3>2. q * whole \in Int
      BY <2>1, <2>2
    <3> DEFINE r == q * whole
    <3> HIDE DEF r
    <3> QED BY <2>1, <2>2, <3>1, <3>2 DEF r, p
  <2>5. Share(part, whole) = q
    BY <1>2 DEF Share, p, q
  <2> QED BY <2>2, <2>3, <2>4, <2>5
<1> QED BY <1>1, <1>2

\* A row that would open the gate has the evidence for it.
Evidenced(row) ==
  /\ row.alpha \in Int
  /\ (row.alpha > 845 /\ Promotable(row)) =>
       /\ row.trades >= MinAlphaTrades
       /\ row.pnl > 0
       /\ 10 * row.good > 6 * row.windows

LEMMA EvaluatedIsEvidenced ==
  ASSUME tape \in Seq(MarketRows), NEW s \in Strategies, NEW id
  PROVE  Evidenced(Evaluated(id, s))
<1> DEFINE done  == Trades(s)
           count   == Cardinality(DOMAIN done)
           active  == {w \in 0..WindowCount-1 : InWindow(done, w) # {}}
           good    == {w \in active : SumOf(done, InWindow(done, w)) > 0}
           windows == Cardinality(active)
           won     == Cardinality(good)
           stable  == Share(won, windows)
           overfit == OverfitRisk(stable, count, windows)
           alpha   == AlphaScore(done, stable, overfit)
           pnl     == SumOf(done, DOMAIN done)
<1>1. TradesOf(done)
  <2> DEFINE D == DOMAIN done
  <2>1. D \subseteq 1..Len(tape) /\ Len(tape) \in Nat /\ \A i \in D : done[i].pnl \in Int
    BY TradesAreSound
  <2> HIDE DEF D
  <2>2. IsFiniteSet(D)
    BY <2>1, PlacesAreFinite
  <2>3. D \subseteq Nat \ {0}
    BY <2>1
  <2> QED BY <2>1, <2>2, <2>3 DEF TradesOf, D
<1> HIDE DEF done
<1>2. count \in Nat
  BY <1>1, FS_CardinalityType DEF TradesOf
<1>3. windows \in Nat /\ won \in Nat /\ won <= windows
  <2>1. WindowCount \in Nat /\ IsFiniteSet(0..WindowCount-1)
    BY AlphaAssumption, FS_Interval
  <2>2. IsFiniteSet(active)
    BY <2>1, FS_Subset
  <2> HIDE DEF active
  <2>3. IsFiniteSet(good) /\ Cardinality(good) <= Cardinality(active)
    BY <2>2, FS_Subset
  <2> HIDE DEF good
  <2> QED BY <2>2, <2>3, FS_CardinalityType
<1> HIDE DEF windows, won, count
<1>4. stable \in 0..100 /\ (stable > 60 => 10 * won > 6 * windows)
  BY <1>3, ShareIsPercentage
<1> HIDE DEF stable
<1>5. overfit \in Int /\ (overfit < 30 => count >= MinAlphaTrades)
  <2>1. (100 - stable) \div 2 \in Int /\ (100 - stable) \div 2 >= 0
    BY <1>4
  <2>2. MinAlphaTrades \in Nat
    BY AlphaAssumption
  <2> QED BY <1>2, <1>3, <2>1, <2>2 DEF OverfitRisk
<1> HIDE DEF overfit
<1>6. alpha \in Int /\ (alpha > 845 /\ overfit < 30 => pnl > 0)
  <2>1. stable \in 0..100 /\ overfit \in Int
    BY <1>4, <1>5
  <2> QED BY ONLY <1>1, <2>1, ScoreNeedsProfit
<1> HIDE DEF alpha, pnl
<1>7. Evaluated(id, s) =
        [id |-> id, params |-> s, trades |-> count, pnl |-> pnl,
         windows |-> windows, good |-> won,
         stability |-> stable, overfit |-> overfit, alpha |-> alpha]
  BY DEF Evaluated, done, count, windows, won, stable, overfit, alpha, pnl
<1> QED BY <1>4, <1>5, <1>6, <1>7 DEF Evidenced, Promotable

\* Placing a row in a pool leaves a pool.
LEMMA PlacedIsPool ==
  ASSUME NEW T, NEW rows \in Seq(T), NEW row \in T
  PROVE  Placed(rows, row) \in Seq(T)
<1> DEFINE others == Without(rows, row.id)
           ahead  == Cardinality({k \in DOMAIN others : others[k].alpha >= row.alpha})
           sorted == SubSeq(others, 1, ahead) \o <<row>> \o SubSeq(others, ahead + 1, Len(others))
           kept   == Min({PoolLimit, Len(sorted)})
<1>1. others \in Seq(T)
  <2>1. CASE \E k \in DOMAIN rows : rows[k].id = row.id
    <3> DEFINE k == CHOOSE k \in DOMAIN rows : rows[k].id = row.id
    <3>1. k \in DOMAIN rows
      BY <2>1
    <3>2. others = SubSeq(rows, 1, k - 1) \o SubSeq(rows, k + 1, Len(rows))
      BY <2>1 DEF Without
    <3> HIDE DEF k
    <3>3. k \in 1..Len(rows) /\ Len(rows) \in Nat
      BY <3>1
    <3>4. SubSeq(rows, 1, k - 1) \in Seq(T)
      <4>1. 1 \in Int /\ k - 1 \in Int /\ \A i \in 1..k-1 : rows[i] \in T
        BY <3>3
      <4> QED BY <4>1, SubSeqProperties
    <3>5. SubSeq(rows, k + 1, Len(rows)) \in Seq(T)
      <4>1. k + 1 \in Int /\ Len(rows) \in Int /\ \A i \in k+1..Len(rows) : rows[i] \in T
        BY <3>3
      <4> QED BY <4>1, SubSeqProperties
    <3> QED BY <3>2, <3>4, <3>5
  <2>2. CASE ~\E k \in DOMAIN rows : rows[k].id = row.id
    BY <2>2 DEF Without
  <2> QED BY <2>1, <2>2
<1> HIDE DEF others
<1>2. ahead \in Nat /\ ahead <= Len(others)
  <2> DEFINE S == {k \in DOMAIN others : others[k].alpha >= row.alpha}
  <2>1. S \subseteq 1..Len(others) /\ Len(others) \in Nat
    BY <1>1
  <2> HIDE DEF S
  <2>2. Cardinality(S) \in Nat /\ Cardinality(S) <= Len(others)
    BY <2>1, PlacesAreFinite
  <2> QED BY <2>2 DEF S
<1> HIDE DEF ahead
<1>3. sorted \in Seq(T)
  <2>1. SubSeq(others, 1, ahead) \in Seq(T)
    <3>1. 1 \in Int /\ ahead \in Int /\ \A i \in 1..ahead : others[i] \in T
      BY <1>1, <1>2
    <3> QED BY <3>1, SubSeqProperties
  <2>2. SubSeq(others, ahead + 1, Len(others)) \in Seq(T)
    <3>1. ahead + 1 \in Int /\ Len(others) \in Int /\ \A i \in ahead+1..Len(others) : others[i] \in T
      BY <1>1, <1>2
    <3> QED BY <3>1, SubSeqProperties
  <2> QED BY <2>1, <2>2
<1> HIDE DEF sorted
<1>4. kept \in Int /\ kept <= Len(sorted)
  <2> DEFINE n == Len(sorted)
  <2>1. PoolLimit \in Int /\ n \in Int
    BY <1>3, AlphaAssumption
  <2> HIDE DEF n
  <2>2. Min({PoolLimit, n}) = IF PoolLimit <= n THEN PoolLimit ELSE n
    BY <2>1, OfTwo
  <2> QED BY <2>1, <2>2 DEF n
<1> HIDE DEF kept
<1>5. SubSeq(sorted, 1, kept) \in Seq(T)
  <2>1. 1 \in Int /\ \A i \in 1..kept : sorted[i] \in T
    BY <1>3, <1>4
  <2> QED BY <1>4, <2>1, SubSeqProperties
<1>6. Placed(rows, row) = SubSeq(sorted, 1, kept)
  BY DEF Placed, others, ahead, sorted, kept
<1> QED BY <1>5, <1>6

SeedJobs == [id : {"seed"} \X Nat, params : Strategies]

AlphaInv ==
  /\ tape \in Seq(MarketRows)
  /\ cycle = [at |-> cycle.at, todo |-> cycle.todo]
  /\ cycle.at = "seeds" => cycle.todo \in Seq(SeedJobs)
  /\ alphas \in Seq(Range(alphas)) /\ \A row \in Range(alphas) : Evidenced(row)

LEMMA KeepKeepsEvidence ==
  ASSUME AlphaInv, NEW id, NEW s \in Strategies, Keep(id, s)
  PROVE  alphas' \in Seq(Range(alphas')) /\ \A row \in Range(alphas') : Evidenced(row)
<1> DEFINE new == Evaluated(id, s)
           T == Range(alphas) \cup {new}
<1>1. Evidenced(new)
  BY EvaluatedIsEvidenced DEF AlphaInv
<1> HIDE DEF new
<1>2. \A row \in T : Evidenced(row)
  BY <1>1 DEF AlphaInv
<1>3. alphas \in Seq(T) /\ new \in T
  BY DEF AlphaInv
<1>4. alphas' = Placed(alphas, new)
  BY DEF Keep, new
<1> HIDE DEF T
<1>5. alphas' \in Seq(T)
  BY <1>3, <1>4, PlacedIsPool
<1>6. Range(alphas') \subseteq T /\ alphas' \in Seq(Range(alphas'))
  <2>1. Len(alphas') \in Nat /\ DOMAIN alphas' = 1..Len(alphas')
        /\ \A k \in 1..Len(alphas') : alphas'[k] \in T
    BY <1>5
  <2>2. Range(alphas') \subseteq T
    BY <2>1 DEF Range
  <2>3. \A k \in 1..Len(alphas') : alphas'[k] \in Range(alphas')
    BY <2>1 DEF Range
  <2>4. alphas' = [k \in 1..Len(alphas') |-> alphas'[k]]
    BY <1>5
  <2> QED BY <2>1, <2>2, <2>3, <2>4
<1> QED BY <1>2, <1>6

LEMMA AlphaStep == AlphaInv /\ [AlphaNext]_alphaVars => AlphaInv'
<1> SUFFICES ASSUME AlphaInv, [AlphaNext]_alphaVars PROVE AlphaInv'
  OBVIOUS
<1>0. Params \subseteq Strategies /\ SeedParams \in Seq(Strategies)
  BY AlphaAssumption DEF Strategies
<1>1. CASE StoreRow
  BY <1>1 DEF StoreRow, AlphaInv
<1>2. CASE StartCycle
  <2> DEFINE jobs == [k \in DOMAIN SeedParams |->
                       [id |-> <<"seed", k>>, params |-> SeedParams[k]]]
  <2>1. cycle' = [at |-> "seeds", todo |-> jobs] /\ UNCHANGED <<tape, alphas>>
    BY <1>2 DEF StartCycle
  <2>2. jobs \in Seq(SeedJobs)
    <3>1. Len(SeedParams) \in Nat /\ DOMAIN SeedParams = 1..Len(SeedParams)
      BY <1>0
    <3>2. \A k \in 1..Len(SeedParams) :
            [id |-> <<"seed", k>>, params |-> SeedParams[k]] \in SeedJobs
      <4> SUFFICES ASSUME NEW k \in 1..Len(SeedParams)
                   PROVE  [id |-> <<"seed", k>>, params |-> SeedParams[k]] \in SeedJobs
        OBVIOUS
      <4>1. SeedParams[k] \in Strategies /\ k \in Nat
        BY <1>0, <3>1
      <4> QED BY <4>1 DEF SeedJobs
    <3> QED BY <3>1, <3>2
  <2> HIDE DEF jobs
  <2> QED BY <2>1, <2>2 DEF AlphaInv
<1>3. CASE StoreSeed
  <2>1. cycle.todo \in Seq(SeedJobs) /\ cycle.todo # <<>> /\ cycle.at = "seeds"
    BY <1>3 DEF StoreSeed, AlphaInv
  <2>2. Head(cycle.todo).params \in Strategies
    <3>1. Head(cycle.todo) \in SeedJobs
      BY <2>1
    <3> QED BY <3>1 DEF SeedJobs
  <2>3. alphas' \in Seq(Range(alphas')) /\ \A row \in Range(alphas') : Evidenced(row)
    BY <1>3, <2>2, KeepKeepsEvidence DEF StoreSeed
  <2>4. cycle' = [at |-> "seeds", todo |-> Tail(cycle.todo)]
        \/ cycle' = [at |-> "generate", todo |-> <<>>]
    BY <1>3, <2>1 DEF StoreSeed, AlphaInv
  <2>5. Tail(cycle.todo) \in Seq(SeedJobs)
    BY <2>1
  <2> QED BY <1>3, <2>3, <2>4, <2>5 DEF StoreSeed, AlphaInv
<1>4. CASE StoreGenerated
  <2>1. alphas' \in Seq(Range(alphas')) /\ \A row \in Range(alphas') : Evidenced(row)
    BY <1>0, <1>4, KeepKeepsEvidence DEF StoreGenerated
  <2> QED BY <1>4, <2>1 DEF StoreGenerated, AlphaInv
<1>5. CASE ChooseParents
  BY <1>5 DEF ChooseParents, AlphaInv
<1>6. CASE StoreMutated
  <2>1. alphas' \in Seq(Range(alphas')) /\ \A row \in Range(alphas') : Evidenced(row)
    BY <1>0, <1>6, KeepKeepsEvidence DEF StoreMutated
  <2>2. cycle' = [at |-> "mutate", todo |-> Tail(cycle.todo)]
    BY <1>6 DEF StoreMutated, AlphaInv
  <2> QED BY <1>6, <2>1, <2>2 DEF StoreMutated, AlphaInv
<1>7. CASE EndCycle
  BY <1>7 DEF EndCycle, AlphaInv, Resting
<1>8. CASE UNCHANGED alphaVars
  BY <1>8 DEF AlphaInv, alphaVars
<1> QED BY <1>1, <1>2, <1>3, <1>4, <1>5, <1>6, <1>7, <1>8 DEF AlphaNext

\* The gate opens on evidence only, for any market, any strategies and any
\* number of cycles, and no replayed strategy holds two positions at once
\* (_alpha_score, review, save, gate, simulate).
THEOREM GatesHaveEvidence == AlphaSpec => []GateHasEvidence
<1>1. AlphaInit => AlphaInv
  <2> SUFFICES ASSUME AlphaInit PROVE AlphaInv
    OBVIOUS
  <2>1. alphas = <<>> /\ tape = <<>> /\ Range(alphas) = {}
    BY DEF AlphaInit, Range
  <2> QED BY <2>1 DEF AlphaInit, AlphaInv, Resting
<1>2. AlphaInv => GateHasEvidence
  <2> SUFFICES ASSUME AlphaInv PROVE GateHasEvidence
    OBVIOUS
  <2>1. ASSUME GateAllows
        PROVE  \E k \in DOMAIN alphas : /\ alphas[k].trades >= MinAlphaTrades
                                       /\ alphas[k].pnl > 0
                                       /\ 10 * alphas[k].good > 6 * alphas[k].windows
    <3> DEFINE good == {i \in DOMAIN alphas : Promotable(alphas[i])}
               S == {alphas[k].alpha : k \in good}
    <3>1. \A k \in DOMAIN alphas : Evidenced(alphas[k])
      BY DEF AlphaInv, Range
    <3>2. IsFiniteSet(S)
      <4>1. good \subseteq 1..Len(alphas) /\ Len(alphas) \in Nat
        BY DEF AlphaInv
      <4> HIDE DEF good
      <4>2. IsFiniteSet(good)
        BY <4>1, PlacesAreFinite
      <4> DEFINE f == [k \in good |-> alphas[k].alpha]
      <4>3. f \in Surjection(good, S)
        BY DEF Surjection
      <4> HIDE DEF f, S
      <4> QED BY <4>2, <4>3, FS_Surjection
    <3>3. S \subseteq Int
      BY <3>1 DEF Evidenced
    <3>4. PoolScore = Max({0} \cup S)
      BY DEF PoolScore
    <3> HIDE DEF S
    <3>5. IsFiniteSet({0} \cup S) /\ {0} \cup S \subseteq Int /\ {0} \cup S # {}
      <4>1. IsFiniteSet({0})
        BY FS_Singleton
      <4>2. IsFiniteSet({0} \cup S)
        BY <3>2, <4>1, FS_Union
      <4> QED BY <3>3, <4>2
    <3>6. PoolScore \in {0} \cup S
      <4> DEFINE U == {0} \cup S
      <4> HIDE DEF U
      <4>1. Max(U) \in U
        BY <3>5, MaxIsGreatest DEF U
      <4> QED BY <3>4, <4>1 DEF U
    <3>7. PoolScore > 845
      BY <2>1 DEF GateAllows
    <3>8. PoolScore \in S
      BY <3>6, <3>7
    <3>9. PICK k \in good : PoolScore = alphas[k].alpha
      BY <3>8 DEF S
    <3> QED BY <3>1, <3>7, <3>9 DEF Evidenced
  <2>2. ASSUME NEW s \in Params, NEW i \in DOMAIN Trades(s), NEW j \in DOMAIN Trades(s), i < j
        PROVE  Trades(s)[i].close <= j
    <3>1. s \in Strategies /\ tape \in Seq(MarketRows)
      BY AlphaAssumption DEF Strategies, AlphaInv
    <3> QED BY <2>2, <3>1, TradesAreSound
  <2> QED BY <2>1, <2>2 DEF GateHasEvidence
<1> QED BY <1>1, <1>2, AlphaStep, PTL DEF AlphaSpec
=============================================================================
