---------------------------- MODULE VerdictProofs ----------------------------
(***************************************************************************)
(* What the closed trades decide, for any number of trades, positions,     *)
(* restarts and lost records: the blocks and reversals of TradeAttribution,*)
(* the records, gates and filters of StrategyLearning, the verdicts of     *)
(* PerformanceGuard.                                                       *)
(***************************************************************************)
EXTENDS TradeAttribution, StrategyLearning, PerformanceGuard, CountingLemmas

-----------------------------------------------------------------------------
(* Attribution *)

AttributionTypes ==
  /\ book \in Seq(ClosedTrades)
  /\ cached \in 0..Len(book)
  /\ graded \in BOOLEAN

LEMMA AttributionTyped == AttributionSpec => []AttributionTypes
<1>1. AttributionInit => AttributionTypes
  BY DEF AttributionInit, AttributionTypes
<1>2. AttributionTypes /\ [AttributionNext]_attributionVars => AttributionTypes'
  <2> SUFFICES ASSUME AttributionTypes, [AttributionNext]_attributionVars
               PROVE  AttributionTypes'
    OBVIOUS
  <2>1. CASE \E trade \in ClosedTrades : TradeCloses(trade)
    BY <2>1 DEF AttributionTypes, TradeCloses
  <2>2. CASE SamplesReload
    BY <2>2 DEF AttributionTypes, SamplesReload
  <2>3. CASE AuditReloads
    BY <2>3 DEF AttributionTypes, AuditReloads
  <2>4. CASE UNCHANGED attributionVars
    BY <2>4 DEF AttributionTypes, attributionVars
  <2> QED BY <2>1, <2>2, <2>3, <2>4 DEF AttributionNext
<1> QED BY <1>1, <1>2, PTL DEF AttributionSpec

\* A history is a finite set of places of the book, and what it gained a number.
LEMMA HistoryGains ==
  ASSUME AttributionTypes, NEW ks \in SUBSET Sampled
  PROVE  Gain(ks) \in Int /\ ks \subseteq DOMAIN book
<1> DEFINE gains == [k \in DOMAIN book |-> book[k].gain]
<1>1. ks \subseteq DOMAIN book /\ DOMAIN book = 1..Len(book) /\ Len(book) \in Nat
  BY DEF AttributionTypes, Sampled
<1>2. IsFiniteSet(ks)
  <2>1. ks \subseteq 1..Len(book) /\ Len(book) \in Nat
    BY <1>1
  <2> QED BY <2>1, PlacesAreFinite
<1>3. \A k \in ks : gains[k] \in Int
  <2> SUFFICES ASSUME NEW k \in ks PROVE gains[k] \in Int
    OBVIOUS
  <2>1. book[k] \in ClosedTrades
    BY <1>1 DEF AttributionTypes
  <2> QED BY <1>1, <2>1, AttributionAssumption DEF ClosedTrades
<1>4. SumFunctionOnSet(gains, ks) \in Int
  <2> HIDE DEF gains
  <2> QED BY <1>2, <1>3, SumIsInteger
<1> QED BY <1>1, <1>4 DEF Gain

LEMMA HistoriesSampled ==
  ASSUME NEW s, NEW flaw
  PROVE  /\ Matched(s) \subseteq {k \in Sampled : book[k].dir = s.dir}
         /\ With(flaw) \subseteq Sampled
         /\ RootCause(flaw) \subseteq With(flaw)
<1>1. \A n : Within(s, n) \subseteq {k \in Sampled : book[k].dir = s.dir}
  BY DEF Within
<1>2. Matched(s) \in {Within(s, 0), Within(s, Slack), Within(s, Cardinality(Flaws))}
  BY DEF Matched
<1> QED BY <1>1, <1>2 DEF With, RootCause, Losing

\* Whatever a block was counted over is a basis for it.
LEMMA BlockHasBasis ==
  ASSUME AttributionTypes, NEW s \in Setups, BlockedByHistory(s)
  PROVE  /\ graded /\ ~Winning(Matched(s))
         /\ \E basis \in SUBSET Against(s) : Enough(basis) /\ Gain(basis) <= 0
<1>1. graded
  BY DEF BlockedByHistory
<1>2. /\ Matched(s) \in SUBSET Sampled /\ Matched(s) \in SUBSET Against(s)
      /\ Gain(Matched(s)) \in Int
  BY HistoriesSampled, HistoryGains DEF Against
<1>3. \A flaw \in FlawsOf(s) :
        /\ With(flaw) \in SUBSET Against(s) /\ RootCause(flaw) \in SUBSET Against(s)
        /\ Gain(RootCause(flaw)) \in Int
  <2> SUFFICES ASSUME NEW flaw \in FlawsOf(s)
               PROVE  /\ With(flaw) \in SUBSET Against(s)
                      /\ RootCause(flaw) \in SUBSET Against(s)
                      /\ Gain(RootCause(flaw)) \in Int
    OBVIOUS
  <2>1. /\ With(flaw) \in SUBSET Sampled /\ RootCause(flaw) \in SUBSET Sampled
        /\ RootCause(flaw) \subseteq With(flaw)
    BY HistoriesSampled
  <2>2. With(flaw) \subseteq DOMAIN book
    BY <2>1, HistoryGains
  <2>3. \A k \in With(flaw) : book[k].flaws \cap FlawsOf(s) # {}
    BY DEF With
  <2> QED BY <2>1, <2>2, <2>3, HistoryGains DEF Against
<1>4. CASE LearnedBlocks(s) # {}
  <2>1. ~Winning(Matched(s)) /\ HardBlocks(s) # {}
    BY <1>4 DEF LearnedBlocks
  <2>2. PICK flaw \in FlawsOf(s) : Enough(RootCause(flaw)) /\ Gain(RootCause(flaw)) < 0
    BY <2>1 DEF HardBlocks
  <2> QED BY <1>1, <1>3, <2>1, <2>2
<1>5. CASE PatternFails(Matched(s))
  <2>1. Enough(Matched(s)) /\ Gain(Matched(s)) <= 0
    BY <1>5 DEF PatternFails
  <2>2. ~Winning(Matched(s))
    BY <1>2, <2>1 DEF Winning
  <2> QED BY <1>1, <1>2, <2>1, <2>2
<1>6. CASE FlawsFail(s)
  <2>1. ~Winning(Matched(s))
    BY <1>6 DEF FlawsFail
  <2>2. PICK flaw \in FlawsOf(s) : Enough(With(flaw)) /\ Gain(With(flaw)) <= 0
    BY <1>6 DEF FlawsFail, FlawFails
  <2> QED BY <1>1, <1>3, <2>1, <2>2
<1> QED BY <1>4, <1>5, <1>6 DEF BlockedByHistory

\* Blocks of the learned history rest on enough recorded trades that made
\* nothing, in data of production grade, and no market is turned round both
\* ways (learned_risk_guard.evaluate, reverse_opportunity).
THEOREM AttributionIsEarned == AttributionSpec => []BlocksAreEarned
<1>1. AttributionTypes => BlocksAreEarned
  <2> SUFFICES ASSUME AttributionTypes, NEW s \in Setups
               PROVE  /\ BlockedByHistory(s) =>
                           /\ graded /\ ~Winning(Matched(s))
                           /\ \E basis \in SUBSET Against(s) : Enough(basis) /\ Gain(basis) <= 0
                      /\ ReverseAllowed(s) => ~ReverseAllowed(TurnedRound(s))
    BY DEF BlocksAreEarned
  <2>1. ReverseAllowed(s) => ~BlockedByHistory(TurnedRound(s))
    BY DEF ReverseAllowed
  <2>2. ReverseAllowed(TurnedRound(s)) => BlockedByHistory(TurnedRound(s))
    BY DEF ReverseAllowed
  <2> QED BY <2>1, <2>2, BlockHasBasis
<1> QED BY <1>1, AttributionTyped, PTL

-----------------------------------------------------------------------------
(* Strategy learning: the records *)

Rows == [pos : Nat, side : Sides, pnl : Int, reason : Excluded \cup {"rule"}]
Plans == [side : Sides, allow : BOOLEAN, known : Nat]

\* A position closes once, after it was opened, and not while it is live.
ArchiveInv ==
  /\ opened \in Seq(Sides) /\ Len(opened) <= MaxPositions
  /\ closed \in Seq(Rows)
  /\ live \subseteq Positions
  /\ \A i \in DOMAIN closed : closed[i].pos \in Positions \ live
  /\ \A i, j \in DOMAIN closed : closed[i].pos = closed[j].pos => i = j

\* A record has one sample at most, of a close that teaches.
RecordInv ==
  /\ DOMAIN rec = 1..MaxPositions
  /\ \A p \in 1..MaxPositions :
       rec[p] # NoRec /\ rec[p].samples # <<>> =>
         \E i \in DOMAIN closed : /\ closed[i].pos = p /\ Teaches(i)
                                  /\ rec[p].samples = <<closed[i].pnl>>

\* The plan being generated knows a part of the archive, and is for a position
\* there is room for.
PlanInv ==
  asked # NoRec =>
    /\ asked \in Plans
    /\ asked.known <= Len(closed)
    /\ Len(opened) < MaxPositions

LearnInv == ArchiveInv /\ RecordInv /\ PlanInv

LEMMA ResultsAreNumbers ==
  Max(Pnls) \in Pnls /\ Pnls \subseteq Int
BY LearningAssumption, MaxIsGreatest

LEMMA CloseKeepsArchive ==
  ASSUME ArchiveInv, NEW p \in live, NEW pnl \in Int,
         NEW reason \in Excluded \cup {"rule"}, Close(p, pnl, reason)
  PROVE  /\ ArchiveInv'
         /\ Len(closed') = Len(closed) + 1
         /\ closed'[Len(closed')] = [pos |-> p, side |-> opened[p], pnl |-> pnl, reason |-> reason]
         /\ \A i \in DOMAIN closed : i \in DOMAIN closed' /\ closed'[i] = closed[i]
<1> DEFINE row == [pos |-> p, side |-> opened[p], pnl |-> pnl, reason |-> reason]
<1>1. row \in Rows /\ p \in Positions
  BY DEF ArchiveInv, Rows, Positions
<1>2. closed' = Append(closed, row) /\ live' = live \ {p} /\ opened' = opened
  BY DEF Close
<1>3. closed \in Seq(Rows)
  BY DEF ArchiveInv
<1>4. /\ closed' \in Seq(Rows) /\ Len(closed') = Len(closed) + 1
      /\ Len(closed) \in Nat
      /\ DOMAIN closed = 1..Len(closed) /\ DOMAIN closed' = 1..Len(closed')
      /\ closed'[Len(closed')] = row
      /\ \A i \in 1..Len(closed) : closed'[i] = closed[i]
  <2> HIDE DEF row
  <2> QED BY <1>1, <1>2, <1>3
<1>5. Positions' = Positions
  BY <1>2 DEF Positions
<1>6. \A i \in DOMAIN closed : closed'[i].pos \in Positions \ live'
  BY <1>2, <1>4 DEF ArchiveInv
<1>7. closed'[Len(closed')].pos = p
  BY <1>4
<1>8. \A i \in DOMAIN closed : closed'[i].pos # p
  BY <1>4 DEF ArchiveInv
<1>9. DOMAIN closed' = DOMAIN closed \cup {Len(closed')}
  BY <1>4
<1>10. \A i \in DOMAIN closed' : closed'[i].pos \in Positions' \ live'
  BY <1>1, <1>2, <1>5, <1>6, <1>7, <1>9
<1>11. \A i, j \in DOMAIN closed' : closed'[i].pos = closed'[j].pos => i = j
  BY <1>4, <1>7, <1>8, <1>9 DEF ArchiveInv
<1>12. opened' \in Seq(Sides) /\ Len(opened') <= MaxPositions /\ live' \subseteq Positions'
  BY <1>2, <1>5 DEF ArchiveInv
<1> QED BY <1>4, <1>10, <1>11, <1>12 DEF ArchiveInv

LEMMA CloseKeepsRecords ==
  ASSUME LearnInv, NEW p \in live, NEW pnl \in Int,
         NEW reason \in Excluded \cup {"rule"}, Close(p, pnl, reason)
  PROVE  LearnInv'
<1>1. /\ ArchiveInv'
      /\ Len(closed') = Len(closed) + 1
      /\ closed'[Len(closed')] = [pos |-> p, side |-> opened[p], pnl |-> pnl, reason |-> reason]
      /\ \A i \in DOMAIN closed : i \in DOMAIN closed' /\ closed'[i] = closed[i]
  BY CloseKeepsArchive DEF LearnInv
<1>2. Len(closed) \in Nat /\ Len(closed') \in DOMAIN closed'
  BY <1>1 DEF LearnInv, ArchiveInv
<1>3. PlanInv'
  BY <1>1, <1>2 DEF LearnInv, PlanInv, Plans, Close
<1>4. ASSUME NEW q \in 1..MaxPositions, rec'[q] # NoRec, rec'[q].samples # <<>>
      PROVE  \E i \in DOMAIN closed' : /\ closed'[i].pos = q /\ Teaches(i)'
                                       /\ rec'[q].samples = <<closed'[i].pnl>>
  <2>1. CASE rec'[q] = rec[q]
    <3>1. PICK i \in DOMAIN closed : /\ closed[i].pos = q /\ Teaches(i)
                                     /\ rec[q].samples = <<closed[i].pnl>>
      BY <1>4, <2>1 DEF LearnInv, RecordInv
    <3> QED BY <1>1, <2>1, <3>1 DEF Teaches
  <2>2. CASE rec'[q] # rec[q]
    <3>1. q = p /\ rec[p] # NoRec /\ rec'[p] = Recorded(p, pnl, reason)
      BY <2>2 DEF Close, LearnInv, RecordInv
    <3>2. rec[p].samples = <<>>
      <4>1. \A i \in DOMAIN closed : closed[i].pos # p
        BY DEF LearnInv, ArchiveInv
      <4> QED BY <3>1, <4>1 DEF LearnInv, RecordInv
    <3>3. reason \notin NonLearning /\ rec'[q].samples = Append(<<>>, pnl)
      BY <1>4, <3>1, <3>2 DEF Recorded
    <3>4. Append(<<>>, pnl) = <<pnl>>
      OBVIOUS
    <3> QED BY <1>1, <1>2, <3>1, <3>3, <3>4 DEF Teaches
  <2> QED BY <2>1, <2>2
<1>5. DOMAIN rec' = 1..MaxPositions
  BY DEF LearnInv, RecordInv, Close
<1> QED BY <1>1, <1>3, <1>4, <1>5 DEF LearnInv, RecordInv

LEMMA LearnInvHolds == LearnSpec => []LearnInv
<1>1. LearnInit => LearnInv
  BY LearningAssumption DEF LearnInit, LearnInv, ArchiveInv, RecordInv, PlanInv, Positions
<1>2. LearnInv /\ [LearnNext]_learnVars => LearnInv'
  <2> SUFFICES ASSUME LearnInv, [LearnNext]_learnVars PROVE LearnInv'
    OBVIOUS
  <2>1. ASSUME NEW side \in Sides, AskPlan(side) PROVE LearnInv'
    <3>1. Len(closed) \in Nat
      BY DEF LearnInv, ArchiveInv
    <3>2. AllowOpen(side) \in BOOLEAN
      BY DEF AllowOpen
    <3>3. PlanInv'
      BY <2>1, <3>1, <3>2 DEF AskPlan, PlanInv, Plans
    <3> QED BY <2>1, <3>3 DEF AskPlan, LearnInv, ArchiveInv, RecordInv, Positions, Teaches
  <2>2. CASE PlanOpens
    <3>1. asked \in Plans /\ Len(opened) \in Nat /\ Len(opened) < MaxPositions
      BY <2>2 DEF PlanOpens, LearnInv, PlanInv, ArchiveInv
    <3>2. /\ opened' = Append(opened, asked.side) /\ live' = live \cup {Len(opened) + 1}
          /\ closed' = closed /\ asked' = NoRec
      BY <2>2 DEF PlanOpens
    <3>3. /\ opened' \in Seq(Sides) /\ Len(opened') = Len(opened) + 1
          /\ Len(opened') <= MaxPositions
      BY <3>1, <3>2, LearningAssumption DEF LearnInv, ArchiveInv, Plans
    <3>4. Positions' = Positions \cup {Len(opened) + 1} /\ Len(opened) + 1 \notin Positions
      BY <3>1, <3>3 DEF Positions
    <3>5. ArchiveInv'
      BY <3>2, <3>3, <3>4 DEF LearnInv, ArchiveInv
    <3>6. RecordInv'
      <4>1. CASE UNCHANGED rec
        BY <3>2, <4>1 DEF LearnInv, RecordInv, Teaches
      <4>2. CASE rec' = [rec EXCEPT ![Len(opened) + 1] =
                           [status |-> "WATCH", open |-> TRUE, samples |-> <<>>]]
        <5>1. \A q \in 1..MaxPositions : rec'[q].samples = <<>> \/ rec'[q] = rec[q]
          BY <4>2 DEF LearnInv, RecordInv
        <5> QED BY <3>2, <4>2, <5>1 DEF LearnInv, RecordInv, Teaches
      <4> QED BY <2>2, <4>1, <4>2 DEF PlanOpens
    <3> QED BY <3>2, <3>5, <3>6 DEF LearnInv, PlanInv
  <2>3. CASE PlanWaits
    BY <2>3 DEF PlanWaits, LearnInv, ArchiveInv, RecordInv, PlanInv, Positions, Teaches
  <2>4. ASSUME NEW p \in live, NEW pnl \in Pnls, Close(p, pnl, "rule") PROVE LearnInv'
    BY <2>4, ResultsAreNumbers, CloseKeepsRecords DEF Excluded
  <2>5. ASSUME NEW p \in live, Close(p, Max(Pnls), "acceptance") PROVE LearnInv'
    BY <2>5, ResultsAreNumbers, CloseKeepsRecords DEF Excluded
  <2>6. ASSUME NEW p \in live, NEW reason \in NonLearning, Close(p, 0, reason) PROVE LearnInv'
    BY <2>6, CloseKeepsRecords DEF Excluded
  <2>7. CASE Evolve
    BY <2>7 DEF Evolve, LearnInv, ArchiveInv, RecordInv, PlanInv, Positions, Teaches
  <2>8. CASE UNCHANGED learnVars
    BY <2>8 DEF learnVars, LearnInv, ArchiveInv, RecordInv, PlanInv, Positions, Teaches
  <2> QED BY <2>1, <2>2, <2>3, <2>4, <2>5, <2>6, <2>7, <2>8 DEF LearnNext
<1> QED BY <1>1, <1>2, PTL DEF LearnSpec

\* Of every close that teaches there is one sample, of the others none.
LEMMA OneSampleEach ==
  ASSUME LearnInv
  PROVE  /\ \A x \in Samples : /\ x[1] \in DOMAIN closed /\ Teaches(x[1])
                               /\ ResultOf(x) = closed[x[1]].pnl
         /\ \A x, y \in Samples : x[1] = y[1] => x = y
         /\ \A i \in DOMAIN closed : Teaches(i) => \E x \in Samples : x[1] = i
<1>1. ASSUME NEW i \in DOMAIN closed, closed[i].pos \in SeenIds
      PROVE  Teaches(i) /\ rec[closed[i].pos].samples = <<closed[i].pnl>>
  <2>1. PICK p \in Positions : p = closed[i].pos /\ rec[p] # NoRec /\ rec[p].samples # <<>>
    BY <1>1 DEF SeenIds, Tracked
  <2>2. p \in 1..MaxPositions
    BY <2>1, LearningAssumption DEF LearnInv, ArchiveInv, Positions
  <2> QED BY <2>1, <2>2 DEF LearnInv, RecordInv, ArchiveInv
<1> DEFINE Source(i) == IF closed[i].pos \in SeenIds THEN 1 ELSE 0
<1>2. ASSUME NEW x \in Samples
      PROVE  \E i \in DOMAIN closed : Teaches(i) /\ x = <<i, Source(i)>>
  <2>1. CASE x \in FromArchive
    BY <2>1 DEF FromArchive
  <2>2. CASE x \in FromRecords
    <3>1. PICK i \in DOMAIN closed : /\ closed[i].pos \in SeenIds
                                     /\ x \in {i} \X DOMAIN rec[closed[i].pos].samples
      BY <2>2 DEF FromRecords
    <3>2. DOMAIN <<closed[i].pnl>> = {1}
      OBVIOUS
    <3> QED BY <1>1, <3>1, <3>2
  <2> QED BY <2>1, <2>2 DEF Samples
<1>3. ASSUME NEW i \in DOMAIN closed, Teaches(i) PROVE <<i, Source(i)>> \in Samples
  <2>1. CASE closed[i].pos \in SeenIds
    <3>1. 1 \in DOMAIN rec[closed[i].pos].samples
      BY <1>1, <2>1
    <3> QED BY <2>1, <3>1 DEF Samples, FromRecords
  <2>2. CASE closed[i].pos \notin SeenIds
    BY <1>3, <2>2 DEF Samples, FromArchive
  <2> QED BY <2>1, <2>2
<1>4. ASSUME NEW i \in DOMAIN closed PROVE ResultOf(<<i, Source(i)>>) = closed[i].pnl
  <2>1. CASE closed[i].pos \in SeenIds
    BY <1>1, <2>1 DEF ResultOf
  <2>2. CASE closed[i].pos \notin SeenIds
    BY <2>2 DEF ResultOf
  <2> QED BY <2>1, <2>2
<1> HIDE DEF Source
<1>5. \A x \in Samples : x[1] \in DOMAIN closed /\ Teaches(x[1]) /\ x = <<x[1], Source(x[1])>>
  BY <1>2
<1> QED BY <1>3, <1>4, <1>5

\* Every close that may teach is counted exactly once, the others never,
\* whichever records were written, lost or quarantined (_ai_forward_samples,
\* _closed_position_samples).
THEOREM ClosesAreCountedOnce == LearnSpec => []CountedOnce
<1>1. LearnInv => CountedOnce
  <2> SUFFICES ASSUME LearnInv, NEW i \in DOMAIN closed
               PROVE  Cardinality({x \in Samples : closed[x[1]].pos = closed[i].pos})
                        = IF Teaches(i) THEN 1 ELSE 0
    BY DEF CountedOnce
  <2> DEFINE mine == {x \in Samples : closed[x[1]].pos = closed[i].pos}
  <2>1. \A x \in mine : x[1] = i
    BY OneSampleEach DEF LearnInv, ArchiveInv
  <2>2. CASE Teaches(i)
    <3>1. PICK x \in Samples : x[1] = i
      BY <2>2, OneSampleEach
    <3>2. mine = {x}
      BY <2>1, <3>1, OneSampleEach
    <3> QED BY <2>2, <3>2, FS_Singleton
  <2>3. CASE ~Teaches(i)
    <3>1. mine = {}
      BY <2>1, <2>3, OneSampleEach
    <3> QED BY <2>3, <3>1, FS_EmptySet
  <2> QED BY <2>2, <2>3
<1> QED BY <1>1, LearnInvHolds, PTL

-----------------------------------------------------------------------------
(* Strategy learning: the gate *)

\* The closes of a side that teach.
OfSide(side) == {i \in DOMAIN closed : closed[i].side = side /\ Teaches(i)}

LEMMA BucketCounts ==
  ASSUME LearnInv, NEW side
  PROVE  /\ IsFiniteSet(DOMAIN Bucket(side))
         /\ Count(Bucket(side)) = Cardinality(OfSide(side))
         /\ \A x \in DOMAIN Bucket(side) :
              x[1] \in OfSide(side) /\ Bucket(side)[x] = closed[x[1]].pnl
         /\ \A i \in OfSide(side) : \E x \in DOMAIN Bucket(side) : x[1] = i
<1> DEFINE D == {x \in Samples : closed[x[1]].side = side}
           K == OfSide(side)
           f == [i \in K |-> CHOOSE x \in D : x[1] = i]
<1>1. Bucket(side) = [x \in D |-> ResultOf(x)] /\ \A x \in D : ResultOf(x) = closed[x[1]].pnl
  BY OneSampleEach DEF Bucket
<1>2. \A x \in D : x[1] \in K
  BY OneSampleEach DEF OfSide
<1>3. \A i \in K : \E x \in D : x[1] = i
  BY OneSampleEach DEF OfSide
<1>4. \A x, y \in D : x[1] = y[1] => x = y
  BY OneSampleEach
<1> HIDE DEF D, K
<1>5. \A i \in K : f[i] \in D /\ f[i][1] = i
  BY <1>3
<1>6. \A x \in D : x[1] \in K /\ f[x[1]] = x
  BY <1>2, <1>4, <1>5
<1>7. f \in Bijection(K, D)
  <2>1. f \in [K -> D]
    BY <1>5
  <2>2. DOMAIN f = K
    OBVIOUS
  <2> HIDE DEF f
  <2>3. \A a, b \in K : f[a] = f[b] => a = b
    BY <1>5
  <2>4. \A x \in D : \E i \in K : f[i] = x
    BY <1>6
  <2> QED BY <2>1, <2>2, <2>3, <2>4 DEF Bijection, Injection, Surjection, IsInjective
<1>8. IsFiniteSet(K)
  <2>1. K \subseteq 1..Len(closed) /\ Len(closed) \in Nat
    BY DEF K, OfSide, LearnInv, ArchiveInv
  <2> QED BY <2>1, PlacesAreFinite
<1>9. IsFiniteSet(D) /\ Cardinality(D) = Cardinality(K)
  BY <1>7, <1>8, FS_Bijection DEF ExistsBijection
<1> QED BY <1>1, <1>2, <1>3, <1>9 DEF Count, K

\* A bucket without a win and with a loss is avoided when it is big enough.
LEMMA LosersAvoided ==
  ASSUME LearnInv, NEW side,
         Cardinality(OfSide(side)) >= MinBlock,
         \E i \in OfSide(side) : closed[i].pnl < 0,
         \A i \in OfSide(side) : ~(closed[i].pnl > 0)
  PROVE  ~AllowOpen(side)
<1> DEFINE r == Bucket(side)
           last == LastOf(r, MinBlock)
<1> HIDE DEF r, last
<1>1. /\ IsFiniteSet(DOMAIN r) /\ Count(r) = Cardinality(OfSide(side))
      /\ \A x \in DOMAIN r : x[1] \in OfSide(side) /\ r[x] = closed[x[1]].pnl
      /\ \A i \in OfSide(side) : \E x \in DOMAIN r : x[1] = i
  BY BucketCounts DEF r
<1>2. \A i \in OfSide(side) : closed[i].pnl \in Int /\ closed[i].pnl <= 0
  <2> SUFFICES ASSUME NEW i \in OfSide(side)
               PROVE  closed[i].pnl \in Int /\ closed[i].pnl <= 0
    OBVIOUS
  <2>1. closed[i] \in Rows
    BY DEF OfSide, LearnInv, ArchiveInv
  <2>2. closed[i].pnl \in Int /\ ~(closed[i].pnl > 0)
    BY <2>1 DEF Rows
  <2> QED BY <2>2
<1>3. \A x \in DOMAIN r : r[x] \in Int /\ r[x] <= 0
  BY <1>1, <1>2
<1>4. PICK x \in DOMAIN r : r[x] < 0
  BY <1>1
<1>5. Total(r) < 0
  BY <1>1, <1>3, <1>4, SumOfLosses DEF Total
<1>6. ~RateAtLeast(r, 35)
  <2>1. {y \in DOMAIN r : r[y] > 0} = {}
    BY <1>3
  <2>2. Wins(r) = 0
    BY <2>1, FS_EmptySet DEF Wins
  <2>3. /\ IsFiniteSet({y \in DOMAIN r : r[y] < 0})
        /\ {y \in DOMAIN r : r[y] < 0} # {}
    BY <1>1, <1>4, FS_Subset
  <2>4. Losses(r) \in Nat /\ Losses(r) # 0
    BY <2>3, FS_EmptySet, FS_CardinalityType DEF Losses
  <2> QED BY <2>2, <2>4 DEF RateAtLeast
<1>7. ~(Total(last) > 0)
  <2>1. /\ DOMAIN last \subseteq DOMAIN r
        /\ \A y \in DOMAIN last : last[y] = r[y]
    BY DEF last, LastOf
  <2>2. /\ IsFiniteSet(DOMAIN last)
        /\ \A y \in DOMAIN last : last[y] \in Int /\ last[y] <= 0
    BY <1>1, <1>3, <2>1, FS_Subset
  <2>3. Total(last) \in Int /\ Total(last) <= 0
    BY <2>2, SumOfLosses DEF Total
  <2> QED BY <2>3
<1>8. Avoid(r)
  BY <1>1, <1>5, <1>6, <1>7 DEF Avoid, Recovered, last
<1> QED BY <1>8 DEF AllowOpen, r

\* A plan that may open did not see a bucket of losers.
GateInv ==
  (/\ asked # NoRec /\ asked.allow
   /\ Cardinality(Known(asked)) >= MinBlock
   /\ \E i \in Known(asked) : closed[i].pnl < 0)
  => \E i \in Known(asked) : closed[i].pnl > 0

LEMMA GateInvHolds == LearnSpec => []GateInv
<1>1. LearnInit => GateInv
  BY DEF LearnInit, GateInv
<1>2. LearnInv /\ LearnInv' /\ GateInv /\ [LearnNext]_learnVars => GateInv'
  <2> SUFFICES ASSUME LearnInv, LearnInv', GateInv, [LearnNext]_learnVars
               PROVE  GateInv'
    OBVIOUS
  <2>1. ASSUME NEW side \in Sides, AskPlan(side) PROVE GateInv'
    <3>1. closed' = closed /\ asked'.known = Len(closed) /\ asked'.side = side
      BY <2>1 DEF AskPlan
    <3>2. DOMAIN closed = 1..Len(closed)
      BY DEF LearnInv, ArchiveInv
    <3>3. Known(asked)' = OfSide(side)
      BY <3>1, <3>2 DEF Known, OfSide, Teaches
    <3>4. asked'.allow => AllowOpen(side)
      BY <2>1 DEF AskPlan
    <3> QED BY <3>1, <3>3, <3>4, LosersAvoided DEF GateInv
  <2>2. CASE asked' = NoRec
    BY <2>2 DEF GateInv
  <2>3. ASSUME asked' = asked, asked # NoRec,
               \A i \in DOMAIN closed : closed'[i] = closed[i]
        PROVE  GateInv'
    <3>1. 1..asked.known \subseteq DOMAIN closed
      BY <2>3 DEF LearnInv, ArchiveInv, PlanInv, Plans
    <3>2. Known(asked)' = Known(asked)
      BY <2>3, <3>1 DEF Known, Teaches
    <3>3. \A i \in Known(asked) : closed'[i] = closed[i]
      BY <2>3, <3>1 DEF Known
    <3> QED BY <2>3, <3>2, <3>3 DEF GateInv
  <2>4. ASSUME NEW p \in live, NEW pnl, NEW reason, Close(p, pnl, reason)
        PROVE  asked' = asked /\ \A i \in DOMAIN closed : closed'[i] = closed[i]
    BY <2>4 DEF Close, LearnInv, ArchiveInv
  <2>5. CASE \E p \in live, pnl \in Pnls : Close(p, pnl, "rule")
    BY <2>2, <2>3, <2>4, <2>5
  <2>6. CASE \E p \in live : Close(p, Max(Pnls), "acceptance")
    BY <2>2, <2>3, <2>4, <2>6
  <2>7. CASE \E p \in live, reason \in NonLearning : Close(p, 0, reason)
    BY <2>2, <2>3, <2>4, <2>7
  <2>8. CASE PlanOpens \/ PlanWaits
    BY <2>2, <2>8 DEF PlanOpens, PlanWaits
  <2>9. CASE Evolve \/ UNCHANGED learnVars
    BY <2>2, <2>3, <2>9 DEF Evolve, learnVars
  <2> QED BY <2>1, <2>5, <2>6, <2>7, <2>8, <2>9 DEF LearnNext
<1> QED BY <1>1, <1>2, LearnInvHolds, PTL DEF LearnSpec

\* No plan opens a position on a side whose closes, as the plan's context knew
\* them, were enough, had a loss and no win (_match_report, generation_gate).
THEOREM LosersAreNotRepeated == LearnSpec => LosersNotRepeated
<1>1. GateInv /\ [LearnNext]_learnVars =>
        ((/\ opened' # opened
          /\ Cardinality(Known(asked)) >= MinBlock
          /\ \E i \in Known(asked) : closed[i].pnl < 0)
         => \E i \in Known(asked) : closed[i].pnl > 0)
  <2>1. [LearnNext]_learnVars /\ opened' # opened => PlanOpens
    BY DEF LearnNext, AskPlan, PlanWaits, Close, Evolve, learnVars
  <2> QED BY <2>1 DEF PlanOpens, GateInv
<1> QED BY <1>1, GateInvHolds, PTL DEF LearnSpec, LosersNotRepeated

-----------------------------------------------------------------------------
(* Strategy learning: the filters *)

\* Rows are of earlier runs, one of them at most is active, and it was eligible.
FilterInv ==
  /\ runs \in Nat
  /\ \A e \in evolved : e.run \in Nat /\ e.run < runs
  /\ \A e \in evolved : e.status = "ACTIVE" => e.eligible
  /\ \A e, f \in evolved : e.status = "ACTIVE" /\ f.status = "ACTIVE" => e = f
  /\ \A e \in evolved : e = [run |-> e.run, sides |-> e.sides,
                             eligible |-> e.eligible, status |-> e.status]

LEMMA EvolveKeepsFilter == ASSUME FilterInv, Evolve PROVE FilterInv'
<1> DEFINE all == evolved \cup Stored
<1>1. \A e \in Stored : /\ e = [run |-> e.run, sides |-> e.sides,
                                eligible |-> e.eligible, status |-> e.status]
                        /\ e.run = runs /\ e.eligible = Eligible(e.sides)
                        /\ e.status # "ACTIVE"
  BY DEF Stored
<1>2. runs \in Nat /\ runs' = runs + 1
  BY DEF FilterInv, Evolve
<1>3. \A e \in all : /\ e.run \in Nat /\ e.run < runs'
                     /\ e = [run |-> e.run, sides |-> e.sides,
                             eligible |-> e.eligible, status |-> e.status]
                     /\ e.run = runs => e \in Stored
  BY <1>1, <1>2 DEF FilterInv
<1>4. CASE evolved' = all
  BY <1>1, <1>2, <1>3, <1>4 DEF FilterInv
<1>5. \A e \in Demoted(all) :
        /\ e.status # "ACTIVE"
        /\ e = [run |-> e.run, sides |-> e.sides, eligible |-> e.eligible, status |-> e.status]
        /\ \E d \in all : e.run = d.run /\ e.sides = d.sides /\ e.eligible = d.eligible
  <2> SUFFICES ASSUME NEW d \in all,
                      NEW e, e = IF d.status = "ACTIVE"
                                 THEN [d EXCEPT !.status = "INACTIVE"] ELSE d
               PROVE  /\ e.status # "ACTIVE"
                      /\ e = [run |-> e.run, sides |-> e.sides,
                              eligible |-> e.eligible, status |-> e.status]
                      /\ e.run = d.run /\ e.sides = d.sides /\ e.eligible = d.eligible
    BY DEF Demoted
  <2>1. d = [run |-> d.run, sides |-> d.sides, eligible |-> d.eligible, status |-> d.status]
    BY <1>3
  <2> HIDE DEF all
  <2>2. CASE d.status = "ACTIVE"
    <3>1. e = [run |-> d.run, sides |-> d.sides, eligible |-> d.eligible, status |-> "INACTIVE"]
      BY <2>1, <2>2
    <3> QED BY <3>1
  <2>3. CASE d.status # "ACTIVE"
    BY <2>1, <2>3
  <2> QED BY <2>2, <2>3
<1>6. CASE evolved' = Demoted(all)
  <2> HIDE DEF all
  <2> QED BY <1>2, <1>3, <1>5, <1>6 DEF FilterInv
<1>7. CASE evolved' = Activated(all, Best) /\ Eligible(Best)
  <2> DEFINE star == [run |-> runs, sides |-> Best, eligible |-> Eligible(Best), status |-> "ACTIVE"]
  <2>1. ASSUME NEW d \in Demoted(all),
               NEW e, e = IF d.run = runs /\ d.sides = Best
                          THEN [d EXCEPT !.status = "ACTIVE"] ELSE d
        PROVE  /\ e.status = "ACTIVE" => e = star
               /\ e = [run |-> e.run, sides |-> e.sides,
                       eligible |-> e.eligible, status |-> e.status]
               /\ e.run \in Nat /\ e.run < runs'
    <3>1. PICK o \in all : d.run = o.run /\ d.sides = o.sides /\ d.eligible = o.eligible
      BY <1>5
    <3>2. /\ d = [run |-> d.run, sides |-> d.sides, eligible |-> d.eligible, status |-> d.status]
          /\ d.status # "ACTIVE" /\ d.run \in Nat /\ d.run < runs'
      BY <1>3, <1>5, <3>1
    <3>3. CASE d.run = runs /\ d.sides = Best
      <4>1. o \in Stored
        BY <1>3, <3>1, <3>3
      <4>2. d.eligible = Eligible(Best)
        BY <1>1, <3>1, <3>3, <4>1
      <4>3. e = star
        BY <2>1, <3>2, <3>3, <4>2
      <4> QED BY <1>2, <4>3
    <3>4. CASE ~(d.run = runs /\ d.sides = Best)
      BY <2>1, <3>2, <3>4
    <3> QED BY <3>3, <3>4
  <2>2. \A e \in evolved' : /\ e.status = "ACTIVE" => e = star
                            /\ e = [run |-> e.run, sides |-> e.sides,
                                    eligible |-> e.eligible, status |-> e.status]
                            /\ e.run \in Nat /\ e.run < runs'
    <3> HIDE DEF all, star
    <3> QED BY <1>7, <2>1 DEF Activated
  <2>3. star.eligible
    BY <1>7
  <2> HIDE DEF star
  <2> QED BY <1>2, <2>2, <2>3 DEF FilterInv
<1> QED BY <1>4, <1>6, <1>7 DEF Evolve

LEMMA FilterInvHolds == LearnSpec => []FilterInv
<1>1. LearnInit => FilterInv
  BY DEF LearnInit, FilterInv
<1>2. FilterInv /\ [LearnNext]_learnVars => FilterInv'
  <2> SUFFICES ASSUME FilterInv, [LearnNext]_learnVars PROVE FilterInv'
    OBVIOUS
  <2>1. CASE Evolve
    BY <2>1, EvolveKeepsFilter
  <2>2. CASE UNCHANGED <<evolved, runs>>
    BY <2>2 DEF FilterInv
  <2> QED BY <2>1, <2>2 DEF LearnNext, AskPlan, PlanOpens, PlanWaits, Close, learnVars
<1> QED BY <1>1, <1>2, PTL DEF LearnSpec

LEMMA AtMostOne ==
  ASSUME NEW A, \A x, y \in A : x = y
  PROVE  Cardinality(A) <= 1
<1>1. CASE A = {}
  <2>1. Cardinality(A) = 0
    BY <1>1, FS_EmptySet
  <2> QED BY <2>1
<1>2. CASE A # {}
  <2>1. PICK x : x \in A
    BY <1>2
  <2>2. A = {x}
    BY <2>1
  <2>3. Cardinality(A) = 1
    BY <2>2, FS_Singleton
  <2> QED BY <2>3
<1> QED BY <1>1, <1>2

\* The two splits of the memory agree whenever enough was induced from it.
LEMMA SplitsAgree ==
  ASSUME LearnInv, Induced # {}
  PROVE  TrainRows \cap HoldoutRows = {}
<1> DEFINE n == Cardinality(Memory)
<1>1. Memory \subseteq 1..Len(closed) /\ Len(closed) \in Nat
  BY DEF Memory, LearnInv, ArchiveInv
<1>2. IsFiniteSet(Memory) /\ n \in Nat
  BY <1>1, PlacesAreFinite
<1>3. IsFiniteSet(TrainRows) /\ Cardinality(TrainRows) \in Nat /\ Cardinality(TrainRows) <= n
  BY <1>2, FS_Subset, FS_CardinalityType DEF TrainRows
<1>4. Cardinality(TrainRows) > 1
  <2>1. PICK sides \in SUBSET Sides : /\ Count(Results(TrainRows, sides)) >= MinTrades
                                      /\ Wins(Results(TrainRows, sides)) >= MinWinners
    BY DEF Induced
  <2> DEFINE D == DOMAIN Results(TrainRows, sides)
             W == {x \in D : Results(TrainRows, sides)[x] > 0}
  <2>2. D \subseteq TrainRows /\ W \subseteq TrainRows
    BY DEF Results
  <2>3. /\ Cardinality(D) \in Nat /\ Cardinality(D) <= Cardinality(TrainRows)
        /\ Cardinality(W) \in Nat /\ Cardinality(W) <= Cardinality(TrainRows)
    <3> HIDE DEF D, W
    <3> QED BY <1>3, <2>2, FS_Subset, FS_CardinalityType
  <2>4. Cardinality(D) >= MinTrades /\ Cardinality(W) >= MinWinners
    BY <2>1 DEF Count, Wins
  <2> HIDE DEF D, W
  <2> QED BY <1>3, <2>3, <2>4, LearningAssumption
<1>5. n > 1
  BY <1>2, <1>3, <1>4
<1>6. SplitAt(n) \in Nat /\ SplitAt(n) <= n - 1
  <2>1. n * Split \in Nat /\ n * Split <= n * 9
    BY <1>2, LearningAssumption
  <2> HIDE DEF n
  <2> QED BY <1>2, <1>5, <2>1 DEF SplitAt
<1>a. TrainSize(n) = Min({Max({1, SplitAt(n)}), n - 1})
  <2> HIDE DEF n
  <2> QED BY ONLY <1>2, <1>5 DEF TrainSize
<1>7. CASE SplitAt(n) > 0
  <2> DEFINE s == SplitAt(n)
  <2>1. s \in Int /\ n - 1 \in Int /\ 1 \in Int /\ s >= 1 /\ s <= n - 1
    BY <1>2, <1>6, <1>7
  <2> HIDE DEF n, s
  <2>2. Max({1, s}) = s
    BY <2>1, OfTwo
  <2>3. Min({s, n - 1}) = s
    BY <2>1, OfTwo
  <2>4. TrainSize(n) = s
    BY <1>a, <2>2, <2>3 DEF s
  <2>5. \A i \in Memory : Place(i) \in Nat
    BY <1>2, FS_Subset, FS_CardinalityType DEF Place
  <2> QED BY <2>1, <2>4, <2>5 DEF TrainRows, HoldoutRows, n, s
<1>8. CASE SplitAt(n) = 0
  <2>1. n - 1 \in Int /\ 1 \in Int /\ 0 \in Int /\ 1 <= n - 1
    BY <1>2, <1>5
  <2>2. TrainSize(n) = 1
    <3> HIDE DEF n
    <3>1. Max({1, 0}) = 1
      BY <2>1, OfTwo
    <3>2. Min({1, n - 1}) = 1
      BY <2>1, OfTwo
    <3> QED BY <1>a, <1>8, <3>1, <3>2
  <2> DEFINE B == [i \in Memory |-> {j \in Memory : j <= i}]
  <2>3. /\ B \in [Memory -> SUBSET Memory]
        /\ \A i \in Memory : i \in B[i] /\ Place(i) = Cardinality(B[i])
        /\ \A i, j \in Memory : i # j => \/ B[i] \subseteq B[j] /\ B[i] # B[j]
                                         \/ B[j] \subseteq B[i] /\ B[j] # B[i]
    <3>1. Memory \subseteq Int
      BY <1>1
    <3>2. B \in [Memory -> SUBSET Memory]
      OBVIOUS
    <3>3. \A i \in Memory : i \in B[i] /\ Place(i) = Cardinality(B[i])
      BY <3>1 DEF Place
    <3>4. \A i, j \in Memory : j \in B[i] <=> j <= i
      OBVIOUS
    <3> HIDE DEF B
    <3>5. ASSUME NEW i \in Memory, NEW j \in Memory, i < j
          PROVE  B[i] \subseteq B[j] /\ B[i] # B[j]
      <4>1. i \in Int /\ j \in Int
        BY <3>1
      <4>2. j \in B[j] /\ j \notin B[i]
        BY <3>4, <3>5, <4>1
      <4>3. ASSUME NEW k \in B[i] PROVE k \in B[j]
        <5>1. k \in Memory /\ k \in Int
          BY <3>1, <3>2
        <5>2. k <= i
          BY <3>4, <5>1
        <5>3. k <= j
          BY <3>5, <4>1, <5>1, <5>2
        <5> QED BY <3>4, <5>1, <5>3
      <4> QED BY <4>2, <4>3
    <3>6. \A i, j \in Memory : i # j => i < j \/ j < i
      BY <3>1
    <3> QED BY <3>2, <3>3, <3>5, <3>6
  <2>4. 1 \in 1..Cardinality(Memory)
    BY <1>2, <1>5
  <2> HIDE DEF B, n
  <2>5. \A i, j \in Memory : Cardinality(B[i]) = 1 /\ Cardinality(B[j]) = 1 => i = j
    BY <1>2, <2>3, <2>4, PlacesAreNumbered
  <2>6. \A i \in Memory : Cardinality(B[i]) \in Nat /\ Cardinality(B[i]) # 0
    <3> SUFFICES ASSUME NEW i \in Memory
                 PROVE  Cardinality(B[i]) \in Nat /\ Cardinality(B[i]) # 0
      OBVIOUS
    <3>1. B[i] \in SUBSET Memory /\ B[i] # {}
      BY <2>3
    <3> QED BY <1>2, <3>1, FS_Subset, FS_CardinalityType, FS_EmptySet
  <2>7. \A i, j \in TrainRows : i = j
    BY <2>2, <2>3, <2>5, <2>6 DEF TrainRows, n
  <2> QED BY <1>3, <1>4, <2>7, AtMostOne
<1> QED BY <1>6, <1>7, <1>8

\* One evolved filter at most is active, it was eligible when it was made, and
\* it was not induced from what it is judged on (evolve, activate, the splits
\* of the evolver and of the backtest).
THEOREM FiltersAreEarned == LearnSpec => []FilterIsEarned
<1>1. LearnInv /\ FilterInv => FilterIsEarned
  <2> SUFFICES ASSUME LearnInv, FilterInv PROVE FilterIsEarned
    OBVIOUS
  <2> DEFINE A == {e \in evolved : e.status = "ACTIVE"}
  <2>1. \A e, f \in A : e = f
    BY DEF FilterInv
  <2>3. Cardinality(A) <= 1
    <3> HIDE DEF A
    <3> QED BY <2>1, AtMostOne
  <2> QED BY <2>3, SplitsAgree DEF FilterIsEarned, FilterInv
<1> QED BY <1>1, LearnInvHolds, FilterInvHolds, PTL

-----------------------------------------------------------------------------
(* The guard *)

GuardRows == Range(local) \cup Range(table)

\* A close keeps its number, whichever list holds it.
GuardInv ==
  /\ local \in Seq(Range(local)) /\ table \in Seq(Range(table))
  /\ closes \in Nat
  /\ \A r \in GuardRows : r.no \in Nat /\ r.no < closes
  /\ \A r, s \in GuardRows : r.no = s.no => r = s

LEMMA RangeOfLonger ==
  ASSUME NEW T, NEW s \in Seq(T), NEW x
  PROVE  Range(<<x>> \o s) = Range(s) \cup {x}
<1>1. DOMAIN (<<x>> \o s) = 1..(Len(s) + 1) /\ DOMAIN s = 1..Len(s) /\ Len(s) \in Nat
  OBVIOUS
<1>2. (<<x>> \o s)[1] = x /\ \A k \in 1..Len(s) : (<<x>> \o s)[k + 1] = s[k]
  OBVIOUS
<1>3. ASSUME NEW y \in Range(<<x>> \o s) PROVE y \in Range(s) \cup {x}
  <2>1. PICK k \in 1..(Len(s) + 1) : y = (<<x>> \o s)[k]
    BY <1>1 DEF Range
  <2>2. CASE k = 1
    BY <1>2, <2>1, <2>2
  <2>3. CASE k # 1
    <3>1. k - 1 \in 1..Len(s) /\ (k - 1) + 1 = k
      BY <1>1, <2>3
    <3> QED BY <1>1, <1>2, <2>1, <3>1 DEF Range
  <2> QED BY <2>2, <2>3
<1>4. ASSUME NEW y \in Range(s) \cup {x} PROVE y \in Range(<<x>> \o s)
  <2>1. CASE y = x
    <3>1. 1 \in DOMAIN (<<x>> \o s)
      BY <1>1
    <3> QED BY <1>2, <2>1, <3>1 DEF Range
  <2>2. CASE y \in Range(s)
    <3>1. PICK k \in 1..Len(s) : y = s[k]
      BY <1>1, <2>2 DEF Range
    <3>2. k + 1 \in DOMAIN (<<x>> \o s)
      BY <1>1
    <3> QED BY <1>2, <3>1, <3>2 DEF Range
  <2> QED BY <2>1, <2>2
<1> QED BY <1>3, <1>4

LEMMA RangeIsFinite ==
  ASSUME NEW T, NEW s \in Seq(T)
  PROVE  IsFiniteSet(Range(s))
<1>1. Len(s) \in Nat /\ DOMAIN s = 1..Len(s)
  OBVIOUS
<1>2. IsFiniteSet(DOMAIN s)
  BY <1>1, FS_Interval
<1>3. s \in Surjection(DOMAIN s, Range(s))
  BY DEF Surjection, Range
<1> QED BY <1>2, <1>3, FS_Surjection

LEMMA GuardInvHolds == GuardSpec => []GuardInv
<1>1. GuardInit => GuardInv
  <2> SUFFICES ASSUME GuardInit PROVE GuardInv
    OBVIOUS
  <2>1. Range(local) = {} /\ Range(table) = {}
    BY DEF GuardInit, Range
  <2> QED BY <2>1 DEF GuardInit, GuardInv, GuardRows
<1>2. GuardInv /\ [GuardNext]_guardVars => GuardInv'
  <2> SUFFICES ASSUME GuardInv, [GuardNext]_guardVars PROVE GuardInv'
    OBVIOUS
  <2>1. CASE UNCHANGED <<local, table, closes>>
    BY <2>1 DEF GuardInv, GuardRows
  <2>2. CASE CloseTrade
    <3>1. PICK row : /\ row.no = closes /\ local' = <<row>> \o local
                     /\ table' = <<row>> \o table \/ table' = table
                     /\ closes' = closes + 1
      BY <2>2 DEF CloseTrade
    <3>2. Range(local') = Range(local) \cup {row}
      BY <3>1, RangeOfLonger DEF GuardInv
    <3>3. Range(table') \subseteq Range(table) \cup {row}
      BY <3>1, RangeOfLonger DEF GuardInv
    <3>4. local' \in Seq(Range(local')) /\ table' \in Seq(Range(table'))
      <4>1. local \in Seq(Range(local')) /\ row \in Range(local')
        BY <3>2 DEF GuardInv
      <4>2. local' \in Seq(Range(local'))
        BY <3>1, <4>1
      <4>3. CASE table' = <<row>> \o table
        <5>1. Range(table') = Range(table) \cup {row}
          BY <4>3, RangeOfLonger DEF GuardInv
        <5>2. table \in Seq(Range(table')) /\ row \in Range(table')
          BY <5>1 DEF GuardInv
        <5> QED BY <4>2, <4>3, <5>2
      <4>4. CASE table' = table
        BY <4>2, <4>4 DEF GuardInv
      <4> QED BY <3>1, <4>3, <4>4
    <3>5. GuardRows' \subseteq GuardRows \cup {row}
      BY <3>2, <3>3 DEF GuardRows
    <3>6. \A r \in GuardRows' : r = row \/ (r \in GuardRows /\ r.no \in Nat /\ r.no < closes)
      BY <3>5 DEF GuardInv
    <3>7. closes \in Nat
      BY DEF GuardInv
    <3>8. \A r \in GuardRows' : r.no \in Nat /\ r.no < closes'
      BY <3>1, <3>6, <3>7
    <3>9. \A r, s \in GuardRows' : r.no = s.no => r = s
      BY <3>1, <3>6, <3>7 DEF GuardInv
    <3> QED BY <3>1, <3>4, <3>7, <3>8, <3>9 DEF GuardInv
  <2>3. CASE RestartGuard
    <3>1. local' = <<>> /\ UNCHANGED <<table, closes>>
      BY <2>3 DEF RestartGuard
    <3>2. Range(local') = {}
      BY <3>1 DEF Range
    <3>3. GuardRows' \subseteq GuardRows
      BY <3>1, <3>2 DEF GuardRows
    <3> QED BY <3>1, <3>2, <3>3 DEF GuardInv
  <2> QED BY <2>1, <2>2, <2>3 DEF GuardNext, AskFor, PlanArrives, HourPasses, guardVars
<1> QED BY <1>1, <1>2, PTL DEF GuardSpec

\* A position opens for a candidate of the guarded lane only when the plan
\* was judged again by what had closed by then (evaluate).
THEOREM NoRevengeIsTaken == GuardSpec => NoRevenge
<1>1. [GuardNext]_guardVars =>
        [(bid # NoCandidate /\ bid.lane = "guarded" /\ holding' # holding
          /\ bid' = NoCandidate /\ local' = local)
         => /\ ~Blocked(bid.pair)
            /\ RecentLoss(bid.pair) => bid.score = 2]_guardVars
  <2> SUFFICES ASSUME GuardNext, bid # NoCandidate, bid.lane = "guarded",
                      holding' # holding, bid' = NoCandidate, local' = local
               PROVE  /\ ~Blocked(bid.pair)
                      /\ RecentLoss(bid.pair) => bid.score = 2
    BY DEF guardVars
  <2>1. PlanArrives
    BY DEF GuardNext, AskFor, CloseTrade, HourPasses, RestartGuard
  <2>2. Approved(bid)
    BY <2>1 DEF PlanArrives
  <2> QED BY <2>2 DEF Approved
<1> QED BY <1>1, PTL DEF GuardSpec, NoRevenge

\* The order of rows with different numbers does not depend on their lists.
LEMMA OrderOfDifferent ==
  ASSUME NEW K, IsFiniteSet(K),
         \A x \in K : x = <<x[1], x[2]>> /\ x[1].no \in Nat /\ x[2] \in Nat,
         \A x, y \in K : x[1].no = y[1].no => x = y
  PROVE  LET R == {x[1] : x \in K}
         IN InOrder(K) = {[place |-> Cardinality({s \in R : s.no >= r.no}), result |-> r] : r \in R}
<1> DEFINE R == {x[1] : x \in K}
           Down(r) == {s \in R : s.no >= r.no}
           Up(x) == {y \in K : y[1].no > x[1].no \/ (y[1].no = x[1].no /\ y[2] <= x[2])}
<1>1. \A x \in K : Up(x) = {y \in K : y[1].no >= x[1].no}
  <2> SUFFICES ASSUME NEW x \in K, NEW y \in K
               PROVE  (y[1].no > x[1].no \/ (y[1].no = x[1].no /\ y[2] <= x[2]))
                      <=> y[1].no >= x[1].no
    OBVIOUS
  <2>1. x[1].no \in Nat /\ y[1].no \in Nat /\ x[2] \in Nat
    OBVIOUS
  <2>2. CASE y = x
    BY <2>1, <2>2
  <2>3. CASE y # x
    <3>1. y[1].no # x[1].no
      BY <2>3
    <3> QED BY <2>1, <3>1
  <2> QED BY <2>2, <2>3
<1>2. ASSUME NEW x \in K PROVE Cardinality(Up(x)) = Cardinality(Down(x[1]))
  <2> DEFINE U == {y \in K : y[1].no >= x[1].no}
             D == Down(x[1])
             f == [y \in U |-> y[1]]
  <2>1. f \in [U -> D] /\ \A d \in D : \E y \in U : f[y] = d
    OBVIOUS
  <2>2. \A y, z \in U : f[y] = f[z] => y = z
    OBVIOUS
  <2>3. IsFiniteSet(U)
    BY FS_Subset
  <2>4. Cardinality(U) = Cardinality(D)
    <3> HIDE DEF U, D, f
    <3> QED BY <2>1, <2>2, <2>3, SameSize
  <2> QED BY <1>1, <2>4
<1>3. \A x \in K : PlaceIn(x, K) = Cardinality(Down(x[1]))
  BY <1>2 DEF PlaceIn
<1>4. InOrder(K) = {[place |-> Cardinality(Down(x[1])), result |-> x[1]] : x \in K}
  <2> HIDE DEF Down
  <2> QED BY <1>3 DEF InOrder
<1>5. {[place |-> Cardinality(Down(x[1])), result |-> x[1]] : x \in K}
      = {[place |-> Cardinality(Down(r)), result |-> r] : r \in R}
  <2> HIDE DEF Down
  <2> QED OBVIOUS
<1> QED BY <1>4, <1>5

\* What may be counted, in one list or in the other, is finite and its rows
\* have numbers of their own.
Kept == {x \in Listed : ~x[1].excluded}

LEMMA KeptAreNumbered ==
  ASSUME GuardInv
  PROVE  /\ IsFiniteSet(Kept)
         /\ \A x \in Kept : x = <<x[1], x[2]>> /\ x[1].no \in Nat /\ x[2] \in Nat
                          /\ x[1] \in GuardRows /\ ~x[1].excluded
         /\ \A x, y \in Kept : x[1].no = y[1].no => x = y
<1> DEFINE late == {r \in Range(table) : \A s \in Range(local) : s.no # r.no}
<1>1. \A x \in Listed : \/ x[1] \in Range(local) /\ x[2] = 1 /\ x = <<x[1], x[2]>>
                        \/ x[1] \in late /\ x[2] = 2 /\ x = <<x[1], x[2]>>
  BY DEF Listed
<1>2. \A x \in Listed : x[1] \in GuardRows /\ x[2] \in Nat
  BY <1>1 DEF GuardRows
<1>3. \A x, y \in Listed : x[1].no = y[1].no => x = y
  <2> SUFFICES ASSUME NEW x \in Listed, NEW y \in Listed, x[1].no = y[1].no PROVE x = y
    OBVIOUS
  <2>1. x[1] = y[1]
    BY <1>2 DEF GuardInv
  <2> QED BY <1>1, <2>1
<1>4. IsFiniteSet(Range(local)) /\ IsFiniteSet(Range(table))
  BY RangeIsFinite DEF GuardInv
<1>5. IsFiniteSet({1}) /\ IsFiniteSet({2})
  BY FS_Singleton
<1>6. IsFiniteSet(Range(local) \X {1}) /\ IsFiniteSet(late \X {2})
  <2>1. IsFiniteSet(late)
    BY <1>4, FS_Subset
  <2> HIDE DEF late
  <2> QED BY <1>4, <1>5, <2>1, FS_Product
<1>7. IsFiniteSet(Listed)
  BY <1>6, FS_Union DEF Listed
<1>8. Kept \subseteq Listed /\ \A x \in Kept : ~x[1].excluded
  BY DEF Kept
<1>9. IsFiniteSet(Kept)
  BY <1>7, <1>8, FS_Subset
<1>10. \A x \in Kept : x = <<x[1], x[2]>> /\ x[1].no \in Nat /\ x[2] \in Nat
                      /\ x[1] \in GuardRows /\ ~x[1].excluded
  BY <1>1, <1>2, <1>8 DEF GuardInv
<1> QED BY <1>3, <1>8, <1>9, <1>10

\* What is counted depends on the rows only.
LEMMA CountedByRows ==
  ASSUME GuardInv
  PROVE  LET R == {x[1] : x \in Kept}
         IN Counted = {[place |-> Cardinality({s \in R : s.no >= r.no}), result |-> r] : r \in R}
<1>1. Counted = InOrder(Kept)
  BY DEF Counted, Kept
<1> QED BY <1>1, KeptAreNumbered, OrderOfDifferent

\* An excluded close changes nothing that is counted.
LEMMA ExcludedIsNotCounted ==
  ASSUME GuardInv, CloseTrade, Head(local').excluded
  PROVE  Counted' = Counted
<1>1. PICK row : /\ row.no = closes /\ local' = <<row>> \o local
                 /\ table' = <<row>> \o table \/ table' = table
  BY DEF CloseTrade
<1>2. row.excluded
  <2>1. Head(local') = row
    BY <1>1 DEF GuardInv
  <2> QED BY <2>1
<1>3. Range(local') = Range(local) \cup {row}
  BY <1>1, RangeOfLonger DEF GuardInv
<1>4. Range(table') = Range(table) \/ Range(table') = Range(table) \cup {row}
  BY <1>1, RangeOfLonger DEF GuardInv
<1>5. \A r \in Range(table) : r.no # row.no
  BY <1>1 DEF GuardInv, GuardRows
<1>6. {r \in Range(table') : \A s \in Range(local') : s.no # r.no}
      = {r \in Range(table) : \A s \in Range(local) : s.no # r.no}
  BY <1>3, <1>4, <1>5
<1>7. Listed' = Listed \cup {<<row, 1>>}
  BY <1>3, <1>6 DEF Listed
<1>8. {x \in Listed' : ~x[1].excluded} = {x \in Listed : ~x[1].excluded}
  BY <1>2, <1>7
<1> QED BY <1>8 DEF Counted, InOrder, PlaceIn

\* After a restart the table alone tells what both lists told.
LEMMA RestartCountsTheSame ==
  ASSUME GuardInv, GuardInv', RestartGuard, \A k \in DOMAIN local : local[k] \in Range(table)
  PROVE  Counted' = Counted
<1> DEFINE R == {r \in Range(table) : ~r.excluded}
           C == {[place |-> Cardinality({s \in R : s.no >= r.no}), result |-> r] : r \in R}
<1>1. local' = <<>> /\ table' = table
  BY DEF RestartGuard
<1>2. Range(local) \subseteq Range(table)
  BY DEF Range
<1>3. {x[1] : x \in Kept} = R
  <2>1. ASSUME NEW x \in Kept PROVE x[1] \in R
    <3>1. x[1] \in GuardRows /\ ~x[1].excluded
      BY KeptAreNumbered
    <3> QED BY <1>2, <3>1 DEF GuardRows
  <2>2. ASSUME NEW r \in R PROVE \E x \in Kept : x[1] = r
    <3>1. CASE r \in Range(local)
      <4>1. <<r, 1>> \in Listed /\ <<r, 1>>[1] = r
        BY <3>1 DEF Listed
      <4> QED BY <4>1 DEF Kept
    <3>2. CASE r \notin Range(local)
      <4>1. \A s \in Range(local) : s.no # r.no
        BY <3>2 DEF GuardInv, GuardRows
      <4>2. <<r, 2>> \in Listed /\ <<r, 2>>[1] = r
        BY <4>1 DEF Listed
      <4> QED BY <4>2 DEF Kept
    <3> QED BY <3>1, <3>2
  <2> QED BY <2>1, <2>2
<1>4. Counted = C
  <2>1. LET Q == {x[1] : x \in Kept}
        IN Counted = {[place |-> Cardinality({s \in Q : s.no >= r.no}), result |-> r] : r \in Q}
    BY CountedByRows
  <2> QED BY <1>3, <2>1
<1> DEFINE K == {x \in Listed' : ~x[1].excluded}
<1>5. K = R \X {2}
  <2>1. Range(local') = {}
    BY <1>1 DEF Range
  <2>2. Listed' = Range(table) \X {2}
    BY <1>1, <2>1 DEF Listed
  <2> QED BY <2>2
<1>6. Counted' = InOrder(K)
  BY DEF Counted, InOrder, PlaceIn
<1>7. \A x \in K : x = <<x[1], x[2]>> /\ x[1].no \in Nat /\ x[2] \in Nat /\ x[1] \in R /\ x[2] = 2
  BY <1>5 DEF GuardInv, GuardRows
<1>8. \A x, y \in K : x[1].no = y[1].no => x = y
  <2> SUFFICES ASSUME NEW x \in K, NEW y \in K, x[1].no = y[1].no PROVE x = y
    OBVIOUS
  <2>1. x[1] = y[1]
    BY <1>7 DEF GuardInv, GuardRows
  <2> HIDE DEF K
  <2> QED BY <1>7, <2>1
<1>9. IsFiniteSet(K)
  <2>1. IsFiniteSet(Range(table)) /\ IsFiniteSet({2})
    BY RangeIsFinite, FS_Singleton DEF GuardInv
  <2>2. IsFiniteSet(R)
    BY <2>1, FS_Subset
  <2> HIDE DEF R, K
  <2> QED BY <1>5, <2>1, <2>2, FS_Product
<1>10. {x[1] : x \in K} = R
  <2>1. \A r \in R : <<r, 2>> \in K /\ <<r, 2>>[1] = r
    BY <1>5
  <2> HIDE DEF K, R
  <2> QED BY <1>7, <2>1
<1>11. LET Q == {x[1] : x \in K}
       IN InOrder(K) = {[place |-> Cardinality({s \in Q : s.no >= r.no}), result |-> r] : r \in Q}
  <2> HIDE DEF K
  <2> QED BY <1>7, <1>8, <1>9, OrderOfDifferent
<1>12. InOrder(K) = C
  BY <1>10, <1>11
<1> QED BY <1>4, <1>6, <1>12

\* Excluded closes and a restart without lost rows change no verdict.
THEOREM VerdictsStandFirm == GuardSpec => VerdictsStand
<1>1. GuardInv /\ GuardInv' /\ [GuardNext]_guardVars =>
        [(\/ closes' # closes /\ Head(local').excluded
          \/ local # <<>> /\ local' = <<>> /\ \A k \in DOMAIN local : local[k] \in Range(table))
         => /\ LossStreak' = LossStreak /\ (Recovery' <=> Recovery)
            /\ \A pair \in Pairs : Blocked(pair)' <=> Blocked(pair)]_guardVars
  <2> SUFFICES ASSUME GuardInv, GuardInv', GuardNext,
                      \/ closes' # closes /\ Head(local').excluded
                      \/ local # <<>> /\ local' = <<>>
                         /\ \A k \in DOMAIN local : local[k] \in Range(table)
               PROVE  /\ LossStreak' = LossStreak /\ (Recovery' <=> Recovery)
                      /\ \A pair \in Pairs : Blocked(pair)' <=> Blocked(pair)
    BY DEF guardVars
  <2>1. Counted' = Counted
    <3>1. CASE closes' # closes /\ Head(local').excluded
      <4>1. CloseTrade
        BY <3>1 DEF GuardNext, AskFor, PlanArrives, HourPasses, RestartGuard, GuardInv
      <4> QED BY <3>1, <4>1, ExcludedIsNotCounted
    <3>2. CASE local # <<>> /\ local' = <<>>
               /\ \A k \in DOMAIN local : local[k] \in Range(table)
      <4>1. ~CloseTrade
        <5> SUFFICES ASSUME CloseTrade PROVE FALSE
          OBVIOUS
        <5>1. PICK row : local' = <<row>> \o local
          BY DEF CloseTrade
        <5> QED BY <3>2, <5>1 DEF GuardInv
      <4>2. RestartGuard
        BY <3>2, <4>1 DEF GuardNext, AskFor, PlanArrives, HourPasses
      <4> QED BY <3>2, <4>2, RestartCountsTheSame
    <3> QED BY <3>1, <3>2
  <2>2. LossStreak' = LossStreak
    BY <2>1 DEF LossStreak
  <2>3. Recovery' <=> Recovery
    BY <2>1 DEF Recovery, NewestOf, PnlOf, WinsAtLeast, Won, Lost
  <2>4. \A pair \in Pairs : Blocked(pair)' <=> Blocked(pair)
    BY <2>1 DEF Blocked, OfPair, NewestOf, PnlOf, WinsAtLeast, Won, Lost
  <2> QED BY <2>2, <2>3, <2>4
<1> QED BY <1>1, GuardInvHolds, PTL DEF GuardSpec, VerdictsStand
=============================================================================
