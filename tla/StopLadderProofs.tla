-------------------------- MODULE StopLadderProofs --------------------------
(***************************************************************************)
(* The safety of StopLadder for every plan, price path, radar signal, AI   *)
(* review and quantity, paper and live, with any number of restarts.       *)
(***************************************************************************)
EXTENDS StopLadder, TLAPS

\* A position the ladder may leave behind: before TP1 its stop is at most the
\* net breakeven price, after TP1 at least; and the core is there.
Sound(p) ==
  /\ p \in Positions
  /\ p.stage = 1 => /\ Ahead(p.side, Breakeven(p), p.stop) >= 0
                    /\ 40 * p.qty > 11 * Initial
  /\ p.stage = 2 => /\ Ahead(p.side, p.stop, Breakeven(p)) >= 0
                    /\ 80 * p.qty > 11 * Initial

LadderInv ==
  /\ Sound(pos) /\ Sound(saved)
  /\ saved.side = pos.side
  /\ Ahead(pos.side, pos.stop, saved.stop) >= 0
  /\ verdict \in Verdicts \cup {NoVerdict}
  /\ verdict.action = "REDUCE" => NearlyFull(pos)
  /\ outcome \in Reasons \cup {"open"}
  /\ crashes \in 0..MaxCrashes

\* q is p with at most its marks, its realized result and its lock changed.
Same(p, q) ==
  /\ q \in Positions
  /\ q.side = p.side /\ q.stage = p.stage /\ q.stop = p.stop /\ q.qty = p.qty

\* q is a sound successor of p: its stop has not moved against the position.
Improves(p, q) ==
  Sound(q) /\ q.side = p.side /\ Ahead(p.side, q.stop, p.stop) >= 0

------------------------------------------------------------------------------
(* The transformations of a position.                                      *)

LEMMA Numbers ==
  /\ Entry \in Int /\ Risk \in Nat /\ Cost \in Nat \ {0} /\ 4 * Cost < 3 * Risk
  /\ Tp1 \in Nat /\ Tp2 \in Nat /\ Cost < Tp1 /\ Tp1 < Tp2
  /\ Initial \in Nat \ {0} /\ MaxCrashes \in Nat
BY PlanAssumption

LEMMA HalfOf ==
  ASSUME NEW n \in Nat \ {0}
  PROVE  /\ n \div 2 \in Nat /\ n - (n \div 2) \in 1..n
         /\ 2 * (n - (n \div 2)) >= n /\ 2 * (n \div 2) <= n
         /\ n \div 4 \in 0..(n \div 2)
BY SMT

LEMMA Fields ==
  ASSUME NEW p \in Positions
  PROVE  /\ p.side \in Sides /\ p.stage \in Stages /\ p.price \in Int
         /\ p.best \in Int /\ p.stop \in Int /\ p.realized \in Int
         /\ p.qty \in 1..Initial /\ p.qty \in Nat \ {0} /\ p.noise \in 4..16
         /\ p.rewarded \in BOOLEAN /\ p.lock \in Locks
BY Numbers DEF Positions

LEMMA PriceTypes ==
  ASSUME NEW p \in Positions
  PROVE  /\ Breakeven(p) \in Int /\ Gain(p) \in Int /\ Net(p) \in Int
         /\ \A d \in Int : At(p.side, d) \in Int
         /\ \A a, b \in Int : Further(p.side, a, b) \in Int
         /\ \A k \in Int : k * Net(p) \in Int
BY Numbers, Fields DEF Breakeven, Gain, Net, At, Ahead, Further

LEMMA SameIsSound ==
  ASSUME NEW p, Sound(p), NEW q, Same(p, q)
  PROVE  Improves(p, q)
BY Numbers, Fields DEF Sound, Same, Improves, Breakeven, At, Ahead, Sides

LEMMA MarkedSame ==
  ASSUME NEW p \in Positions, NEW price \in Int, NEW noise \in 4..16
  PROVE  Same(p, Marked(p, price, noise)) /\ Marked(p, price, noise).price = price
<1> DEFINE q == [p EXCEPT !.price = price, !.noise = noise,
                          !.best = Further(p.side, price, p.best)]
           b == q.rewarded \/ 20 * q.qty * Net(q) >= 9 * Risk * Initial
<1>1. Further(p.side, price, p.best) \in Int BY Fields, PriceTypes
<1>2. q \in Positions /\ Same(p, q) /\ q.price = price
  BY <1>1, Fields DEF Positions, Same
<1>3. b \in BOOLEAN OBVIOUS
<1>4. Marked(p, price, noise) = [q EXCEPT !.rewarded = b]
  BY DEF Marked
<1> HIDE DEF q, b
<1>5. [q EXCEPT !.rewarded = b] \in Positions
  BY <1>2, <1>3 DEF Positions
<1>6. QED BY <1>2, <1>4, <1>5 DEF Same, Positions

LEMMA LockSame ==
  ASSUME NEW p \in Positions, NEW l \in Locks
  PROVE  Same(p, [p EXCEPT !.lock = l]) /\ [p EXCEPT !.lock = l].price = p.price
BY DEF Same, Positions

LEMMA AssessedSame ==
  ASSUME NEW p \in Positions, NEW signal
  PROVE  Same(p, Assessed(p, signal)) /\ Assessed(p, signal).price = p.price
<1>1. Same(p, p) BY DEF Same
<1>2. QED BY <1>1, LockSame DEF Assessed, Locks

LEMMA ReviewedSame ==
  ASSUME NEW p \in Positions, NEW v, NEW r
  PROVE  Same(p, Reviewed(p, v, r)) /\ Reviewed(p, v, r).price = p.price
<1>1. Same(p, p) BY DEF Same
<1>2. QED BY <1>1, LockSame DEF Reviewed, Locks

LEMMA ReducedSound ==
  ASSUME NEW p, Sound(p), NearlyFull(p), NEW k \in 0..(p.qty \div 2)
  PROVE  /\ Improves(p, Reduced(p, k)) /\ Reduced(p, k).price = p.price
         /\ Reduced(p, k).stage = p.stage /\ Reduced(p, k).stop = p.stop
         /\ Reduced(p, k).qty = p.qty - k
<1>1. p \in Positions BY DEF Sound
<1>2. p.realized + k * Net(p) \in Int
  <2>1. k \in Int BY <1>1, Fields, HalfOf
  <2>2. k * Net(p) \in Int BY <1>1, <2>1, PriceTypes
  <2>3. QED BY <1>1, <2>2, Fields
<1>3. p.qty - k \in 1..Initial /\ 2 * (p.qty - k) >= p.qty
  BY <1>1, Fields, HalfOf, Numbers
<1> DEFINE n == p.qty - k
           r == p.realized + k * Net(p)
           q == [p EXCEPT !.qty = n, !.realized = r, !.lock = "DEFENSIVE_PARTIAL_REDUCE"]
<1>4. Reduced(p, k) = q BY DEF Reduced
<1> HIDE DEF n, r
<1>5. /\ q \in Positions /\ q.qty = n /\ q.side = p.side /\ q.stage = p.stage
      /\ q.stop = p.stop /\ q.price = p.price
  BY <1>1, <1>2, <1>3 DEF Positions, Locks, n, r
<1> HIDE DEF q
<1>6. 40 * n > 11 * Initial
  BY <1>1, <1>3, Fields, Numbers DEF NearlyFull, n
<1>7. Improves(p, q)
  BY <1>1, <1>5, <1>6, <1>3, Fields, Numbers
  DEF Improves, Sound, Breakeven, At, Ahead, Sides, n
<1>8. QED BY <1>4, <1>5, <1>7 DEF n

LEMMA SoftLockedSound ==
  ASSUME NEW p, Sound(p)
  PROVE  Improves(p, SoftLocked(p)) /\ SoftLocked(p).stage = p.stage
         /\ SoftLocked(p).price = p.price /\ SoftLocked(p).qty = p.qty
<1>1. p \in Positions BY DEF Sound
<1>2. CASE SoftLockDue(p)
  <2> DEFINE q == [p EXCEPT !.stop = Breakeven(p), !.lock = "PLAIN"]
  <2>1. /\ q \in Positions /\ q.stop = Breakeven(p) /\ q.side = p.side
        /\ q.stage = p.stage /\ q.price = p.price /\ q.qty = p.qty
    BY <1>1, PriceTypes DEF Positions, Locks
  <2>2. SoftLocked(p) = q BY <1>2 DEF SoftLocked
  <2> HIDE DEF q
  <2>3. Breakeven(q) = Breakeven(p) BY <2>1 DEF Breakeven
  <2>4. Breakeven(p) \in Int BY <1>1, PriceTypes
  <2>5. QED
    BY <1>1, <1>2, <2>1, <2>2, <2>3, <2>4, Fields
    DEF Improves, Sound, SoftLockDue, Ahead, Sides
<1>3. CASE ~SoftLockDue(p)
  BY <1>1, <1>3, SameIsSound DEF SoftLocked, Same
<1>4. QED BY <1>2, <1>3

LEMMA FurtherIsAhead ==
  ASSUME NEW side \in Sides, NEW a \in Int, NEW b \in Int
  PROVE  /\ Further(side, a, b) \in Int
         /\ Ahead(side, Further(side, a, b), a) >= 0
         /\ Ahead(side, Further(side, a, b), b) >= 0
BY DEF Further, Ahead, Sides

LEMMA Tp1TakenSound ==
  ASSUME NEW p, Sound(p)
  PROVE  Improves(p, Tp1Taken(p)) /\ Tp1Taken(p).price = p.price
         /\ (Tp1Taken(p) # p => Tp1Taken(p).stage = 2 /\ p.stage = 1
                                /\ Tp1Taken(p).qty = p.qty - (p.qty \div 2))
<1>1. p \in Positions BY DEF Sound
<1>2. CASE p.stage = 1 /\ AtTp1(p)
  <2> DEFINE n == p.qty - (p.qty \div 2)
             r == p.realized + (p.qty \div 2) * (Tp1 - Cost)
             s == Tp1Stop(p)
             q == [p EXCEPT !.qty = n, !.stage = 2, !.lock = "PLAIN",
                            !.realized = r, !.stop = s]
  <2>1. n \in 1..Initial /\ 2 * n >= p.qty
    BY <1>1, Fields, HalfOf, Numbers
  <2>2. r \in Int
    <3>1. p.qty \div 2 \in Int /\ Tp1 - Cost \in Int
      BY <1>1, Fields, HalfOf, Numbers
    <3>2. (p.qty \div 2) * (Tp1 - Cost) \in Int BY <3>1
    <3>3. QED BY <1>1, <3>2, Fields
  <2>3. s \in Int /\ Ahead(p.side, s, Breakeven(p)) >= 0
    <3>1. Tp1 \div 5 \in Int BY Numbers
    <3>2. At(p.side, Tp1 \div 5) \in Int BY <1>1, <3>1, PriceTypes
    <3>3. QED BY <1>1, <3>2, Fields, PriceTypes, FurtherIsAhead DEF Tp1Stop
  <2>4. Tp1Taken(p) = q BY <1>2 DEF Tp1Taken
  <2> HIDE DEF n, r, s
  <2>5. /\ q \in Positions /\ q.qty = n /\ q.side = p.side /\ q.stage = 2
        /\ q.stop = s /\ q.price = p.price
    BY <1>1, <2>1, <2>2, <2>3 DEF Positions, Locks, Stages
  <2> HIDE DEF q
  <2>6. Breakeven(q) = Breakeven(p) /\ Breakeven(p) \in Int
    BY <1>1, <2>5, PriceTypes DEF Breakeven
  <2>7. Ahead(p.side, s, p.stop) >= 0
    BY <1>1, <1>2, <2>3, <2>6, Fields DEF Sound, Ahead
  <2>8. 80 * n > 11 * Initial
    BY <1>1, <1>2, <2>1, Fields, Numbers DEF Sound
  <2>9. Sound(q) BY <2>3, <2>5, <2>6, <2>8 DEF Sound
  <2>10. QED BY <1>2, <2>4, <2>5, <2>7, <2>9 DEF Improves, n
<1>3. CASE ~(p.stage = 1 /\ AtTp1(p))
  BY <1>1, <1>3, SameIsSound DEF Tp1Taken, Same
<1>4. QED BY <1>2, <1>3

LEMMA TrailedSound ==
  ASSUME NEW p, Sound(p), NEW d \in Trails
  PROVE  Improves(p, Trailed(p, d)) /\ Trailed(p, d).price = p.price
         /\ Trailed(p, d).stage = p.stage /\ Trailed(p, d).qty = p.qty
<1>1. p \in Positions BY DEF Sound
<1>2. CASE p.stage = 2 /\ Ahead(p.side, TrailStop(p, d), p.stop) > 0
  <2> DEFINE s == TrailStop(p, d)
             q == [p EXCEPT !.stop = s, !.lock = "PLAIN"]
  <2>1. s \in Int /\ Ahead(p.side, s, Breakeven(p)) >= 0
    <3>1. d \in Int BY PlanAssumption
    <3>2. Ahead(p.side, p.best, Entry) - d \in Int
      BY <1>1, <3>1, Fields, Numbers DEF Ahead
    <3>3. At(p.side, Ahead(p.side, p.best, Entry) - d) \in Int
      BY <1>1, <3>2, PriceTypes
    <3>4. QED BY <1>1, <3>3, Fields, PriceTypes, FurtherIsAhead DEF TrailStop
  <2>2. Trailed(p, d) = q BY <1>2 DEF Trailed
  <2>3. Ahead(p.side, s, p.stop) > 0 BY <1>2
  <2> HIDE DEF s
  <2>4. /\ q \in Positions /\ q.side = p.side /\ q.stage = p.stage
        /\ q.stop = s /\ q.price = p.price /\ q.qty = p.qty
    BY <1>1, <2>1 DEF Positions, Locks
  <2> HIDE DEF q
  <2>5. Breakeven(q) = Breakeven(p) BY <2>4 DEF Breakeven
  <2>6. Ahead(p.side, s, p.stop) >= 0 BY <1>1, <2>1, <2>3, Fields DEF Ahead
  <2>7. Sound(q) BY <1>2, <2>1, <2>4, <2>5 DEF Sound
  <2>8. QED BY <2>2, <2>4, <2>6, <2>7 DEF Improves
<1>3. CASE ~(p.stage = 2 /\ Ahead(p.side, TrailStop(p, d), p.stop) > 0)
  BY <1>1, <1>3, SameIsSound DEF Trailed, Same
<1>4. QED BY <1>2, <1>3

LEMMA ImprovesTwice ==
  ASSUME NEW p, NEW q, NEW r, Sound(p), Improves(p, q), Improves(q, r)
  PROVE  Improves(p, r)
<1>1. p.stop \in Int /\ q.stop \in Int /\ r.stop \in Int
  BY Fields DEF Improves, Sound
<1>2. QED BY <1>1 DEF Improves, Ahead

------------------------------------------------------------------------------
(* The steps.  Every step leaves an improved object and keeps or improves   *)
(* the row, except that a restart falls back to the row.                    *)

Forward ==
  /\ Improves(pos, pos')
  /\ saved' = saved \/ saved' = pos'

LEMMA ForwardKeeps ==
  ASSUME LadderInv, Forward, crashes' = crashes,
         verdict' \in Verdicts \cup {NoVerdict}, outcome' \in Reasons \cup {"open"},
         verdict'.action = "REDUCE" => NearlyFull(pos')
  PROVE  /\ LadderInv'
         /\ Ahead(pos.side, pos'.stop, pos.stop) >= 0
         /\ Ahead(saved.side, saved'.stop, saved.stop) >= 0
<1>1. pos.stop \in Int /\ pos'.stop \in Int /\ saved.stop \in Int
  BY Fields DEF LadderInv, Forward, Improves, Sound
<1>2. Ahead(pos.side, pos'.stop, saved.stop) >= 0
  BY <1>1 DEF LadderInv, Forward, Improves, Ahead
<1>3. Ahead(pos.side, saved'.stop, saved.stop) >= 0
  BY <1>1, <1>2 DEF Forward, Ahead
<1>4. Ahead(pos.side, pos'.stop, saved'.stop) >= 0
  BY <1>1, <1>2 DEF Forward, Ahead
<1>5. QED BY <1>2, <1>3, <1>4 DEF LadderInv, Forward, Improves

\* What an improved position p may become: saved, closed, or marked failed.
LEMMA CloseForward ==
  ASSUME LadderInv, NEW p, Improves(pos, p), NEW reason \in Reasons,
         Close(p, reason)
  PROVE  Forward /\ crashes' = crashes /\ verdict' = NoVerdict
         /\ outcome' \in Reasons \cup {outcome}
<1>1. CASE pos' = p /\ outcome' = reason /\ Returned /\ UNCHANGED saved
  BY <1>1 DEF Forward, Returned
<1>2. CASE Save([p EXCEPT !.lock = "LIVE_FAILED"])
  <2>1. Sound(p) /\ p \in Positions BY DEF Improves, Sound
  <2>2. Improves(p, [p EXCEPT !.lock = "LIVE_FAILED"])
    BY <2>1, LockSame, SameIsSound DEF Locks
  <2>3. Improves(pos, [p EXCEPT !.lock = "LIVE_FAILED"])
    BY <2>2, ImprovesTwice DEF LadderInv
  <2>4. QED BY <1>2, <2>3 DEF Save, Forward, Returned
<1>3. QED BY <1>1, <1>2 DEF Close

LEMMA SaveForward ==
  ASSUME NEW p, Improves(pos, p), Save(p)
  PROVE  Forward /\ crashes' = crashes /\ verdict' = NoVerdict /\ outcome' = outcome
BY DEF Save, Forward, Returned

LEMMA MarkedImproves ==
  ASSUME LadderInv, NEW price \in Prices, NEW noise \in 4..16
  PROVE  Improves(pos, Marked(pos, price, noise))
<1>1. Sound(pos) /\ pos \in Positions /\ price \in Int
  BY PlanAssumption DEF LadderInv, Sound
<1>2. QED BY <1>1, MarkedSame, SameIsSound

LEMMA ReviewedImproves ==
  ASSUME LadderInv, NEW v, NEW r
  PROVE  /\ Improves(pos, Reviewed(pos, v, r)) /\ Same(pos, Reviewed(pos, v, r))
         /\ Reviewed(pos, v, r).price = pos.price
<1>1. Sound(pos) /\ pos \in Positions BY DEF LadderInv, Sound
<1>2. QED BY <1>1, ReviewedSame, SameIsSound

LEMMA NoVerdictHolds == NoVerdict.action # "REDUCE"
BY DEF NoVerdict

LEMMA QuoteSteps ==
  ASSUME LadderInv, NEW price \in Prices, CloseRestored(price) \/ CloseAtStop(price)
  PROVE  Forward /\ crashes' = crashes /\ verdict' = NoVerdict
         /\ outcome' \in Reasons \cup {outcome}
<1>1. pos.noise \in 4..16 BY Fields DEF LadderInv, Sound
<1>2. Improves(pos, Marked(pos, price, pos.noise)) BY <1>1, MarkedImproves
<1>3. QED BY <1>2, CloseForward DEF CloseRestored, CloseAtStop, Reasons

LEMMA AssessForward ==
  ASSUME LadderInv, NEW price \in Prices, NEW noise \in Noises, NEW signal \in Signals,
         Assess(price, noise, signal)
  PROVE  /\ Forward /\ crashes' = crashes /\ outcome' = outcome
         /\ verdict' \in Verdicts
         /\ verdict'.action = "REDUCE" => NearlyFull(pos')
<1> DEFINE p == Marked(pos, price, noise)
<1>1. noise \in 4..16 /\ price \in Int BY PlanAssumption
<1>2. Improves(pos, p) /\ p \in Positions BY <1>1, MarkedImproves DEF Improves, Sound
<1>3. /\ pos' = Assessed(p, signal) /\ verdict' = Rule(p, signal)
      /\ UNCHANGED <<saved, outcome, crashes>>
  BY DEF Assess
<1> HIDE DEF p
<1>4. Same(p, pos') BY <1>2, <1>3, AssessedSame
<1>5. Improves(p, pos') BY <1>2, <1>4, SameIsSound DEF Improves
<1>6. Improves(pos, pos') BY <1>2, <1>5, ImprovesTwice DEF LadderInv
<1>7. verdict' \in Verdicts
  <2>1. DefenseLevel(p, signal) \in Levels BY DEF DefenseLevel, Levels
  <2>2. QED BY <1>3, <2>1 DEF Rule, Verdicts, Actions
<1>8. verdict'.action = "REDUCE" => NearlyFull(p)
  BY <1>3 DEF Rule, DefensiveReduceReady
<1>9. NearlyFull(p) => NearlyFull(pos') BY <1>4 DEF Same, NearlyFull
<1>10. QED BY <1>3, <1>6, <1>7, <1>8, <1>9 DEF Forward

\* An action is reduced to only when more than 0.55 of the quantity is left.
LEMMA ReduceIsNearlyFull ==
  ASSUME LadderInv, NEW r, Final(pos, verdict, r) = "REDUCE"
  PROVE  NearlyFull(pos)
BY DEF Final, AiReduceAllowed, LadderInv

LEMMA CutsAreHalves ==
  ASSUME NEW p \in Positions, NEW v, NEW k \in Cuts(p, v)
  PROVE  k \in 0..(p.qty \div 2)
<1>1. p.qty \in Nat \ {0} BY Fields
<1>2. p.qty \div 4 \in 0..(p.qty \div 2) BY <1>1, HalfOf
<1>3. QED BY <1>2 DEF Cuts

LEMMA JudgeReduceForward ==
  ASSUME LadderInv, NEW r, JudgeReduce(r)
  PROVE  Forward /\ crashes' = crashes /\ verdict' = NoVerdict /\ outcome' = outcome
<1> DEFINE p == Reviewed(pos, verdict, r)
<1>1. Improves(pos, p) /\ Same(pos, p) BY ReviewedImproves
<1>2. Sound(p) /\ p \in Positions BY <1>1 DEF Improves, Sound
<1>3. NearlyFull(p)
  BY <1>1, ReduceIsNearlyFull DEF JudgeReduce, Judging, NearlyFull, Same
<1>4. \/ \E k \in Cuts(p, verdict) : Save(Reduced(p, k))
      \/ Save([p EXCEPT !.lock = "LIVE_FAILED"])
  BY DEF JudgeReduce
<1> HIDE DEF p
<1>5. CASE \E k \in Cuts(p, verdict) : Save(Reduced(p, k))
  <2>1. PICK k \in Cuts(p, verdict) : Save(Reduced(p, k)) BY <1>5
  <2>2. Improves(p, Reduced(p, k)) BY <1>2, <1>3, CutsAreHalves, ReducedSound
  <2>3. Improves(pos, Reduced(p, k))
    BY <1>1, <2>2, ImprovesTwice DEF LadderInv
  <2>4. QED BY <2>1, <2>3, SaveForward
<1>6. CASE Save([p EXCEPT !.lock = "LIVE_FAILED"])
  <2>1. Improves(p, [p EXCEPT !.lock = "LIVE_FAILED"])
    BY <1>2, LockSame, SameIsSound DEF Locks
  <2>2. Improves(pos, [p EXCEPT !.lock = "LIVE_FAILED"])
    BY <1>1, <2>1, ImprovesTwice DEF LadderInv
  <2>3. QED BY <1>6, <2>2, SaveForward
<1>7. QED BY <1>4, <1>5, <1>6

\* The three stages of the ladder, each an improvement of the position.
LEMMA LadderImproves ==
  ASSUME LadderInv, NEW v, NEW r, NEW d \in Trails
  PROVE  /\ Improves(pos, SoftLocked(Reviewed(pos, v, r)))
         /\ Improves(pos, Tp1Taken(SoftLocked(Reviewed(pos, v, r))))
         /\ Improves(pos, Trailed(Tp1Taken(SoftLocked(Reviewed(pos, v, r))), d))
<1> DEFINE p == Reviewed(pos, v, r)
           locked == SoftLocked(p)
           taken == Tp1Taken(locked)
<1>1. Improves(pos, p) BY ReviewedImproves
<1>2. Improves(p, locked) BY <1>1, SoftLockedSound DEF Improves
<1>3. Improves(locked, taken) BY <1>2, Tp1TakenSound DEF Improves
<1>4. Improves(taken, Trailed(taken, d)) BY <1>3, TrailedSound DEF Improves
<1> HIDE DEF p, locked, taken
<1>5. Sound(pos) BY DEF LadderInv
<1>6. Improves(pos, locked) BY <1>1, <1>2, <1>5, ImprovesTwice
<1>7. Improves(pos, taken) BY <1>3, <1>5, <1>6, ImprovesTwice
<1>8. Improves(pos, Trailed(taken, d)) BY <1>4, <1>5, <1>7, ImprovesTwice
<1>9. QED BY <1>6, <1>7, <1>8 DEF p, locked, taken

LEMMA JudgeForward ==
  ASSUME LadderInv, NEW r, Judge(r)
  PROVE  Forward /\ crashes' = crashes /\ verdict' = NoVerdict
         /\ outcome' \in Reasons \cup {outcome}
<1>1. Improves(pos, Reviewed(pos, verdict, r)) BY ReviewedImproves
<1>2. CASE JudgeExit(r) BY <1>1, <1>2, CloseForward DEF JudgeExit, Reasons
<1>3. CASE JudgeReduce(r) BY <1>3, JudgeReduceForward
<1>4. CASE TimeStop(r) BY <1>1, <1>4, CloseForward DEF TimeStop, Reasons
<1>5. ASSUME NEW d \in Trails, JudgeHold(r, d)
      PROVE  Forward /\ crashes' = crashes /\ verdict' = NoVerdict
             /\ outcome' \in Reasons \cup {outcome}
  <2> DEFINE p == Trailed(Tp1Taken(SoftLocked(Reviewed(pos, verdict, r))), d)
  <2>1. Improves(pos, p) BY LadderImproves
  <2>2. Close(p, "TP2") \/ Close(p, "STOP") \/ Save(p) BY <1>5 DEF JudgeHold
  <2> HIDE DEF p
  <2>3. QED BY <2>1, <2>2, CloseForward, SaveForward DEF Reasons
<1>6. ASSUME NEW d \in Trails, SyncFails(r, d)
      PROVE  Forward /\ crashes' = crashes /\ verdict' = NoVerdict
             /\ outcome' \in Reasons \cup {outcome}
  <2>1. Improves(pos, pos') /\ saved' = saved BY <1>6, LadderImproves DEF SyncFails
  <2>2. verdict' = NoVerdict /\ crashes' = crashes /\ outcome' = outcome
    BY <1>6 DEF SyncFails, Returned
  <2>3. QED BY <2>1, <2>2 DEF Forward
<1>7. QED BY <1>2, <1>3, <1>4, <1>5, <1>6 DEF Judge

LEMMA RestartKeeps ==
  ASSUME LadderInv, Restart
  PROVE  LadderInv' /\ crashes' = crashes + 1 /\ saved' = saved
<1>1. Sound(saved) /\ saved \in Positions BY DEF LadderInv, Sound
<1>2. Improves(saved, [saved EXCEPT !.lock = "RESTORED_STALE"])
  BY <1>1, LockSame, SameIsSound DEF Locks
<1>3. Improves(saved, saved)
  BY <1>1, SameIsSound DEF Same
<1>4. Improves(saved, pos') /\ saved' = saved BY <1>2, <1>3 DEF Restart
<1>5. crashes' \in 0..MaxCrashes /\ crashes' = crashes + 1
  BY Numbers DEF Restart, LadderInv
<1>6. QED BY <1>1, <1>4, <1>5, NoVerdictHolds DEF LadderInv, Restart, Improves

LEMMA StutterKeeps ==
  ASSUME LadderInv, UNCHANGED vars
  PROVE  /\ LadderInv'
         /\ Ahead(pos.side, pos'.stop, pos.stop) >= 0
         /\ Ahead(pos.side, saved'.stop, saved.stop) >= 0
<1>1. pos.stop \in Int /\ saved.stop \in Int
  BY Fields DEF LadderInv, Sound
<1>2. Ahead(pos.side, pos.stop, pos.stop) >= 0
      /\ Ahead(pos.side, saved.stop, saved.stop) >= 0
  BY <1>1 DEF Ahead
<1>3. pos' = pos /\ saved' = saved /\ verdict' = verdict
      /\ outcome' = outcome /\ crashes' = crashes
  BY DEF vars
<1>4. QED BY <1>2, <1>3 DEF LadderInv, NearlyFull

LEMMA StepKeeps ==
  ASSUME LadderInv, [Next]_vars
  PROVE  /\ LadderInv'
         /\ crashes' = crashes => Ahead(pos.side, pos'.stop, pos.stop) >= 0
         /\ Ahead(pos.side, saved'.stop, saved.stop) >= 0
<1> DEFINE Kept == /\ LadderInv'
                   /\ crashes' = crashes => Ahead(pos.side, pos'.stop, pos.stop) >= 0
                   /\ Ahead(pos.side, saved'.stop, saved.stop) >= 0
<1>1. ASSUME Forward, crashes' = crashes, verdict' = NoVerdict,
             outcome' \in Reasons \cup {outcome}
      PROVE  Kept
  <2>1. outcome' \in Reasons \cup {"open"} BY <1>1 DEF LadderInv
  <2>2. saved.side = pos.side BY DEF LadderInv
  <2>3. QED BY <1>1, <2>1, <2>2, ForwardKeeps, NoVerdictHolds
<1>2. ASSUME Skip PROVE Kept
  <2>1. Improves(pos, pos) BY SameIsSound DEF LadderInv, Same, Sound
  <2>2. QED BY <1>1, <1>2, <2>1, SaveForward DEF Skip
<1>3. ASSUME Restart PROVE Kept
  <2>1. saved.stop \in Int BY Fields DEF LadderInv, Sound
  <2>2. Ahead(pos.side, saved.stop, saved.stop) >= 0 BY <2>1 DEF Ahead
  <2>3. crashes' # crashes BY <1>3 DEF Restart, LadderInv
  <2>4. QED BY <1>3, <2>2, <2>3, RestartKeeps
<1>4. ASSUME NEW price \in Prices, CloseRestored(price) \/ CloseAtStop(price)
      PROVE  Kept
  BY <1>1, <1>4, QuoteSteps
<1>5. ASSUME NEW price \in Prices, NEW noise \in Noises, NEW signal \in Signals,
             Assess(price, noise, signal)
      PROVE  Kept
  <2>1. /\ Forward /\ crashes' = crashes /\ outcome' = outcome
        /\ verdict' \in Verdicts
        /\ verdict'.action = "REDUCE" => NearlyFull(pos')
    BY <1>5, AssessForward
  <2>2. outcome' \in Reasons \cup {"open"} BY <2>1 DEF LadderInv
  <2>3. saved.side = pos.side BY DEF LadderInv
  <2>4. QED BY <2>1, <2>2, <2>3, ForwardKeeps
<1>6. ASSUME NEW r, Judge(r) PROVE Kept BY <1>1, <1>6, JudgeForward
<1>7. ASSUME Closed \/ UNCHANGED vars PROVE Kept
  BY <1>7, StutterKeeps DEF Closed
<1> HIDE DEF Kept
<1>8. ASSUME NEW price \in Prices,
             \/ CloseRestored(price) \/ CloseAtStop(price)
             \/ \E noise \in Noises, signal \in Signals :
                  Assess(price, noise, signal)
      PROVE  Kept
  BY <1>4, <1>5, <1>8
<1>9. ASSUME Next PROVE Kept
  <2>1. CASE Skip \/ Restart \/ Closed BY <1>2, <1>3, <1>7, <2>1
  <2>2. CASE \E r \in ReviewsOf(pos, verdict) : Judge(r) BY <1>6, <2>2
  <2>3. CASE \E price \in Prices :
               \/ CloseRestored(price) \/ CloseAtStop(price)
               \/ \E noise \in Noises, signal \in Signals :
                    Assess(price, noise, signal)
    BY <1>8, <2>3
  <2>4. QED BY <1>9, <2>1, <2>2, <2>3 DEF Next
<1>10. Kept BY <1>7, <1>9
<1>11. QED BY <1>10 DEF Kept

LEMMA OpenedIsSound ==
  ASSUME NEW side \in Sides
  PROVE  Sound(Opened(side)) /\ Opened(side).side = side
<1> DEFINE s == At(side, -Risk)
           p == Opened(side)
<1>1. s \in Int BY Numbers DEF At
<1>2. p \in Positions /\ p.side = side /\ p.stage = 1 /\ p.qty = Initial /\ p.stop = s
  BY <1>1, Numbers DEF Opened, Positions, Stages, Locks
<1> HIDE DEF p
<1>3. Ahead(side, Breakeven(p), s) >= 0
  BY <1>2, Numbers DEF Breakeven, At, Ahead, Sides, s
<1> HIDE DEF s
<1>4. QED BY <1>2, <1>3, Numbers DEF Sound, p

LEMMA InitIsSound ==
  ASSUME Init
  PROVE  LadderInv
<1>1. PICK side \in Sides : pos = Opened(side) BY DEF Init
<1>2. Sound(pos) BY <1>1, OpenedIsSound
<1>3. pos.stop \in Int BY <1>2, Fields DEF Sound
<1>4. Ahead(pos.side, pos.stop, pos.stop) >= 0 BY <1>3 DEF Ahead
<1>5. QED BY <1>2, <1>4, Numbers, NoVerdictHolds DEF Init, LadderInv

------------------------------------------------------------------------------
(* The theorems.                                                            *)

\* The inductive invariant: the object and its row are sound, the row never
\* holds a better stop than the object, and a pending rule reduction is about
\* a position of which more than 0.55 is left.
THEOREM Invariance == Spec => []LadderInv
<1>1. Init => LadderInv BY InitIsSound
<1>2. LadderInv /\ [Next]_vars => LadderInv' BY StepKeeps
<1>3. QED BY <1>1, <1>2, PTL DEF Spec

\* The variables keep their types, and with them the quantity stays positive:
\* no sequence of reductions sells out the position (partial_reduce, partial_tp1).
THEOREM TypeCorrectness == Spec => []TypeOK
<1>1. LadderInv => TypeOK BY DEF LadderInv, Sound, TypeOK
<1>2. QED BY <1>1, Invariance, PTL

\* After TP1 the stop stays at or beyond the net breakeven price, in memory and
\* in the table, whatever the quotes, the ATR and the reviews.
THEOREM RunnersAreLockedIn == Spec => []LockedIn
<1>1. LadderInv => LockedIn BY DEF LadderInv, Sound, LockedIn
<1>2. QED BY <1>1, Invariance, PTL

\* Rule and AI reductions together leave more than 27.5 % of the position
\* before TP1, and half of that after it.
THEOREM CoreIsKept == Spec => []CoreRemains
<1>1. LadderInv => CoreRemains BY DEF LadderInv, Sound, CoreRemains
<1>2. QED BY <1>1, Invariance, PTL

\* Soft lock, TP1 and trailing never move a stop against the position, and no
\* pass writes back a worse stop than the one in the table.
THEOREM StopsOnlyImprove == Spec => StopNeverLoosens
<1>1. LadderInv /\ [Next]_vars =>
        [/\ crashes' = crashes => Ahead(pos.side, pos'.stop, pos.stop) >= 0
         /\ Ahead(pos.side, saved'.stop, saved.stop) >= 0]_vars
  BY StepKeeps
<1>2. QED BY <1>1, Invariance, PTL DEF Spec, StopNeverLoosens

------------------------------------------------------------------------------
(* Where a pass may leave a position, and why it may close one.             *)

\* Quantities are counted in units fine enough to halve the position exactly.
Halvable == \E n \in Nat : Initial = 2 * n

\* q is p with at most its lock changed.
Keeps(p, q) ==
  /\ q.live = p.live /\ q.side = p.side /\ q.stage = p.stage /\ q.stop = p.stop
  /\ q.qty = p.qty /\ q.price = p.price /\ q.realized = p.realized /\ q.noise = p.noise

LEMMA LockKeeps ==
  ASSUME NEW p \in Positions, NEW l  PROVE Keeps(p, [p EXCEPT !.lock = l])
BY DEF Keeps, Positions

LEMMA AssessedKeeps ==
  ASSUME NEW p \in Positions, NEW signal  PROVE Keeps(p, Assessed(p, signal))
BY LockKeeps DEF Assessed, Keeps

LEMMA ReviewedKeeps ==
  ASSUME NEW p \in Positions, NEW v, NEW r  PROVE Keeps(p, Reviewed(p, v, r))
BY LockKeeps DEF Reviewed, Keeps

LEMMA MarkedKeeps ==
  ASSUME NEW p \in Positions, NEW price \in Int, NEW noise \in 4..16
  PROVE  Marked(p, price, noise).live = p.live /\ Marked(p, price, noise).noise = noise
<1> DEFINE q == [p EXCEPT !.price = price, !.noise = noise,
                          !.best = Further(p.side, price, p.best)]
           b == q.rewarded \/ 20 * q.qty * Net(q) >= 9 * Risk * Initial
<1>1. Further(p.side, price, p.best) \in Int BY Fields, PriceTypes
<1>2. q \in Positions /\ q.live = p.live /\ q.noise = noise
  BY <1>1, Fields DEF Positions
<1>3. Marked(p, price, noise) = [q EXCEPT !.rewarded = b] BY DEF Marked
<1> HIDE DEF q, b
<1> QED BY <1>2, <1>3 DEF Positions

LEMMA SoftLockedKeeps ==
  ASSUME NEW p, Sound(p)
  PROVE  /\ SoftLocked(p).live = p.live
         /\ ~AtStop(p) => ~AtStop(SoftLocked(p))
<1>1. p \in Positions BY DEF Sound
<1>2. CASE SoftLockDue(p)
  <2>1. /\ SoftLocked(p).live = p.live /\ SoftLocked(p).stop = Breakeven(p)
        /\ SoftLocked(p).price = p.price /\ SoftLocked(p).side = p.side
    BY <1>1, <1>2 DEF SoftLocked, Positions
  <2>2. Ahead(p.side, p.price, Breakeven(p)) > 0
    BY <1>1, <1>2, Fields, Numbers DEF SoftLockDue, Gain, Breakeven, At, Ahead, Sides
  <2>3. PICK q : q = SoftLocked(p)
    OBVIOUS
  <2>4. Ahead(q.side, q.price, q.stop) > 0
    BY <2>1, <2>2, <2>3
  <2>5. q.price \in Int /\ q.stop \in Int
    BY <1>1, <2>1, <2>3, Fields, PriceTypes
  <2>6. ~AtStop(q)
    BY <2>4, <2>5 DEF AtStop, Ahead
  <2> QED BY <2>1, <2>3, <2>6
<1>3. CASE ~SoftLockDue(p)
  BY <1>3 DEF SoftLocked
<1> QED BY <1>2, <1>3

LEMMA Tp1TakenKeeps ==
  ASSUME Halvable, NEW p, Sound(p), p.stage = 2 => 2 * p.qty <= Initial
  PROVE  /\ Tp1Taken(p).live = p.live
         /\ Tp1Taken(p).stage = 2 => 2 * Tp1Taken(p).qty <= Initial
         /\ Tp1Taken(p).stage = 1 => Tp1Taken(p) = p
<1>1. p \in Positions BY DEF Sound
<1>2. CASE p.stage = 1 /\ AtTp1(p)
  <2>1. /\ Tp1Taken(p).live = p.live /\ Tp1Taken(p).stage = 2
        /\ Tp1Taken(p).qty = p.qty - (p.qty \div 2)
    BY <1>1, <1>2 DEF Tp1Taken, Positions
  <2>2. 2 * (p.qty - (p.qty \div 2)) <= Initial
    <3>1. PICK n \in Nat : Initial = 2 * n
      BY DEF Halvable
    <3>2. p.qty \in Nat /\ p.qty <= 2 * n
      BY <1>1, <3>1, Fields
    <3>3. \A k \in Nat : k <= 2 * n => k - (k \div 2) <= n
      BY SMT
    <3> QED BY <3>1, <3>2, <3>3, Fields, Numbers
  <2> QED BY <2>1, <2>2
<1>3. CASE ~(p.stage = 1 /\ AtTp1(p))
  BY <1>3 DEF Tp1Taken
<1> QED BY <1>2, <1>3

LEMMA TrailedKeeps ==
  ASSUME NEW p \in Positions, NEW d
  PROVE  /\ Trailed(p, d).live = p.live /\ Trailed(p, d).stage = p.stage
         /\ Trailed(p, d).qty = p.qty
         /\ p.stage = 1 => Trailed(p, d) = p
BY DEF Trailed, Positions

\* Until the stop is hit a paper position is short of its stop, during a pass
\* too; between passes a runner is short of TP2 as well; and the row a restart
\* brings back is like the object of some pass that has ended.  A runner has at
\* most half of the quantity, so nothing reduces it.
SafeAt(p) == ~p.live => ~AtStop(p)
EndsSafe(p) == SafeAt(p) /\ (~p.live /\ p.stage = 2 => ~AtTp2(p))

SafeInv ==
  /\ LadderInv
  /\ saved.live = pos.live
  /\ \A p \in {pos, saved} : p.stage = 2 => 2 * p.qty <= Initial
  /\ outcome = "open" => SafeAt(pos) /\ EndsSafe(saved) /\ (Idle => EndsSafe(pos))
  /\ verdict.action = "EXIT" => AdverseAtLeast(pos, Max2(7, pos.noise))

Justified ==
  outcome = "open" /\ outcome' \notin {"open", "RESTORED_STALE_RECONCILE"} =>
    \/ AtStop(pos') \/ AtTp2(pos')
    \/ AdverseAtLeast(pos', Max2(7, pos'.noise))
    \/ outcome' = "MAX_HOLD_TIMEOUT" /\ Roi(pos') <= 0

LEMMA KeptIsSafe ==
  ASSUME NEW p, NEW q, Keeps(p, q)
  PROVE  /\ SafeAt(p) => SafeAt(q)
         /\ EndsSafe(p) => EndsSafe(q)
         /\ AdverseAtLeast(p, Max2(7, p.noise)) => AdverseAtLeast(q, Max2(7, q.noise))
         /\ Roi(p) = Roi(q) /\ AtStop(p) = AtStop(q) /\ AtTp2(p) = AtTp2(q)
BY DEF Keeps, SafeAt, EndsSafe, AtStop, AtTp2, Gain, Roi, Net, Breakeven, AdverseAtLeast

\* A pass ends by saving a safe position.
LEMMA SavedSafe ==
  ASSUME SafeInv, LadderInv', NEW p, Save(p), p.live = pos.live,
         p.stage = 2 => 2 * p.qty <= Initial, outcome = "open" => EndsSafe(p)
  PROVE  SafeInv' /\ Justified
BY DEF SafeInv, Save, Returned, Justified, NoVerdict, Idle, EndsSafe, SafeAt

\* A pass ends by closing p, or a live order fails.
LEMMA ClosedSafe ==
  ASSUME SafeInv, LadderInv', NEW p \in Positions, NEW reason \in Reasons, Close(p, reason),
         p.live = pos.live, p.stage = 2 => 2 * p.qty <= Initial,
         \/ reason = "RESTORED_STALE_RECONCILE" \/ AtStop(p) \/ AtTp2(p)
         \/ AdverseAtLeast(p, Max2(7, p.noise))
         \/ reason = "MAX_HOLD_TIMEOUT" /\ Roi(p) <= 0
  PROVE  SafeInv' /\ Justified
<1>1. CASE pos' = p /\ outcome' = reason /\ Returned /\ UNCHANGED saved
  BY <1>1 DEF SafeInv, Returned, Justified, NoVerdict, Reasons
<1>2. CASE p.live /\ Save([p EXCEPT !.lock = "LIVE_FAILED"])
  <2>1. PICK q : q = [p EXCEPT !.lock = "LIVE_FAILED"] OBVIOUS
  <2>2. q.live = p.live /\ q.stage = p.stage /\ q.qty = p.qty
    BY <2>1, LockKeeps DEF Keeps
  <2>3. EndsSafe(q) BY <1>2, <2>2 DEF EndsSafe, SafeAt
  <2> QED BY <1>2, <2>1, <2>2, <2>3, SavedSafe
<1> QED BY <1>1, <1>2 DEF Close

\* What the thesis test and the review ask of an exit is beyond the noise.
LEMMA MoreIsMore ==
  ASSUME NEW p \in Positions, NEW m \in Int, NEW n \in Int, m >= n, AdverseAtLeast(p, m)
  PROVE  AdverseAtLeast(p, n)
<1>1. Gain(p) \in Int /\ Risk \in Nat BY PriceTypes, Numbers
<1>2. m * Risk >= n * Risk
  <2>1. (m - n) * Risk >= 0 BY <1>1
  <2> QED BY <1>1, <2>1
<1> QED BY <1>1, <1>2 DEF AdverseAtLeast

LEMMA ThesisIsAdverse ==
  ASSUME NEW p \in Positions, NEW signal, ThesisInvalidated(p, signal)
  PROVE  AdverseAtLeast(p, Max2(7, p.noise))
<1>1. p.noise \in 4..16 BY Fields
<1>2. PICK c \in Int : c >= Max2(11, p.noise) /\ AdverseAtLeast(p, c)
  BY <1>1 DEF ThesisInvalidated, Max2
<1>3. Max2(7, p.noise) \in Int /\ Max2(11, p.noise) \in Int /\ Max2(11, p.noise) >= Max2(7, p.noise)
  BY <1>1 DEF Max2
<1> QED BY <1>2, <1>3, MoreIsMore

LEMMA ExitIsAdverse ==
  ASSUME SafeInv, NEW r, Final(pos, verdict, r) = "EXIT"
  PROVE  AdverseAtLeast(pos, Max2(7, pos.noise))
<1>1. pos \in Positions /\ pos.noise \in 4..16 BY Fields DEF SafeInv, LadderInv, Sound
<1>2. CASE verdict.action = "EXIT" BY <1>2 DEF SafeInv
<1>3. CASE AiExitAllowed(pos, r)
  <2>1. Max2(pos.noise, 7) = Max2(7, pos.noise) BY <1>1 DEF Max2
  <2> QED BY <1>3, <2>1 DEF AiExitAllowed
<1> QED BY <1>2, <1>3 DEF Final

\* An assessment leaves a position short of its stop with a justified verdict.
LEMMA AssessSafe ==
  ASSUME SafeInv, LadderInv', NEW price \in Prices, NEW noise \in Noises, NEW signal \in Signals,
         Assess(price, noise, signal)
  PROVE  SafeInv' /\ Justified
<1> DEFINE p == Marked(pos, price, noise)
<1>1. pos \in Positions /\ noise \in 4..16 /\ price \in Int
  BY PlanAssumption DEF SafeInv, LadderInv, Sound
<1>2. p \in Positions /\ p.live = pos.live /\ p.stage = pos.stage /\ p.qty = pos.qty
  BY <1>1, MarkedKeeps, MarkedSame DEF Same
<1>3. /\ outcome = "open" /\ ~AtStop(p) /\ pos' = Assessed(p, signal)
      /\ verdict' = Rule(p, signal) /\ UNCHANGED <<saved, outcome, crashes>>
  BY DEF Assess
<1> HIDE DEF p
<1>4. Keeps(p, pos') BY <1>2, <1>3, AssessedKeeps
<1>5. SafeAt(pos') BY <1>3, <1>4, KeptIsSafe DEF SafeAt
<1>6. pos'.live = pos.live /\ (pos'.stage = 2 => 2 * pos'.qty <= Initial)
  BY <1>2, <1>4 DEF Keeps, SafeInv
<1>7. verdict'.action = "EXIT" => AdverseAtLeast(pos', Max2(7, pos'.noise))
  <2>1. verdict'.action = "EXIT" => ThesisInvalidated(p, signal)
    BY <1>3 DEF Rule
  <2> QED BY <1>2, <1>4, <2>1, ThesisIsAdverse, KeptIsSafe
<1>8. verdict' # NoVerdict
  <2>1. DefenseLevel(p, signal) # "NONE" BY DEF DefenseLevel
  <2> QED BY <1>3, <2>1 DEF Rule, NoVerdict
<1> QED BY <1>3, <1>5, <1>6, <1>7, <1>8 DEF SafeInv, Justified, Idle

\* What the ladder leaves of a position that is short of its stop: before TP1
\* it still is, and a runner has at most half of the quantity.
LEMMA LadderSafe ==
  ASSUME Halvable, SafeInv, outcome = "open", NEW v, NEW r, NEW d \in Trails,
         NEW p, p = Trailed(Tp1Taken(SoftLocked(Reviewed(pos, v, r))), d)
  PROVE  /\ p \in Positions /\ p.live = pos.live
         /\ p.stage = 2 => 2 * p.qty <= Initial
         /\ p.stage = 1 => SafeAt(p)
<1> DEFINE q == Reviewed(pos, v, r)
           locked == SoftLocked(q)
           taken == Tp1Taken(locked)
<1>0. pos \in Positions /\ Sound(pos) BY DEF SafeInv, LadderInv, Sound
<1>1. Keeps(pos, q) /\ Sound(q) /\ SafeAt(q)
  BY <1>0, ReviewedKeeps, ReviewedImproves, KeptIsSafe DEF Improves, SafeInv
<1>2. /\ Sound(locked) /\ locked.live = q.live /\ (~AtStop(q) => ~AtStop(locked))
      /\ locked.stage = q.stage /\ locked.qty = q.qty
  BY <1>1, SoftLockedSound, SoftLockedKeeps DEF Improves
<1>3. locked.stage = 2 => 2 * locked.qty <= Initial
  BY <1>1, <1>2 DEF Keeps, SafeInv
<1>4. /\ Sound(taken) /\ taken \in Positions /\ taken.live = locked.live
      /\ taken.stage = 2 => 2 * taken.qty <= Initial
      /\ taken.stage = 1 => taken = locked
  BY <1>2, <1>3, Tp1TakenSound, Tp1TakenKeeps DEF Improves, Sound
<1> HIDE DEF q, locked, taken
<1>5. p = Trailed(taken, d) BY DEF q, locked, taken
<1>6. /\ p \in Positions /\ p.live = taken.live /\ p.stage = taken.stage /\ p.qty = taken.qty
      /\ p.stage = 1 => p = taken
  BY <1>4, <1>5, TrailedSound, TrailedKeeps DEF Improves, Sound
<1> QED BY <1>1, <1>2, <1>4, <1>6 DEF SafeAt, Keeps

LEMMA JudgeSafe ==
  ASSUME Halvable, SafeInv, LadderInv', NEW r, Judge(r)
  PROVE  SafeInv' /\ Justified
<1>0. pos \in Positions /\ LadderInv BY DEF SafeInv, LadderInv, Sound
<1>1. PICK q : q = Reviewed(pos, verdict, r) OBVIOUS
<1>2. /\ Keeps(pos, q) /\ q \in Positions /\ q.live = pos.live
      /\ q.stage = 2 => 2 * q.qty <= Initial
      /\ outcome = "open" => SafeAt(q)
  BY <1>0, <1>1, ReviewedKeeps, ReviewedSame, KeptIsSafe DEF Same, Keeps, SafeInv
<1>3. CASE JudgeExit(r)
  <2>1. AdverseAtLeast(q, Max2(7, q.noise))
    BY <1>2, <1>3, ExitIsAdverse, KeptIsSafe DEF JudgeExit, Judging
  <2> QED BY <1>1, <1>2, <1>3, <2>1, ClosedSafe DEF JudgeExit, Reasons
<1>4. CASE TimeStop(r)
  <2>1. Roi(q) <= 0 BY <1>2, <1>4, KeptIsSafe DEF TimeStop
  <2> QED BY <1>1, <1>2, <1>4, <2>1, ClosedSafe DEF TimeStop, Reasons
<1>5. CASE JudgeReduce(r)
  <2>1. NearlyFull(pos) /\ outcome = "open"
    BY <1>0, <1>5, ReduceIsNearlyFull DEF JudgeReduce, Judging
  <2>2. q.stage = 1
    <3>1. pos.qty \in Nat /\ pos.stage \in Stages /\ Initial \in Nat \ {0} BY <1>0, Fields, Numbers
    <3>2. pos.stage # 2 BY <2>1, <3>1 DEF NearlyFull, SafeInv
    <3> QED BY <1>2, <3>1, <3>2 DEF Keeps, Stages
  <2>3. CASE q.live /\ Save([q EXCEPT !.lock = "LIVE_FAILED"])
    <3>1. PICK f : f = [q EXCEPT !.lock = "LIVE_FAILED"] OBVIOUS
    <3>2. f.live = q.live /\ f.stage = q.stage BY <1>2, <3>1, LockKeeps DEF Keeps
    <3>3. EndsSafe(f) BY <2>3, <3>2 DEF EndsSafe, SafeAt
    <3>4. Save(f) BY <2>3, <3>1
    <3>5. f.live = pos.live /\ f.stage # 2 BY <1>2, <2>2, <3>2
    <3> QED BY <3>3, <3>4, <3>5, SavedSafe
  <2>4. ASSUME NEW k \in Cuts(q, verdict), Save(Reduced(q, k)) PROVE SafeInv' /\ Justified
    <3>1. PICK f : f = Reduced(q, k) OBVIOUS
    <3>2. /\ f.live = q.live /\ f.stage = q.stage /\ f.stop = q.stop
          /\ f.price = q.price /\ f.side = q.side
      BY <1>2, <3>1 DEF Reduced, Positions
    <3>3. EndsSafe(f) BY <1>2, <2>1, <2>2, <3>2 DEF EndsSafe, SafeAt, AtStop
    <3> QED BY <1>2, <2>2, <2>4, <3>1, <3>2, <3>3, SavedSafe
  <2> QED BY <1>1, <1>5, <2>3, <2>4 DEF JudgeReduce
<1>6. ASSUME NEW d \in Trails, JudgeHold(r, d) PROVE SafeInv' /\ Justified
  <2>0. outcome = "open" BY <1>6 DEF JudgeHold, Judging
  <2>1. PICK p : p = Trailed(Tp1Taken(SoftLocked(Reviewed(pos, verdict, r))), d) OBVIOUS
  <2>2. /\ p \in Positions /\ p.live = pos.live /\ p.stage \in Stages
        /\ p.stage = 2 => 2 * p.qty <= Initial
        /\ p.stage = 1 => SafeAt(p)
    BY <2>0, <2>1, LadderSafe, Fields
  <2>3. \/ AtTp2(p) /\ Close(p, "TP2")
        \/ AtStop(p) /\ Close(p, "STOP")
        \/ ~(p.stage = 2 /\ (AtTp2(p) \/ AtStop(p))) /\ Save(p)
    BY <1>6, <2>1 DEF JudgeHold
  <2>4. CASE AtTp2(p) /\ Close(p, "TP2") BY <2>2, <2>4, ClosedSafe DEF Reasons
  <2>5. CASE AtStop(p) /\ Close(p, "STOP") BY <2>2, <2>5, ClosedSafe DEF Reasons
  <2>6. CASE ~(p.stage = 2 /\ (AtTp2(p) \/ AtStop(p))) /\ Save(p)
    <3>1. EndsSafe(p) BY <2>2, <2>6 DEF EndsSafe, SafeAt, Stages
    <3> QED BY <2>2, <2>6, <3>1, SavedSafe
  <2> QED BY <2>3, <2>4, <2>5, <2>6
<1>7. ASSUME NEW d \in Trails, SyncFails(r, d) PROVE SafeInv' /\ Justified
  <2>1. PICK p, t, s : /\ p = SoftLocked(q) /\ t = Tp1Taken(p) /\ s = Trailed(t, d)
                       /\ pos' \in {p, t, s}
    BY <1>1, <1>7 DEF SyncFails
  <2>2. /\ Sound(p) /\ p.live = q.live /\ (p.stage = 2 => 2 * p.qty <= Initial)
    <3>1. Sound(q) BY <1>0, <1>1, ReviewedImproves DEF Improves
    <3> QED BY <1>2, <2>1, <3>1, SoftLockedSound, SoftLockedKeeps DEF Improves
  <2>3. /\ Sound(t) /\ t.live = p.live /\ (t.stage = 2 => 2 * t.qty <= Initial)
    BY <2>1, <2>2, Tp1TakenSound, Tp1TakenKeeps DEF Improves
  <2>4. s.live = t.live /\ (s.stage = 2 => 2 * s.qty <= Initial)
    BY <2>1, <2>3, TrailedKeeps DEF Sound
  <2>5. pos'.live = pos.live /\ (pos'.stage = 2 => 2 * pos'.qty <= Initial)
    BY <1>2, <2>1, <2>2, <2>3, <2>4
  <2>6. pos.live /\ UNCHANGED <<saved, outcome>> /\ verdict' = NoVerdict
    BY <1>7 DEF SyncFails, Returned
  <2> QED BY <2>5, <2>6 DEF SafeInv, Justified, NoVerdict, SafeAt, EndsSafe
<1> QED BY <1>3, <1>4, <1>5, <1>6, <1>7 DEF Judge

LEMMA NextSafe ==
  ASSUME Halvable, SafeInv, [Next]_vars
  PROVE  SafeInv' /\ [Justified]_vars
<1>0. LadderInv' /\ pos \in Positions /\ pos.noise \in 4..16
  BY StepKeeps, Fields DEF SafeInv, LadderInv, Sound
<1>1. CASE Skip
  BY <1>0, <1>1, SavedSafe DEF Skip, SafeInv
<1>2. CASE Restart
  <2>1. saved \in Positions BY DEF SafeInv, LadderInv, Sound
  <2>2. Keeps(saved, pos')
    <3>1. CASE pos' = saved BY <3>1 DEF Keeps
    <3>2. CASE pos' = [saved EXCEPT !.lock = "RESTORED_STALE"] BY <2>1, <3>2, LockKeeps
    <3> QED BY <1>2, <3>1, <3>2 DEF Restart
  <2>3. outcome = "open" => EndsSafe(pos') /\ SafeAt(pos')
    BY <2>2, KeptIsSafe DEF SafeInv, EndsSafe
  <2> QED BY <1>0, <1>2, <2>2, <2>3 DEF Restart, SafeInv, Justified, Keeps, NoVerdict
<1>3. ASSUME NEW price \in Prices, CloseRestored(price) \/ CloseAtStop(price)
      PROVE  SafeInv' /\ Justified
  <2>1. PICK p : p = Marked(pos, price, pos.noise) OBVIOUS
  <2>2. price \in Int BY PlanAssumption
  <2>3. /\ p \in Positions /\ p.live = pos.live /\ p.stage = pos.stage /\ p.qty = pos.qty
    BY <1>0, <2>1, <2>2, MarkedKeeps, MarkedSame DEF Same
  <2>4. \/ Close(p, "RESTORED_STALE_RECONCILE")
        \/ AtStop(p) /\ Close(p, "STOP")
    BY <1>3, <2>1 DEF CloseRestored, CloseAtStop
  <2> QED BY <1>0, <2>3, <2>4, ClosedSafe DEF SafeInv, Reasons
<1>4. ASSUME NEW price \in Prices, NEW noise \in Noises, NEW signal \in Signals,
             Assess(price, noise, signal)
      PROVE  SafeInv' /\ Justified
  BY <1>0, <1>4, AssessSafe
<1>5. ASSUME NEW r, Judge(r) PROVE SafeInv' /\ Justified
  BY <1>0, <1>5, JudgeSafe
<1>6. CASE UNCHANGED vars
  BY <1>0, <1>6 DEF vars, SafeInv, Idle, SafeAt, EndsSafe, AtStop, AtTp2, Gain, AdverseAtLeast
<1>7. ASSUME NEW price \in Prices,
             \/ CloseRestored(price) \/ CloseAtStop(price)
             \/ \E noise \in Noises, signal \in Signals : Assess(price, noise, signal)
      PROVE  SafeInv' /\ Justified
  BY <1>3, <1>4, <1>7
<1>8. CASE Closed
  BY <1>6, <1>8 DEF Closed
<1>9. CASE \E r \in ReviewsOf(pos, verdict) : Judge(r)
  BY <1>5, <1>9
<1>10. CASE \E price \in Prices :
              \/ CloseRestored(price) \/ CloseAtStop(price)
              \/ \E noise \in Noises, signal \in Signals : Assess(price, noise, signal)
  BY <1>7, <1>10
<1> QED BY <1>1, <1>2, <1>6, <1>8, <1>9, <1>10 DEF Next

LEMMA InitSafe == ASSUME Init PROVE SafeInv
<1>1. PICK side \in Sides : pos = Opened(side) BY DEF Init
<1>2. LadderInv /\ pos \in Positions BY InitIsSound DEF LadderInv, Sound
<1>3. pos.stage = 1 /\ pos.price = Entry /\ pos.side = side /\ pos.stop = At(side, -Risk)
  BY <1>1 DEF Opened
<1>4. Risk \in Nat /\ Risk > 0 BY Numbers
<1>5. ~AtStop(pos) BY <1>3, <1>4, Numbers DEF AtStop, Ahead, At, Sides
<1> QED BY <1>2, <1>3, <1>5 DEF Init, SafeInv, SafeAt, EndsSafe, NoVerdict

\* No pass leaves a paper position open at its stop, also not at the stop it has
\* just moved, and no runner at TP2: a reduction, which is not followed by these
\* tests, never meets a runner (PositionManager.manage, last tests of a pass).
THEOREM PassesEndSafe == ASSUME Halvable PROVE Spec => []PassEndsSafe
<1>1. Init => SafeInv BY InitSafe
<1>2. SafeInv /\ [Next]_vars => SafeInv' BY NextSafe
<1>3. SafeInv => PassEndsSafe BY DEF SafeInv, PassEndsSafe, EndsSafe, SafeAt
<1> QED BY <1>1, <1>2, <1>3, PTL DEF Spec

\* No position is closed inside its noise budget while it shows a profit,
\* whatever rule, review, target or clock closes it.
THEOREM ExitsAreJustified == ASSUME Halvable PROVE Spec => CoreExitJustified
<1>1. Init => SafeInv BY InitSafe
<1>2. SafeInv /\ [Next]_vars => SafeInv' /\ [Justified]_vars BY NextSafe
<1> QED BY <1>1, <1>2, PTL DEF Spec, CoreExitJustified, Justified
=============================================================================
